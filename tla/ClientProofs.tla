----------------------------- MODULE ClientProofs -----------------------------
(***************************************************************************)
(* Proofs about Client: its types, who waits for which answer, that a user *)
(* closed through the client is never declared again, that a restart that  *)
(* runs alone brings back everyone in the client's maps, and that the      *)
(* first close leaves no connection open.                                  *)
(***************************************************************************)
EXTENDS Client, SequenceTheorems, FiniteSetTheorems, TLAPS

-----------------------------------------------------------------------------
(* Types.                                                                  *)

CallOps == Ops \cup {"automaticClose"}
Awaits ==
  {"begins", "waiting", "connecting", "declaring", "refusing", "metadata", "unsubscribing",
   "deleting", "releasing", "publishers", "consumers", "locator", "done", "failed", "hung"}
Wakes == {"no", "ok", "refused", "error"}
Call ==
  [op : CallOps, user : Nat, at : Awaits, wake : Wakes, conn : Conns, seen : SUBSET Conns,
   todo : SUBSET Users, upset : BOOLEAN, beside : SUBSET (CallOps \cup {"update"})]
Requests == {"metadata", "unsubscribe", "delete", "declare", "close", "end"}
Entry == [req : Requests, by : Nat]

TypeOK ==
  /\ home \in [Users -> Nat \ {Locator}]
  /\ sock \in [Conns -> {"open", "opening", "half", "down"}] /\ ready \in [Conns -> BOOLEAN]
  /\ queue \in [Conns -> Seq(Entry)] /\ known \in [Conns -> SUBSET Users]
  /\ refs \in [Conns -> Int]
  /\ registered \subseteq Users /\ closed \subseteq Users /\ listening \subseteq Users
  /\ exists \in [Conns -> BOOLEAN] /\ calls \in Seq(Call)

(* What becomes of a call that another one's step does not concern: its    *)
(* histories grow, and it may hang.                                        *)
Passive(a, b) ==
  /\ b \in Call
  /\ b.op = a.op /\ b.user = a.user /\ b.conn = a.conn /\ b.wake = a.wake
  /\ b.todo \subseteq a.todo /\ a.beside \subseteq b.beside
  /\ b.at = a.at \/ b.at = "hung"

Others(k) ==
  /\ calls' \in Seq(Call) /\ Len(calls') = Len(calls)
  /\ \A j \in DOMAIN calls : j # k => Passive(calls[j], calls'[j])

LEMMA CallFacts ==
  ASSUME TypeOK, NEW k \in DOMAIN calls
  PROVE  calls[k] \in Call /\ k \in Nat /\ k \in 1 .. Len(calls) /\ Passive(calls[k], calls[k])
<1>1. calls \in Seq(Call) /\ DOMAIN calls = 1 .. Len(calls) /\ Len(calls) \in Nat
  BY LenProperties DEF TypeOK
<1>2. calls[k] \in Call /\ k \in Nat /\ k \in 1 .. Len(calls)
  BY <1>1
<1> QED
  BY <1>2 DEF Passive

(* A list of the calls, each replaced, is a list of calls.                 *)
LEMMA EachIsSeq ==
  ASSUME NEW S, NEW n \in Nat, NEW f \in [1 .. n -> S]
  PROVE  f \in Seq(S) /\ Len(f) = n /\ DOMAIN f = 1 .. n
BY SeqDef, LenProperties

LEMMA CallsAreSeq ==
  ASSUME TypeOK, NEW f, DOMAIN f = DOMAIN calls, f = [j \in DOMAIN calls |-> f[j]], \A j \in DOMAIN calls : f[j] \in Call
  PROVE  f \in Seq(Call) /\ Len(f) = Len(calls)
<1>1. DOMAIN calls = 1 .. Len(calls) /\ Len(calls) \in Nat
  BY LenProperties DEF TypeOK
<1>2. f \in [1 .. Len(calls) -> Call]
  BY <1>1
<1> QED
  BY <1>1, <1>2, EachIsSeq

(* Only call k changes, to r.                                              *)
LEMMA OneChanges ==
  ASSUME TypeOK, NEW k \in DOMAIN calls, NEW r \in Call, calls' = [calls EXCEPT ![k] = r]
  PROVE  Others(k) /\ calls'[k] = r /\ \A j \in DOMAIN calls : j # k => calls'[j] = calls[j]
<1>1. /\ DOMAIN calls' = DOMAIN calls /\ calls' = [j \in DOMAIN calls |-> calls'[j]]
      /\ calls'[k] = r /\ \A j \in DOMAIN calls : j # k => calls'[j] = calls[j]
  BY DEF TypeOK
<1>2. \A j \in DOMAIN calls : calls[j] \in Call /\ Passive(calls[j], calls[j])
  BY CallFacts
<1>3. \A j \in DOMAIN calls : calls'[j] \in Call
  BY <1>1, <1>2
<1>4. calls' \in Seq(Call) /\ Len(calls') = Len(calls)
  BY <1>1, <1>3, CallsAreSeq
<1> QED
  BY <1>1, <1>2, <1>4 DEF Others

LEMMA ConnFacts ==
  ASSUME TypeOK
  PROVE  Locator \in Conns /\ \A u \in Users : home[u] \in Conns /\ home[u] # Locator /\ u \in Nat
BY ClientAssumption DEF Conns, TypeOK

LEMMA HomeStays ==
  ASSUME home' = home
  PROVE  Conns' = Conns /\ Call' = Call
<1>1. Conns' = Conns
  BY DEF Conns
<1> QED
  BY <1>1 DEF Call

(* After a request its caller waits, hangs, or goes on: at once when there *)
(* was nothing to ask, or with an error.                                   *)
LEMMA RequestFacts ==
  ASSUME TypeOK, NEW k \in DOMAIN calls, NEW call \in Call, NEW req \in Requests,
         NEW n \in [Conns -> Nat], Request(k, call, req, n)
  PROVE  /\ Others(k) /\ calls'[k] \in Call
         /\ calls'[k].op = call.op /\ calls'[k].user = call.user /\ calls'[k].conn = call.conn
         /\ calls'[k].todo = call.todo /\ calls'[k].beside = call.beside
         /\ calls'[k].at = call.at \/ calls'[k].at = "hung"
         /\ calls'[k].wake \in {"no", "ok", "error"}
         /\ calls'[k].wake = "ok" => req = "close" \/ \A c \in Conns : n[c] = 0
         /\ sock' \in [Conns -> {"open", "opening", "half", "down"}]
<1> DEFINE asked == {c \in Conns : n[c] > 0}
           early == {c \in asked : sock[c] = "opening"}
           sent == {c \in asked : sock[c] = "open"}
           at == IF early # {} THEN "hung" ELSE call.at
           wake == IF early \cup sent # {} THEN "no"
                   ELSE IF asked = {} \/ req = "close" THEN "ok" ELSE "error"
           r == [call EXCEPT !.at = at, !.wake = wake]
           f == [j \in DOMAIN calls |->
                  IF j = k THEN r
                  ELSE IF calls[j].at = "connecting" /\ calls[j].conn \in early
                       THEN [calls[j] EXCEPT !.at = "hung"] ELSE calls[j]]
<1>1. calls' = f /\ sock' = [c \in Conns |-> IF c \in early THEN "half" ELSE sock[c]]
  BY DEF Request
<1>2. at \in Awaits /\ wake \in {"no", "ok", "error"} /\ (at = call.at \/ at = "hung")
  BY DEF Call, Awaits
<1>3. wake = "ok" => req = "close" \/ \A c \in Conns : n[c] = 0
  <2>1. asked = {} => \A c \in Conns : n[c] = 0
    OBVIOUS
  <2> QED
    BY <2>1
<1> HIDE DEF at, wake
<1>4. /\ r \in Call /\ r.at = at /\ r.wake = wake /\ r.op = call.op /\ r.user = call.user
      /\ r.conn = call.conn /\ r.todo = call.todo /\ r.beside = call.beside
  BY <1>2 DEF Call, Wakes
<1> HIDE DEF r, early
<1>5. /\ DOMAIN f = DOMAIN calls /\ f = [j \in DOMAIN calls |-> f[j]] /\ f[k] = r
      /\ \A j \in DOMAIN calls : j # k => f[j] = calls[j] \/ f[j] = [calls[j] EXCEPT !.at = "hung"]
  OBVIOUS
<1>6. \A j \in DOMAIN calls : /\ Passive(calls[j], calls[j])
                              /\ Passive(calls[j], [calls[j] EXCEPT !.at = "hung"])
  BY CallFacts, ZenonT(30) DEF Passive, Call, Awaits
<1> HIDE DEF f
<1>7. \A j \in DOMAIN calls : j # k => Passive(calls[j], f[j])
  BY <1>5, <1>6
<1>8. \A j \in DOMAIN calls : f[j] \in Call
  BY <1>4, <1>5, <1>7 DEF Passive
<1>9. f \in Seq(Call) /\ Len(f) = Len(calls)
  BY <1>5, <1>8, CallsAreSeq
<1>10. Others(k) /\ calls'[k] = r
  BY <1>1, <1>5, <1>7, <1>9 DEF Others
<1>11. sock' \in [Conns -> {"open", "opening", "half", "down"}]
  BY <1>1 DEF TypeOK
<1> QED
  BY <1>2, <1>3, <1>4, <1>10, <1>11

(* The requests it has put behind the others.                              *)
LEMMA RequestQueues ==
  ASSUME TypeOK, NEW k \in DOMAIN calls, NEW call \in Call, NEW req \in Requests,
         NEW n \in [Conns -> Nat], Request(k, call, req, n)
  PROVE  /\ queue' \in [Conns -> Seq(Entry)]
         /\ \A c \in Conns :
              /\ \A i \in DOMAIN queue[c] : i \in DOMAIN queue'[c] /\ queue'[c][i] = queue[c][i]
              /\ \A i \in DOMAIN queue'[c] :
                   \/ i \in DOMAIN queue[c] /\ queue'[c][i] = queue[c][i]
                   \/ /\ n[c] > 0 /\ queue'[c][i] = [req |-> req, by |-> k]
                      /\ calls'[k].wake = "no"
                      /\ calls'[k].at = call.at \/ (\E d \in Conns : d # c /\ n[d] > 0)
                      /\ n[c] = 1 => i = Len(queue[c]) + 1
<1> DEFINE e == [req |-> req, by |-> k]
           early == {c \in Conns : n[c] > 0 /\ sock[c] = "opening"}
           sent == {c \in Conns : n[c] > 0 /\ sock[c] = "open"}
<1>1. e \in Entry
  BY CallFacts DEF Entry
<1>2. queue' = [c \in Conns |-> IF c \in sent THEN queue[c] \o [i \in 1 .. n[c] |-> e] ELSE queue[c]]
  BY DEF Request
<1>3. /\ early # {} \/ sent # {} => calls'[k].wake = "no"
      /\ early = {} => calls'[k].at = call.at
  <2>1. calls'[k] = [call EXCEPT
           !.at = IF early # {} THEN "hung" ELSE @,
           !.wake = IF early \cup sent # {} THEN "no"
                    ELSE IF {c \in Conns : n[c] > 0} = {} \/ req = "close" THEN "ok" ELSE "error"]
    BY DEF Request
  <2> HIDE DEF early, sent
  <2> QED
    BY <2>1 DEF Call
<1> HIDE DEF e
<1>4. ASSUME NEW c \in Conns
      PROVE  /\ queue'[c] \in Seq(Entry)
             /\ \A i \in DOMAIN queue[c] : i \in DOMAIN queue'[c] /\ queue'[c][i] = queue[c][i]
             /\ \A i \in DOMAIN queue'[c] :
                   \/ i \in DOMAIN queue[c] /\ queue'[c][i] = queue[c][i]
                   \/ /\ c \in sent /\ queue'[c][i] = e
                      /\ n[c] = 1 => i = Len(queue[c]) + 1
  <2>1. queue[c] \in Seq(Entry) /\ n[c] \in Nat
    BY DEF TypeOK
  <2>2. CASE c \notin sent
    BY <1>2, <2>1, <2>2
  <2>3. CASE c \in sent
    <3> DEFINE new == [i \in 1 .. n[c] |-> e]
               q == queue[c] \o new
    <3>1. new \in Seq(Entry) /\ Len(new) = n[c]
      <4>1. new \in [1 .. n[c] -> Entry]
        BY <1>1
      <4> HIDE DEF new
      <4> QED
        BY <2>1, <4>1, EachIsSeq
    <3>2. \A i \in 1 .. n[c] : new[i] = e
      OBVIOUS
    <3>3. queue'[c] = q
      BY <1>2, <2>3
    <3> HIDE DEF new, q
    <3>4. /\ q \in Seq(Entry) /\ Len(q) = Len(queue[c]) + n[c] /\ Len(queue[c]) \in Nat
          /\ \A i \in 1 .. Len(queue[c]) + n[c] :
               q[i] = IF i <= Len(queue[c]) THEN queue[c][i] ELSE new[i - Len(queue[c])]
      <4>1. queue[c] \in Seq(Entry) /\ new \in Seq(Entry)
        BY <2>1, <3>1
      <4> DEFINE b == queue[c]
      <4> HIDE DEF b
      <4>2. /\ b \o new \in Seq(Entry) /\ Len(b \o new) = Len(b) + Len(new) /\ Len(b) \in Nat
            /\ \A i \in 1 .. Len(b) + Len(new) :
                 (b \o new)[i] = IF i <= Len(b) THEN b[i] ELSE new[i - Len(b)]
        <5>1. b \in Seq(Entry) /\ new \in Seq(Entry)
          BY <4>1 DEF b
        <5> QED
          BY <5>1, ConcatProperties, LenProperties
      <4> QED
        BY <3>1, <4>2 DEF q, b
    <3>5. DOMAIN q = 1 .. Len(queue[c]) + n[c] /\ DOMAIN queue[c] = 1 .. Len(queue[c])
      BY <2>1, <3>4, LenProperties
    <3> DEFINE l == Len(queue[c])
               m == n[c]
    <3> HIDE DEF l, m
    <3>6. \A i \in 1 .. l : i \in 1 .. l + m /\ i <= l
      BY <2>1, <3>4 DEF l, m
    <3>7. \A i \in 1 .. l + m : i \in 1 .. l \/ (i - l \in 1 .. m /\ ~(i <= l) /\ (m = 1 => i = l + 1))
      BY <2>1, <3>4 DEF l, m
    <3>8. /\ \A i \in 1 .. l : i \in DOMAIN q /\ q[i] = queue[c][i]
          /\ \A i \in DOMAIN q : \/ i \in 1 .. l /\ q[i] = queue[c][i]
                                 \/ q[i] = e /\ (m = 1 => i = l + 1)
      BY <3>2, <3>4, <3>5, <3>6, <3>7 DEF l, m
    <3> QED
      BY <2>3, <3>3, <3>4, <3>5, <3>8 DEF l, m
  <2> QED
    BY <2>2, <2>3
<1>5. queue' \in [Conns -> Seq(Entry)]
  BY <1>2, <1>4
<1>6. ASSUME NEW c \in sent
      PROVE  /\ n[c] > 0 /\ calls'[k].wake = "no"
             /\ calls'[k].at = call.at \/ (\E d \in Conns : d # c /\ n[d] > 0)
  <2>1. sock[c] # "opening"
    BY <1>6
  <2> QED
    BY <1>3, <1>6, <2>1
<1> HIDE DEF sent
<1> QED
  BY <1>4, <1>5, <1>6 DEF e

-----------------------------------------------------------------------------
(* Who waits for which answer.                                             *)

(* Where a call is that has asked for req on connection c.                 *)
Suits(req, c, call) ==
  /\ req = "metadata" => call.at = "metadata"
  /\ req = "unsubscribe" => call.at = "unsubscribing"
  /\ req = "delete" => call.at = "deleting"
  /\ req = "declare" => /\ call.at = "declaring" /\ call.op = "restart"
                        /\ call.user \in Users /\ c = home[call.user]
  /\ req = "close" => call.at \in {"releasing", "publishers", "consumers"}
  /\ req = "end" => call.at \in {"locator", "refusing"}

(* A call that hangs may have left requests behind that end connections.   *)
Fits(f, c, call) ==
  \/ call.at = "hung" /\ f.req = "close"
  \/ call.at # "hung" /\ call.wake = "no" /\ Suits(f.req, c, call)

LEMMA NextFits ==
  ASSUME home' = home, NEW c, NEW i, Fits(queue'[c][i], c, calls'[queue'[c][i].by])
  PROVE  Fits(queue[c][i], c, calls[queue[c][i].by])'
<1> DEFINE f == queue'[c][i]
           call == calls'[f.by]
<1>1. Fits(f, c, call)
  OBVIOUS
<1>2. Suits(f.req, c, call) => Suits(queue[c][i].req, c, calls[queue[c][i].by])'
  BY DEF Suits
<1> QED
  BY <1>1, <1>2 DEF Fits

(* Each request waits for the call that sent it, and that for no other     *)
(* answer, unless it has asked for the end of several connections.         *)
QueueInv ==
  \A c \in Conns : \A i \in DOMAIN queue[c] :
    /\ queue[c][i].by \in DOMAIN calls /\ Fits(queue[c][i], c, calls[queue[c][i].by])
    /\ queue[c][i].req # "close" =>
         \A d \in Conns : \A j \in DOMAIN queue[d] :
           queue[d][j].by = queue[c][i].by => d = c /\ j = i

Silent(k) == \A c \in Conns : \A i \in DOMAIN queue[c] : queue[c][i].by # k

LEMMA WokenIsSilent ==
  ASSUME QueueInv, NEW k, calls[k].wake # "no", calls[k].at # "hung"
  PROVE  Silent(k)
BY DEF QueueInv, Fits, Silent

LEMMA IdleIsSilent ==
  ASSUME TypeOK, QueueInv, NEW k, calls[k].at \in {"begins", "waiting", "connecting", "done", "failed"}
  PROVE  Silent(k)
<1> SUFFICES ASSUME NEW c \in Conns, NEW i \in DOMAIN queue[c], queue[c][i].by = k PROVE FALSE
  BY DEF Silent
<1> DEFINE f == queue[c][i]
<1>1. f \in Entry
  <2>1. queue[c] \in Seq(Entry)
    BY DEF TypeOK
  <2> QED
    BY <2>1
<1>2. Fits(f, c, calls[k])
  BY DEF QueueInv
<1> HIDE DEF f
<1> QED
  BY <1>1, <1>2 DEF Fits, Suits, Entry, Requests

SameAwait(a, b) == b.at = a.at /\ b.wake = a.wake /\ b.op = a.op /\ b.user = a.user

(* Requests are taken from the front of their queues, or all at once, and  *)
(* what is left waits for who has not moved.                               *)
LEMMA QueueShrinks ==
  ASSUME TypeOK, QueueInv, home' = home, NEW t \in [Conns -> Nat],
         \A c \in Conns : \A i \in DOMAIN queue'[c] :
           /\ i \in Nat /\ i + t[c] \in DOMAIN queue[c] /\ queue'[c][i] = queue[c][i + t[c]]
           /\ queue'[c][i].by \in DOMAIN calls'
           /\ \/ SameAwait(calls[queue'[c][i].by], calls'[queue'[c][i].by])
              \/ calls'[queue'[c][i].by].at = "hung" /\ queue'[c][i].req = "close"
  PROVE  QueueInv'
<1>1. Conns' = Conns
  BY HomeStays
<1>2. ASSUME NEW c \in Conns, NEW i \in DOMAIN queue'[c]
      PROVE  /\ queue'[c][i].by \in DOMAIN calls'
             /\ Fits(queue'[c][i], c, calls'[queue'[c][i].by])
             /\ queue'[c][i].req # "close" =>
                  \A d \in Conns : \A j \in DOMAIN queue'[d] :
                    queue'[d][j].by = queue'[c][i].by => d = c /\ j = i
  <2> DEFINE f == queue'[c][i]
             m == i + t[c]
  <2>1. m \in DOMAIN queue[c] /\ f = queue[c][m] /\ f.by \in DOMAIN calls'
        /\ (SameAwait(calls[f.by], calls'[f.by]) \/ (calls'[f.by].at = "hung" /\ f.req = "close"))
    OBVIOUS
  <2> HIDE DEF f, m
  <2>2. Fits(f, c, calls[f.by])
    BY <2>1 DEF QueueInv
  <2>3. Fits(f, c, calls'[f.by])
    BY <2>1, <2>2, ZenonT(30) DEF Fits, Suits, SameAwait
  <2>4. ASSUME f.req # "close", NEW d \in Conns, NEW j \in DOMAIN queue'[d], queue'[d][j].by = f.by
        PROVE  d = c /\ j = i
    <3> DEFINE n == j + t[d]
    <3>1. n \in DOMAIN queue[d] /\ queue'[d][j] = queue[d][n]
      OBVIOUS
    <3> HIDE DEF n
    <3>2. d = c /\ n = m
      BY <2>1, <2>4, <3>1 DEF QueueInv
    <3>3. i \in Nat /\ j \in Nat /\ t[c] \in Nat
      OBVIOUS
    <3>4. j + t[c] = i + t[c]
      BY <3>2 DEF n, m
    <3> DEFINE x == t[c]
    <3> HIDE DEF x
    <3>5. j + x = i + x /\ x \in Nat
      BY <3>3, <3>4 DEF x
    <3>6. j = i
      BY <3>3, <3>5
    <3> QED
      BY <3>2, <3>6
  <2> QED
    BY <2>1, <2>3, <2>4 DEF f
<1>3. \A c \in Conns : \A i \in DOMAIN queue'[c] : Fits(queue[c][i], c, calls[queue[c][i].by])'
  BY <1>2, NextFits
<1> QED
  BY <1>1, <1>2, <1>3, ZenonT(30) DEF QueueInv

LEMMA QueueStays ==
  ASSUME TypeOK, QueueInv, home' = home, queue' = queue, DOMAIN calls \subseteq DOMAIN calls',
         \A j \in DOMAIN calls : Silent(j) \/ SameAwait(calls[j], calls'[j])
  PROVE  QueueInv'
<1> DEFINE t == [c \in Conns |-> 0]
<1>1. t \in [Conns -> Nat] /\ \A c \in Conns : t[c] = 0
  OBVIOUS
<1> HIDE DEF t
<1>2. ASSUME NEW c \in Conns, NEW i \in DOMAIN queue'[c]
      PROVE  /\ i \in Nat /\ i + t[c] \in DOMAIN queue[c] /\ queue'[c][i] = queue[c][i + t[c]]
             /\ queue'[c][i].by \in DOMAIN calls'
             /\ SameAwait(calls[queue'[c][i].by], calls'[queue'[c][i].by])
  <2>1. queue[c] \in Seq(Entry) /\ i \in DOMAIN queue[c]
    BY <1>2 DEF TypeOK
  <2>2. i \in Nat
    BY <2>1, LenProperties
  <2>3. i + t[c] = i
    <3>1. t[c] = 0
      BY <1>1
    <3> QED
      BY <2>2, <3>1
  <2>4. queue[c][i].by \in DOMAIN calls /\ ~Silent(queue[c][i].by)
    BY <2>1 DEF QueueInv, Silent
  <2> QED
    BY <2>1, <2>2, <2>3, <2>4
<1> QED
  BY <1>1, <1>2, QueueShrinks

(* The new requests stand behind the others, and wait for call k.          *)
LEMMA QueueGrows ==
  ASSUME TypeOK, QueueInv, home' = home, NEW k \in DOMAIN calls, Silent(k),
         NEW call \in Call, NEW req \in Requests, NEW n \in [Conns -> Nat],
         Request(k, call, req, n),
         req = "close" \/ \E d \in Conns : n = Only(d),
         call.at # "hung", \A c \in Conns : n[c] > 0 => Suits(req, c, call)
  PROVE  QueueInv'
<1>1. /\ Conns' = Conns /\ Others(k)
      /\ calls'[k].op = call.op /\ calls'[k].user = call.user
      /\ calls'[k].at = call.at \/ calls'[k].at = "hung"
  BY HomeStays, RequestFacts
<1>2. \A j \in DOMAIN calls : j # k => SameAwait(calls[j], calls'[j]) \/ Silent(j)
  <2> SUFFICES ASSUME NEW j \in DOMAIN calls, j # k, calls[j].at # "connecting"
               PROVE  SameAwait(calls[j], calls'[j])
    BY IdleIsSilent
  <2>1. calls'[j] = calls[j]
    BY DEF Request
  <2> QED
    BY <2>1 DEF SameAwait
<1>3. DOMAIN calls' = DOMAIN calls
  BY <1>1, LenProperties DEF Others, TypeOK
<1> DEFINE e == [req |-> req, by |-> k]
<1> DEFINE Old(c, i) == i \in DOMAIN queue[c] /\ queue'[c][i] = queue[c][i]
           New(c, i) == /\ n[c] > 0 /\ queue'[c][i] = e
                        /\ calls'[k].wake = "no"
                        /\ calls'[k].at = call.at \/ (\E d \in Conns : d # c /\ n[d] > 0)
                        /\ n[c] = 1 => i = Len(queue[c]) + 1
<1>4. \A c \in Conns : \A i \in DOMAIN queue'[c] : Old(c, i) \/ New(c, i)
  BY RequestQueues
<1>5. e.req = req /\ e.by = k
  OBVIOUS
<1> HIDE DEF e
<1>6. ASSUME NEW c \in Conns, NEW i \in DOMAIN queue'[c], Old(c, i)
      PROVE  /\ queue'[c][i].by \in DOMAIN calls /\ queue'[c][i].by # k
             /\ Fits(queue'[c][i], c, calls'[queue'[c][i].by])
  <2> DEFINE f == queue[c][i]
  <2>1. queue'[c][i] = f /\ f.by \in DOMAIN calls /\ f.by # k /\ ~Silent(f.by) /\ Fits(f, c, calls[f.by])
    BY <1>6 DEF QueueInv, Silent
  <2> HIDE DEF f
  <2>2. SameAwait(calls[f.by], calls'[f.by])
    BY <1>2, <2>1
  <2>3. Fits(f, c, calls'[f.by])
    BY <2>1, <2>2 DEF Fits, Suits, SameAwait
  <2> QED
    BY <2>1, <2>3
<1>7. ASSUME NEW c \in Conns, NEW i, New(c, i), req # "close"
      PROVE  n = Only(c) /\ calls'[k].at = call.at /\ i = Len(queue[c]) + 1
  <2>1. PICK d \in Conns : n = Only(d)
    BY <1>7
  <2>2. \A b \in Conns : n[b] > 0 <=> b = d
    BY <2>1 DEF Only
  <2>3. c = d /\ n[c] = 1
    BY <1>7, <2>1, <2>2 DEF Only
  <2> QED
    BY <1>7, <2>1, <2>2, <2>3
<1>8. ASSUME NEW c \in Conns, NEW i, New(c, i)
      PROVE  Fits(e, c, calls'[k])
  <2>1. Suits(req, c, call) /\ calls'[k].wake = "no"
    BY <1>8
  <2>2. CASE req = "close"
    BY <1>1, <1>5, <2>1, <2>2 DEF Fits, Suits
  <2>3. CASE req # "close"
    <3>1. calls'[k].at = call.at
      BY <1>7, <1>8, <2>3
    <3> QED
      BY <1>1, <1>5, <2>1, <3>1 DEF Fits, Suits
  <2> QED
    BY <2>2, <2>3
<1>9. ASSUME NEW c \in Conns, NEW i \in DOMAIN queue'[c], queue'[c][i].req # "close",
             NEW d \in Conns, NEW j \in DOMAIN queue'[d], queue'[d][j].by = queue'[c][i].by
      PROVE  d = c /\ j = i
  <2>1. CASE Old(c, i) /\ Old(d, j)
    BY <1>9, <2>1 DEF QueueInv
  <2>2. CASE New(c, i) /\ New(d, j)
    <3>1. req # "close"
      BY <1>5, <1>9, <2>2
    <3>2. n = Only(c) /\ n = Only(d) /\ i = Len(queue[c]) + 1 /\ j = Len(queue[d]) + 1
      BY <1>7, <2>2, <3>1
    <3>3. Only(c)[c] = 1 /\ (d # c => Only(d)[c] = 0)
      BY DEF Only
    <3>4. d = c
      BY <3>2, <3>3
    <3> QED
      BY <3>2, <3>4
  <2>3. CASE Old(c, i) /\ New(d, j)
    BY <1>5, <1>6, <1>9, <2>3
  <2>4. CASE New(c, i) /\ Old(d, j)
    BY <1>5, <1>6, <1>9, <2>4
  <2> HIDE DEF Old, New
  <2> QED
    BY <1>4, <2>1, <2>2, <2>3, <2>4
<1>10. ASSUME NEW c \in Conns, NEW i \in DOMAIN queue'[c]
       PROVE  queue'[c][i].by \in DOMAIN calls' /\ Fits(queue'[c][i], c, calls'[queue'[c][i].by])
  <2>1. CASE Old(c, i)
    BY <1>3, <1>6, <2>1
  <2>2. CASE New(c, i)
    <3>1. queue'[c][i] = e /\ e.by = k
      BY <1>5, <2>2
    <3> HIDE DEF New
    <3> QED
      BY <1>3, <1>8, <2>2, <3>1
  <2> HIDE DEF Old, New
  <2> QED
    BY <1>4, <2>1, <2>2
<1> HIDE DEF Old, New
<1>11. \A c \in Conns : \A i \in DOMAIN queue'[c] :
         /\ queue'[c][i].by \in DOMAIN calls' /\ Fits(queue'[c][i], c, calls'[queue'[c][i].by])
         /\ queue'[c][i].req # "close" =>
              \A d \in Conns : \A j \in DOMAIN queue'[d] :
                queue'[d][j].by = queue'[c][i].by => d = c /\ j = i
  BY <1>9, <1>10
<1>12. Conns' = Conns
  BY <1>1
<1>13. \A c \in Conns : \A i \in DOMAIN queue'[c] : Fits(queue[c][i], c, calls[queue[c][i].by])'
  BY <1>11, NextFits
<1> QED
  BY <1>11, <1>12, <1>13, ZenonT(30) DEF QueueInv

-----------------------------------------------------------------------------
(* Who is closed for good.                                                 *)

(* The broker knows a user on its own connection only, and nobody once the *)
(* stream is gone.                                                         *)
KnownInv ==
  \A c \in Conns : known[c] \subseteq UsersOf(c) /\ (~exists[c] => known[c] = {})

Closers == {"closeConsumer", "deletePublisher"}
UserOps == Closers \cup {"closeUser", "automaticClose"}

(* A restart is going to declare u.                                        *)
Declaring(call) == call.at = "declaring" \/ (call.at = "connecting" /\ call.conn # Locator)
About(call, u) == u \in call.todo \/ (call.user = u /\ Declaring(call))

(* The broker has forgotten the user of a closing call.                    *)
Gone(call) ==
  \/ call.at \in {"unsubscribing", "deleting"} /\ call.wake = "ok"
  \/ call.at \in {"releasing", "done"}

NoRestart == \A j \in DOMAIN calls : calls[j].op = "restart" => Over(calls[j])
Spared(u) ==
  /\ u \notin registered
  /\ \A j \in DOMAIN calls : calls[j].op = "restart" /\ ~Over(calls[j]) => ~About(calls[j], u)

(* While a close without a restart beside it runs, no restart runs.  Its   *)
(* user is unknown to the broker from the answer on; when it is done, no   *)
(* restart will find the user in the maps, or has it on its list.          *)
CloseInv(call) ==
  /\ call.user \in Users
  /\ call.at = "metadata" /\ call.wake = "refused" => ~exists[home[call.user]]
  /\ "restart" \notin call.beside =>
       /\ ~Over(call) => NoRestart
       /\ Gone(call) => call.user \notin known[home[call.user]]
       /\ call.at = "done" => Spared(call.user)

ClosedInv ==
  /\ \A k \in DOMAIN calls : calls[k].op \in Closers => CloseInv(calls[k])
  /\ \A k \in DOMAIN calls :
       /\ calls[k].op = "restart" /\ Declaring(calls[k]) => calls[k].user \in Users
       /\ calls[k].op \in UserOps => calls[k].user \in Users
       /\ calls[k].at = "releasing" => calls[k].op \in UserOps

(* The broker learns of nobody but whom a running restart declares.        *)
Learns ==
  \A u \in Users : u \in known'[home[u]] =>
    \/ u \in known[home[u]]
    \/ \E j \in DOMAIN calls : calls[j].op = "restart" /\ ~Over(calls[j]) /\ About(calls[j], u)

(* What a call must do that acts, for all closed users to stay closed.     *)
Acts(k) ==
  /\ ~Over(calls[k])
  /\ calls'[k].op = calls[k].op /\ calls[k].beside \subseteq calls'[k].beside
  /\ calls[k].op = "restart" =>
       /\ \A u \in Users : About(calls'[k], u) => About(calls[k], u) \/ u \in registered
       /\ Declaring(calls'[k]) => calls'[k].user \in Users
  /\ calls[k].op \in UserOps => calls'[k].user = calls[k].user
  /\ calls'[k].at = "releasing" => calls[k].op \in UserOps
  /\ calls[k].op \in Closers =>
       /\ calls'[k].at = "metadata" /\ calls'[k].wake = "refused" => ~exists'[home[calls[k].user]]
       /\ Gone(calls'[k]) /\ "restart" \notin calls[k].beside =>
            calls[k].user \notin known'[home[calls[k].user]]
       /\ calls'[k].at = "done" => calls[k].user \notin registered'

LEMMA ClosedKept ==
  ASSUME TypeOK, ClosedInv, home' = home, registered' \subseteq registered, Learns,
         \A c \in Conns : ~exists[c] => ~exists'[c], DOMAIN calls' = DOMAIN calls,
         \A j \in DOMAIN calls : Passive(calls[j], calls'[j]) \/ Acts(j)
  PROVE  ClosedInv'
<1>1. ASSUME NEW j \in DOMAIN calls
      PROVE  /\ calls'[j].op = calls[j].op /\ calls[j].beside \subseteq calls'[j].beside
             /\ Over(calls[j]) => Over(calls'[j])
             /\ calls[j].op \in UserOps => calls'[j].user = calls[j].user
  <2>1. CASE Acts(j)
    BY <2>1 DEF Acts
  <2>2. CASE Passive(calls[j], calls'[j])
    BY <2>2 DEF Passive, Over
  <2> QED
    BY <2>1, <2>2
<1>2. ASSUME NEW j \in DOMAIN calls, calls[j].op = "restart", ~Over(calls'[j]), NEW u \in Users, About(calls'[j], u)
      PROVE  ~Over(calls[j]) /\ (About(calls[j], u) \/ u \in registered)
  <2>1. CASE Acts(j)
    BY <1>2, <2>1 DEF Acts
  <2>2. CASE Passive(calls[j], calls'[j])
    BY <1>2, <2>2 DEF Passive, Over, About, Declaring
  <2> QED
    BY <2>1, <2>2
<1>3. ASSUME NoRestart PROVE NoRestart'
  BY <1>1, <1>3 DEF NoRestart
<1>4. ASSUME NEW u \in Users, Spared(u) PROVE Spared(u)'
  BY <1>1, <1>2, <1>4 DEF Spared
<1>5. ASSUME NEW u \in Users, NoRestart \/ Spared(u), u \notin known[home[u]] PROVE u \notin known'[home[u]]
  BY <1>5 DEF Learns, NoRestart, Spared
<1>6. ASSUME NEW j \in DOMAIN calls, calls[j].op \in Closers PROVE CloseInv(calls[j])'
  <2> DEFINE u == calls[j].user
  <2>1. u \in Users /\ calls'[j].user = u /\ CloseInv(calls[j])
    BY <1>1, <1>6 DEF ClosedInv, CloseInv, UserOps
  <2>2. home[u] \in Conns
    BY <2>1, ConnFacts
  <2>3. calls'[j].at = "metadata" /\ calls'[j].wake = "refused" => ~exists'[home[u]]
    <3>1. CASE Acts(j)
      BY <1>6, <3>1 DEF Acts
    <3>2. CASE Passive(calls[j], calls'[j])
      BY <2>1, <2>2, <3>2 DEF Passive, CloseInv
    <3> QED
      BY <3>1, <3>2
  <2>4. ASSUME "restart" \notin calls'[j].beside, ~Over(calls'[j]) PROVE NoRestart'
    <3>1. "restart" \notin calls[j].beside /\ ~Over(calls[j])
      BY <1>1, <2>4
    <3> QED
      BY <1>3, <2>1, <3>1 DEF CloseInv
  <2>5. ASSUME "restart" \notin calls'[j].beside, Gone(calls'[j]) PROVE u \notin known'[home[u]]
    <3>1. "restart" \notin calls[j].beside
      BY <1>1, <2>5
    <3>2. CASE Acts(j)
      BY <1>6, <2>5, <3>1, <3>2 DEF Acts
    <3>3. CASE Passive(calls[j], calls'[j])
      <4>1. Gone(calls[j])
        BY <2>5, <3>3 DEF Passive, Gone
      <4>2. NoRestart \/ Spared(u)
        <5>1. CASE ~Over(calls[j])
          BY <2>1, <3>1, <5>1 DEF CloseInv
        <5>2. CASE Over(calls[j])
          <6>1. calls[j].at = "done"
            BY <4>1, <5>2 DEF Gone, Over
          <6> QED
            BY <2>1, <3>1, <6>1 DEF CloseInv
        <5> QED
          BY <5>1, <5>2
      <4>3. u \notin known[home[u]]
        BY <2>1, <3>1, <4>1 DEF CloseInv
      <4> QED
        BY <1>5, <2>1, <4>2, <4>3
    <3> QED
      BY <3>2, <3>3
  <2>6. ASSUME "restart" \notin calls'[j].beside, calls'[j].at = "done" PROVE Spared(u)'
    <3>1. "restart" \notin calls[j].beside
      BY <1>1, <2>6
    <3>2. CASE Acts(j)
      <4>1. u \notin registered' /\ NoRestart
        BY <1>6, <2>1, <2>6, <3>1, <3>2 DEF CloseInv, Acts
      <4>2. NoRestart'
        BY <1>3, <4>1
      <4>3. \A v \in Users : v \notin registered' => Spared(v)'
        BY <4>2 DEF NoRestart, Spared
      <4> QED
        BY <2>1, <4>1, <4>3
    <3>3. CASE Passive(calls[j], calls'[j])
      <4>1. calls[j].at = "done"
        BY <2>6, <3>3 DEF Passive
      <4> QED
        BY <1>4, <2>1, <3>1, <4>1 DEF CloseInv
    <3> QED
      BY <3>2, <3>3
  <2> QED
    BY <2>1, <2>3, <2>4, <2>5, <2>6 DEF CloseInv
<1>7. ASSUME NEW j \in DOMAIN calls
      PROVE  /\ calls'[j].op = "restart" /\ Declaring(calls'[j]) => calls'[j].user \in Users
             /\ calls'[j].op \in UserOps => calls'[j].user \in Users
             /\ calls'[j].at = "releasing" => calls'[j].op \in UserOps
  <2>1. CASE Acts(j)
    BY <2>1 DEF Acts, ClosedInv
  <2>2. CASE Passive(calls[j], calls'[j])
    BY <2>2 DEF Passive, Declaring, ClosedInv
  <2> QED
    BY <2>1, <2>2
<1> QED
  BY <1>1, <1>6, <1>7 DEF ClosedInv

-----------------------------------------------------------------------------
(* The steps of a call.                                                    *)

Inv == TypeOK /\ QueueInv /\ KnownInv /\ ClosedInv

LEMMA KnownStays ==
  ASSUME TypeOK, KnownInv, UNCHANGED <<home, known, exists>>
  PROVE  KnownInv' /\ Learns /\ \A c \in Conns : ~exists[c] => ~exists'[c]
<1>1. Conns' = Conns /\ \A c \in Conns : UsersOf(c)' = UsersOf(c)
  BY HomeStays DEF UsersOf
<1> QED
  BY <1>1 DEF KnownInv, Learns

(* Nothing else than an act of a call's own changes more than its histories. *)
Steps ==
  /\ DOMAIN calls' = DOMAIN calls
  /\ \A j \in DOMAIN calls : Passive(calls[j], calls'[j]) \/ Acts(j)

(* Call k takes a step that asks for nothing.                              *)
LEMMA StillKept ==
  ASSUME Inv, NEW k \in DOMAIN calls, Others(k), Acts(k), Silent(k),
         \A j \in DOMAIN calls : j # k => SameAwait(calls[j], calls'[j]),
         UNCHANGED <<home, sock, ready, queue, known, refs, listening, exists>>,
         registered' \subseteq registered, closed' \subseteq Users
  PROVE  Inv' /\ Steps
<1> USE DEF Inv
<1>1. DOMAIN calls' = DOMAIN calls
  BY LenProperties DEF Others, TypeOK
<1>2. QueueInv'
  BY <1>1, QueueStays
<1>3. KnownInv' /\ Learns /\ \A c \in Conns : ~exists[c] => ~exists'[c]
  BY KnownStays
<1>4. ClosedInv'
  BY <1>1, <1>3, ClosedKept DEF Others
<1>5. TypeOK'
  BY HomeStays DEF TypeOK, Others
<1>6. Steps
  BY <1>1 DEF Steps, Others
<1> QED
  BY <1>2, <1>3, <1>4, <1>5, <1>6

LEMMA WokenFacts ==
  ASSUME Inv, NEW k \in DOMAIN calls, NEW op, NEW at \in Awaits \ {"done", "failed", "hung"}, Woken(k, op, at)
  PROVE  /\ Silent(k) /\ ~Over(calls[k]) /\ calls[k].op \in op /\ calls[k].at = at
         /\ calls[k] \in Call /\ calls[k].wake # "no"
<1>1. calls[k].at = at /\ calls[k].wake # "no" /\ calls[k].op \in op
  BY DEF Woken
<1>2. Silent(k)
  BY <1>1, WokenIsSilent DEF Inv
<1> QED
  BY <1>1, <1>2, CallFacts DEF Inv, Over

(* Call k only moves, to a place that says nothing of users; r is the call *)
(* then.                                                                   *)
LEMMA MovesKept ==
  ASSUME Inv, NEW k \in DOMAIN calls, Silent(k), ~Over(calls[k]),
         NEW r \in Call, calls' = [calls EXCEPT ![k] = r],
         r.op = calls[k].op, r.user = calls[k].user, r.beside = calls[k].beside,
         r.at \in {"waiting", "publishers", "consumers", "locator", "failed", "hung"}
           \/ (r.at = "done" /\ r.op \notin Closers),
         \A u \in r.todo : u \in calls[k].todo \/ u \in registered,
         UNCHANGED <<home, sock, ready, queue, known, refs, closed, listening, exists>>,
         registered' \subseteq registered
  PROVE  Inv' /\ Steps
<1> USE DEF Inv
<1>1. Others(k) /\ calls'[k] = r /\ \A j \in DOMAIN calls : j # k => calls'[j] = calls[j]
  BY OneChanges
<1>2. Acts(k)
  BY <1>1 DEF Acts, About, Declaring, Gone
<1>3. \A j \in DOMAIN calls : j # k => SameAwait(calls[j], calls'[j])
  BY <1>1 DEF SameAwait
<1>4. closed' \subseteq Users
  BY DEF TypeOK
<1> QED
  BY <1>1, <1>2, <1>3, <1>4, StillKept

LEMMA EndKept ==
  ASSUME Inv, NEW k \in DOMAIN calls, Silent(k), ~Over(calls[k]), NEW at, End(k, at),
         at \in {"waiting", "failed"} \/ (at = "done" /\ calls[k].op \notin Closers),
         UNCHANGED <<home, sock, ready, queue, known, refs, closed, listening, exists>>,
         registered' \subseteq registered
  PROVE  Inv' /\ Steps
<1> DEFINE r == [calls[k] EXCEPT !.at = at, !.wake = "no"]
<1>1. calls' = [calls EXCEPT ![k] = r]
  BY DEF End, Inv, TypeOK
<1>2. calls[k] \in Call
  BY CallFacts DEF Inv
<1>3. /\ r \in Call /\ r.op = calls[k].op /\ r.user = calls[k].user /\ r.beside = calls[k].beside
      /\ r.at = at /\ r.todo = calls[k].todo
  BY <1>2 DEF Call, Awaits, Wakes
<1> HIDE DEF r
<1> QED
  BY <1>1, <1>3, MovesKept

(* Call k asks for req.                                                    *)
LEMMA AskingKept ==
  ASSUME Inv, NEW k \in DOMAIN calls, Silent(k), ~Over(calls[k]),
         NEW call \in Call, NEW req \in Requests, NEW n \in [Conns -> Nat], Request(k, call, req, n),
         call.op = calls[k].op, call.beside = calls[k].beside,
         req = "close" \/ \E d \in Conns : n = Only(d),
         call.at \notin {"hung", "done"}, \A c \in Conns : n[c] > 0 => Suits(req, c, call),
         call.op = "restart" =>
           /\ \A u \in Users : About(call, u) => About(calls[k], u) \/ u \in registered
           /\ Declaring(call) => call.user \in Users,
         call.op \in UserOps => call.user = calls[k].user,
         call.at = "releasing" => call.op \in UserOps,
         call.op \in Closers =>
           /\ call.at \in {"unsubscribing", "deleting"} => req # "close"
           /\ call.at = "releasing" /\ "restart" \notin call.beside => call.user \notin known[home[call.user]],
         UNCHANGED <<home, known, exists>>, registered' \subseteq registered,
         ready' \in [Conns -> BOOLEAN], refs' \in [Conns -> Int],
         closed' \subseteq Users, listening' \subseteq Users
  PROVE  Inv' /\ Steps
<1> USE DEF Inv
<1>1. /\ Others(k) /\ calls'[k] \in Call
      /\ calls'[k].op = call.op /\ calls'[k].user = call.user /\ calls'[k].conn = call.conn
      /\ calls'[k].todo = call.todo /\ calls'[k].beside = call.beside
      /\ calls'[k].at = call.at \/ calls'[k].at = "hung"
      /\ calls'[k].wake \in {"no", "ok", "error"}
      /\ calls'[k].wake = "ok" => req = "close" \/ \A c \in Conns : n[c] = 0
      /\ sock' \in [Conns -> {"open", "opening", "half", "down"}]
  BY RequestFacts
<1>2. DOMAIN calls' = DOMAIN calls
  BY <1>1, LenProperties DEF Others, TypeOK
<1>3. QueueInv'
  BY QueueGrows
<1>4. KnownInv' /\ Learns /\ \A c \in Conns : ~exists[c] => ~exists'[c]
  BY KnownStays
<1>5. req # "close" => calls'[k].wake # "ok"
  <2>1. \A d \in Conns : Only(d)[d] = 1
    BY DEF Only
  <2> QED
    BY <1>1, <2>1
<1>6. Acts(k)
  BY <1>1, <1>5 DEF Acts, About, Declaring, Gone, UserOps
<1>7. ClosedInv'
  BY <1>1, <1>2, <1>4, <1>6, ClosedKept DEF Others
<1>8. queue' \in [Conns -> Seq(Entry)]
  BY RequestQueues
<1>9. TypeOK'
  BY <1>1, <1>8, HomeStays DEF TypeOK, Others
<1>10. Steps
  BY <1>1, <1>2, <1>6 DEF Steps, Others
<1> QED
  BY <1>3, <1>4, <1>7, <1>9, <1>10

LEMMA AtFacts ==
  ASSUME TypeOK, NEW k \in DOMAIN calls, NEW at \in Awaits
  PROVE  /\ At(k, at) \in Call /\ At(k, at).at = at /\ At(k, at).op = calls[k].op
         /\ At(k, at).user = calls[k].user /\ At(k, at).conn = calls[k].conn
         /\ At(k, at).todo = calls[k].todo /\ At(k, at).beside = calls[k].beside
BY CallFacts DEF At, Call

LEMMA OnlyFacts ==
  ASSUME NEW c \in Conns
  PROVE  Only(c) \in [Conns -> Nat] /\ \A d \in Conns : Only(c)[d] > 0 <=> d = c
BY DEF Only

LEMMA UsersFinite ==
  ASSUME TypeOK, NEW us \in SUBSET Users
  PROVE  IsFiniteSet(us) /\ Cardinality(us) \in Nat
BY ClientAssumption, FS_Subset, FS_CardinalityType

(* Users give their connections back.                                      *)
LEMMA ReleaseKept ==
  ASSUME Inv, NEW k \in DOMAIN calls, Silent(k), ~Over(calls[k]), calls[k].op # "restart",
         NEW at \in {"releasing", "publishers"}, at = "releasing" => calls[k].op \in UserOps,
         NEW us \in SUBSET Users, Release(k, At(k, at), us),
         calls[k].op \in Closers /\ "restart" \notin calls[k].beside =>
           calls[k].user \notin known[home[calls[k].user]]
  PROVE  Inv' /\ Steps
<1> USE DEF Inv
<1> DEFINE n == [c \in Conns |-> Cardinality({u \in us \cap UsersOf(c) : EndsConnection(u, us)})]
<1>1. n \in [Conns -> Nat]
  <2>1. \A c \in Conns : Cardinality({u \in us \cap UsersOf(c) : EndsConnection(u, us)}) \in Nat
    <3> TAKE c \in Conns
    <3> DEFINE S == {u \in us \cap UsersOf(c) : EndsConnection(u, us)}
    <3>1. S \in SUBSET Users
      OBVIOUS
    <3> HIDE DEF S
    <3>2. Cardinality(S) \in Nat
      BY <3>1, UsersFinite
    <3> QED
      BY <3>2 DEF S
  <2> QED
    BY <2>1
<1>2. /\ Request(k, At(k, at), "close", n)
      /\ UNCHANGED <<home, ready, known, registered, listening, exists>>
      /\ closed' \subseteq Users
      /\ refs' = [c \in Conns |-> refs[c] - Cardinality(us \cap UsersOf(c))]
  BY DEF Release, TypeOK
<1>3. refs' \in [Conns -> Int]
  <2>1. ASSUME NEW c \in Conns PROVE refs[c] - Cardinality(us \cap UsersOf(c)) \in Int
    <3>1. us \cap UsersOf(c) \in SUBSET Users
      OBVIOUS
    <3>2. Cardinality(us \cap UsersOf(c)) \in Nat
      BY <3>1, UsersFinite
    <3> QED
      BY <3>2 DEF TypeOK
  <2> QED
    BY <1>2, <2>1
<1>4. ready' \in [Conns -> BOOLEAN] /\ listening' \subseteq Users /\ registered' \subseteq registered
  BY <1>2 DEF TypeOK
<1>5. at \in Awaits
  BY DEF Awaits
<1> DEFINE call == At(k, at)
<1>6. /\ call \in Call /\ call.at = at /\ call.op = calls[k].op
      /\ call.user = calls[k].user /\ call.beside = calls[k].beside
  BY <1>5, AtFacts
<1> HIDE DEF n, call
<1>7. "close" \in Requests /\ \A c \in Conns : Suits("close", c, call)
  BY <1>6 DEF Requests, Suits
<1>8. Request(k, call, "close", n)
  BY <1>2 DEF call
<1> QED
  BY <1>1, <1>2, <1>3, <1>4, <1>6, <1>7, <1>8, AskingKept

(* User u leaves the lists of the running restarts, and call k becomes r.  *)
LEMMA ForgetFacts ==
  ASSUME TypeOK, NEW k \in DOMAIN calls, NEW r \in Call, NEW u,
         calls' = Forget(u, [calls EXCEPT ![k] = r])
  PROVE  /\ Others(k) /\ \A j \in DOMAIN calls : j # k => SameAwait(calls[j], calls'[j])
         /\ calls'[k].op = r.op /\ calls'[k].user = r.user /\ calls'[k].at = r.at
         /\ calls'[k].beside = r.beside /\ calls'[k].todo \subseteq r.todo
<1> DEFINE drop(c) == [c EXCEPT !.todo = @ \ {u}]
           over == [calls EXCEPT ![k] = r]
<1>1. /\ DOMAIN over = DOMAIN calls /\ over[k] = r
      /\ \A j \in DOMAIN calls : j # k => over[j] = calls[j]
  BY DEF TypeOK
<1>2. /\ DOMAIN calls' = DOMAIN over /\ calls' = [j \in DOMAIN over |-> calls'[j]]
      /\ \A j \in DOMAIN over : calls'[j] = drop(over[j])
  BY DEF Forget
<1> HIDE DEF over
<1>3. ASSUME NEW c \in Call
      PROVE  /\ drop(c) \in Call /\ drop(c).op = c.op /\ drop(c).user = c.user /\ drop(c).at = c.at
             /\ drop(c).wake = c.wake /\ drop(c).conn = c.conn /\ drop(c).beside = c.beside
             /\ drop(c).todo = c.todo \ {u}
  BY DEF Call
<1> HIDE DEF drop
<1>4. \A j \in DOMAIN calls : over[j] \in Call
  BY <1>1, CallFacts
<1>5. calls' \in Seq(Call) /\ Len(calls') = Len(calls)
  BY <1>1, <1>2, <1>3, <1>4, CallsAreSeq
<1>6. \A j \in DOMAIN calls : j # k => Passive(calls[j], calls'[j]) /\ SameAwait(calls[j], calls'[j])
  <2> SUFFICES ASSUME NEW j \in DOMAIN calls, j # k
               PROVE  Passive(calls[j], calls'[j]) /\ SameAwait(calls[j], calls'[j])
    OBVIOUS
  <2>1. calls[j] \in Call /\ calls'[j] = drop(calls[j])
    BY <1>1, <1>2, CallFacts
  <2>2. calls'[j].todo = calls[j].todo \ {u} /\ calls'[j] \in Call
    BY <1>3, <2>1
  <2> QED
    BY <1>3, <2>1, <2>2, ZenonT(30) DEF Passive, SameAwait
<1> QED
  BY <1>1, <1>2, <1>3, <1>5, <1>6, ZenonT(30) DEF Others

LEMMA ReleasedKept ==
  ASSUME Inv, NEW k \in DOMAIN calls, Released(k)
  PROVE  Inv' /\ Steps
<1> USE DEF Inv
<1> DEFINE u == calls[k].user
           r == [calls[k] EXCEPT !.at = "done", !.wake = "no"]
<1>1. /\ Silent(k) /\ ~Over(calls[k]) /\ calls[k].op \in CallOps /\ calls[k].at = "releasing"
      /\ calls[k] \in Call /\ UNCHANGED <<home, sock, ready, queue, known, refs, listening, exists>>
  BY WokenFacts DEF Released, CallOps, Awaits
<1>2. [calls EXCEPT ![k].at = "done", ![k].wake = "no"] = [calls EXCEPT ![k] = r]
  BY DEF TypeOK
<1>3. /\ r \in Call /\ r.op = calls[k].op /\ r.user = u /\ r.beside = calls[k].beside
      /\ r.at = "done" /\ r.todo = calls[k].todo /\ r.wake = "no"
  BY <1>1 DEF Call, Awaits, Wakes
<1> HIDE DEF r
<1>4. calls[k].op \in UserOps /\ u \in Users
  BY <1>1 DEF ClosedInv
<1>5. closed' \subseteq Users
  BY <1>4 DEF Released, TypeOK
<1>6. CASE /\ Forgets(calls[k].op)
           /\ registered' = registered \ {u} /\ calls' = Forget(u, [calls EXCEPT ![k] = r])
  <2>1. /\ Others(k) /\ (\A j \in DOMAIN calls : j # k => SameAwait(calls[j], calls'[j]))
        /\ calls'[k].op = r.op /\ calls'[k].user = r.user /\ calls'[k].at = r.at
        /\ calls'[k].beside = r.beside /\ calls'[k].todo \subseteq r.todo
    BY <1>3, <1>6, ForgetFacts
  <2>2. calls[k].op \in Closers /\ "restart" \notin calls[k].beside => u \notin known[home[u]]
    BY <1>1 DEF ClosedInv, CloseInv, Gone
  <2>3. Acts(k)
    BY <1>1, <1>3, <1>4, <1>6, <2>1, <2>2 DEF Acts, About, Declaring, Gone
  <2> QED
    BY <1>1, <1>5, <1>6, <2>1, <2>3, StillKept
<1>7. CASE ~Forgets(calls[k].op) /\ calls' = [calls EXCEPT ![k] = r] /\ UNCHANGED registered
  <2>1. calls[k].op \notin Closers
    BY <1>7 DEF Forgets, Closers
  <2>2. Others(k) /\ calls'[k] = r /\ \A j \in DOMAIN calls : j # k => calls'[j] = calls[j]
    BY <1>3, <1>7, OneChanges
  <2>3. Acts(k)
    BY <1>1, <1>3, <1>4, <2>1, <2>2 DEF Acts, About, Declaring, UserOps
  <2>4. \A j \in DOMAIN calls : j # k => SameAwait(calls[j], calls'[j])
    BY <2>2 DEF SameAwait
  <2> QED
    BY <1>1, <1>5, <1>7, <2>2, <2>3, <2>4, StillKept
<1> QED
  BY <1>2, <1>6, <1>7 DEF Released

LEMMA CloseUserKept ==
  ASSUME Inv, NEW k \in DOMAIN calls, CloseUser(k)
  PROVE  Inv' /\ Steps
<1> DEFINE us == IF calls[k].user \in Publishers \cap closed THEN {} ELSE {calls[k].user}
<1>1. Silent(k) /\ ~Over(calls[k]) /\ calls[k].op \in {"closeUser", "automaticClose"}
  BY WokenFacts DEF CloseUser, Awaits
<1>2. Release(k, At(k, "releasing"), us)
  BY DEF CloseUser
<1>3. us \in SUBSET Users
  BY <1>1 DEF Inv, ClosedInv, UserOps
<1>4. calls[k].op # "restart" /\ calls[k].op \in UserOps /\ calls[k].op \notin Closers
  BY <1>1 DEF UserOps, Closers
<1> HIDE DEF us
<1> QED
  BY <1>1, <1>2, <1>3, <1>4, ReleaseKept

LEMMA closingKept ==
  ASSUME Inv, NEW k \in DOMAIN calls, closing(k)
  PROVE  Inv' /\ Steps
<1>1. /\ Silent(k) /\ ~Over(calls[k]) /\ calls[k].op = "closeConsumer"
      /\ (calls[k].at = "metadata" /\ calls[k].wake = "refused")
           \/ (calls[k].at = "unsubscribing" /\ calls[k].wake = "ok")
  <2>1. CASE Woken(k, {"closeConsumer"}, "metadata") /\ calls[k].wake = "refused"
    BY <2>1, WokenFacts DEF Awaits
  <2>2. CASE Woken(k, {"closeConsumer"}, "unsubscribing") /\ calls[k].wake = "ok"
    BY <2>2, WokenFacts DEF Awaits
  <2> QED
    BY <2>1, <2>2 DEF closing
<1>2. Release(k, At(k, "releasing"), {calls[k].user})
  BY DEF closing
<1>3. calls[k].op \in Closers /\ calls[k].op \in UserOps /\ calls[k].op # "restart"
  BY <1>1 DEF UserOps, Closers
<1>4. calls[k].user \in Users /\ CloseInv(calls[k])
  BY <1>3 DEF Inv, ClosedInv
<1>5. "restart" \notin calls[k].beside => calls[k].user \notin known[home[calls[k].user]]
  <2>1. home[calls[k].user] \in Conns
    BY <1>4, ConnFacts DEF Inv
  <2> QED
    BY <1>1, <1>4, <2>1 DEF CloseInv, Gone, Inv, KnownInv
<1>6. {calls[k].user} \in SUBSET Users
  BY <1>4
<1> QED
  BY <1>1, <1>2, <1>3, <1>5, <1>6, ReleaseKept

LEMMA DeletedKept ==
  ASSUME Inv, NEW k \in DOMAIN calls, Deleted(k)
  PROVE  Inv' /\ Steps
<1>1. /\ Silent(k) /\ ~Over(calls[k]) /\ calls[k].op = "deletePublisher"
      /\ calls[k].at = "deleting" /\ calls[k].wake = "ok"
  BY WokenFacts DEF Deleted, Awaits
<1>2. Release(k, At(k, "releasing"), {calls[k].user} \ closed)
  BY DEF Deleted
<1>3. calls[k].op \in Closers /\ calls[k].op \in UserOps /\ calls[k].op # "restart"
  BY <1>1 DEF UserOps, Closers
<1>4. calls[k].user \in Users /\ CloseInv(calls[k])
  BY <1>3 DEF Inv, ClosedInv
<1>5. "restart" \notin calls[k].beside => calls[k].user \notin known[home[calls[k].user]]
  BY <1>1, <1>4 DEF CloseInv, Gone
<1>6. {calls[k].user} \ closed \in SUBSET Users
  BY <1>4
<1> QED
  BY <1>1, <1>2, <1>3, <1>5, <1>6, ReleaseKept

(* Call k asks one connection.                                             *)
LEMMA AskOneKept ==
  ASSUME Inv, NEW k \in DOMAIN calls, Silent(k), ~Over(calls[k]),
         NEW at \in Awaits \ {"hung", "done", "releasing", "declaring", "connecting"},
         NEW req \in Requests \ {"close"}, NEW c \in Conns, Request(k, At(k, at), req, Only(c)),
         \A call : call.at = at => Suits(req, c, call),
         UNCHANGED <<home, ready, known, refs, closed, listening, exists>>, registered' \subseteq registered
  PROVE  Inv' /\ Steps
<1> DEFINE call == At(k, at)
<1>1. /\ call \in Call /\ call.at = at /\ call.op = calls[k].op /\ call.todo = calls[k].todo
      /\ call.user = calls[k].user /\ call.beside = calls[k].beside
  BY AtFacts DEF Inv
<1>2. Only(c) \in [Conns -> Nat]
  BY OnlyFacts
<1>3. /\ ready' \in [Conns -> BOOLEAN] /\ refs' \in [Conns -> Int]
      /\ closed' \subseteq Users /\ listening' \subseteq Users
  BY DEF Inv, TypeOK
<1>4. \A d \in Conns : Only(c)[d] > 0 => Suits(req, d, call)
  BY <1>1, OnlyFacts
<1>5. Request(k, call, req, Only(c))
  OBVIOUS
<1> HIDE DEF call
<1>6. /\ \A u \in Users : About(call, u) => About(calls[k], u)
      /\ ~Declaring(call)
  BY <1>1 DEF About, Declaring
<1>7. \E d \in Conns : Only(c) = Only(d)
  OBVIOUS
<1> DEFINE n == Only(c)
<1>8. /\ n \in [Conns -> Nat] /\ (\E d \in Conns : n = Only(d)) /\ Request(k, call, req, n)
      /\ \A d \in Conns : n[d] > 0 => Suits(req, d, call)
  BY <1>2, <1>4, <1>5, <1>7
<1> HIDE DEF n
<1> QED
  BY <1>1, <1>3, <1>6, <1>8, AskingKept

LEMMA closeConsumerKept ==
  ASSUME Inv, NEW k \in DOMAIN calls, closeConsumer(k)
  PROVE  Inv' /\ Steps
<1>1. /\ Silent(k) /\ ~Over(calls[k]) /\ calls[k].op = "closeConsumer"
      /\ UNCHANGED <<home, ready, known, refs, registered, closed, listening, exists>>
  BY WokenFacts DEF closeConsumer, Awaits, users
<1>2. CASE Request(k, At(k, "metadata"), "metadata", Only(Locator))
  <2>1. "metadata" \in Awaits /\ "metadata" \in Requests /\ Locator \in Conns
    BY ConnFacts DEF Awaits, Requests, Inv
  <2>2. \A call : call.at = "metadata" => Suits("metadata", Locator, call)
    BY DEF Suits
  <2> QED
    BY <1>1, <1>2, <2>1, <2>2, AskOneKept
<1>3. CASE End(k, "failed") /\ UNCHANGED <<sock, queue>>
  BY <1>1, <1>3, EndKept
<1> QED
  BY <1>2, <1>3 DEF closeConsumer

LEMMA UnsubscribeKept ==
  ASSUME Inv, NEW k \in DOMAIN calls, Unsubscribe(k)
  PROVE  Inv' /\ Steps
<1> DEFINE c == home[calls[k].user]
<1>1. /\ Silent(k) /\ ~Over(calls[k]) /\ calls[k].op = "closeConsumer"
      /\ UNCHANGED <<home, ready, known, refs, registered, closed, listening, exists>>
      /\ Request(k, At(k, "unsubscribing"), "unsubscribe", Only(c))
  BY WokenFacts DEF Unsubscribe, Awaits, users
<1>2. c \in Conns
  BY <1>1, ConnFacts DEF Inv, ClosedInv, UserOps, Closers
<1> HIDE DEF c
<1>3. "unsubscribing" \in Awaits /\ "unsubscribe" \in Requests
  BY DEF Awaits, Requests
<1>4. \A call : call.at = "unsubscribing" => Suits("unsubscribe", c, call)
  BY DEF Suits
<1> QED
  BY <1>1, <1>2, <1>3, <1>4, AskOneKept

LEMMA deletePublisherKept ==
  ASSUME Inv, NEW k \in DOMAIN calls, deletePublisher(k)
  PROVE  Inv' /\ Steps
<1> DEFINE c == IF calls[k].user \in registered THEN home[calls[k].user] ELSE Locator
<1>1. /\ Silent(k) /\ ~Over(calls[k]) /\ calls[k].op = "deletePublisher"
      /\ UNCHANGED <<home, ready, known, refs, registered, closed, listening, exists>>
      /\ Request(k, At(k, "deleting"), "delete", Only(c))
  BY WokenFacts DEF deletePublisher, Awaits, users
<1>2. c \in Conns
  BY <1>1, ConnFacts DEF Inv, TypeOK
<1> HIDE DEF c
<1>3. "deleting" \in Awaits /\ "delete" \in Requests
  BY DEF Awaits, Requests
<1>4. \A call : call.at = "deleting" => Suits("delete", c, call)
  BY DEF Suits
<1> QED
  BY <1>1, <1>2, <1>3, <1>4, AskOneKept

LEMMA ThrowsKept ==
  ASSUME Inv, NEW k \in DOMAIN calls, Throws(k)
  PROVE  Inv' /\ Steps
<1>1. Silent(k) /\ ~Over(calls[k])
  <2>1. \/ Woken(k, Ops, "unsubscribing") \/ Woken(k, Ops, "deleting") \/ Woken(k, Ops, "metadata")
    BY DEF Throws
  <2> QED
    BY <2>1, WokenFacts DEF Awaits
<1>2. /\ End(k, "failed")
      /\ UNCHANGED <<home, sock, ready, queue, known, refs, registered, closed, listening, exists>>
  BY DEF Throws, users
<1> QED
  BY <1>1, <1>2, EndKept

LEMMA closeAllPublishersKept ==
  ASSUME Inv, NEW k \in DOMAIN calls, closeAllPublishers(k)
  PROVE  Inv' /\ Steps
<1> DEFINE us == (registered \cap Publishers) \ closed
<1>1. /\ Silent(k) /\ ~Over(calls[k]) /\ calls[k].op = "close"
      /\ Release(k, At(k, "publishers"), us)
  BY WokenFacts DEF closeAllPublishers, Awaits
<1>2. us \in SUBSET Users
  BY DEF Inv, TypeOK
<1>3. calls[k].op \notin Closers /\ calls[k].op # "restart"
  BY <1>1 DEF Closers
<1> HIDE DEF us
<1> QED
  BY <1>1, <1>2, <1>3, ReleaseKept

LEMMA closeAllConsumersKept ==
  ASSUME Inv, NEW k \in DOMAIN calls, closeAllConsumers(k)
  PROVE  Inv' /\ Steps
<1> USE DEF Inv
<1> DEFINE us == registered \cap Consumers
           n == [c \in Conns |-> Cardinality({u \in us \cap UsersOf(c) : EndsConnection(u, us)})]
<1>1. /\ Silent(k) /\ ~Over(calls[k]) /\ calls[k].op = "close"
  BY WokenFacts DEF closeAllConsumers, Awaits
<1>2. /\ Request(k, At(k, "consumers"), "close", n)
      /\ refs' = [c \in Conns |-> refs[c] - Cardinality(us \cap UsersOf(c))]
      /\ closed' = closed \cup us \cup (registered \cap Publishers)
      /\ registered' = registered \ Publishers
      /\ UNCHANGED <<home, ready, known, listening, exists>>
  BY DEF closeAllConsumers
<1>3. us \in SUBSET Users
  BY DEF TypeOK
<1>4. n \in [Conns -> Nat]
  <2>1. \A c \in Conns : Cardinality({u \in us \cap UsersOf(c) : EndsConnection(u, us)}) \in Nat
    <3> TAKE c \in Conns
    <3> DEFINE S == {u \in us \cap UsersOf(c) : EndsConnection(u, us)}
    <3>1. S \in SUBSET Users
      BY <1>3
    <3> HIDE DEF S
    <3>2. Cardinality(S) \in Nat
      BY <3>1, UsersFinite
    <3> QED
      BY <3>2 DEF S
  <2> QED
    BY <2>1
<1>5. refs' \in [Conns -> Int]
  <2>1. ASSUME NEW c \in Conns PROVE refs[c] - Cardinality(us \cap UsersOf(c)) \in Int
    <3>1. us \cap UsersOf(c) \in SUBSET Users
      BY <1>3
    <3>2. Cardinality(us \cap UsersOf(c)) \in Nat
      BY <3>1, UsersFinite
    <3> QED
      BY <3>2 DEF TypeOK
  <2> QED
    BY <1>2, <2>1
<1>6. /\ ready' \in [Conns -> BOOLEAN] /\ listening' \subseteq Users
      /\ registered' \subseteq registered /\ closed' \subseteq Users
  BY <1>2 DEF TypeOK
<1> DEFINE call == At(k, "consumers")
<1>7. /\ call \in Call /\ call.at = "consumers" /\ call.op = calls[k].op
      /\ call.user = calls[k].user /\ call.beside = calls[k].beside
  BY AtFacts DEF Awaits
<1> HIDE DEF n, call
<1>8. "close" \in Requests /\ \A c \in Conns : Suits("close", c, call)
  BY <1>7 DEF Requests, Suits
<1>9. Request(k, call, "close", n)
  BY <1>2 DEF call
<1>10. call.op # "restart" /\ call.op \notin Closers
  BY <1>1, <1>7 DEF Closers
<1> QED
  BY <1>1, <1>2, <1>4, <1>5, <1>6, <1>7, <1>8, <1>9, <1>10, AskingKept

LEMMA CloseLocatorKept ==
  ASSUME Inv, NEW k \in DOMAIN calls, CloseLocator(k)
  PROVE  Inv' /\ Steps
<1>1. /\ Silent(k) /\ ~Over(calls[k]) /\ Request(k, At(k, "locator"), "end", Only(Locator))
      /\ UNCHANGED <<home, ready, known, refs, closed, listening, exists>>
      /\ registered' \subseteq registered
  BY WokenFacts DEF CloseLocator, Awaits
<1>2. "locator" \in Awaits /\ "end" \in Requests /\ Locator \in Conns
  BY ConnFacts DEF Awaits, Requests, Inv
<1>3. \A call : call.at = "locator" => Suits("end", Locator, call)
  BY DEF Suits
<1> QED
  BY <1>1, <1>2, <1>3, AskOneKept

LEMMA ClosedStepKept ==
  ASSUME Inv, NEW k \in DOMAIN calls, Closed(k)
  PROVE  Inv' /\ Steps
<1>1. /\ Silent(k) /\ ~Over(calls[k]) /\ calls[k].op = "close"
      /\ (End(k, "done") \/ End(k, "failed"))
      /\ UNCHANGED <<home, sock, ready, queue, known, refs, registered, closed, listening, exists>>
  BY WokenFacts DEF Closed, Awaits, users
<1>2. calls[k].op \notin Closers
  BY <1>1 DEF Closers
<1> QED
  BY <1>1, <1>2, EndKept

-----------------------------------------------------------------------------
(* The steps of restart.                                                   *)

LEMMA restartKept ==
  ASSUME Inv, NEW k \in DOMAIN calls, restart(k)
  PROVE  Inv' /\ Steps
<1>1. /\ Silent(k) /\ ~Over(calls[k]) /\ End(k, "waiting")
      /\ UNCHANGED <<home, sock, ready, queue, known, refs, registered, closed, listening, exists>>
  BY WokenFacts DEF restart, Awaits, users
<1> QED
  BY <1>1, EndKept

LEMMA RestartThrowsKept ==
  ASSUME Inv, NEW k \in DOMAIN calls, RestartThrows(k)
  PROVE  Inv' /\ Steps
<1>1. Silent(k) /\ ~Over(calls[k])
  <2>1. \/ Woken(k, {"restart"}, "refusing") \/ Woken(k, {"restart"}, "connecting")
        \/ Woken(k, {"restart"}, "declaring")
    BY DEF RestartThrows
  <2> QED
    BY <2>1, WokenFacts DEF Awaits
<1>2. /\ End(k, "failed")
      /\ UNCHANGED <<home, sock, ready, queue, known, refs, registered, closed, listening, exists>>
  BY DEF RestartThrows, users
<1> QED
  BY <1>1, <1>2, EndKept

LEMMA LocatorRestartedKept ==
  ASSUME Inv, NEW k \in DOMAIN calls, LocatorRestarted(k)
  PROVE  Inv' /\ Steps
<1> DEFINE r == [calls[k] EXCEPT !.at = "consumers", !.todo = registered \cap Consumers]
<1>1. /\ Silent(k) /\ ~Over(calls[k]) /\ calls[k] \in Call
      /\ UNCHANGED <<home, sock, ready, queue, known, refs, registered, closed, listening, exists>>
  BY WokenFacts DEF LocatorRestarted, Awaits, users
<1>2. calls' = [calls EXCEPT ![k] = r]
  BY DEF LocatorRestarted, Inv, TypeOK
<1>3. /\ r \in Call /\ r.op = calls[k].op /\ r.user = calls[k].user /\ r.beside = calls[k].beside
      /\ r.at = "consumers" /\ r.todo = registered \cap Consumers
  <2> DEFINE t == registered \cap Consumers
  <2>1. t \in SUBSET Users /\ "consumers" \in Awaits
    BY DEF Inv, TypeOK, Awaits
  <2> HIDE DEF t
  <2>2. r = [calls[k] EXCEPT !.at = "consumers", !.todo = t]
    BY DEF t
  <2>3. /\ r \in Call /\ r.op = calls[k].op /\ r.user = calls[k].user /\ r.beside = calls[k].beside
        /\ r.at = "consumers" /\ r.todo = t
    BY <1>1, <2>1, <2>2 DEF Call
  <2> QED
    BY <2>3 DEF t
<1> HIDE DEF r
<1> QED
  BY <1>1, <1>2, <1>3, MovesKept

LEMMA RedeclaredKept ==
  ASSUME Inv, NEW k \in DOMAIN calls, Redeclared(k)
  PROVE  Inv' /\ Steps
<1> DEFINE at == IF calls[k].user \in Consumers THEN "consumers" ELSE "publishers"
           r == [calls[k] EXCEPT !.at = at]
<1>1. /\ Silent(k) /\ ~Over(calls[k]) /\ calls[k] \in Call
      /\ UNCHANGED <<home, sock, ready, queue, known, refs, registered, closed, listening, exists>>
  BY WokenFacts DEF Redeclared, Awaits, users
<1>2. calls' = [calls EXCEPT ![k] = r]
  BY DEF Redeclared, Inv, TypeOK
<1>3. at \in {"consumers", "publishers"}
  OBVIOUS
<1> HIDE DEF at
<1>4. /\ r \in Call /\ r.op = calls[k].op /\ r.user = calls[k].user /\ r.beside = calls[k].beside
      /\ r.at = at /\ r.todo = calls[k].todo
  BY <1>1, <1>3 DEF Call, Awaits
<1> HIDE DEF r
<1> QED
  BY <1>1, <1>2, <1>3, <1>4, MovesKept

LEMMA LoopEndsKept ==
  ASSUME Inv, NEW k \in DOMAIN calls, LoopEnds(k)
  PROVE  Inv' /\ Steps
<1>1. UNCHANGED <<home, sock, ready, queue, known, refs, registered, closed, listening, exists>>
  BY DEF LoopEnds, users
<1>2. CASE /\ Woken(k, {"restart"}, "consumers")
           /\ calls' = [calls EXCEPT ![k].at = "publishers", ![k].todo = registered \cap Publishers]
  <2> DEFINE r == [calls[k] EXCEPT !.at = "publishers", !.todo = registered \cap Publishers]
  <2>1. Silent(k) /\ ~Over(calls[k]) /\ calls[k] \in Call
    BY <1>2, WokenFacts DEF Awaits
  <2>2. calls' = [calls EXCEPT ![k] = r]
    BY <1>2 DEF Inv, TypeOK
  <2>3. /\ r \in Call /\ r.op = calls[k].op /\ r.user = calls[k].user /\ r.beside = calls[k].beside
        /\ r.at = "publishers" /\ r.todo = registered \cap Publishers
    <3> DEFINE t == registered \cap Publishers
    <3>1. t \in SUBSET Users /\ "publishers" \in Awaits
      BY DEF Inv, TypeOK, Awaits
    <3> HIDE DEF t
    <3>2. r = [calls[k] EXCEPT !.at = "publishers", !.todo = t]
      BY DEF t
    <3>3. /\ r \in Call /\ r.op = calls[k].op /\ r.user = calls[k].user /\ r.beside = calls[k].beside
          /\ r.at = "publishers" /\ r.todo = t
      BY <2>1, <3>1, <3>2 DEF Call
    <3> QED
      BY <3>3 DEF t
  <2> HIDE DEF r
  <2> QED
    BY <1>1, <2>1, <2>2, <2>3, MovesKept
<1>3. CASE Woken(k, {"restart"}, "publishers") /\ End(k, "done")
  <2>1. Silent(k) /\ ~Over(calls[k]) /\ calls[k].op = "restart"
    BY <1>3, WokenFacts DEF Awaits
  <2>2. calls[k].op \notin Closers
    BY <2>1 DEF Closers
  <2> QED
    BY <1>1, <1>3, <2>1, <2>2, EndKept
<1> QED
  BY <1>2, <1>3 DEF LoopEnds

(* Who still waits for connection c when it ends is left hanging.          *)
LEMMA AbandonFacts ==
  ASSUME Inv, NEW c, NEW q
  PROVE  /\ DOMAIN Abandon(calls, c, q) = DOMAIN calls
         /\ Abandon(calls, c, q) = [j \in DOMAIN calls |-> Abandon(calls, c, q)[j]]
         /\ \A j \in DOMAIN calls :
              /\ WaitsFor(j, c, q) => Abandon(calls, c, q)[j] = [calls[j] EXCEPT !.at = "hung"]
              /\ ~WaitsFor(j, c, q) => Abandon(calls, c, q)[j] = calls[j]
              /\ Abandon(calls, c, q)[j] \in Call /\ Passive(calls[j], Abandon(calls, c, q)[j])
<1> DEFINE a == Abandon(calls, c, q)
<1>1. a = [j \in DOMAIN calls |-> IF WaitsFor(j, c, q) THEN [calls[j] EXCEPT !.at = "hung"] ELSE calls[j]]
  BY DEF Abandon
<1>2. /\ DOMAIN a = DOMAIN calls /\ a = [j \in DOMAIN calls |-> a[j]]
      /\ \A j \in DOMAIN calls :
           /\ WaitsFor(j, c, q) => a[j] = [calls[j] EXCEPT !.at = "hung"]
           /\ ~WaitsFor(j, c, q) => a[j] = calls[j]
  BY <1>1
<1> HIDE DEF a
<1>3. ASSUME NEW j \in DOMAIN calls PROVE a[j] \in Call /\ Passive(calls[j], a[j])
  <2>1. calls[j] \in Call /\ Passive(calls[j], calls[j])
    BY CallFacts DEF Inv
  <2>2. /\ [calls[j] EXCEPT !.at = "hung"] \in Call
        /\ Passive(calls[j], [calls[j] EXCEPT !.at = "hung"])
    BY <2>1 DEF Passive, Call, Awaits
  <2> QED
    BY <1>2, <2>1, <2>2
<1> QED
  BY <1>2, <1>3 DEF a

(* The queue of connection c is emptied: who hangs has left no request     *)
(* elsewhere but for the end of a connection.                              *)
LEMMA QueueLost ==
  ASSUME Inv, home' = home, NEW c \in Conns, queue' = [queue EXCEPT ![c] = <<>>],
         DOMAIN calls \subseteq DOMAIN calls',
         \A j \in DOMAIN calls :
           \/ Silent(j) \/ SameAwait(calls[j], calls'[j])
           \/ calls'[j].at = "hung" /\ (calls[j].at = "connecting" \/ \E i \in DOMAIN queue[c] : queue[c][i].by = j)
           \/ \A d \in Conns \ {c} : \A i \in DOMAIN queue[d] : queue[d][i].by # j
  PROVE  QueueInv'
<1> USE DEF Inv
<1> DEFINE t == [d \in Conns |-> 0]
<1>1. t \in [Conns -> Nat] /\ \A d \in Conns : t[d] = 0
  OBVIOUS
<1> HIDE DEF t
<1>2. ASSUME NEW d \in Conns, NEW i \in DOMAIN queue'[d]
      PROVE  /\ i \in Nat /\ i + t[d] \in DOMAIN queue[d] /\ queue'[d][i] = queue[d][i + t[d]]
             /\ queue'[d][i].by \in DOMAIN calls'
             /\ \/ SameAwait(calls[queue'[d][i].by], calls'[queue'[d][i].by])
                \/ calls'[queue'[d][i].by].at = "hung" /\ queue'[d][i].req = "close"
  <2>1. d # c /\ queue'[d] = queue[d] /\ queue[d] \in Seq(Entry) /\ i \in DOMAIN queue[d]
    <3>1. CASE d = c
      <4>1. queue'[d] = <<>>
        BY <3>1 DEF TypeOK
      <4>2. DOMAIN <<>> = {}
        BY EmptySeq
      <4> QED
        BY <1>2, <4>1, <4>2
    <3> QED
      BY <1>2, <3>1 DEF TypeOK
  <2>2. i \in Nat
    BY <2>1, LenProperties
  <2>3. i + t[d] = i
    <3>1. t[d] = 0
      BY <1>1
    <3> QED
      BY <2>2, <3>1
  <2> DEFINE f == queue[d][i]
  <2>4. /\ f.by \in DOMAIN calls /\ ~Silent(f.by)
        /\ \A m \in DOMAIN queue[c] : queue[c][m].by = f.by => f.req = "close"
    BY <2>1 DEF QueueInv, Silent
  <2>5. \E b \in Conns \ {c} : \E m \in DOMAIN queue[b] : queue[b][m].by = f.by
    BY <2>1
  <2>6. calls[f.by].at # "connecting"
    BY <2>4, IdleIsSilent
  <2> HIDE DEF f
  <2>7. SameAwait(calls[f.by], calls'[f.by]) \/ (calls'[f.by].at = "hung" /\ f.req = "close")
    BY <2>4, <2>5, <2>6
  <2>8. queue'[d][i] = f /\ queue[d][i + t[d]] = f
    BY <2>1, <2>3 DEF f
  <2> QED
    BY <2>1, <2>2, <2>3, <2>4, <2>7, <2>8
<1> QED
  BY <1>1, <1>2, QueueShrinks

(* A restart, now in the form call, declares a user it was about to.       *)
LEMMA DeclareKept ==
  ASSUME Inv, NEW k \in DOMAIN calls, Silent(k), ~Over(calls[k]), calls[k].op = "restart",
         NEW call \in Call, call.op = "restart", call.beside = calls[k].beside, call.user \in Users,
         \A u \in Users : u \in call.todo \/ u = call.user => About(calls[k], u),
         declareOnConnection(k, call),
         UNCHANGED <<home, ready, known, refs, registered, closed, listening, exists>>
  PROVE  Inv' /\ Steps
<1> DEFINE c == home[call.user]
           n == Only(c)
           r == [call EXCEPT !.at = "declaring"]
<1>1. c \in Conns
  BY ConnFacts DEF Inv
<1>2. Request(k, r, "declare", n)
  BY DEF declareOnConnection
<1>3. /\ r \in Call /\ r.at = "declaring" /\ r.op = call.op /\ r.user = call.user
      /\ r.todo = call.todo /\ r.beside = call.beside
  BY DEF Call, Awaits
<1> HIDE DEF r
<1>4. \A d \in Conns : Only(c)[d] > 0 => Suits("declare", d, r)
  <2>1. Suits("declare", c, r)
    BY <1>3 DEF Suits
  <2> HIDE DEF c
  <2> QED
    BY <1>1, <2>1, OnlyFacts
<1>5. n \in [Conns -> Nat] /\ (\E d \in Conns : n = Only(d)) /\ \A d \in Conns : n[d] > 0 => Suits("declare", d, r)
  <2> HIDE DEF c
  <2> QED
    BY <1>1, <1>4, OnlyFacts
<1>6. /\ ready' \in [Conns -> BOOLEAN] /\ refs' \in [Conns -> Int] /\ "declare" \in Requests
      /\ closed' \subseteq Users /\ listening' \subseteq Users
  BY DEF Inv, TypeOK, Requests
<1>7. \A u \in Users : About(r, u) => About(calls[k], u)
  BY <1>3 DEF About
<1>8. "restart" \notin UserOps /\ "restart" \notin Closers
  BY DEF UserOps, Closers
<1> HIDE DEF n, c
<1> QED
  BY <1>2, <1>3, <1>5, <1>6, <1>7, <1>8, AskingKept

LEMMA ConnectionRestartedKept ==
  ASSUME Inv, NEW k \in DOMAIN calls, ConnectionRestarted(k)
  PROVE  Inv' /\ Steps
<1>1. /\ Silent(k) /\ ~Over(calls[k]) /\ calls[k] \in Call /\ calls[k].op = "restart"
      /\ calls[k].at = "connecting" /\ calls[k].conn # Locator
      /\ UNCHANGED <<home, ready, known, refs, registered, closed, listening, exists>>
      /\ declareOnConnection(k, calls[k])
  BY WokenFacts DEF ConnectionRestarted, Awaits, users
<1>2. Declaring(calls[k]) /\ calls[k].user \in Users
  BY <1>1 DEF Declaring, Inv, ClosedInv
<1>3. \A u \in Users : u \in calls[k].todo \/ u = calls[k].user => About(calls[k], u)
  BY <1>2 DEF About
<1> QED
  BY <1>1, <1>2, <1>3, DeclareKept

(* A restart, now in the form call, opens a new socket of connection c.    *)
LEMMA ReconnectKept ==
  ASSUME Inv, NEW k \in DOMAIN calls, Silent(k), ~Over(calls[k]), calls[k].op = "restart",
         NEW call \in Call, call.op = "restart", call.beside = calls[k].beside,
         NEW c \in Conns, c # Locator => call.user \in Users,
         \A u \in Users : u \in call.todo => About(calls[k], u),
         c # Locator => About(calls[k], call.user),
         Reconnect(k, call, c),
         UNCHANGED <<home, ready, refs, registered, closed, listening, exists>>
  PROVE  Inv' /\ Steps
<1> USE DEF Inv
<1> DEFINE a == Abandon(calls, c, queue[c])
           r == [call EXCEPT !.at = "connecting", !.conn = c, !.seen = @ \cup {c}, !.wake = "no"]
<1>1. /\ sock' = [sock EXCEPT ![c] = "opening"] /\ queue' = [queue EXCEPT ![c] = <<>>]
      /\ known' = [known EXCEPT ![c] = {}] /\ calls' = [a EXCEPT ![k] = r]
  BY DEF Reconnect
<1>2. /\ r \in Call /\ r.at = "connecting" /\ r.conn = c /\ r.op = "restart" /\ r.user = call.user
      /\ r.todo = call.todo /\ r.beside = call.beside
  BY DEF Call, Awaits, Wakes
<1> HIDE DEF r
<1>3. /\ DOMAIN a = DOMAIN calls /\ a = [j \in DOMAIN calls |-> a[j]]
      /\ \A j \in DOMAIN calls :
           /\ WaitsFor(j, c, queue[c]) => a[j] = [calls[j] EXCEPT !.at = "hung"]
           /\ ~WaitsFor(j, c, queue[c]) => a[j] = calls[j]
           /\ a[j] \in Call /\ Passive(calls[j], a[j])
  BY AbandonFacts
<1> HIDE DEF a
<1>4. /\ DOMAIN calls' = DOMAIN calls /\ calls' = [j \in DOMAIN calls |-> calls'[j]]
      /\ calls'[k] = r /\ \A j \in DOMAIN calls : j # k => calls'[j] = a[j]
  BY <1>1, <1>3
<1>5. \A j \in DOMAIN calls : calls'[j] \in Call
  BY <1>2, <1>3, <1>4
<1>6. calls' \in Seq(Call) /\ Len(calls') = Len(calls)
  BY <1>4, <1>5, CallsAreSeq
<1>7. Acts(k)
  BY <1>2, <1>4 DEF Acts, About, Declaring, Gone, Closers, UserOps
<1>8. \A j \in DOMAIN calls : Passive(calls[j], calls'[j]) \/ Acts(j)
  BY <1>3, <1>4, <1>7
<1>9. QueueInv'
  <2>1. ASSUME NEW j \in DOMAIN calls
        PROVE  \/ Silent(j) \/ SameAwait(calls[j], calls'[j])
               \/ calls'[j].at = "hung" /\ (calls[j].at = "connecting" \/ \E i \in DOMAIN queue[c] : queue[c][i].by = j)
    <3>1. CASE j = k
      BY <3>1
    <3>2. CASE j # k /\ ~WaitsFor(j, c, queue[c])
      BY <1>3, <1>4, <3>2 DEF SameAwait
    <3>3. CASE j # k /\ WaitsFor(j, c, queue[c])
      <4>1. calls'[j] = [calls[j] EXCEPT !.at = "hung"] /\ calls[j] \in Call
        BY <1>3, <1>4, <3>3, CallFacts
      <4>2. calls'[j].at = "hung"
        BY <4>1 DEF Call
      <4> QED
        BY <3>3, <4>2 DEF WaitsFor
    <3> QED
      BY <3>1, <3>2, <3>3
  <2>2. home' = home /\ DOMAIN calls \subseteq DOMAIN calls'
    BY <1>4
  <2> QED
    BY <1>1, <2>1, <2>2, QueueLost
<1>10. KnownInv' /\ Learns /\ \A d \in Conns : ~exists[d] => ~exists'[d]
  <2>1. Conns' = Conns /\ \A d \in Conns : UsersOf(d)' = UsersOf(d)
    BY HomeStays DEF UsersOf
  <2>2. \A d \in Conns : known'[d] \subseteq known[d]
    BY <1>1 DEF TypeOK
  <2>3. \A u \in Users : home[u] \in Conns
    BY ConnFacts
  <2> QED
    BY <2>1, <2>2, <2>3 DEF KnownInv, Learns
<1>11. ClosedInv'
  BY <1>4, <1>8, <1>10, ClosedKept
<1>12. TypeOK'
  <2>1. /\ sock' \in [Conns -> {"open", "opening", "half", "down"}]
        /\ known' \in [Conns -> SUBSET Users]
    BY <1>1 DEF TypeOK
  <2>2. queue' \in [Conns -> Seq(Entry)]
    <3>1. <<>> \in Seq(Entry)
      BY EmptySeq
    <3> QED
      BY <1>1, <3>1 DEF TypeOK
  <2> QED
    BY <1>6, <2>1, <2>2, HomeStays DEF TypeOK
<1>13. Steps
  BY <1>4, <1>8 DEF Steps
<1> QED
  BY <1>9, <1>10, <1>11, <1>12, <1>13

LEMMA RestartLocatorKept ==
  ASSUME Inv, NEW k \in DOMAIN calls, RestartLocator(k)
  PROVE  Inv' /\ Steps
<1>1. /\ calls[k].op = "restart" /\ calls[k].at = "waiting" /\ Reconnect(k, calls[k], Locator)
      /\ UNCHANGED <<home, ready, refs, registered, closed, listening, exists>>
  BY DEF RestartLocator, users
<1>2. Silent(k) /\ ~Over(calls[k]) /\ calls[k] \in Call /\ Locator \in Conns
  BY <1>1, IdleIsSilent, CallFacts, ConnFacts DEF Inv, Over
<1>3. \A u \in Users : u \in calls[k].todo => About(calls[k], u)
  BY DEF About
<1> QED
  BY <1>1, <1>2, <1>3, ReconnectKept

LEMMA NextUserKept ==
  ASSUME Inv, NEW k \in DOMAIN calls, NextUser(k)
  PROVE  Inv' /\ Steps
<1>1. Silent(k) /\ ~Over(calls[k]) /\ calls[k] \in Call /\ calls[k].op = "restart"
  <2>1. Woken(k, {"restart"}, "consumers") \/ Woken(k, {"restart"}, "publishers")
    BY DEF NextUser
  <2> QED
    BY <2>1, WokenFacts DEF Awaits
<1>2. UNCHANGED <<home, ready, refs, registered, closed, listening, exists>>
  BY DEF NextUser, users
<1>3. PICK u \in calls[k].todo :
        \/ /\ declareOnConnection(k, [calls[k] EXCEPT !.user = u, !.todo = @ \ {u}])
           /\ UNCHANGED known
        \/ Reconnect(k, [calls[k] EXCEPT !.user = u, !.todo = @ \ {u}], home[u])
  BY DEF NextUser
<1> DEFINE call == [calls[k] EXCEPT !.user = u, !.todo = @ \ {u}]
<1>4. u \in Users
  BY <1>1 DEF Call
<1>5. home[u] \in Conns /\ u \in Nat
  BY <1>4, ConnFacts DEF Inv
<1>6. /\ call \in Call /\ call.op = "restart" /\ call.beside = calls[k].beside /\ call.user = u
      /\ call.todo \subseteq calls[k].todo
  BY <1>1, <1>5 DEF Call
<1>7. (declareOnConnection(k, call) /\ UNCHANGED known) \/ Reconnect(k, call, home[u])
  BY <1>3
<1> HIDE DEF call
<1>8. \A v \in Users : v \in call.todo \/ v = call.user => About(calls[k], v)
  BY <1>6 DEF About
<1>9. CASE declareOnConnection(k, call) /\ UNCHANGED known
  BY <1>1, <1>2, <1>4, <1>6, <1>8, <1>9, DeclareKept
<1>10. CASE Reconnect(k, call, home[u])
  <2> DEFINE c == home[u]
  <2>1. c \in Conns /\ Reconnect(k, call, c)
    BY <1>5, <1>10
  <2> HIDE DEF c
  <2> QED
    BY <1>1, <1>2, <1>4, <1>6, <1>8, <2>1, ReconnectKept
<1> QED
  BY <1>7, <1>9, <1>10

LEMMA RefusedKept ==
  ASSUME Inv, NEW k \in DOMAIN calls, Refused(k)
  PROVE  Inv' /\ Steps
<1> DEFINE u == calls[k].user
<1>1. /\ Silent(k) /\ ~Over(calls[k]) /\ calls[k].op = "restart" /\ calls[k] \in Call
      /\ calls[k].at = "declaring"
      /\ UNCHANGED <<home, ready, known, refs, closed, listening, exists>>
  BY WokenFacts DEF Refused, Awaits
<1>2. CASE /\ registered' = registered \ {u}
           /\ calls' = Forget(u, [calls EXCEPT ![k].at = "failed", ![k].wake = "no"])
           /\ UNCHANGED <<sock, queue>>
  <2> DEFINE r == [calls[k] EXCEPT !.at = "failed", !.wake = "no"]
  <2>1. calls' = Forget(u, [calls EXCEPT ![k] = r])
    <3>1. [calls EXCEPT ![k].at = "failed", ![k].wake = "no"] = [calls EXCEPT ![k] = r]
      BY DEF Inv, TypeOK
    <3> QED
      BY <1>2, <3>1
  <2>2. /\ r \in Call /\ r.op = "restart" /\ r.user = u /\ r.beside = calls[k].beside
        /\ r.at = "failed" /\ r.todo = calls[k].todo
    BY <1>1 DEF Call, Awaits, Wakes
  <2> HIDE DEF r
  <2>3. /\ Others(k) /\ (\A j \in DOMAIN calls : j # k => SameAwait(calls[j], calls'[j]))
        /\ calls'[k].op = r.op /\ calls'[k].user = r.user /\ calls'[k].at = r.at
        /\ calls'[k].beside = r.beside /\ calls'[k].todo \subseteq r.todo
    BY <2>1, <2>2, ForgetFacts DEF Inv
  <2>4. Acts(k)
    BY <1>1, <2>2, <2>3 DEF Acts, About, Declaring, UserOps, Closers
  <2>5. closed' \subseteq Users /\ registered' \subseteq registered
    BY <1>1, <1>2 DEF Inv, TypeOK
  <2> QED
    BY <1>1, <1>2, <2>3, <2>4, <2>5, StillKept
<1>3. CASE Request(k, At(k, "refusing"), "end", Only(home[u])) /\ UNCHANGED registered
  <2> DEFINE c == home[u]
  <2>1. c \in Conns /\ Request(k, At(k, "refusing"), "end", Only(c))
    <3>1. u \in Users
      BY <1>1 DEF Inv, ClosedInv, Declaring
    <3> QED
      BY <1>3, <3>1, ConnFacts DEF Inv
  <2> HIDE DEF c
  <2>2. "refusing" \in Awaits /\ "end" \in Requests
    BY DEF Awaits, Requests
  <2>3. \A call : call.at = "refusing" => Suits("end", c, call)
    BY DEF Suits
  <2> QED
    BY <1>1, <1>3, <2>1, <2>2, <2>3, AskOneKept
<1> QED
  BY <1>2, <1>3 DEF Refused

LEMMA ContinueKept ==
  ASSUME Inv, NEW k \in DOMAIN calls, Continue(k)
  PROVE  Inv' /\ Steps
BY ReleasedKept, CloseUserKept, closeConsumerKept, UnsubscribeKept, closingKept,
   deletePublisherKept, DeletedKept, ThrowsKept, closeAllPublishersKept, closeAllConsumersKept,
   CloseLocatorKept, ClosedStepKept, restartKept, LocatorRestartedKept, NextUserKept,
   ConnectionRestartedKept, RedeclaredKept, LoopEndsKept, RefusedKept, RestartThrowsKept
   DEF Continue

-----------------------------------------------------------------------------
(* Sockets and the broker.                                                 *)

(* What happens to a call that waits, without its doing: it is woken, it   *)
(* hangs, a failure is noted.                                              *)
LEMMA UpsetFacts ==
  ASSUME NEW cs, \A j \in DOMAIN cs : cs[j] \in Call
  PROVE  /\ DOMAIN Upset(cs) = DOMAIN cs /\ Upset(cs) = [j \in DOMAIN cs |-> Upset(cs)[j]]
         /\ \A j \in DOMAIN cs :
              /\ Upset(cs)[j] \in Call /\ Upset(cs)[j].at = cs[j].at
              /\ Passive(cs[j], Upset(cs)[j]) /\ SameAwait(cs[j], Upset(cs)[j])
<1>1. /\ DOMAIN Upset(cs) = DOMAIN cs /\ Upset(cs) = [j \in DOMAIN cs |-> Upset(cs)[j]]
      /\ \A j \in DOMAIN cs : Upset(cs)[j] = [cs[j] EXCEPT !.upset = TRUE]
  BY DEF Upset
<1>2. \A c \in Call : LET d == [c EXCEPT !.upset = TRUE] IN
         d \in Call /\ Passive(c, d) /\ SameAwait(c, d)
  BY DEF Call, Passive, SameAwait
<1> QED
  BY <1>1, <1>2, ZenonT(30) DEF SameAwait

(* A step that no call takes itself.                                       *)
LEMMA EnvironmentKept ==
  ASSUME Inv, QueueInv', DOMAIN calls' = DOMAIN calls, calls' = [j \in DOMAIN calls |-> calls'[j]],
         \A j \in DOMAIN calls : calls'[j] \in Call,
         \A j \in DOMAIN calls : Passive(calls[j], calls'[j]) \/ Acts(j),
         Learns, KnownInv', UNCHANGED <<home, refs, registered, closed, listening, exists>>,
         sock' \in [Conns -> {"open", "opening", "half", "down"}], ready' \in [Conns -> BOOLEAN],
         queue' \in [Conns -> Seq(Entry)], known' \in [Conns -> SUBSET Users]
  PROVE  Inv' /\ Steps
<1> USE DEF Inv
<1>1. calls' \in Seq(Call)
  BY CallsAreSeq
<1>2. ClosedInv'
  BY ClosedKept
<1>3. TypeOK'
  BY <1>1, HomeStays DEF TypeOK
<1> QED
  BY <1>2, <1>3 DEF Steps

(* A restart that waits for a socket is woken.                             *)
LEMMA SocketWakes ==
  ASSUME Inv, NEW k \in DOMAIN calls, calls[k].at = "connecting", NEW wake \in Wakes,
         NEW cs, cs = Wake(k, wake)
  PROVE  /\ DOMAIN cs = DOMAIN calls /\ cs = [j \in DOMAIN calls |-> cs[j]]
         /\ \A j \in DOMAIN calls : cs[j] \in Call /\ (j # k => cs[j] = calls[j])
         /\ cs[k].at = calls[k].at /\ cs[k].op = calls[k].op /\ cs[k].user = calls[k].user
         /\ cs[k].conn = calls[k].conn /\ cs[k].todo = calls[k].todo /\ cs[k].beside = calls[k].beside
<1> DEFINE r == [calls[k] EXCEPT !.wake = wake]
<1>1. cs = [calls EXCEPT ![k] = r]
  BY DEF Wake, Inv, TypeOK
<1>2. /\ r \in Call /\ r.at = calls[k].at /\ r.op = calls[k].op /\ r.user = calls[k].user
      /\ r.conn = calls[k].conn /\ r.todo = calls[k].todo /\ r.beside = calls[k].beside
  BY CallFacts DEF Inv, Call
<1> HIDE DEF r
<1>3. \A j \in DOMAIN calls : calls[j] \in Call
  BY CallFacts DEF Inv
<1> QED
  BY <1>1, <1>2, <1>3 DEF Inv, TypeOK

(* A call that is given an answer, or an error, has still to act on it.    *)
LEMMA WakeActs ==
  ASSUME Inv, NEW k \in DOMAIN calls, ~Over(calls[k]),
         calls'[k].at = calls[k].at, calls'[k].op = calls[k].op, calls'[k].user = calls[k].user,
         calls'[k].conn = calls[k].conn, calls'[k].todo = calls[k].todo, calls'[k].beside = calls[k].beside,
         calls[k].at = "metadata" /\ calls'[k].wake = "refused" => ~exists'[home[calls[k].user]],
         /\ calls[k].op \in Closers /\ "restart" \notin calls[k].beside /\ Gone(calls'[k])
         => calls[k].user \notin known'[home[calls[k].user]]
  PROVE  Acts(k)
<1>1. calls'[k].at # "done"
  BY DEF Over
<1>2. /\ About(calls'[k], calls[k].user) => About(calls[k], calls[k].user)
      /\ \A u \in Users : About(calls'[k], u) => About(calls[k], u)
      /\ Declaring(calls'[k]) => Declaring(calls[k])
  BY DEF About, Declaring
<1> QED
  BY <1>1, <1>2 DEF Acts, Inv, ClosedInv

LEMMA ConnectedKept ==
  ASSUME Inv, NEW c \in Conns, Connected(c)
  PROVE  Inv' /\ Steps
<1> USE DEF Inv
<1>1. PICK k \in DOMAIN calls : calls[k].at = "connecting" /\ calls' = Wake(k, "ok")
  BY DEF Connected
<1>2. /\ UNCHANGED <<home, queue, known, refs, registered, closed, listening, exists>>
      /\ sock' \in [Conns -> {"open", "opening", "half", "down"}] /\ ready' \in [Conns -> BOOLEAN]
  BY DEF Connected, users, TypeOK
<1>3. /\ DOMAIN calls' = DOMAIN calls /\ calls' = [j \in DOMAIN calls |-> calls'[j]]
      /\ \A j \in DOMAIN calls : calls'[j] \in Call /\ (j # k => calls'[j] = calls[j])
      /\ calls'[k].at = calls[k].at /\ calls'[k].op = calls[k].op /\ calls'[k].user = calls[k].user
      /\ calls'[k].conn = calls[k].conn /\ calls'[k].todo = calls[k].todo
      /\ calls'[k].beside = calls[k].beside
  BY <1>1, SocketWakes DEF Wakes
<1>4. Silent(k) /\ ~Over(calls[k])
  BY <1>1, IdleIsSilent DEF Over
<1>5. Acts(k)
  BY <1>1, <1>3, <1>4, WakeActs DEF Gone
<1>6. \A j \in DOMAIN calls : Passive(calls[j], calls'[j]) \/ Acts(j)
  BY <1>3, <1>5, CallFacts
<1>7. QueueInv'
  <2>1. \A j \in DOMAIN calls : Silent(j) \/ SameAwait(calls[j], calls'[j])
    BY <1>3, <1>4 DEF SameAwait
  <2> QED
    BY <1>2, <1>3, <2>1, QueueStays
<1>8. /\ KnownInv' /\ Learns /\ queue' \in [Conns -> Seq(Entry)]
      /\ known' \in [Conns -> SUBSET Users]
  BY <1>2, KnownStays DEF TypeOK
<1> QED
  BY <1>2, <1>3, <1>6, <1>7, <1>8, EnvironmentKept

LEMMA ConnectFailsKept ==
  ASSUME Inv, NEW c \in Conns, ConnectFails(c)
  PROVE  Inv' /\ Steps
<1> USE DEF Inv
<1>1. PICK k \in DOMAIN calls : calls[k].at = "connecting" /\ calls' = Upset(Wake(k, "error"))
  BY DEF ConnectFails
<1>2. /\ UNCHANGED <<home, queue, known, refs, registered, closed, listening, exists>>
      /\ sock' \in [Conns -> {"open", "opening", "half", "down"}] /\ ready' \in [Conns -> BOOLEAN]
  BY DEF ConnectFails, users, TypeOK
<1> DEFINE w == Wake(k, "error")
<1>3. /\ DOMAIN w = DOMAIN calls
      /\ \A j \in DOMAIN calls : w[j] \in Call /\ (j # k => w[j] = calls[j])
      /\ w[k].at = calls[k].at /\ w[k].op = calls[k].op /\ w[k].user = calls[k].user
      /\ w[k].conn = calls[k].conn /\ w[k].todo = calls[k].todo
      /\ w[k].beside = calls[k].beside
  BY <1>1, SocketWakes DEF Wakes
<1>4. calls' = Upset(w)
  BY <1>1
<1> HIDE DEF w
<1>5. /\ DOMAIN calls' = DOMAIN calls /\ calls' = [j \in DOMAIN calls |-> calls'[j]]
      /\ \A j \in DOMAIN calls :
           calls'[j] \in Call /\ Passive(w[j], calls'[j]) /\ SameAwait(w[j], calls'[j])
  BY <1>3, <1>4, UpsetFacts
<1>6. Silent(k) /\ ~Over(calls[k])
  BY <1>1, IdleIsSilent DEF Over
<1>7. Acts(k)
  <2>1. SameAwait(w[k], calls'[k]) /\ Passive(w[k], calls'[k])
    BY <1>5
  <2>2. calls'[k].at = "connecting" /\ calls'[k].op = calls[k].op /\ calls'[k].user = calls[k].user
        /\ calls'[k].conn = calls[k].conn /\ calls'[k].todo \subseteq calls[k].todo
        /\ calls[k].beside \subseteq calls'[k].beside
    BY <1>1, <1>3, <2>1 DEF Passive, SameAwait
  <2> QED
    BY <1>1, <1>6, <2>2 DEF Acts, About, Declaring, Gone, ClosedInv
<1>8. \A j \in DOMAIN calls : Passive(calls[j], calls'[j]) \/ Acts(j)
  BY <1>3, <1>5, <1>7
<1>9. QueueInv'
  <2>1. \A j \in DOMAIN calls : Silent(j) \/ SameAwait(calls[j], calls'[j])
    BY <1>3, <1>5, <1>6
  <2> QED
    BY <1>2, <1>5, <2>1, QueueStays
<1>10. /\ KnownInv' /\ Learns /\ queue' \in [Conns -> Seq(Entry)]
       /\ known' \in [Conns -> SUBSET Users]
  BY <1>2, KnownStays DEF TypeOK
<1> QED
  BY <1>2, <1>5, <1>8, <1>9, <1>10, EnvironmentKept

LEMMA SocketClosesKept ==
  ASSUME Inv, NEW c \in Conns, SocketCloses(c)
  PROVE  Inv' /\ Steps
<1> USE DEF Inv
<1>1. /\ UNCHANGED <<home, queue, known, refs, registered, closed, listening, exists, calls>>
      /\ sock' \in [Conns -> {"open", "opening", "half", "down"}] /\ ready' \in [Conns -> BOOLEAN]
  BY DEF SocketCloses, users, TypeOK
<1>2. \A j \in DOMAIN calls : calls[j] \in Call /\ Passive(calls[j], calls'[j]) /\ SameAwait(calls[j], calls'[j])
  BY <1>1, CallFacts DEF SameAwait
<1>3. QueueInv'
  BY <1>1, <1>2, QueueStays
<1>4. /\ KnownInv' /\ Learns /\ queue' \in [Conns -> Seq(Entry)]
      /\ known' \in [Conns -> SUBSET Users]
  BY <1>1, KnownStays DEF TypeOK
<1>5. DOMAIN calls' = DOMAIN calls /\ calls' = [j \in DOMAIN calls |-> calls'[j]]
  BY <1>1 DEF TypeOK
<1> QED
  BY <1>1, <1>2, <1>3, <1>4, <1>5, EnvironmentKept

(* Connection c is lost: the broker forgets who is on it.                  *)
LEMMA KnownLost ==
  ASSUME Inv, NEW c \in Conns, UNCHANGED <<home, exists>>, known' = [known EXCEPT ![c] = {}]
  PROVE  /\ KnownInv' /\ Learns /\ known' \in [Conns -> SUBSET Users]
         /\ \A d \in Conns : known'[d] \subseteq known[d]
<1>1. Conns' = Conns /\ \A d \in Conns : UsersOf(d)' = UsersOf(d)
  BY HomeStays DEF UsersOf
<1>2. known' \in [Conns -> SUBSET Users] /\ \A d \in Conns : known'[d] \subseteq known[d]
  BY DEF Inv, TypeOK
<1>3. \A u \in Users : home[u] \in Conns
  BY ConnFacts DEF Inv
<1> QED
  BY <1>1, <1>2, <1>3 DEF Inv, KnownInv, Learns

LEMMA EmptiedQueue ==
  ASSUME Inv, NEW c \in Conns, queue' = [queue EXCEPT ![c] = <<>>]
  PROVE  queue' \in [Conns -> Seq(Entry)]
<1>1. <<>> \in Seq(Entry)
  BY EmptySeq
<1> QED
  BY <1>1 DEF Inv, TypeOK

LEMMA DropKept ==
  ASSUME Inv, NEW c \in Conns, Drop(c)
  PROVE  Inv' /\ Steps
<1> USE DEF Inv
<1> DEFINE a == Abandon(calls, c, queue[c])
<1>1. /\ UNCHANGED <<home, ready, refs, registered, closed, listening, exists>>
      /\ queue' = [queue EXCEPT ![c] = <<>>] /\ known' = [known EXCEPT ![c] = {}]
      /\ calls' = Upset(a)
  BY DEF Drop, users
<1>2. sock' \in [Conns -> {"open", "opening", "half", "down"}] /\ ready' \in [Conns -> BOOLEAN]
  BY DEF Drop, TypeOK
<1>3. /\ DOMAIN a = DOMAIN calls
      /\ \A j \in DOMAIN calls :
           /\ WaitsFor(j, c, queue[c]) => a[j] = [calls[j] EXCEPT !.at = "hung"]
           /\ ~WaitsFor(j, c, queue[c]) => a[j] = calls[j]
           /\ a[j] \in Call /\ Passive(calls[j], a[j])
  BY AbandonFacts
<1> HIDE DEF a
<1>4. /\ DOMAIN calls' = DOMAIN calls /\ calls' = [j \in DOMAIN calls |-> calls'[j]]
      /\ \A j \in DOMAIN calls :
           /\ calls'[j] \in Call /\ calls'[j].at = a[j].at
           /\ Passive(a[j], calls'[j]) /\ SameAwait(a[j], calls'[j])
  BY <1>1, <1>3, UpsetFacts
<1>5. \A j \in DOMAIN calls : Passive(calls[j], calls'[j])
  BY <1>3, <1>4 DEF Passive
<1>6. QueueInv'
  <2>1. ASSUME NEW j \in DOMAIN calls
        PROVE  \/ Silent(j) \/ SameAwait(calls[j], calls'[j])
               \/ calls'[j].at = "hung" /\ (calls[j].at = "connecting" \/ \E i \in DOMAIN queue[c] : queue[c][i].by = j)
    <3>1. CASE ~WaitsFor(j, c, queue[c])
      BY <1>3, <1>4, <3>1
    <3>2. CASE WaitsFor(j, c, queue[c])
      <4>1. a[j] = [calls[j] EXCEPT !.at = "hung"] /\ calls[j] \in Call
        BY <1>3, <3>2, CallFacts
      <4>2. calls'[j].at = "hung"
        BY <1>4, <4>1 DEF Call
      <4> QED
        BY <3>2, <4>2 DEF WaitsFor
    <3> QED
      BY <3>1, <3>2
  <2> QED
    BY <1>1, <1>4, <2>1, QueueLost
<1>7. KnownInv' /\ Learns /\ known' \in [Conns -> SUBSET Users] /\ queue' \in [Conns -> Seq(Entry)]
  BY <1>1, KnownLost, EmptiedQueue
<1> QED
  BY <1>1, <1>2, <1>4, <1>5, <1>6, <1>7, EnvironmentKept

LEMMA CloseAnsweredKept ==
  ASSUME Inv, NEW c \in Conns, CloseAnswered(c)
  PROVE  Inv' /\ Steps
<1> USE DEF Inv
<1> DEFINE f == Head(queue[c])
           k == f.by
           q == Tail(queue[c])
           left == Abandon(calls, c, q)
           more == \E d \in Conns \ {c} : WaitsFor(k, d, queue[d])
<1>1. /\ UNCHANGED <<home, ready, refs, registered, closed, listening, exists>>
      /\ queue' = [queue EXCEPT ![c] = <<>>] /\ known' = [known EXCEPT ![c] = {}]
      /\ calls' = IF more \/ left[k].at = "hung" THEN left ELSE [left EXCEPT ![k].wake = "ok"]
      /\ queue[c] # <<>>
  BY DEF CloseAnswered, users
<1>2. sock' \in [Conns -> {"open", "opening", "half", "down"}] /\ ready' \in [Conns -> BOOLEAN]
  BY DEF CloseAnswered, TypeOK
<1>3. /\ 1 \in DOMAIN queue[c] /\ f = queue[c][1]
      /\ \A i \in DOMAIN q : \E m \in DOMAIN queue[c] : q[i] = queue[c][m]
  <2>1. queue[c] \in Seq(Entry) /\ queue[c] # <<>>
    BY <1>1 DEF TypeOK
  <2> DEFINE s == queue[c]
  <2>2. /\ 1 \in DOMAIN s /\ Head(s) = s[1]
        /\ \A i \in DOMAIN Tail(s) : \E m \in DOMAIN s : Tail(s)[i] = s[m]
    <3>1. s \in Seq(Entry) /\ s # <<>>
      BY <2>1
    <3> HIDE DEF s
    <3>2. Len(s) \in Nat \ {0} /\ DOMAIN s = 1 .. Len(s) /\ Head(s) = s[1]
      BY <3>1, EmptySeq, LenProperties, HeadTailProperties
    <3>3. /\ DOMAIN Tail(s) = 1 .. Len(s) - 1 /\ \A i \in 1 .. Len(s) - 1 : Tail(s)[i] = s[i + 1]
      BY <3>1, HeadTailProperties, LenProperties
    <3>4. \A i \in 1 .. Len(s) - 1 : i + 1 \in 1 .. Len(s)
      BY <3>2
    <3> QED
      BY <3>2, <3>3, <3>4
  <2> QED
    BY <2>2
<1> HIDE DEF f, q
<1>4. k \in DOMAIN calls /\ Fits(f, c, calls[k])
  BY <1>3 DEF QueueInv
<1>5. /\ DOMAIN left = DOMAIN calls /\ left = [j \in DOMAIN calls |-> left[j]]
      /\ \A j \in DOMAIN calls :
           /\ WaitsFor(j, c, q) => left[j] = [calls[j] EXCEPT !.at = "hung"]
           /\ ~WaitsFor(j, c, q) => left[j] = calls[j]
           /\ left[j] \in Call /\ Passive(calls[j], left[j])
  BY AbandonFacts
<1> HIDE DEF left
<1> DEFINE r == [left[k] EXCEPT !.wake = "ok"]
<1>6. /\ r \in Call /\ r.at = left[k].at /\ r.op = left[k].op /\ r.user = left[k].user
      /\ r.conn = left[k].conn /\ r.todo = left[k].todo /\ r.beside = left[k].beside
  <2>1. left[k] \in Call
    BY <1>4, <1>5
  <2> QED
    BY <2>1 DEF Call, Wakes
<1>7. [left EXCEPT ![k].wake = "ok"] = [left EXCEPT ![k] = r]
  BY <1>4, <1>5
<1> HIDE DEF r
<1>8. /\ DOMAIN calls' = DOMAIN calls /\ calls' = [j \in DOMAIN calls |-> calls'[j]]
      /\ \A j \in DOMAIN calls : j # k => calls'[j] = left[j]
      /\ calls'[k] = left[k] \/ (calls'[k] = r /\ ~more /\ left[k].at # "hung")
  BY <1>1, <1>4, <1>5, <1>7
<1> HIDE DEF more
<1>9. \A j \in DOMAIN calls : calls'[j] \in Call
  BY <1>5, <1>6, <1>8
<1>10. KnownInv' /\ Learns /\ known' \in [Conns -> SUBSET Users] /\ queue' \in [Conns -> Seq(Entry)]
       /\ \A d \in Conns : known'[d] \subseteq known[d]
  BY <1>1, KnownLost, EmptiedQueue
<1>11. ASSUME calls'[k] = r, left[k].at # "hung" PROVE Acts(k)
  <2>1. calls[k] \in Call /\ left[k] = calls[k] /\ calls[k].at # "hung"
    <3>1. CASE WaitsFor(k, c, q)
      <4>1. left[k].at = "hung"
        BY <1>4, <1>5, <3>1, CallFacts DEF Call
      <4> QED
        BY <1>11, <4>1
    <3>2. CASE ~WaitsFor(k, c, q)
      BY <1>4, <1>5, <1>11, <3>2, CallFacts
    <3> QED
      BY <3>1, <3>2
  <2>2. f.req \in {"close", "end"}
    BY DEF CloseAnswered, f
  <2>3. calls[k].at \in {"releasing", "publishers", "consumers", "locator", "refusing"}
    BY <1>4, <2>1, <2>2 DEF Fits, Suits
  <2>4. /\ calls'[k].at = calls[k].at /\ calls'[k].op = calls[k].op /\ calls'[k].user = calls[k].user
        /\ calls'[k].conn = calls[k].conn /\ calls'[k].todo = calls[k].todo
        /\ calls'[k].beside = calls[k].beside
    BY <1>6, <1>11, <2>1
  <2>5. ASSUME calls[k].op \in Closers, "restart" \notin calls[k].beside, Gone(calls'[k])
        PROVE  calls[k].user \notin known'[home[calls[k].user]]
    <3>1. Gone(calls[k])
      BY <2>3, <2>4, <2>5 DEF Gone
    <3>2. calls[k].user \in Users /\ calls[k].user \notin known[home[calls[k].user]]
      BY <1>4, <2>5, <3>1 DEF ClosedInv, CloseInv
    <3>3. home[calls[k].user] \in Conns
      BY <3>2, ConnFacts
    <3> QED
      BY <1>10, <3>2, <3>3
  <2>6. ~Over(calls[k])
    BY <2>3 DEF Over
  <2>7. calls[k].at # "metadata"
    BY <2>3
  <2> HIDE DEF k
  <2> QED
    BY <1>4, <2>4, <2>5, <2>6, <2>7, WakeActs
<1>12. \A j \in DOMAIN calls : Passive(calls[j], calls'[j]) \/ Acts(j)
  BY <1>5, <1>8, <1>11
<1>13. QueueInv'
  <2>1. ASSUME NEW j \in DOMAIN calls
        PROVE  \/ Silent(j) \/ SameAwait(calls[j], calls'[j])
               \/ calls'[j].at = "hung" /\ (calls[j].at = "connecting" \/ \E i \in DOMAIN queue[c] : queue[c][i].by = j)
               \/ \A d \in Conns \ {c} : \A i \in DOMAIN queue[d] : queue[d][i].by # j
    <3>1. CASE calls'[j] = left[j] /\ ~WaitsFor(j, c, q)
      BY <1>5, <3>1 DEF SameAwait
    <3>2. CASE calls'[j] = left[j] /\ WaitsFor(j, c, q)
      <4>1. calls'[j] = [calls[j] EXCEPT !.at = "hung"] /\ calls[j] \in Call
        BY <1>5, <3>2, CallFacts
      <4>2. calls'[j].at = "hung"
        BY <4>1 DEF Call
      <4>3. calls[j].at = "connecting" \/ \E i \in DOMAIN queue[c] : queue[c][i].by = j
        BY <1>3, <3>2 DEF WaitsFor
      <4> QED
        BY <4>2, <4>3
    <3>3. CASE j = k /\ ~more
      BY <3>3 DEF more, WaitsFor
    <3> QED
      BY <1>8, <3>1, <3>2, <3>3
  <2> QED
    BY <1>1, <1>8, <2>1, QueueLost
<1> QED
  BY <1>1, <1>2, <1>8, <1>9, <1>10, <1>12, <1>13, EnvironmentKept

LEMMA BrokerAnswersKept ==
  ASSUME Inv, NEW c \in Conns, BrokerAnswers(c)
  PROVE  Inv' /\ Steps
<1> USE DEF Inv
<1> DEFINE f == Head(queue[c])
           k == f.by
           u == calls[k].user
           v == Verdict(f.req, u, c)
<1>1. /\ UNCHANGED <<home, sock, ready, refs, registered, closed, listening, exists>>
      /\ queue' = [queue EXCEPT ![c] = Tail(@)]
      /\ known' = [known EXCEPT ![c] =
           IF f.req \in {"unsubscribe", "delete"} THEN @ \ {u}
           ELSE IF f.req = "declare" /\ exists[c] THEN @ \cup {u} ELSE @]
      /\ calls' = [calls EXCEPT ![k].wake = v]
      /\ f.req \notin {"close", "end"} /\ queue[c] # <<>>
  BY DEF BrokerAnswers, users, Wake
<1>2. queue[c] \in Seq(Entry) /\ queue[c] # <<>>
  BY <1>1 DEF TypeOK
<1>3. /\ 1 \in DOMAIN queue[c] /\ f = queue[c][1]
      /\ queue'[c] \in Seq(Entry)
      /\ \A i \in DOMAIN queue'[c] :
           i \in Nat /\ i # 0 /\ i + 1 \in DOMAIN queue[c] /\ queue'[c][i] = queue[c][i + 1]
  <2> DEFINE s == queue[c]
  <2>1. /\ 1 \in DOMAIN s /\ Head(s) = s[1] /\ Tail(s) \in Seq(Entry)
        /\ \A i \in DOMAIN Tail(s) : i \in Nat /\ i # 0 /\ i + 1 \in DOMAIN s /\ Tail(s)[i] = s[i + 1]
    <3>1. s \in Seq(Entry) /\ s # <<>>
      BY <1>2
    <3> HIDE DEF s
    <3>2. Len(s) \in Nat \ {0} /\ DOMAIN s = 1 .. Len(s) /\ Head(s) = s[1] /\ Tail(s) \in Seq(Entry)
      BY <3>1, EmptySeq, LenProperties, HeadTailProperties
    <3>3. /\ DOMAIN Tail(s) = 1 .. Len(s) - 1 /\ \A i \in 1 .. Len(s) - 1 : Tail(s)[i] = s[i + 1]
      BY <3>1, HeadTailProperties, LenProperties
    <3>4. \A i \in 1 .. Len(s) - 1 : i + 1 \in 1 .. Len(s) /\ i \in Nat /\ i # 0
      BY <3>2
    <3> QED
      BY <3>2, <3>3, <3>4
  <2>2. queue'[c] = Tail(s)
    BY <1>1 DEF TypeOK
  <2> QED
    BY <2>1, <2>2
<1>4. f \in Entry
  BY <1>2, <1>3
<1> HIDE DEF f
<1>5. k \in DOMAIN calls /\ Fits(f, c, calls[k])
  BY <1>3 DEF QueueInv
<1>6. /\ calls[k] \in Call /\ calls[k].at # "hung" /\ Suits(f.req, c, calls[k])
      /\ f.req \in {"metadata", "unsubscribe", "delete", "declare"}
  BY <1>1, <1>4, <1>5, CallFacts DEF Fits, Entry, Requests
<1>7. ~Over(calls[k]) /\ calls[k].at \in {"metadata", "unsubscribing", "deleting", "declaring"}
  BY <1>6 DEF Suits, Over
<1>8. /\ v \in {"ok", "refused"}
      /\ v = "ok" /\ f.req \in {"unsubscribe", "delete"} => u \in known[c]
      /\ f.req = "metadata" /\ v = "refused" => ~exists[home[u]]
  BY DEF Verdict
<1> DEFINE r == [calls[k] EXCEPT !.wake = v]
<1>9. calls' = [calls EXCEPT ![k] = r]
  BY <1>1 DEF TypeOK
<1> HIDE DEF v
<1>10. /\ r \in Call /\ r.at = calls[k].at /\ r.op = calls[k].op /\ r.user = u /\ r.wake = v
       /\ r.conn = calls[k].conn /\ r.todo = calls[k].todo /\ r.beside = calls[k].beside
  BY <1>6, <1>8 DEF Call, Wakes
<1> HIDE DEF r
<1>11. Others(k) /\ calls'[k] = r /\ \A j \in DOMAIN calls : j # k => calls'[j] = calls[j]
  <2> HIDE DEF k
  <2> QED
    BY <1>5, <1>9, <1>10, OneChanges
<1>12. /\ DOMAIN calls' = DOMAIN calls /\ calls' = [j \in DOMAIN calls |-> calls'[j]]
       /\ \A j \in DOMAIN calls : calls'[j] \in Call
  <2>1. \A j \in DOMAIN calls : calls[j] \in Call
    BY CallFacts
  <2>2. DOMAIN calls' = DOMAIN calls /\ calls' = [j \in DOMAIN calls |-> calls'[j]]
    BY <1>9 DEF TypeOK
  <2> QED
    BY <1>10, <1>11, <2>1, <2>2
<1>13. /\ \A d \in Conns \ {c} : known'[d] = known[d]
       /\ f.req \in {"unsubscribe", "delete"} => known'[c] = known[c] \ {u}
       /\ f.req = "declare" => known'[c] \subseteq known[c] \cup {u} /\ (~exists[c] => known'[c] = known[c])
       /\ f.req = "metadata" => known'[c] = known[c]
       /\ known' = [d \in Conns |-> known'[d]]
  <2> HIDE DEF u
  <2> QED
    BY <1>1 DEF TypeOK
<1>14. f.req = "declare" => calls[k].at = "declaring" /\ calls[k].op = "restart" /\ u \in Users /\ c = home[u]
  BY <1>6 DEF Suits
<1>15. /\ known' \in [Conns -> SUBSET Users]
       /\ \A d \in Conns : known'[d] \subseteq UsersOf(d) /\ (~exists[d] => known'[d] = {})
  <2>1. \A d \in Conns : known[d] \subseteq UsersOf(d) /\ (~exists[d] => known[d] = {})
    BY DEF KnownInv
  <2>2. f.req = "declare" => u \in UsersOf(c)
    BY <1>14 DEF UsersOf
  <2>3. known'[c] \subseteq UsersOf(c) /\ (~exists[c] => known'[c] = {})
    <3> HIDE DEF u
    <3>1. CASE f.req = "declare"
      BY <1>13, <2>1, <2>2, <3>1
    <3>2. CASE f.req \in {"unsubscribe", "delete"}
      BY <1>13, <2>1, <3>2
    <3>3. CASE f.req = "metadata"
      BY <1>13, <2>1, <3>3
    <3> QED
      BY <1>6, <3>1, <3>2, <3>3
  <2>4. \A d \in Conns : known'[d] \subseteq UsersOf(d) /\ (~exists[d] => known'[d] = {})
    BY <1>13, <2>1, <2>3
  <2>5. \A d \in Conns : UsersOf(d) \subseteq Users
    BY DEF UsersOf
  <2>6. \A d \in Conns : known'[d] \in SUBSET Users
    BY <2>4, <2>5
  <2>7. known' \in [Conns -> SUBSET Users]
    BY <1>13, <2>6
  <2> QED
    BY <2>4, <2>7
<1>16. KnownInv'
  <2>1. Conns' = Conns /\ \A d \in Conns : UsersOf(d)' = UsersOf(d)
    BY <1>1, HomeStays DEF UsersOf
  <2> QED
    BY <1>1, <1>15, <2>1 DEF KnownInv
<1>17. Learns
  <2> SUFFICES ASSUME NEW w \in Users, w \in known'[home[w]], w \notin known[home[w]]
               PROVE  \E j \in DOMAIN calls : calls[j].op = "restart" /\ ~Over(calls[j]) /\ About(calls[j], w)
    BY DEF Learns
  <2>1. home[w] = c
    BY <1>13, ConnFacts
  <2>2. f.req = "declare" /\ w = u
    <3> HIDE DEF u
    <3> QED
      BY <1>6, <1>13, <2>1
  <2>3. About(calls[k], w)
    BY <1>14, <2>2 DEF About, Declaring
  <2> QED
    BY <1>5, <1>7, <1>14, <2>2, <2>3
<1>18. Acts(k)
  <2>1. ASSUME calls[k].op \in Closers, Gone(r) PROVE u \notin known'[home[u]]
    <3>1. f.req \in {"unsubscribe", "delete"} /\ v = "ok"
      BY <1>6, <1>7, <1>10, <2>1 DEF Gone, Suits
    <3>2. u \in known[c] /\ known'[c] = known[c] \ {u}
      BY <1>8, <1>13, <3>1
    <3>3. home[u] = c
      BY <3>2 DEF KnownInv, UsersOf
    <3> HIDE DEF u
    <3> QED
      BY <3>2, <3>3
  <2>2. calls[k].at = "metadata" /\ r.wake = "refused" => ~exists'[home[u]]
    <3>1. calls[k].at = "metadata" => f.req = "metadata"
      BY <1>6 DEF Suits
    <3> QED
      BY <1>1, <1>8, <1>10, <3>1
  <2> HIDE DEF k
  <2>3. /\ calls'[k].at = calls[k].at /\ calls'[k].op = calls[k].op /\ calls'[k].user = calls[k].user
        /\ calls'[k].conn = calls[k].conn /\ calls'[k].todo = calls[k].todo
        /\ calls'[k].beside = calls[k].beside
        /\ (calls[k].at = "metadata" /\ calls'[k].wake = "refused" => ~exists'[home[calls[k].user]])
        /\ (/\ calls[k].op \in Closers /\ "restart" \notin calls[k].beside /\ Gone(calls'[k])
            => calls[k].user \notin known'[home[calls[k].user]])
    BY <1>10, <1>11, <2>1, <2>2
  <2> QED
    BY <1>5, <1>7, <2>3, WakeActs
<1>19. \A j \in DOMAIN calls : Passive(calls[j], calls'[j]) \/ Acts(j)
  BY <1>11, <1>18 DEF Others
<1>20. queue' \in [Conns -> Seq(Entry)] /\ \A d \in Conns \ {c} : queue'[d] = queue[d]
  <2>1. \A d \in Conns \ {c} : queue'[d] = queue[d]
    BY <1>1 DEF TypeOK
  <2>2. \A d \in Conns : queue'[d] \in Seq(Entry)
    BY <1>3, <2>1 DEF TypeOK
  <2>3. queue' = [d \in Conns |-> queue'[d]]
    BY <1>1 DEF TypeOK
  <2> QED
    BY <2>1, <2>2, <2>3
<1>21. QueueInv'
  <2> DEFINE t == [d \in Conns |-> IF d = c THEN 1 ELSE 0]
  <2>1. t \in [Conns -> Nat] /\ t[c] = 1 /\ \A d \in Conns \ {c} : t[d] = 0
    OBVIOUS
  <2> HIDE DEF t
  <2>2. ASSUME NEW d \in Conns, NEW i \in DOMAIN queue'[d]
        PROVE  /\ i \in Nat /\ i + t[d] \in DOMAIN queue[d] /\ queue'[d][i] = queue[d][i + t[d]]
               /\ queue'[d][i].by \in DOMAIN calls'
               /\ SameAwait(calls[queue'[d][i].by], calls'[queue'[d][i].by])
    <3>1. /\ i \in Nat /\ i + t[d] \in DOMAIN queue[d] /\ queue'[d][i] = queue[d][i + t[d]]
          /\ d = c => i + t[d] # 1
      <4>1. CASE d = c
        <5>1. t[d] = 1 /\ i \in Nat /\ i # 0 /\ i + 1 \in DOMAIN queue[d] /\ queue'[d][i] = queue[d][i + 1]
          BY <1>3, <2>1, <2>2, <4>1
        <5>2. i + 1 # 1
          BY <5>1
        <5> QED
          BY <5>1, <5>2
      <4>2. CASE d # c
        <5>1. t[d] = 0 /\ queue'[d] = queue[d] /\ queue[d] \in Seq(Entry)
          BY <1>20, <2>1, <4>2 DEF TypeOK
        <5>2. i \in Nat
          BY <2>2, <5>1, LenProperties
        <5>3. i + t[d] = i
          BY <5>1, <5>2
        <5> QED
          BY <2>2, <4>2, <5>1, <5>2, <5>3
      <4> QED
        BY <4>1, <4>2
    <3> DEFINE m == i + t[d]
               g == queue[d][m]
    <3>2. m \in DOMAIN queue[d] /\ ~(d = c /\ m = 1) /\ queue'[d][i] = g
      BY <3>1
    <3> HIDE DEF m
    <3>3. g.by \in DOMAIN calls /\ g.by # k
      BY <1>1, <1>3, <3>2 DEF QueueInv
    <3> HIDE DEF g
    <3>4. calls'[g.by] = calls[g.by]
      BY <1>11, <3>3
    <3> QED
      BY <1>12, <3>1, <3>2, <3>3, <3>4 DEF SameAwait
  <2>3. home' = home
    BY <1>1
  <2> QED
    BY <2>1, <2>2, <2>3, QueueShrinks
<1>22. sock' \in [Conns -> {"open", "opening", "half", "down"}] /\ ready' \in [Conns -> BOOLEAN]
  BY <1>1 DEF TypeOK
<1> QED
  BY <1>1, <1>12, <1>15, <1>16, <1>17, <1>19, <1>20, <1>21, <1>22, EnvironmentKept

-----------------------------------------------------------------------------
(* New calls.                                                              *)

(* A call that begins: it knows of the calls that run beside it.           *)
Begins(call) ==
  /\ call \in Call /\ call.at = "begins" /\ call.wake = "ok" /\ call.todo = {}
  /\ call.op \in UserOps => call.user \in Users
  /\ \A j \in DOMAIN calls : ~Over(calls[j]) => calls[j].op \in call.beside

(* The running calls learn that something runs beside them, and of the     *)
(* calls that begin only one may be a restart or a close.                  *)
Grows ==
  /\ DOMAIN calls \subseteq DOMAIN calls'
  /\ \A j \in DOMAIN calls :
       Passive(calls[j], calls'[j]) /\ (Over(calls[j]) \/ calls'[j].beside # {})
  /\ \A j \in DOMAIN calls' \ DOMAIN calls : Begins(calls'[j])
  /\ \A i, j \in DOMAIN calls' \ DOMAIN calls :
       calls'[j].op \in {"restart", "close"} => i = j /\ calls'[j].seen = {Locator}

(* The running calls learn of op, and new ones begin behind them; either   *)
(* all of these are restarts, or none is.                                  *)
LEMMA GrownKept ==
  ASSUME Inv, DOMAIN calls \subseteq DOMAIN calls', calls' \in Seq(Call),
         \A j \in DOMAIN calls :
           SameAwait(calls[j], calls'[j]) /\ Passive(calls[j], calls'[j]),
         \A j \in DOMAIN calls' \ DOMAIN calls : Begins(calls'[j]),
         \/ \A j \in DOMAIN calls' \ DOMAIN calls : calls'[j].op # "restart"
         \/ /\ \A j \in DOMAIN calls' \ DOMAIN calls : calls'[j].op = "restart"
            /\ \A j \in DOMAIN calls : Over(calls[j]) \/ "restart" \in calls'[j].beside,
         UNCHANGED <<home, sock, ready, queue, refs, registered, closed>>,
         listening' \subseteq listening, exists' \in [Conns -> BOOLEAN],
         KnownInv', known' \in [Conns -> SUBSET Users],
         \A c \in Conns : known'[c] \subseteq known[c] /\ (~exists[c] => ~exists'[c])
  PROVE  Inv'
<1> USE DEF Inv
<1>1. QueueInv'
  <2>1. \A j \in DOMAIN calls : Silent(j) \/ SameAwait(calls[j], calls'[j])
    OBVIOUS
  <2> QED
    BY <2>1, QueueStays
<1>2. TypeOK'
  BY HomeStays DEF TypeOK
<1>3. ASSUME NEW j \in DOMAIN calls
      PROVE  /\ calls'[j].op = calls[j].op /\ calls'[j].user = calls[j].user
             /\ calls'[j].at = calls[j].at /\ calls'[j].wake = calls[j].wake
             /\ calls[j].beside \subseteq calls'[j].beside
             /\ Over(calls'[j]) <=> Over(calls[j])
             /\ Gone(calls'[j]) <=> Gone(calls[j])
             /\ Declaring(calls'[j]) <=> Declaring(calls[j])
             /\ \A u \in Users : About(calls'[j], u) => About(calls[j], u)
  BY DEF SameAwait, Passive, Over, Gone, Declaring, About
<1>4. ASSUME NEW j \in DOMAIN calls' \ DOMAIN calls
      PROVE  /\ ~Over(calls'[j]) /\ ~Gone(calls'[j]) /\ ~Declaring(calls'[j])
             /\ calls'[j].at # "metadata" /\ calls'[j].at # "releasing"
             /\ calls'[j].op \in UserOps => calls'[j].user \in Users
             /\ \A u \in Users : ~About(calls'[j], u)
  BY DEF Begins, Over, Gone, Declaring, About
<1>5. \A u \in Users : home[u] \in Conns
  BY ConnFacts
<1>6. ASSUME NEW u \in Users, Spared(u) PROVE Spared(u)'
  <2>1. ASSUME NEW j \in DOMAIN calls', calls'[j].op = "restart", ~Over(calls'[j]), About(calls'[j], u)
        PROVE  FALSE
    <3>1. j \in DOMAIN calls
      BY <1>4, <2>1
    <3> QED
      BY <1>3, <1>6, <2>1, <3>1 DEF Spared
  <2> QED
    BY <1>6, <2>1 DEF Spared
<1>7. ASSUME NEW j \in DOMAIN calls, calls[j].op \in Closers PROVE CloseInv(calls[j])'
  <2> DEFINE u == calls[j].user
  <2>1. u \in Users /\ CloseInv(calls[j]) /\ home[u] \in Conns
    BY <1>5, <1>7 DEF ClosedInv, CloseInv
  <2>2. calls'[j].at = "metadata" /\ calls'[j].wake = "refused" => ~exists'[home[u]]
    BY <1>3, <2>1 DEF CloseInv
  <2>3. ASSUME "restart" \notin calls'[j].beside, ~Over(calls'[j]) PROVE NoRestart'
    <3>1. "restart" \notin calls[j].beside /\ ~Over(calls[j])
      BY <1>3, <2>3
    <3>2. NoRestart
      BY <2>1, <3>1 DEF CloseInv
    <3>3. \A i \in DOMAIN calls' \ DOMAIN calls : calls'[i].op # "restart"
      BY <2>3, <3>1
    <3> QED
      BY <1>3, <3>2, <3>3 DEF NoRestart
  <2>4. ASSUME "restart" \notin calls'[j].beside, Gone(calls'[j]) PROVE u \notin known'[home[u]]
    <3>1. "restart" \notin calls[j].beside /\ Gone(calls[j])
      BY <1>3, <2>4
    <3>2. u \notin known[home[u]]
      BY <2>1, <3>1 DEF CloseInv
    <3> QED
      BY <2>1, <3>2
  <2>5. ASSUME "restart" \notin calls'[j].beside, calls'[j].at = "done" PROVE Spared(u)'
    <3>1. "restart" \notin calls[j].beside /\ calls[j].at = "done"
      BY <1>3, <2>5
    <3>2. Spared(u)
      BY <2>1, <3>1 DEF CloseInv
    <3>3. calls'[j].user = u
      BY <1>3
    <3> QED
      BY <1>6, <2>1, <3>2, <3>3
  <2> QED
    BY <1>3, <2>1, <2>2, <2>3, <2>4, <2>5 DEF CloseInv
<1>8. ASSUME NEW j \in DOMAIN calls' \ DOMAIN calls, calls'[j].op \in Closers PROVE CloseInv(calls[j])'
  <2>1. calls'[j].user \in Users
    BY <1>4, <1>8 DEF UserOps
  <2>2. ASSUME "restart" \notin calls'[j].beside PROVE NoRestart'
    <3>1. \A i \in DOMAIN calls : calls[i].op = "restart" => Over(calls[i])
      BY <1>8, <2>2 DEF Begins
    <3>2. \A i \in DOMAIN calls' \ DOMAIN calls : calls'[i].op # "restart"
      BY <1>8 DEF Closers
    <3> QED
      BY <1>3, <3>1, <3>2 DEF NoRestart
  <2>3. calls'[j].at # "done"
    BY <1>8 DEF Begins
  <2> QED
    BY <1>4, <1>8, <2>1, <2>2, <2>3 DEF CloseInv
<1>9. ASSUME NEW j \in DOMAIN calls'
      PROVE  /\ calls'[j].op = "restart" /\ Declaring(calls'[j]) => calls'[j].user \in Users
             /\ calls'[j].op \in UserOps => calls'[j].user \in Users
             /\ calls'[j].at = "releasing" => calls'[j].op \in UserOps
  <2>1. CASE j \in DOMAIN calls
    BY <1>3, <2>1 DEF ClosedInv
  <2>2. CASE j \notin DOMAIN calls
    BY <1>4, <1>9, <2>2
  <2> QED
    BY <2>1, <2>2
<1>10. ClosedInv'
  <2>1. \A j \in DOMAIN calls' : calls'[j].op \in Closers => CloseInv(calls[j])'
    BY <1>3, <1>7, <1>8
  <2> QED
    BY <1>9, <2>1 DEF ClosedInv
<1> QED
  BY <1>1, <1>2, <1>10

LEMMA BesideFacts ==
  ASSUME Inv, NEW op \in CallOps \cup {"update"}
  PROVE  /\ DOMAIN Beside(op) = DOMAIN calls /\ Beside(op) \in Seq(Call) /\ Len(Beside(op)) = Len(calls)
         /\ \A j \in DOMAIN calls :
              /\ Beside(op)[j] \in Call
              /\ Passive(calls[j], Beside(op)[j]) /\ SameAwait(calls[j], Beside(op)[j])
              /\ Over(calls[j]) \/ op \in Beside(op)[j].beside
<1> DEFINE b == Beside(op)
<1>1. /\ DOMAIN b = DOMAIN calls /\ b = [j \in DOMAIN calls |-> b[j]]
      /\ \A j \in DOMAIN calls :
           b[j] = [calls[j] EXCEPT !.beside = IF Over(calls[j]) THEN @ ELSE @ \cup {op}]
  BY DEF Beside
<1> HIDE DEF b
<1>2. ASSUME NEW j \in DOMAIN calls
      PROVE  /\ b[j] \in Call /\ Passive(calls[j], b[j]) /\ SameAwait(calls[j], b[j])
             /\ Over(calls[j]) \/ op \in b[j].beside
  <2> DEFINE s == IF Over(calls[j]) THEN calls[j].beside ELSE calls[j].beside \cup {op}
  <2>1. calls[j] \in Call
    BY CallFacts DEF Inv
  <2>2. /\ s \in SUBSET (CallOps \cup {"update"}) /\ calls[j].beside \subseteq s
        /\ Over(calls[j]) \/ op \in s
    BY <2>1 DEF Call
  <2>3. b[j] = [calls[j] EXCEPT !.beside = s]
    BY <1>1
  <2> HIDE DEF s
  <2>4. /\ b[j] \in Call /\ b[j].beside = s /\ b[j].op = calls[j].op /\ b[j].user = calls[j].user
        /\ b[j].at = calls[j].at /\ b[j].wake = calls[j].wake /\ b[j].conn = calls[j].conn
        /\ b[j].todo = calls[j].todo
    BY <2>1, <2>2, <2>3 DEF Call
  <2> QED
    BY <2>2, <2>4 DEF Passive, SameAwait
<1>3. b \in Seq(Call) /\ Len(b) = Len(calls)
  BY <1>1, <1>2, CallsAreSeq DEF Inv
<1> QED
  BY <1>1, <1>2, <1>3 DEF b

LEMMA NewCallFacts ==
  ASSUME Inv, NEW op \in CallOps, NEW u \in Nat, op \in UserOps => u \in Users
  PROVE  /\ Begins(NewCall(op, u)) /\ NewCall(op, u).op = op /\ NewCall(op, u).user = u
         /\ NewCall(op, u).seen = {Locator}
<1> DEFINE s == {calls[k].op : k \in {j \in DOMAIN calls : ~Over(calls[j])}}
           r == NewCall(op, u)
<1>1. r = [op |-> op, user |-> u, at |-> "begins", wake |-> "ok", conn |-> Locator,
           seen |-> {Locator}, todo |-> {}, upset |-> FALSE, beside |-> s]
  BY DEF NewCall
<1>2. s \in SUBSET CallOps /\ \A j \in DOMAIN calls : ~Over(calls[j]) => calls[j].op \in s
  <2>1. \A j \in DOMAIN calls : calls[j].op \in CallOps
    BY CallFacts DEF Inv, Call
  <2> QED
    BY <2>1
<1>3. Locator \in Conns
  BY ConnFacts DEF Inv
<1> HIDE DEF r, s
<1>4. /\ r \in Call /\ r.at = "begins" /\ r.wake = "ok" /\ r.todo = {}
      /\ r.op = op /\ r.user = u /\ r.beside = s /\ r.seen = {Locator}
  BY <1>1, <1>2, <1>3 DEF Call, Awaits, Wakes
<1>5. Begins(r)
  BY <1>2, <1>4 DEF Begins
<1> QED
  BY <1>4, <1>5 DEF r

LEMMA StartDoes ==
  ASSUME Inv, NEW op \in Ops, NEW u \in Nat, op \in UserOps => u \in Users, Start(op, u)
  PROVE  /\ Quiet
         /\ UNCHANGED <<home, sock, ready, queue, known, refs, registered, closed, listening, exists>>
         /\ calls' \in Seq(Call) /\ DOMAIN calls \subseteq DOMAIN calls'
         /\ \A j \in DOMAIN calls :
              /\ SameAwait(calls[j], calls'[j]) /\ Passive(calls[j], calls'[j])
              /\ Over(calls[j]) \/ op \in calls'[j].beside
         /\ \A j \in DOMAIN calls' \ DOMAIN calls :
              /\ Begins(calls'[j]) /\ calls'[j].op = op /\ calls'[j].user = u
              /\ calls'[j].seen = {Locator}
         /\ \A i, j \in DOMAIN calls' \ DOMAIN calls : i = j
<1> DEFINE b == Beside(op)
           r == NewCall(op, u)
<1>1. /\ calls' = Append(b, r)
      /\ UNCHANGED <<home, sock, ready, queue, known, refs, registered, closed, listening, exists>>
      /\ Quiet
  BY DEF Start, users
<1>2. op \in CallOps /\ op \in CallOps \cup {"update"}
  BY DEF CallOps
<1>3. /\ DOMAIN b = DOMAIN calls /\ b \in Seq(Call) /\ Len(b) = Len(calls)
      /\ \A j \in DOMAIN calls :
           /\ Passive(calls[j], b[j]) /\ SameAwait(calls[j], b[j])
           /\ Over(calls[j]) \/ op \in b[j].beside
  BY <1>2, BesideFacts
<1>4. Begins(r) /\ r.op = op /\ r.user = u /\ r.seen = {Locator}
  BY <1>2, NewCallFacts
<1> HIDE DEF b, r
<1>5. /\ calls' \in Seq(Call) /\ DOMAIN calls \subseteq DOMAIN calls'
      /\ \A j \in DOMAIN calls : calls'[j] = b[j]
      /\ \A j \in DOMAIN calls' \ DOMAIN calls : calls'[j] = r
      /\ \A i, j \in DOMAIN calls' \ DOMAIN calls : i = j
  <2>1. r \in Call
    BY <1>4 DEF Begins
  <2>2. /\ Append(b, r) \in Seq(Call) /\ Len(Append(b, r)) = Len(b) + 1 /\ Len(b) \in Nat
        /\ DOMAIN b = 1 .. Len(b) /\ DOMAIN Append(b, r) = 1 .. Len(b) + 1
        /\ \A i \in 1 .. Len(b) : Append(b, r)[i] = b[i]
        /\ Append(b, r)[Len(b) + 1] = r
    BY <1>3, <2>1, AppendProperties, LenProperties
  <2> DEFINE l == Len(b)
  <2> HIDE DEF l
  <2>3. 1 .. l \subseteq 1 .. l + 1 /\ \A i \in (1 .. l + 1) \ (1 .. l) : i = l + 1
    <3>1. l \in Nat
      BY <2>2 DEF l
    <3> QED
      BY <3>1
  <2> QED
    BY <1>1, <1>3, <2>2, <2>3 DEF l
<1> QED
  BY <1>1, <1>3, <1>4, <1>5

LEMMA StartKept ==
  ASSUME Inv, NEW op \in Ops, NEW u \in Nat, op \in UserOps => u \in Users, Start(op, u)
  PROVE  Inv' /\ Grows
<1>1. /\ UNCHANGED <<home, sock, ready, queue, known, refs, registered, closed, listening, exists>>
      /\ calls' \in Seq(Call) /\ DOMAIN calls \subseteq DOMAIN calls'
      /\ \A j \in DOMAIN calls :
           /\ SameAwait(calls[j], calls'[j]) /\ Passive(calls[j], calls'[j])
           /\ Over(calls[j]) \/ op \in calls'[j].beside
      /\ \A j \in DOMAIN calls' \ DOMAIN calls :
           Begins(calls'[j]) /\ calls'[j].op = op /\ calls'[j].seen = {Locator}
      /\ \A i, j \in DOMAIN calls' \ DOMAIN calls : i = j
  BY StartDoes
<1>2. \/ \A j \in DOMAIN calls' \ DOMAIN calls : calls'[j].op # "restart"
      \/ /\ \A j \in DOMAIN calls' \ DOMAIN calls : calls'[j].op = "restart"
         /\ \A j \in DOMAIN calls : Over(calls[j]) \/ "restart" \in calls'[j].beside
  BY <1>1
<1>3. KnownInv' /\ known' \in [Conns -> SUBSET Users] /\ exists' \in [Conns -> BOOLEAN]
      /\ \A c \in Conns : known'[c] \subseteq known[c] /\ (~exists[c] => ~exists'[c])
  BY <1>1, KnownStays DEF Inv, TypeOK
<1>4. listening' \subseteq listening
  BY <1>1
<1>5. Inv'
  BY <1>1, <1>2, <1>3, <1>4, GrownKept
<1> QED
  BY <1>1, <1>5 DEF Grows

LEMMA MetadataUpdateDoes ==
  ASSUME Inv, NEW c \in Conns, MetadataUpdate(c)
  PROVE  /\ Quiet /\ sock[c] = "open"
         /\ UNCHANGED <<home, sock, ready, queue, refs, registered, closed>>
         /\ exists' \in [Conns -> BOOLEAN] /\ \A d \in Conns : ~exists[d] => ~exists'[d]
         /\ calls' \in Seq(Call) /\ DOMAIN calls \subseteq DOMAIN calls'
         /\ \A j \in DOMAIN calls :
              /\ SameAwait(calls[j], calls'[j]) /\ Passive(calls[j], calls'[j])
              /\ Over(calls[j]) \/ "update" \in calls'[j].beside
         /\ \A j \in DOMAIN calls' \ DOMAIN calls :
              /\ Begins(calls'[j]) /\ calls'[j].user \in UsersOf(c)
              /\ calls'[j].op = IF calls'[j].user \in Consumers THEN "closeConsumer" ELSE "automaticClose"
<1> DEFINE us == listening \cap UsersOf(c)
           op(u) == IF u \in Consumers THEN "closeConsumer" ELSE "automaticClose"
           b == Beside("update")
<1>1. Quiet /\ sock[c] = "open" /\ UNCHANGED <<home, sock, ready, queue, refs, registered, closed>>
  BY DEF MetadataUpdate
<1>2. exists' \in [Conns -> BOOLEAN] /\ \A d \in Conns : ~exists[d] => ~exists'[d]
  <2>1. PICK gone \in BOOLEAN : exists' = [exists EXCEPT ![c] = @ /\ ~gone]
    BY DEF MetadataUpdate
  <2> QED
    BY <2>1 DEF Inv, TypeOK
<1>3. PICK told \in [1 .. Cardinality(us) -> us] :
        calls' = Upset(b \o [i \in DOMAIN told |-> NewCall(op(told[i]), told[i])])
  BY DEF MetadataUpdate
<1> DEFINE new == [i \in DOMAIN told |-> NewCall(op(told[i]), told[i])]
           l == Len(calls)
           n == Cardinality(us)
           s == b \o new
<1>4. l \in Nat /\ n \in Nat /\ DOMAIN calls = 1 .. l /\ us \subseteq Users
  <2>1. us \in SUBSET Users
    BY DEF Inv, TypeOK
  <2> QED
    BY <2>1, UsersFinite, LenProperties DEF Inv, TypeOK
<1>5. /\ b \in Seq(Call) /\ Len(b) = l
      /\ \A j \in DOMAIN calls :
           /\ Passive(calls[j], b[j]) /\ SameAwait(calls[j], b[j])
           /\ Over(calls[j]) \/ "update" \in b[j].beside
  BY BesideFacts
<1>6. \A i \in 1 .. n : Begins(new[i]) /\ new[i].user \in us /\ new[i].op = op(new[i].user)
  <2> SUFFICES ASSUME NEW i \in 1 .. n
               PROVE  Begins(new[i]) /\ new[i].user \in us /\ new[i].op = op(new[i].user)
    OBVIOUS
  <2>1. told[i] \in us /\ told[i] \in Users /\ new[i] = NewCall(op(told[i]), told[i])
    BY <1>3, <1>4
  <2>2. op(told[i]) \in {"closeConsumer", "automaticClose"}
    OBVIOUS
  <2> DEFINE o == op(told[i])
             u == told[i]
  <2>3. o \in CallOps /\ o # "restart" /\ u \in Nat /\ u \in Users
    BY <2>1, <2>2, ConnFacts DEF CallOps, Ops, Inv
  <2> HIDE DEF o, u
  <2>4. Begins(NewCall(o, u)) /\ NewCall(o, u).op = o /\ NewCall(o, u).user = u
    BY <2>3, NewCallFacts
  <2> QED
    BY <2>1, <2>3, <2>4 DEF o, u
<1>7. new \in Seq(Call) /\ Len(new) = n
  <2>1. new \in [1 .. n -> Call]
    BY <1>3, <1>6 DEF Begins
  <2> HIDE DEF new, n
  <2> QED
    BY <1>4, <2>1, EachIsSeq
<1>8. calls' = Upset(s)
  BY <1>3
<1> HIDE DEF b, new, n, l
<1>9. /\ DOMAIN s = 1 .. l + n /\ DOMAIN calls \subseteq DOMAIN s
      /\ \A j \in DOMAIN s : s[j] \in Call
      /\ \A j \in DOMAIN calls : s[j] = b[j]
      /\ \A j \in DOMAIN s \ DOMAIN calls : \E i \in 1 .. n : s[j] = new[i]
  <2>1. /\ s \in Seq(Call) /\ Len(s) = Len(b) + Len(new)
        /\ \A i \in 1 .. Len(b) + Len(new) : s[i] = IF i <= Len(b) THEN b[i] ELSE new[i - Len(b)]
    BY <1>5, <1>7, ConcatProperties
  <2> HIDE DEF s
  <2>2. DOMAIN s = 1 .. l + n /\ \A i \in 1 .. l + n : s[i] = IF i <= l THEN b[i] ELSE new[i - l]
    BY <1>5, <1>7, <2>1, LenProperties
  <2>3. /\ \A i \in 1 .. l : i \in 1 .. l + n /\ i <= l
        /\ \A i \in (1 .. l + n) \ (1 .. l) : i - l \in 1 .. n /\ ~(i <= l)
    BY <1>4
  <2>4. \A j \in 1 .. l : s[j] = b[j]
    BY <2>2, <2>3
  <2>5. \A j \in (1 .. l + n) \ (1 .. l) : s[j] = new[j - l] /\ j - l \in 1 .. n
    BY <2>2, <2>3
  <2>6. \A j \in DOMAIN s : s[j] \in Call
    BY <2>1
  <2> QED
    BY <1>4, <2>2, <2>3, <2>4, <2>5, <2>6
<1> HIDE DEF s
<1>10. /\ DOMAIN calls' = DOMAIN s /\ calls' = [j \in DOMAIN s |-> calls'[j]]
       /\ \A j \in DOMAIN s :
            calls'[j] \in Call /\ Passive(s[j], calls'[j]) /\ SameAwait(s[j], calls'[j])
  BY <1>8, <1>9, UpsetFacts
<1>11. calls' \in Seq(Call)
  <2>1. calls' \in [1 .. l + n -> Call] /\ l + n \in Nat
    BY <1>4, <1>9, <1>10
  <2> QED
    BY <2>1, EachIsSeq
<1>12. \A j \in DOMAIN calls : SameAwait(calls[j], calls'[j]) /\ Passive(calls[j], calls'[j])
  BY <1>5, <1>9, <1>10 DEF SameAwait, Passive
<1>13. \A j \in DOMAIN calls' \ DOMAIN calls :
         Begins(calls'[j]) /\ calls'[j].user \in us /\ calls'[j].op = op(calls'[j].user)
  <2> SUFFICES ASSUME NEW j \in DOMAIN calls' \ DOMAIN calls
               PROVE  Begins(calls'[j]) /\ calls'[j].user \in us /\ calls'[j].op = op(calls'[j].user)
    OBVIOUS
  <2>1. Begins(s[j]) /\ s[j].user \in us /\ s[j].op = op(s[j].user) /\ j \in DOMAIN s
    BY <1>6, <1>9, <1>10
  <2>2. calls'[j] \in Call /\ Passive(s[j], calls'[j]) /\ SameAwait(s[j], calls'[j])
    BY <1>10, <2>1
  <2> QED
    BY <2>1, <2>2 DEF Begins, Passive, SameAwait
<1>14. DOMAIN calls \subseteq DOMAIN calls'
  BY <1>9, <1>10
<1>15. \A j \in DOMAIN calls : Over(calls[j]) \/ "update" \in calls'[j].beside
  BY <1>5, <1>9, <1>10 DEF Passive
<1> QED
  BY <1>1, <1>2, <1>11, <1>12, <1>13, <1>14, <1>15

LEMMA MetadataUpdateKept ==
  ASSUME Inv, NEW c \in Conns, MetadataUpdate(c)
  PROVE  Inv' /\ Grows
<1>1. /\ UNCHANGED <<home, sock, ready, queue, refs, registered, closed>>
      /\ exists' \in [Conns -> BOOLEAN] /\ \A d \in Conns : ~exists[d] => ~exists'[d]
      /\ calls' \in Seq(Call) /\ DOMAIN calls \subseteq DOMAIN calls'
      /\ \A j \in DOMAIN calls :
           /\ SameAwait(calls[j], calls'[j]) /\ Passive(calls[j], calls'[j])
           /\ Over(calls[j]) \/ "update" \in calls'[j].beside
      /\ \A j \in DOMAIN calls' \ DOMAIN calls :
           Begins(calls'[j]) /\ calls'[j].op \notin {"restart", "close"}
  BY MetadataUpdateDoes
<1>2. known' = [known EXCEPT ![c] = {}] /\ listening' \subseteq listening
  BY DEF MetadataUpdate
<1>3. KnownInv' /\ known' \in [Conns -> SUBSET Users] /\ \A d \in Conns : known'[d] \subseteq known[d]
  <2>1. Conns' = Conns /\ \A d \in Conns : UsersOf(d)' = UsersOf(d)
    BY <1>1, HomeStays DEF UsersOf
  <2>2. /\ known' \in [Conns -> SUBSET Users] /\ known'[c] = {}
        /\ \A d \in Conns : known'[d] \subseteq known[d] /\ (d # c => known'[d] = known[d])
    BY <1>2 DEF Inv, TypeOK
  <2>3. \A d \in Conns : d # c => exists'[d] = exists[d]
    BY DEF MetadataUpdate, Inv, TypeOK
  <2> QED
    BY <2>1, <2>2, <2>3 DEF Inv, KnownInv
<1>4. Inv'
  BY <1>1, <1>2, <1>3, GrownKept
<1> QED
  BY <1>1, <1>4 DEF Grows

-----------------------------------------------------------------------------
(* The invariant.                                                          *)

LEMMA InitInv == Init => Inv
<1> SUFFICES ASSUME Init PROVE Inv
  OBVIOUS
<1>1. home \in [Users -> Nat \ {Locator}]
  BY ClientAssumption DEF Init
<1>2. \A c \in Conns : UsersOf(c) \in SUBSET Users
  BY DEF UsersOf
<1>3. calls = <<>> /\ calls \in Seq(Call) /\ DOMAIN calls = {}
  BY EmptySeq DEF Init
<1>4. refs \in [Conns -> Int]
  <2>1. \A c \in Conns : Cardinality(UsersOf(c)) \in Int
    <3> TAKE c \in Conns
    <3> DEFINE s == UsersOf(c)
    <3>1. s \subseteq Users
      BY DEF UsersOf
    <3> HIDE DEF s
    <3>2. Cardinality(s) \in Nat
      BY <3>1, ClientAssumption, FS_Subset, FS_CardinalityType
    <3> QED
      BY <3>2 DEF s
  <2> QED
    BY <2>1 DEF Init
<1>5. queue = [c \in Conns |-> <<>>] /\ <<>> \in Seq(Entry) /\ DOMAIN <<>> = {}
  BY EmptySeq DEF Init
<1>6. TypeOK
  BY <1>1, <1>2, <1>3, <1>4, <1>5 DEF Init, TypeOK
<1>7. QueueInv
  <2>1. \A c \in Conns : DOMAIN queue[c] = {}
    BY <1>5
  <2> QED
    BY <2>1 DEF QueueInv
<1>8. KnownInv
  BY DEF Init, KnownInv
<1>9. ClosedInv
  BY <1>3 DEF ClosedInv
<1> QED
  BY <1>6, <1>7, <1>8, <1>9 DEF Inv

LEMMA StepInv == Inv /\ [Next]_vars => Inv' /\ (Steps \/ Grows)
<1> SUFFICES ASSUME Inv, [Next]_vars PROVE Inv' /\ (Steps \/ Grows)
  OBVIOUS
<1>1. CASE Start("restart", 0) \/ Start("close", 0)
  <2>1. /\ "restart" \in Ops /\ "close" \in Ops /\ 0 \in Nat
        /\ "restart" \notin UserOps /\ "close" \notin UserOps
    BY DEF Ops, UserOps, Closers
  <2> QED
    BY <1>1, <2>1, StartKept
<1>2. CASE \E u \in Users : \E op \in {"closeConsumer", "deletePublisher", "closeUser"} : Start(op, u)
  <2>1. \A u \in Users : u \in Nat
    BY ClientAssumption
  <2>2. {"closeConsumer", "deletePublisher", "closeUser"} \subseteq Ops
    BY DEF Ops
  <2> QED
    BY <1>2, <2>1, <2>2, StartKept
<1>3. CASE \E k \in DOMAIN calls : Continue(k) \/ RestartLocator(k)
  BY <1>3, ContinueKept, RestartLocatorKept
<1>4. CASE \E c \in Conns : Network(c) \/ ConnectFails(c) \/ Drop(c) \/ MetadataUpdate(c)
  BY <1>4, ConnectedKept, SocketClosesKept, BrokerAnswersKept, CloseAnsweredKept,
     ConnectFailsKept, DropKept, MetadataUpdateKept DEF Network
<1>5. CASE UNCHANGED vars
  <2>1. UNCHANGED <<home, sock, ready, queue, known, refs, registered, closed, listening, exists, calls>>
    BY <1>5 DEF vars, users
  <2>2. /\ \A c \in Conns : (~exists[c] => ~exists'[c]) /\ known'[c] \subseteq known[c]
        /\ known' \in [Conns -> SUBSET Users] /\ exists' \in [Conns -> BOOLEAN]
        /\ KnownInv' /\ calls' \in Seq(Call) /\ listening' \subseteq listening
    BY <2>1, KnownStays DEF Inv, TypeOK
  <2>3. /\ \A j \in DOMAIN calls : SameAwait(calls[j], calls'[j]) /\ Passive(calls[j], calls'[j])
        /\ DOMAIN calls' \ DOMAIN calls = {} /\ DOMAIN calls \subseteq DOMAIN calls'
    BY <2>1, CallFacts DEF SameAwait, Inv
  <2>4. Steps
    BY <2>1, <2>3 DEF Steps
  <2> QED
    BY <2>1, <2>2, <2>3, <2>4, GrownKept
<1> QED
  BY <1>1, <1>2, <1>3, <1>4, <1>5 DEF Next, Users

(* Whatever is restarted, closed, dropped or answered, in whatever order:  *)
(* the state keeps its types; every request on a connection waits for the  *)
(* call of client.ts that sent it, at the await that expects its answer;   *)
(* and the broker has a user on the connection of its publisher or         *)
(* consumer only.                                                          *)
THEOREM ClientInvariant == Spec => []Inv
<1>1. Init => Inv
  BY InitInv
<1>2. Inv /\ [Next]_vars => Inv'
  BY StepInv
<1> QED
  BY <1>1, <1>2, PTL DEF Spec

(* Client.closeConsumer and Client.deletePublisher are final: once one has *)
(* returned without a restart beside it, no later restart declares its     *)
(* publisher or consumer at the broker again.                              *)
THEOREM ClosedStaysClosed == Spec => []ClosedForGood
<1>1. Inv => ClosedForGood
  BY DEF Inv, ClosedInv, CloseInv, Gone, Closers, ClosedForGood, Returned
<1> QED
  BY <1>1, ClientInvariant, PTL

-----------------------------------------------------------------------------
(* A restart that runs alone brings everyone back.                         *)

(* While it runs, nothing else is under way.                               *)
Running(call) == call.op = "restart" /\ ~Over(call) /\ call.beside = {}
AloneInv ==
  \A k \in DOMAIN calls :
    Running(calls[k]) => \A j \in DOMAIN calls : j # k => Over(calls[j])

LEMMA StepAlone == Inv /\ AloneInv /\ (Steps \/ Grows) => AloneInv'
<1> SUFFICES ASSUME Inv, AloneInv, Steps \/ Grows,
                    NEW k \in DOMAIN calls', Running(calls'[k]), NEW j \in DOMAIN calls', j # k
             PROVE  Over(calls'[j])
  BY DEF AloneInv
<1>1. CASE Steps
  <2>1. j \in DOMAIN calls /\ k \in DOMAIN calls
    BY <1>1 DEF Steps
  <2>2. calls'[k].op = calls[k].op /\ calls[k].beside \subseteq calls'[k].beside
        /\ (Over(calls[k]) => Over(calls'[k]))
    BY <1>1, <2>1 DEF Steps, Passive, Acts, Over
  <2>3. Running(calls[k])
    BY <2>2 DEF Running
  <2>4. Over(calls[j])
    BY <2>1, <2>3 DEF AloneInv
  <2> QED
    BY <1>1, <2>1, <2>4 DEF Steps, Passive, Acts, Over
<1>2. CASE Grows
  <2>1. k \notin DOMAIN calls
    BY <1>2 DEF Grows, Running, Passive, Over
  <2>2. j \in DOMAIN calls
    BY <1>2, <2>1 DEF Grows, Running
  <2>3. Over(calls[j])
    BY <1>2, <2>1 DEF Grows, Begins, Running
  <2> QED
    BY <1>2, <2>2, <2>3 DEF Grows, Passive, Over
<1> QED
  BY <1>1, <1>2

(* Where a restart is: before the loops, or in the one over us.            *)
Onset(call) ==
  \/ call.at \in {"begins", "waiting"}
  \/ call.at = "connecting" /\ call.conn = Locator
Loops(call, us, at) == call.at = at \/ (Declaring(call) /\ call.user \in us)

(* User u has still to be declared.                                        *)
Pending(call, u) ==
  \/ Onset(call) \/ u \in call.todo
  \/ Declaring(call) /\ call.user = u /\ ~(call.at = "declaring" /\ call.wake = "ok")
  \/ u \in Publishers /\ Loops(call, Consumers, "consumers")

Opened(c) == sock[c] = "open" /\ ready[c]
Mine(k, c) == \A i \in DOMAIN queue[c] : queue[c][i].by = k

(* The connections that restart k has restarted are open, but for the one  *)
(* that is connecting, and no request is on them but its own; users in the *)
(* maps that it has not to declare any more are declared.                  *)
Seized(k, call) ==
  \A c \in call.seen \ {Locator} :
    /\ Mine(k, c)
    /\ Opened(c) \/ (call.at = "connecting" /\ call.conn = c /\ call.wake = "no")
Declared(call, u) == home[u] \in call.seen /\ u \in known[home[u]]
Restoring(k, call) ==
  /\ call.at \in {"begins", "waiting", "connecting", "declaring", "consumers", "publishers"}
  /\ Onset(call) => call.todo = {}
  /\ Loops(call, Consumers, "consumers") => call.todo \subseteq Consumers
  /\ Loops(call, Publishers, "publishers") => call.todo \subseteq Publishers
  /\ call.at \in {"consumers", "publishers"} => call.wake = "ok"
  /\ Declaring(call) => call.user \in Users /\ home[call.user] \in call.seen
  /\ Declaring(call) /\ call.at = "connecting" => call.conn = home[call.user]
  /\ Seized(k, call)
  /\ \A u \in registered : Pending(call, u) \/ Declared(call, u)
RestoreInv ==
  \A k \in DOMAIN calls :
    Running(calls[k]) /\ ~calls[k].upset => calls[k].at = "refusing" \/ Restoring(k, calls[k])

(* The restart has not moved, or only got an answer.                       *)
LEMMA RestoringStays ==
  ASSUME Inv, NEW k \in DOMAIN calls, Restoring(k, calls[k]), home' = home,
         calls'[k].at = calls[k].at, calls'[k].conn = calls[k].conn,
         calls'[k].seen = calls[k].seen, calls'[k].user = calls[k].user,
         calls'[k].todo = calls[k].todo,
         calls[k].at \in {"consumers", "publishers"} => calls'[k].wake = "ok",
         registered' \subseteq registered,
         \A c \in calls[k].seen \ {Locator} :
           /\ Mine(k, c)' /\ known[c] \subseteq known'[c]
           /\ \/ Opened(c)'
              \/ calls[k].at = "connecting" /\ calls[k].conn = c /\ calls'[k].wake = "no",
         \A u \in registered : Pending(calls[k], u) => Pending(calls'[k], u) \/ Declared(calls[k], u)'
  PROVE  Restoring(k, calls[k])'
<1> DEFINE r == calls'[k]
<1>1. /\ Onset(r) <=> Onset(calls[k])
      /\ Declaring(r) <=> Declaring(calls[k])
      /\ \A us, at : Loops(r, us, at) <=> Loops(calls[k], us, at)
  BY DEF Onset, Declaring, Loops
<1>2. Seized(k, calls[k])'
  BY DEF Seized
<1>3. \A u \in registered' : Pending(r, u) \/ Declared(calls[k], u)'
  <2> TAKE u \in registered'
  <2>1. u \in registered /\ home[u] # Locator
    BY ConnFacts DEF Inv, TypeOK
  <2>2. CASE Pending(calls[k], u)
    BY <2>1, <2>2
  <2>3. CASE Declared(calls[k], u)
    BY <2>1, <2>3 DEF Declared
  <2> QED
    BY <2>1, <2>2, <2>3 DEF Restoring
<1> QED
  BY <1>1, <1>2, <1>3 DEF Restoring, Onset, Declaring, Loops, Pending

(* The sockets and the queues of the connections in use stay.              *)
LEMMA RequestSpares ==
  ASSUME Inv, NEW k \in DOMAIN calls, NEW call \in Call, NEW req \in Requests,
         NEW n \in [Conns -> Nat], Request(k, call, req, n), ready' = ready
  PROVE  /\ calls'[k].seen = call.seen /\ calls'[k].upset = call.upset
         /\ \A c \in Conns : /\ Opened(c) => Opened(c)'
                             /\ Mine(k, c) => Mine(k, c)'
<1>1. calls'[k].seen = call.seen /\ calls'[k].upset = call.upset
  <2> DEFINE asked == {c \in Conns : n[c] > 0}
             early == {c \in asked : sock[c] = "opening"}
             sent == {c \in asked : sock[c] = "open"}
             at == IF early # {} THEN "hung" ELSE call.at
             wake == IF early \cup sent # {} THEN "no"
                     ELSE IF asked = {} \/ req = "close" THEN "ok" ELSE "error"
  <2>1. calls'[k] = [call EXCEPT !.at = at, !.wake = wake]
    BY DEF Request
  <2> HIDE DEF at, wake
  <2> QED
    BY <2>1 DEF Call
<1>2. \A c \in Conns : sock[c] = "open" => sock'[c] = "open"
  BY DEF Request
<1>3. \A c \in Conns : \A i \in DOMAIN queue'[c] :
        (i \in DOMAIN queue[c] /\ queue'[c][i] = queue[c][i]) \/ queue'[c][i].by = k
  <2> DEFINE e == [req |-> req, by |-> k]
  <2>1. TypeOK /\ e.by = k
    BY DEF Inv
  <2> HIDE DEF e
  <2>2. \A c \in Conns : \A i \in DOMAIN queue'[c] :
          (i \in DOMAIN queue[c] /\ queue'[c][i] = queue[c][i]) \/ queue'[c][i] = e
    BY <2>1, RequestQueues DEF e
  <2> QED
    BY <2>1, <2>2
<1> QED
  BY <1>1, <1>2, <1>3 DEF Opened, Mine

(* The restart, now in the form call, asks for the declaration of a user.  *)
LEMMA RestoringDeclares ==
  ASSUME Inv, NEW k \in DOMAIN calls, NEW call \in Call, declareOnConnection(k, call),
         UNCHANGED <<home, ready, known, registered>>, calls'[k].at # "hung",
         call.user \in Users, home[call.user] \in call.seen,
         call.user \in Consumers => call.todo \subseteq Consumers,
         call.user \in Publishers => call.todo \subseteq Publishers,
         \A c \in call.seen \ {Locator} : Mine(k, c) /\ Opened(c),
         \A u \in registered :
           \/ u \in call.todo \/ u = call.user \/ Declared(call, u)
           \/ u \in Publishers /\ call.user \in Consumers
  PROVE  Restoring(k, calls[k])'
<1> DEFINE r == calls'[k]
           n == Only(home[call.user])
           c2 == [call EXCEPT !.at = "declaring"]
<1>1. Request(k, c2, "declare", n)
  BY DEF declareOnConnection
<1>2. c2 \in Call /\ n \in [Conns -> Nat] /\ "declare" \in Requests /\ home[call.user] \in Conns
  BY ConnFacts DEF Call, Awaits, Only, Requests, Inv
<1>3. /\ c2.at = "declaring" /\ c2.user = call.user /\ c2.todo = call.todo /\ c2.seen = call.seen
      /\ n[home[call.user]] = 1
  BY <1>2 DEF Call, Only
<1> HIDE DEF c2, n
<1>4. /\ r.at = "declaring" /\ r.user = call.user /\ r.todo = call.todo /\ r.wake # "ok"
  BY <1>1, <1>2, <1>3, RequestFacts DEF Inv
<1>5. /\ r.seen = call.seen
      /\ \A c \in Conns : (Opened(c) => Opened(c)') /\ (Mine(k, c) => Mine(k, c)')
  BY <1>1, <1>2, <1>3, RequestSpares
<1>6. Declaring(r) /\ ~Onset(r)
  BY <1>4 DEF Declaring, Onset
<1>7. call.seen \subseteq Conns
  BY DEF Call
<1>8. Seized(k, calls[k])'
  BY <1>5, <1>7 DEF Seized
<1>9. \A u \in registered' : Pending(r, u) \/ Declared(calls[k], u)'
  <2> TAKE u \in registered'
  <2>1. CASE Declared(call, u)
    BY <1>5, <2>1 DEF Declared
  <2>2. CASE u \in call.todo \/ u = call.user \/ (u \in Publishers /\ call.user \in Consumers)
    BY <1>4, <1>6, <2>2 DEF Pending, Loops
  <2> QED
    BY <2>1, <2>2
<1>10. /\ Loops(r, Consumers, "consumers") => r.todo \subseteq Consumers
       /\ Loops(r, Publishers, "publishers") => r.todo \subseteq Publishers
  BY <1>4 DEF Loops
<1> HIDE DEF r
<1> QED
  BY <1>4, <1>5, <1>6, <1>8, <1>9, <1>10 DEF Restoring, r

(* Call k is replaced.                                                     *)
LEMMA ReplacedIs ==
  ASSUME Inv, NEW k \in DOMAIN calls, NEW r, calls' = [calls EXCEPT ![k] = r]
  PROVE  calls'[k] = r
BY DEF Inv, TypeOK

LEMMA EndIs ==
  ASSUME Inv, NEW k \in DOMAIN calls, NEW at, End(k, at)
  PROVE  calls'[k].at = at /\ calls'[k].upset = calls[k].upset
<1> DEFINE r == [calls[k] EXCEPT !.at = at, !.wake = "no"]
<1>1. calls'[k] = r
  BY DEF End
<1>2. r.at = at /\ r.upset = calls[k].upset
  BY CallFacts DEF Inv, Call
<1> HIDE DEF r
<1> QED
  BY <1>1, <1>2

(* Between two awaits of client.ts the restart has every connection it has *)
(* restarted open, unless one is connecting.                               *)
LEMMA SeizedOpen ==
  ASSUME NEW k, Restoring(k, calls[k]),
         calls[k].at # "connecting" \/ calls[k].conn = Locator \/ calls[k].wake = "ok"
  PROVE  \A c \in calls[k].seen \ {Locator} : Mine(k, c) /\ Opened(c)
BY DEF Restoring, Seized

(* The restart moves on without asking for anything.                       *)
LEMMA RestoringMoves ==
  ASSUME Inv, NEW k \in DOMAIN calls, NEW r \in Call, calls'[k] = r,
         Restoring(k, calls[k]),
         calls[k].at # "connecting" \/ calls[k].conn = Locator \/ calls[k].wake = "ok",
         UNCHANGED <<home, sock, ready, queue, known>>, registered' \subseteq registered,
         r.seen = calls[k].seen, r.wake = "ok" \/ r.at = "waiting",
         r.at \in {"waiting", "consumers", "publishers"},
         r.at = "waiting" => r.todo = {},
         r.at = "consumers" => r.todo \subseteq Consumers,
         r.at = "publishers" => r.todo \subseteq Publishers,
         \A u \in registered :
           \/ r.at = "waiting" \/ u \in r.todo \/ Declared(calls[k], u)
           \/ r.at = "consumers" /\ u \in Publishers
  PROVE  Restoring(k, calls[k])'
<1>1. ~Declaring(r) /\ (Onset(r) <=> r.at = "waiting")
  BY DEF Declaring, Onset
<1>2. Seized(k, calls[k])'
  <2>1. \A c \in calls[k].seen \ {Locator} : Mine(k, c) /\ Opened(c)
    BY SeizedOpen
  <2> QED
    BY <2>1 DEF Seized, Mine, Opened
<1>3. \A u \in registered' : Pending(r, u) \/ Declared(calls[k], u)'
  <2> TAKE u \in registered'
  <2>1. Declared(calls[k], u) => Declared(calls[k], u)'
    BY DEF Declared
  <2> QED
    BY <1>1, <2>1 DEF Pending, Loops
<1> QED
  BY <1>1, <1>2, <1>3 DEF Restoring, Loops

LEMMA restartRestores ==
  ASSUME Inv, NEW k \in DOMAIN calls, Restoring(k, calls[k]), restart(k)
  PROVE  Restoring(k, calls[k])'
<1> DEFINE r == [calls[k] EXCEPT !.at = "waiting", !.wake = "no"]
<1>1. calls[k].at = "begins" /\ calls[k] \in Call
  BY WokenFacts DEF restart, Awaits
<1>2. calls'[k] = r /\ UNCHANGED <<home, sock, ready, queue, known, registered>>
  BY DEF restart, End, users
<1>3. r \in Call /\ r.at = "waiting" /\ r.seen = calls[k].seen /\ r.todo = calls[k].todo
  BY <1>1 DEF Call, Awaits, Wakes
<1>4. calls[k].todo = {}
  BY <1>1 DEF Restoring, Onset
<1> HIDE DEF r
<1> QED
  BY <1>1, <1>2, <1>3, <1>4, RestoringMoves

LEMMA LocatorRestartedRestores ==
  ASSUME Inv, NEW k \in DOMAIN calls, Restoring(k, calls[k]), LocatorRestarted(k)
  PROVE  Restoring(k, calls[k])'
<1> DEFINE t == registered \cap Consumers
           r == [calls[k] EXCEPT !.at = "consumers", !.todo = t]
<1>1. calls[k].at = "connecting" /\ calls[k].conn = Locator /\ calls[k].wake = "ok" /\ calls[k] \in Call
  BY WokenFacts DEF LocatorRestarted, Awaits
<1>2. calls'[k] = r /\ UNCHANGED <<home, sock, ready, queue, known, registered>>
  BY DEF LocatorRestarted, users, Inv, TypeOK
<1>3. t \in SUBSET Users /\ registered \subseteq Users
  BY DEF Inv, TypeOK
<1> HIDE DEF t
<1>4. r \in Call /\ r.at = "consumers" /\ r.seen = calls[k].seen /\ r.todo = t /\ r.wake = "ok"
  BY <1>1, <1>3 DEF Call, Awaits
<1>5. t \subseteq Consumers /\ \A u \in registered : u \in t \/ u \in Publishers
  BY <1>3 DEF t, Users
<1> HIDE DEF r
<1> QED
  BY <1>1, <1>2, <1>4, <1>5, RestoringMoves

LEMMA RedeclaredRestores ==
  ASSUME Inv, NEW k \in DOMAIN calls, Restoring(k, calls[k]), Redeclared(k)
  PROVE  Restoring(k, calls[k])'
<1> DEFINE at == IF calls[k].user \in Consumers THEN "consumers" ELSE "publishers"
           r == [calls[k] EXCEPT !.at = at]
<1>1. calls[k].at = "declaring" /\ calls[k].wake = "ok" /\ calls[k] \in Call
  BY WokenFacts DEF Redeclared, Awaits
<1>2. calls'[k] = r /\ UNCHANGED <<home, sock, ready, queue, known, registered>>
  BY DEF Redeclared, users, Inv, TypeOK
<1>3. /\ calls[k].user \in Users /\ at \in {"consumers", "publishers"}
      /\ at = "consumers" <=> calls[k].user \in Consumers
  BY <1>1 DEF Restoring, Declaring
<1> HIDE DEF at
<1>4. r \in Call /\ r.at = at /\ r.seen = calls[k].seen /\ r.todo = calls[k].todo /\ r.wake = "ok"
  BY <1>1, <1>3 DEF Call, Awaits
<1>5. /\ at = "consumers" => r.todo \subseteq Consumers
      /\ at = "publishers" => r.todo \subseteq Publishers
  <2>1. Declaring(calls[k])
    BY <1>1 DEF Declaring
  <2> QED
    BY <1>3, <1>4, <2>1 DEF Restoring, Loops, Users
<1>6. \A u \in registered : u \in r.todo \/ Declared(calls[k], u) \/ (at = "consumers" /\ u \in Publishers)
  <2>1. ASSUME NEW u \in registered, Pending(calls[k], u)
        PROVE  u \in r.todo \/ (at = "consumers" /\ u \in Publishers)
    BY <1>1, <1>3, <1>4, <2>1 DEF Pending, Onset, Loops
  <2> QED
    BY <2>1 DEF Restoring
<1> HIDE DEF r
<1> QED
  BY <1>1, <1>2, <1>3, <1>4, <1>5, <1>6, RestoringMoves

LEMMA LoopEndsRestores ==
  ASSUME Inv, NEW k \in DOMAIN calls, Restoring(k, calls[k]), LoopEnds(k)
  PROVE  Restoring(k, calls[k])' \/ (calls'[k].at = "done" /\ Restored)
<1> DEFINE t == registered \cap Publishers
           r == [calls[k] EXCEPT !.at = "publishers", !.todo = t]
<1>1. CASE Woken(k, {"restart"}, "publishers") /\ End(k, "done")
  <2>1. calls[k].at = "publishers" /\ calls[k].todo = {} /\ calls'[k].at = "done"
    BY <1>1, WokenFacts, EndIs DEF LoopEnds, Awaits
  <2>2. \A u \in registered : ~Pending(calls[k], u)
    BY <2>1 DEF Pending, Onset, Declaring, Loops
  <2>3. \A u \in registered : Declared(calls[k], u) /\ home[u] # Locator
    BY <2>2, ConnFacts DEF Restoring, Inv, TypeOK
  <2>4. \A u \in registered : Opened(home[u])
    BY <2>1, <2>3, SeizedOpen DEF Declared
  <2> QED
    BY <2>1, <2>3, <2>4 DEF Restored, Declared, Opened
<1>2. CASE Woken(k, {"restart"}, "consumers") /\ calls' = [calls EXCEPT ![k].at = "publishers", ![k].todo = t]
  <2>1. calls[k].at = "consumers" /\ calls[k] \in Call /\ calls[k].todo = {} /\ calls[k].wake = "ok"
    BY <1>2, WokenFacts DEF LoopEnds, Awaits, Restoring
  <2>2. calls'[k] = r /\ UNCHANGED <<home, sock, ready, queue, known, registered>>
    BY <1>2 DEF LoopEnds, users, Inv, TypeOK
  <2>3. t \in SUBSET Users /\ t \subseteq Publishers /\ \A u \in registered : u \in Publishers => u \in t
    BY DEF Inv, TypeOK
  <2> HIDE DEF t
  <2>4. r \in Call /\ r.at = "publishers" /\ r.seen = calls[k].seen /\ r.todo = t /\ r.wake = "ok"
    BY <2>1, <2>3 DEF Call, Awaits
  <2>5. \A u \in registered : u \in t \/ Declared(calls[k], u)
    <3>1. ASSUME NEW u \in registered, Pending(calls[k], u) PROVE u \in Publishers
      BY <2>1, <3>1 DEF Pending, Onset, Declaring
    <3> QED
      BY <2>3, <3>1 DEF Restoring
  <2> HIDE DEF r
  <2> QED
    BY <2>1, <2>2, <2>3, <2>4, <2>5, RestoringMoves
<1> QED
  BY <1>1, <1>2 DEF LoopEnds

(* A new socket: the restart, now in the form call, waits for connection c.*)
LEMMA ReconnectMoves ==
  ASSUME Inv, NEW k \in DOMAIN calls, NEW call \in Call, NEW c \in Conns, Reconnect(k, call, c)
  PROVE  /\ calls'[k].at = "connecting" /\ calls'[k].conn = c /\ calls'[k].seen = call.seen \cup {c}
         /\ calls'[k].wake = "no" /\ calls'[k].user = call.user /\ calls'[k].todo = call.todo
         /\ calls'[k].upset = call.upset /\ queue'[c] = <<>>
         /\ \A d \in Conns \ {c} : sock'[d] = sock[d] /\ queue'[d] = queue[d] /\ known'[d] = known[d]
<1> DEFINE r == [call EXCEPT !.at = "connecting", !.conn = c, !.seen = @ \cup {c}, !.wake = "no"]
           a == Abandon(calls, c, queue[c])
<1>1. calls' = [a EXCEPT ![k] = r]
  BY DEF Reconnect
<1>2. DOMAIN a = DOMAIN calls /\ a = [j \in DOMAIN calls |-> a[j]]
  BY AbandonFacts
<1> HIDE DEF a
<1>3. calls'[k] = r
  <2> HIDE DEF r
  <2> QED
    BY <1>1, <1>2
<1>4. /\ r.at = "connecting" /\ r.conn = c /\ r.seen = call.seen \cup {c}
      /\ r.wake = "no" /\ r.user = call.user /\ r.todo = call.todo /\ r.upset = call.upset
  BY DEF Call
<1>5. /\ queue'[c] = <<>>
      /\ \A d \in Conns \ {c} : sock'[d] = sock[d] /\ queue'[d] = queue[d] /\ known'[d] = known[d]
  BY DEF Reconnect, Inv, TypeOK
<1> HIDE DEF r
<1> QED
  BY <1>3, <1>4, <1>5

LEMMA RestartLocatorRestores ==
  ASSUME Inv, NEW k \in DOMAIN calls, Restoring(k, calls[k]), RestartLocator(k)
  PROVE  Restoring(k, calls[k])'
<1> DEFINE r == calls'[k]
<1>1. /\ calls[k].at = "waiting" /\ Reconnect(k, calls[k], Locator)
      /\ UNCHANGED <<home, ready, registered>>
  BY DEF RestartLocator, users
<1>2. calls[k] \in Call /\ Locator \in Conns
  BY CallFacts, ConnFacts DEF Inv
<1>3. /\ r.at = "connecting" /\ r.conn = Locator /\ r.seen = calls[k].seen \cup {Locator}
      /\ r.todo = calls[k].todo
      /\ \A d \in Conns \ {Locator} : sock'[d] = sock[d] /\ queue'[d] = queue[d] /\ known'[d] = known[d]
  BY <1>1, <1>2, ReconnectMoves
<1>4. \A d \in calls[k].seen \ {Locator} : d \in Conns /\ Mine(k, d) /\ Opened(d)
  BY <1>1, <1>2, SeizedOpen DEF Call
<1>5. Seized(k, calls[k])'
  BY <1>1, <1>3, <1>4 DEF Seized, Mine, Opened
<1>6. Onset(r) /\ ~Declaring(r) /\ calls[k].todo = {}
  BY <1>1, <1>3 DEF Onset, Declaring, Restoring
<1> QED
  BY <1>3, <1>5, <1>6 DEF Restoring, Loops, Pending

LEMMA NextUserRestores ==
  ASSUME Inv, NEW k \in DOMAIN calls, Restoring(k, calls[k]), NextUser(k), calls'[k].at # "hung"
  PROVE  Restoring(k, calls[k])'
<1> USE DEF Inv
<1>1. UNCHANGED <<home, ready, registered>>
  BY DEF NextUser, users
<1>2. /\ calls[k].at \in {"consumers", "publishers"} /\ calls[k] \in Call
      /\ ~Onset(calls[k]) /\ ~Declaring(calls[k])
  <2>1. calls[k].at \in {"consumers", "publishers"} /\ calls[k] \in Call
    BY WokenFacts DEF NextUser, Awaits
  <2> QED
    BY <2>1 DEF Onset, Declaring
<1>3. PICK u \in calls[k].todo :
        LET call == [calls[k] EXCEPT !.user = u, !.todo = @ \ {u}] IN
          \/ Seen(k, home[u]) /\ declareOnConnection(k, call) /\ UNCHANGED known
          \/ ~Seen(k, home[u]) /\ Reconnect(k, call, home[u])
  BY DEF NextUser
<1> DEFINE call == [calls[k] EXCEPT !.user = u, !.todo = @ \ {u}]
<1>4. \/ Seen(k, home[u]) /\ declareOnConnection(k, call) /\ UNCHANGED known
      \/ ~Seen(k, home[u]) /\ Reconnect(k, call, home[u])
  BY <1>3
<1>5. u \in Users /\ u \in Nat /\ home[u] \in Conns /\ home[u] # Locator
  BY <1>2, ConnFacts, ClientAssumption DEF Call
<1>6. /\ call \in Call /\ call.user = u /\ call.todo = calls[k].todo \ {u}
      /\ call.seen = calls[k].seen
  BY <1>2, <1>5 DEF Call
<1> HIDE DEF call
<1>7. \A c \in calls[k].seen \ {Locator} : c \in Conns /\ Mine(k, c) /\ Opened(c)
  BY <1>2, SeizedOpen DEF Call
<1>8. /\ u \in Consumers => calls[k].at = "consumers" /\ calls[k].todo \subseteq Consumers
      /\ u \in Publishers => calls[k].at = "publishers" /\ calls[k].todo \subseteq Publishers
  BY <1>2, ClientAssumption DEF Restoring, Loops
<1>9. \A v \in registered :
        \/ v \in call.todo \/ v = u \/ Declared(calls[k], v)
        \/ v \in Publishers /\ u \in Consumers
  <2>1. ASSUME NEW v \in registered, Pending(calls[k], v)
        PROVE  v \in calls[k].todo \/ (v \in Publishers /\ u \in Consumers)
    BY <1>2, <1>5, <1>8, <2>1 DEF Pending, Loops, Users
  <2> QED
    BY <1>6, <2>1 DEF Restoring
<1>10. CASE Seen(k, home[u]) /\ declareOnConnection(k, call) /\ UNCHANGED known
  <2>1. home[u] \in call.seen
    BY <1>6, <1>10 DEF Seen
  <2>2. /\ u \in Consumers => call.todo \subseteq Consumers
        /\ u \in Publishers => call.todo \subseteq Publishers
    BY <1>6, <1>8
  <2>3. \A v \in registered : Declared(calls[k], v) => Declared(call, v)
    BY <1>6 DEF Declared
  <2> QED
    BY <1>1, <1>5, <1>6, <1>7, <1>9, <1>10, <2>1, <2>2, <2>3, RestoringDeclares
<1>11. CASE ~Seen(k, home[u]) /\ Reconnect(k, call, home[u])
  <2> DEFINE r == calls'[k]
  <2>0. PICK c \in Conns : c = home[u]
    BY <1>5
  <2>1. /\ r.at = "connecting" /\ r.conn = c /\ r.seen = calls[k].seen \cup {c}
        /\ r.wake = "no" /\ r.user = u /\ r.todo = calls[k].todo \ {u} /\ queue'[c] = <<>>
        /\ \A d \in Conns \ {c} : sock'[d] = sock[d] /\ queue'[d] = queue[d] /\ known'[d] = known[d]
    BY <1>5, <1>6, <1>11, <2>0, ReconnectMoves
  <2>2. c \notin calls[k].seen /\ DOMAIN <<>> = {}
    BY <1>11, <2>0, EmptySeq DEF Seen
  <2>3. Declaring(r) /\ ~Onset(r)
    BY <1>5, <2>0, <2>1 DEF Declaring, Onset
  <2>4. Seized(k, calls[k])'
    <3>1. Mine(k, c)'
      BY <2>1, <2>2 DEF Mine
    <3>2. \A d \in calls[k].seen \ {Locator} : Mine(k, d)' /\ Opened(d)'
      BY <1>1, <1>7, <2>1, <2>2 DEF Mine, Opened
    <3> QED
      BY <2>1, <3>1, <3>2 DEF Seized
  <2>5. \A v \in registered' : Pending(r, v) \/ Declared(calls[k], v)'
    <3> TAKE v \in registered'
    <3>1. v \in Users
      BY <1>1 DEF TypeOK
    <3>2. CASE Declared(calls[k], v)
      <4>1. home[v] # c /\ home[v] \in Conns
        BY <2>2, <3>1, <3>2, ConnFacts DEF Declared
      <4> QED
        BY <1>1, <2>1, <3>2, <4>1 DEF Declared
    <3>3. CASE v \in calls[k].todo \ {u} \/ v = u \/ (v \in Publishers /\ u \in Consumers)
      BY <2>1, <2>3, <3>3 DEF Pending, Loops
    <3> QED
      BY <1>1, <1>6, <1>9, <3>2, <3>3
  <2>6. /\ Loops(r, Consumers, "consumers") => r.todo \subseteq Consumers
        /\ Loops(r, Publishers, "publishers") => r.todo \subseteq Publishers
    BY <1>8, <2>1 DEF Loops
  <2>7. home'[u] = c /\ c \in r.seen
    BY <1>1, <2>0, <2>1
  <2> HIDE DEF r
  <2> QED
    BY <1>5, <2>1, <2>3, <2>4, <2>5, <2>6, <2>7 DEF Restoring, r
<1> QED
  BY <1>4, <1>10, <1>11

LEMMA ConnectionRestartedRestores ==
  ASSUME Inv, NEW k \in DOMAIN calls, Restoring(k, calls[k]), ConnectionRestarted(k), calls'[k].at # "hung"
  PROVE  Restoring(k, calls[k])'
<1>1. /\ calls[k].at = "connecting" /\ calls[k].conn # Locator /\ calls[k].wake = "ok" /\ calls[k] \in Call
      /\ UNCHANGED <<home, ready, known, registered>> /\ declareOnConnection(k, calls[k])
  BY WokenFacts DEF ConnectionRestarted, Awaits, users
<1>2. Declaring(calls[k]) /\ ~Onset(calls[k])
  BY <1>1 DEF Declaring, Onset
<1>3. /\ calls[k].user \in Users /\ home[calls[k].user] \in calls[k].seen
      /\ calls[k].user \in Consumers => calls[k].todo \subseteq Consumers
      /\ calls[k].user \in Publishers => calls[k].todo \subseteq Publishers
  BY <1>2 DEF Restoring, Loops
<1>4. \A c \in calls[k].seen \ {Locator} : Mine(k, c) /\ Opened(c)
  BY <1>1, SeizedOpen
<1>5. \A u \in registered :
        \/ u \in calls[k].todo \/ u = calls[k].user \/ Declared(calls[k], u)
        \/ u \in Publishers /\ calls[k].user \in Consumers
  <2>1. ASSUME NEW u \in registered, Pending(calls[k], u)
        PROVE  \/ u \in calls[k].todo \/ u = calls[k].user
               \/ u \in Publishers /\ calls[k].user \in Consumers
    BY <1>1, <1>2, <2>1 DEF Pending, Loops
  <2> QED
    BY <2>1 DEF Restoring
<1> QED
  BY <1>1, <1>3, <1>4, <1>5, RestoringDeclares

(* What a restart may do next.                                             *)
RestartActs(k) ==
  \/ restart(k) \/ RestartLocator(k) \/ LocatorRestarted(k) \/ NextUser(k)
  \/ ConnectionRestarted(k) \/ Redeclared(k) \/ LoopEnds(k) \/ Refused(k) \/ RestartThrows(k)

LEMMA RestartDoes ==
  ASSUME Inv, NEW k \in DOMAIN calls, calls[k].op = "restart", Continue(k) \/ RestartLocator(k),
         calls'[k].at \notin {"hung", "failed"}
  PROVE  RestartActs(k) /\ ~RestartThrows(k)
<1>1. calls[k].at # "releasing"
  BY DEF Inv, ClosedInv, UserOps, Closers
<1>2. ~Throws(k) /\ ~RestartThrows(k)
  <2>1. ~End(k, "failed")
    BY EndIs
  <2> QED
    BY <2>1 DEF Throws, RestartThrows
<1> QED
  BY <1>1, <1>2 DEF Continue, RestartActs, Released, CloseUser, closeConsumer, Unsubscribe, closing,
     deletePublisher, Deleted, closeAllPublishers, closeAllConsumers, CloseLocator, Closed, Woken

LEMMA RefusedRefuses ==
  ASSUME Inv, NEW k \in DOMAIN calls, Refused(k), calls'[k].at \notin {"hung", "failed"}
  PROVE  calls'[k].at = "refusing" /\ calls'[k].upset = calls[k].upset
<1> DEFINE u == calls[k].user
           o == [calls EXCEPT ![k].at = "failed", ![k].wake = "no"]
<1>1. calls[k] \in Call
  BY CallFacts DEF Inv
<1>2. CASE calls' = Forget(u, o)
  <2> DEFINE r == [calls[k] EXCEPT !.at = "failed", !.wake = "no"]
             g == [r EXCEPT !.todo = @ \ {u}]
  <2>1. DOMAIN o = DOMAIN calls /\ o[k] = r
    BY DEF Inv, TypeOK
  <2>2. r.at = "failed" /\ g.at = r.at
    BY <1>1 DEF Call
  <2> HIDE DEF o, r
  <2>3. calls'[k] = g
    BY <1>2, <2>1 DEF Forget
  <2> HIDE DEF g
  <2> QED
    BY <2>2, <2>3
<1>3. CASE Request(k, At(k, "refusing"), "end", Only(home[u])) /\ UNCHANGED ready
  <2> DEFINE call == At(k, "refusing")
  <2>1. call \in Call /\ call.at = "refusing" /\ call.upset = calls[k].upset
    BY <1>1 DEF At, Call, Awaits
  <2>2. Only(home[u]) \in [Conns -> Nat] /\ "end" \in Requests
    BY DEF Only, Requests
  <2> HIDE DEF call
  <2>3. Request(k, call, "end", Only(home[u]))
    BY <1>3 DEF call
  <2>4. calls'[k].at = call.at \/ calls'[k].at = "hung"
    BY <2>1, <2>2, <2>3, RequestFacts DEF Inv
  <2>5. calls'[k].upset = call.upset
    BY <1>3, <2>1, <2>2, <2>3, RequestSpares
  <2> QED
    BY <2>1, <2>4, <2>5
<1> QED
  BY <1>2, <1>3 DEF Refused

(* The restart does not make the failures that it remembers.               *)
LEMMA UpsetStays ==
  ASSUME Inv, NEW k \in DOMAIN calls, RestartActs(k), calls'[k].at \notin {"hung", "failed"}
  PROVE  calls'[k].upset = calls[k].upset
<1>1. calls[k] \in Call
  BY CallFacts DEF Inv
<1>2. CASE restart(k) \/ RestartThrows(k)
  BY <1>2, EndIs DEF restart, RestartThrows
<1>3. CASE RestartLocator(k)
  <2>1. Locator \in Conns
    BY ConnFacts DEF Inv
  <2> QED
    BY <1>1, <1>3, <2>1, ReconnectMoves DEF RestartLocator
<1>4. CASE LocatorRestarted(k) \/ Redeclared(k) \/ LoopEnds(k)
  <2>1. PICK r : calls'[k] = r /\ r.upset = calls[k].upset
    <3>1. CASE LocatorRestarted(k)
      <4> DEFINE t == registered \cap Consumers
                 r == [calls[k] EXCEPT !.at = "consumers", !.todo = t]
      <4>1. calls' = [calls EXCEPT ![k] = r]
        BY <3>1 DEF LocatorRestarted, Inv, TypeOK
      <4>2. r.upset = calls[k].upset
        BY <1>1 DEF Call
      <4> HIDE DEF r
      <4> QED
        BY <4>1, <4>2, ReplacedIs
    <3>2. CASE Redeclared(k)
      <4> DEFINE at == IF calls[k].user \in Consumers THEN "consumers" ELSE "publishers"
                 r == [calls[k] EXCEPT !.at = at]
      <4>1. calls' = [calls EXCEPT ![k] = r]
        BY <3>2 DEF Redeclared, Inv, TypeOK
      <4>2. r.upset = calls[k].upset
        BY <1>1 DEF Call
      <4> HIDE DEF r
      <4> QED
        BY <4>1, <4>2, ReplacedIs
    <3>3. CASE LoopEnds(k)
      <4> DEFINE t == registered \cap Publishers
                 r == [calls[k] EXCEPT !.at = "publishers", !.todo = t]
      <4>1. calls' = [calls EXCEPT ![k] = r] \/ End(k, "done")
        BY <3>3 DEF LoopEnds, Inv, TypeOK
      <4>2. r.upset = calls[k].upset
        BY <1>1 DEF Call
      <4> HIDE DEF r
      <4> QED
        BY <4>1, <4>2, ReplacedIs, EndIs
    <3> QED
      BY <1>4, <3>1, <3>2, <3>3
  <2> QED
    BY <2>1
<1>5. ASSUME NEW call \in Call, call.upset = calls[k].upset, declareOnConnection(k, call), UNCHANGED ready
      PROVE  calls'[k].upset = calls[k].upset
  <2> DEFINE c2 == [call EXCEPT !.at = "declaring"]
             n == Only(home[call.user])
  <2>1. c2 \in Call /\ c2.upset = call.upset
    BY DEF Call, Awaits
  <2>2. n \in [Conns -> Nat] /\ "declare" \in Requests
    BY DEF Only, Requests
  <2>3. Request(k, c2, "declare", n)
    BY <1>5 DEF declareOnConnection
  <2> HIDE DEF c2, n
  <2> QED
    BY <1>5, <2>1, <2>2, <2>3, RequestSpares
<1>6. CASE NextUser(k)
  <2>1. PICK u \in calls[k].todo :
          LET call == [calls[k] EXCEPT !.user = u, !.todo = @ \ {u}] IN
            declareOnConnection(k, call) \/ Reconnect(k, call, home[u])
    BY <1>6 DEF NextUser
  <2> DEFINE call == [calls[k] EXCEPT !.user = u, !.todo = @ \ {u}]
  <2>2. declareOnConnection(k, call) \/ Reconnect(k, call, home[u])
    BY <2>1
  <2>3. u \in Nat /\ home[u] \in Conns
    BY <1>1, ConnFacts DEF Call, Inv
  <2>4. call \in Call /\ call.upset = calls[k].upset
    BY <1>1, <2>3 DEF Call
  <2>5. UNCHANGED ready
    BY <1>6 DEF NextUser
  <2> HIDE DEF call
  <2> QED
    BY <1>5, <2>2, <2>3, <2>4, <2>5, ReconnectMoves
<1>7. CASE ConnectionRestarted(k)
  BY <1>1, <1>5, <1>7 DEF ConnectionRestarted
<1>8. CASE Refused(k)
  BY <1>8, RefusedRefuses
<1> QED
  BY <1>2, <1>3, <1>4, <1>6, <1>7, <1>8 DEF RestartActs

LEMMA OwnStep ==
  ASSUME Inv, NEW k \in DOMAIN calls, calls[k].op = "restart",
         calls[k].at = "refusing" \/ Restoring(k, calls[k]),
         Continue(k) \/ RestartLocator(k), calls'[k].at \notin {"hung", "failed"}
  PROVE  \/ calls'[k].at = "refusing" \/ Restoring(k, calls[k])'
         \/ calls'[k].at = "done" /\ Restored
<1>1. RestartActs(k) /\ ~RestartThrows(k)
  BY RestartDoes
<1>2. Refused(k) => calls'[k].at = "refusing"
  BY RefusedRefuses
<1>3. CASE Restoring(k, calls[k])
  BY <1>1, <1>2, <1>3, restartRestores, RestartLocatorRestores, LocatorRestartedRestores,
     NextUserRestores, ConnectionRestartedRestores, RedeclaredRestores, LoopEndsRestores
     DEF RestartActs
<1>4. calls[k].at # "refusing"
  BY <1>1 DEF RestartActs, restart, RestartLocator, LocatorRestarted, NextUser,
     ConnectionRestarted, Redeclared, LoopEnds, Refused, Woken
<1> QED
  BY <1>3, <1>4

(* The sockets and the broker, while restart k runs alone.                 *)
Lonely(k) ==
  /\ calls[k].op = "restart" /\ ~Over(calls[k])
  /\ \A j \in DOMAIN calls : j # k => Over(calls[j])
  /\ calls[k].at = "refusing" \/ Restoring(k, calls[k])
Goes(k) == calls'[k].at = "refusing" \/ Restoring(k, calls[k])'

LEMMA WakeIs ==
  ASSUME Inv, NEW k \in DOMAIN calls, NEW wake, calls' = Wake(k, wake)
  PROVE  /\ calls'[k].at = calls[k].at /\ calls'[k].conn = calls[k].conn
         /\ calls'[k].seen = calls[k].seen /\ calls'[k].user = calls[k].user
         /\ calls'[k].todo = calls[k].todo /\ calls'[k].upset = calls[k].upset
         /\ calls'[k].wake = wake
<1> DEFINE r == [calls[k] EXCEPT !.wake = wake]
<1>1. calls'[k] = r
  BY DEF Wake, Inv, TypeOK
<1>2. /\ r.at = calls[k].at /\ r.conn = calls[k].conn /\ r.seen = calls[k].seen
      /\ r.user = calls[k].user /\ r.todo = calls[k].todo /\ r.upset = calls[k].upset
      /\ r.wake = wake
  BY CallFacts DEF Inv, Call
<1> HIDE DEF r
<1> QED
  BY <1>1, <1>2

LEMMA LonelyConnected ==
  ASSUME Inv, NEW k \in DOMAIN calls, Lonely(k), NEW c \in Conns, Connected(c)
  PROVE  Goes(k)
<1>1. calls[k].at = "connecting" /\ calls[k].conn = c /\ calls' = Wake(k, "ok")
  BY DEF Connected, Lonely, Over
<1>2. Restoring(k, calls[k])
  BY <1>1 DEF Lonely
<1>3. /\ UNCHANGED <<home, queue, known, registered>>
      /\ Opened(c)' /\ \A d \in Conns : Opened(d) => Opened(d)'
  BY DEF Connected, users, Opened, Inv, TypeOK
<1>4. /\ calls'[k].at = calls[k].at /\ calls'[k].conn = calls[k].conn
      /\ calls'[k].seen = calls[k].seen /\ calls'[k].user = calls[k].user
      /\ calls'[k].todo = calls[k].todo /\ calls'[k].upset = calls[k].upset
      /\ calls'[k].wake = "ok"
  BY <1>1, WakeIs
<1>5. \A d \in calls[k].seen \ {Locator} : Mine(k, d)' /\ known[d] \subseteq known'[d] /\ Opened(d)'
  <2>1. calls[k].seen \subseteq Conns
    BY CallFacts DEF Inv, Call
  <2> QED
    BY <1>1, <1>2, <1>3, <2>1 DEF Restoring, Seized, Mine
<1>6. \A u \in registered : Pending(calls[k], u) => Pending(calls'[k], u)
  BY <1>1, <1>4 DEF Pending, Onset, Declaring, Loops
<1> QED
  BY <1>1, <1>2, <1>3, <1>4, <1>5, <1>6, RestoringStays DEF Goes

(* Neither the restart nor a connection it has restarted is concerned.     *)
LEMMA LonelyRests ==
  ASSUME Inv, NEW k \in DOMAIN calls, Lonely(k), calls'[k] = calls[k],
         UNCHANGED <<home, registered>>,
         Restoring(k, calls[k]) =>
           \A d \in calls[k].seen \ {Locator} :
             /\ Mine(k, d) => Mine(k, d)'
             /\ Opened(d) => Opened(d)'
             /\ known[d] \subseteq known'[d]
  PROVE  Goes(k)
<1>1. CASE Restoring(k, calls[k])
  <2>1. \A d \in calls[k].seen \ {Locator} :
           /\ Mine(k, d)' /\ known[d] \subseteq known'[d]
           /\ \/ Opened(d)'
              \/ calls[k].at = "connecting" /\ calls[k].conn = d /\ calls'[k].wake = "no"
    BY <1>1 DEF Restoring, Seized
  <2>2. calls[k].at \in {"consumers", "publishers"} => calls'[k].wake = "ok"
    BY <1>1 DEF Restoring
  <2> QED
    BY <1>1, <2>1, <2>2, RestoringStays DEF Goes
<1> QED
  BY <1>1 DEF Lonely, Goes

LEMMA LonelySocketCloses ==
  ASSUME Inv, NEW k \in DOMAIN calls, Lonely(k), NEW c \in Conns, SocketCloses(c)
  PROVE  Goes(k)
<1>1. UNCHANGED <<home, registered, queue, known>> /\ calls'[k] = calls[k]
  BY DEF SocketCloses, users
<1>2. \A d \in Conns : Opened(d) => Opened(d)'
  BY DEF SocketCloses, Opened, Inv, TypeOK
<1>3. calls[k].seen \subseteq Conns
  BY CallFacts DEF Inv, Call
<1> QED
  BY <1>1, <1>2, <1>3, LonelyRests DEF Mine

(* The request that the broker reads.                                      *)
LEMMA HeadFacts ==
  ASSUME Inv, NEW c \in Conns, queue[c] # <<>>
  PROVE  /\ Head(queue[c]) \in Entry /\ Head(queue[c]) = queue[c][1] /\ 1 \in DOMAIN queue[c]
         /\ Head(queue[c]).by \in DOMAIN calls
         /\ Fits(Head(queue[c]), c, calls[Head(queue[c]).by])
         /\ \A k : Mine(k, c) => /\ Head(queue[c]).by = k
                                 /\ \A i \in DOMAIN Tail(queue[c]) : Tail(queue[c])[i].by = k
<1> DEFINE s == queue[c]
<1>1. s \in Seq(Entry) /\ s # <<>>
  BY DEF Inv, TypeOK
<1>2. /\ Head(s) \in Entry /\ Head(s) = s[1] /\ 1 \in DOMAIN s
      /\ \A i \in DOMAIN Tail(s) : \E m \in DOMAIN s : Tail(s)[i] = s[m]
  <2> HIDE DEF s
  <2>1. Len(s) \in Nat \ {0} /\ DOMAIN s = 1 .. Len(s) /\ Head(s) = s[1]
    BY <1>1, EmptySeq, LenProperties, HeadTailProperties
  <2>2. /\ DOMAIN Tail(s) = 1 .. Len(s) - 1 /\ \A i \in 1 .. Len(s) - 1 : Tail(s)[i] = s[i + 1]
    BY <1>1, HeadTailProperties, LenProperties
  <2>3. \A i \in 1 .. Len(s) - 1 : i + 1 \in 1 .. Len(s)
    BY <2>1
  <2>4. 1 \in DOMAIN s
    BY <2>1
  <2> QED
    BY <1>1, <2>1, <2>2, <2>3, <2>4
<1> DEFINE f == s[1]
<1>3. f.by \in DOMAIN calls /\ Fits(f, c, calls[f.by])
  BY <1>2 DEF Inv, QueueInv
<1>4. \A k : Mine(k, c) => f.by = k /\ \A i \in DOMAIN Tail(s) : Tail(s)[i].by = k
  BY <1>2 DEF Mine
<1> QED
  BY <1>2, <1>3, <1>4

LEMMA LonelyBrokerAnswers ==
  ASSUME Inv, NEW k \in DOMAIN calls, Lonely(k), NEW c \in Conns, BrokerAnswers(c)
  PROVE  Goes(k)
<1> DEFINE f == Head(queue[c])
           u == calls[f.by].user
           v == Verdict(f.req, u, c)
<1>1. /\ UNCHANGED <<home, sock, ready, registered>>
      /\ queue' = [queue EXCEPT ![c] = Tail(@)]
      /\ known' = [known EXCEPT ![c] =
           IF f.req \in {"unsubscribe", "delete"} THEN @ \ {u}
           ELSE IF f.req = "declare" /\ exists[c] THEN @ \cup {u} ELSE @]
      /\ calls' = Wake(f.by, v)
      /\ f.req \notin {"close", "end"} /\ queue[c] # <<>>
  BY DEF BrokerAnswers, users
<1>2. /\ f \in Entry /\ f.by \in DOMAIN calls /\ Fits(f, c, calls[f.by])
      /\ Mine(k, c) => \A i \in DOMAIN Tail(queue[c]) : Tail(queue[c])[i].by = k
  BY <1>1, HeadFacts
<1>3. v = "ok" /\ f.req = "declare" => exists[c]
  BY DEF Verdict
<1> HIDE DEF f, v
<1>4. /\ Suits(f.req, c, calls[f.by]) /\ calls[f.by].wake = "no" /\ calls[f.by].at # "hung"
      /\ f.req \in {"metadata", "unsubscribe", "delete", "declare"}
  BY <1>1, <1>2 DEF Fits, Entry, Requests
<1>5. f.by = k
  BY <1>2, <1>4 DEF Lonely, Suits, Over
<1>6. Restoring(k, calls[k])
  BY <1>4, <1>5 DEF Lonely, Suits
<1>7. /\ f.req = "declare" /\ calls[k].at = "declaring" /\ u = calls[k].user /\ u \in Users
      /\ c = home[u]
  BY <1>4, <1>5, <1>6 DEF Suits, Restoring
<1>8. /\ calls'[k].at = calls[k].at /\ calls'[k].conn = calls[k].conn
      /\ calls'[k].seen = calls[k].seen /\ calls'[k].user = calls[k].user
      /\ calls'[k].todo = calls[k].todo /\ calls'[k].upset = calls[k].upset
      /\ calls'[k].wake = v
  BY <1>1, <1>5, WakeIs
<1>9. /\ \A d \in Conns : known[d] \subseteq known'[d]
      /\ exists[c] => u \in known'[c]
  <2> HIDE DEF u
  <2> QED
    BY <1>1, <1>7 DEF Inv, TypeOK
<1>10. \A d \in Conns : Mine(k, d) => Mine(k, d)'
  <2>1. \A d \in Conns \ {c} : queue'[d] = queue[d]
    BY <1>1 DEF Inv, TypeOK
  <2>2. queue'[c] = Tail(queue[c])
    BY <1>1 DEF Inv, TypeOK
  <2> QED
    BY <1>2, <2>1, <2>2 DEF Mine
<1>11. \A d \in calls[k].seen \ {Locator} : Mine(k, d)' /\ known[d] \subseteq known'[d] /\ Opened(d)'
  <2>1. calls[k].seen \subseteq Conns
    BY CallFacts DEF Inv, Call
  <2>2. \A d \in calls[k].seen \ {Locator} : Mine(k, d) /\ Opened(d)
    BY <1>6, <1>7, SeizedOpen
  <2> QED
    BY <1>1, <1>9, <1>10, <2>1, <2>2 DEF Opened
<1>12. ASSUME NEW w \in registered, Pending(calls[k], w)
       PROVE  Pending(calls'[k], w) \/ Declared(calls[k], w)'
  <2>1. Declaring(calls[k]) /\ Declaring(calls'[k]) /\ ~Onset(calls[k])
    BY <1>7, <1>8 DEF Declaring, Onset
  <2>2. CASE w = calls[k].user
    <3>1. home[w] \in calls[k].seen
      BY <1>6, <2>1, <2>2 DEF Restoring
    <3>2. CASE v = "ok"
      BY <1>1, <1>3, <1>7, <1>8, <1>9, <2>2, <3>1, <3>2 DEF Declared
    <3>3. CASE v # "ok"
      BY <1>8, <2>1, <2>2, <3>3 DEF Pending
    <3> QED
      BY <3>2, <3>3
  <2>3. CASE w # calls[k].user
    BY <1>8, <1>12, <2>1, <2>3 DEF Pending, Loops
  <2> QED
    BY <2>2, <2>3
<1>13. calls[k].at \notin {"consumers", "publishers"}
  BY <1>7
<1> QED
  BY <1>1, <1>6, <1>8, <1>11, <1>12, <1>13, RestoringStays DEF Goes

LEMMA LonelyCloseAnswered ==
  ASSUME Inv, NEW k \in DOMAIN calls, Lonely(k), NEW c \in Conns, CloseAnswered(c), calls'[k].at # "hung"
  PROVE  Goes(k)
<1> DEFINE f == Head(queue[c])
           left == Abandon(calls, c, Tail(queue[c]))
           more == \E d \in Conns \ {c} : WaitsFor(f.by, d, queue[d])
<1>1. /\ UNCHANGED <<home, ready, registered>> /\ f.req \in {"close", "end"} /\ queue[c] # <<>>
      /\ sock' = [sock EXCEPT ![c] = "half"]
      /\ queue' = [queue EXCEPT ![c] = <<>>] /\ known' = [known EXCEPT ![c] = {}]
      /\ calls' = IF more \/ left[f.by].at = "hung" THEN left ELSE [left EXCEPT ![f.by].wake = "ok"]
  BY DEF CloseAnswered, users
<1>2. /\ f \in Entry /\ f.by \in DOMAIN calls /\ Fits(f, c, calls[f.by])
      /\ Mine(k, c) => f.by = k
  BY <1>1, HeadFacts
<1>3. /\ DOMAIN left = DOMAIN calls /\ left = [j \in DOMAIN calls |-> left[j]]
      /\ left[k] = [calls[k] EXCEPT !.at = "hung"] \/ left[k] = calls[k]
      /\ left[k] \in Call
  BY AbandonFacts
<1> HIDE DEF f, left, more
<1>4. /\ calls'[k] = left[k] \/ (f.by = k /\ calls'[k] = [left[k] EXCEPT !.wake = "ok"])
  BY <1>1, <1>2, <1>3
<1>5. left[k] = calls[k]
  <2> SUFFICES ASSUME left[k] = [calls[k] EXCEPT !.at = "hung"] PROVE FALSE
    BY <1>3
  <2>1. left[k].at = "hung"
    BY CallFacts DEF Inv, Call
  <2>2. calls'[k].at = "hung"
    <3> DEFINE g == [left[k] EXCEPT !.wake = "ok"]
    <3>1. g.at = left[k].at
      BY <1>3 DEF Call
    <3> HIDE DEF g
    <3> QED
      BY <1>4, <2>1, <3>1 DEF g
  <2> QED
    BY <2>2
<1>6. CASE f.by = k
  <2>1. calls[k].at = "refusing"
    BY <1>1, <1>2, <1>6 DEF Lonely, Fits, Suits, Over, Restoring
  <2> DEFINE g == [calls[k] EXCEPT !.wake = "ok"]
  <2>2. g.at = calls[k].at /\ g.upset = calls[k].upset
    BY CallFacts DEF Inv, Call
  <2>3. calls'[k] = calls[k] \/ calls'[k] = g
    BY <1>4, <1>5
  <2> HIDE DEF g
  <2> QED
    BY <2>1, <2>2, <2>3 DEF Goes
<1>7. CASE f.by # k
  <2>1. calls'[k] = calls[k]
    BY <1>4, <1>5, <1>7
  <2>2. calls[k].seen \subseteq Conns
    BY CallFacts DEF Inv, Call
  <2>3. Restoring(k, calls[k]) => c \notin calls[k].seen \ {Locator}
    BY <1>2, <1>7 DEF Restoring, Seized
  <2>4. \A d \in Conns \ {c} : sock'[d] = sock[d] /\ queue'[d] = queue[d] /\ known'[d] = known[d]
    BY <1>1 DEF Inv, TypeOK
  <2> QED
    BY <1>1, <2>1, <2>2, <2>3, <2>4, LonelyRests, SMTT(30) DEF Mine, Opened
<1> QED
  BY <1>6, <1>7

(* Who is over does not act any more.                                      *)
LEMMA ContinueActs ==
  ASSUME NEW j \in DOMAIN calls, Continue(j) \/ RestartLocator(j)
  PROVE  ~Over(calls[j])
BY DEF Continue, RestartLocator, Released, CloseUser, closeConsumer, Unsubscribe, closing,
   deletePublisher, Deleted, Throws, closeAllPublishers, closeAllConsumers, CloseLocator, Closed,
   restart, LocatorRestarted, NextUser, ConnectionRestarted, Redeclared, LoopEnds, Refused,
   RestartThrows, Woken, Over

(* A failure upsets every call.                                            *)
LEMMA FailureUpsets ==
  ASSUME Inv, NEW k \in DOMAIN calls, NEW c \in Conns, Drop(c) \/ ConnectFails(c)
  PROVE  calls'[k].upset /\ calls'[k].at \in {calls[k].at, "hung"}
<1>1. ASSUME NEW cs, k \in DOMAIN cs, cs[k] \in Call, cs[k].at \in {calls[k].at, "hung"}, calls' = Upset(cs)
      PROVE  calls'[k].upset /\ calls'[k].at \in {calls[k].at, "hung"}
  <2> DEFINE r == [cs[k] EXCEPT !.upset = TRUE]
  <2>1. calls'[k] = r
    BY <1>1 DEF Upset
  <2>2. r.upset /\ r.at = cs[k].at
    BY <1>1 DEF Call
  <2> HIDE DEF r
  <2> QED
    BY <1>1, <2>1, <2>2
<1>2. CASE Drop(c)
  <2> DEFINE a == Abandon(calls, c, queue[c])
  <2>1. k \in DOMAIN a /\ a[k] \in Call /\ Passive(calls[k], a[k])
    BY AbandonFacts
  <2>2. calls' = Upset(a)
    BY <1>2 DEF Drop
  <2> HIDE DEF a
  <2> QED
    BY <1>1, <2>1, <2>2 DEF Passive
<1>3. CASE ConnectFails(c)
  <2>1. PICK j \in DOMAIN calls : calls[j].at = "connecting" /\ calls' = Upset(Wake(j, "error"))
    BY <1>3 DEF ConnectFails
  <2> DEFINE w == Wake(j, "error")
  <2>2. /\ DOMAIN w = DOMAIN calls
        /\ \A i \in DOMAIN calls : w[i] \in Call /\ (i # j => w[i] = calls[i])
        /\ w[j].at = calls[j].at
    BY <2>1, SocketWakes DEF Wakes
  <2>3. calls' = Upset(w)
    BY <2>1
  <2> HIDE DEF w
  <2> QED
    BY <1>1, <2>2, <2>3
<1> QED
  BY <1>2, <1>3

(* What an answer leaves of the call that it is for, and of the others.    *)
LEMMA AnswersKeep ==
  ASSUME Inv, NEW k \in DOMAIN calls, NEW c \in Conns, Network(c), calls'[k].at # "hung"
  PROVE  calls'[k].upset = calls[k].upset
<1>1. ASSUME NEW j \in DOMAIN calls, NEW wake, calls' = Wake(j, wake) PROVE calls'[k].upset = calls[k].upset
  <2>1. j # k => calls'[k] = calls[k]
    BY <1>1 DEF Wake, Inv, TypeOK
  <2> QED
    BY <1>1, <2>1, WakeIs
<1>2. CASE Connected(c)
  BY <1>1, <1>2 DEF Connected
<1>3. CASE SocketCloses(c)
  BY <1>3 DEF SocketCloses
<1>4. CASE BrokerAnswers(c)
  BY <1>1, <1>4, HeadFacts DEF BrokerAnswers
<1>5. CASE CloseAnswered(c)
  <2> DEFINE i == Head(queue[c]).by
             left == Abandon(calls, c, Tail(queue[c]))
             more == \E d \in Conns \ {c} : WaitsFor(i, d, queue[d])
  <2>1. calls' = IF more \/ left[i].at = "hung" THEN left ELSE [left EXCEPT ![i].wake = "ok"]
    BY <1>5 DEF CloseAnswered
  <2>2. /\ DOMAIN left = DOMAIN calls /\ left = [j \in DOMAIN calls |-> left[j]]
        /\ left[k] = [calls[k] EXCEPT !.at = "hung"] \/ left[k] = calls[k]
        /\ left[k] \in Call
    BY AbandonFacts
  <2> HIDE DEF left, more, i
  <2> DEFINE g == [left[k] EXCEPT !.wake = "ok"]
             h == [calls[k] EXCEPT !.at = "hung"]
  <2>3. calls'[k] \in {left[k], g}
    BY <2>1, <2>2
  <2>4. h.upset = calls[k].upset
    BY CallFacts DEF Inv, Call
  <2>5. g.upset = left[k].upset
    BY <2>2 DEF Call
  <2> HIDE DEF g, h
  <2> QED
    BY <2>2, <2>3, <2>4, <2>5 DEF h
<1> QED
  BY <1>2, <1>3, <1>4, <1>5 DEF Network

(* Only the restart itself acts, the network and the broker; or the        *)
(* application calls something else, or something fails.                   *)
LEMMA WhoActs ==
  ASSUME Inv, NEW k \in DOMAIN calls, [Next]_vars, ~Over(calls[k]),
         \A j \in DOMAIN calls : j # k => Over(calls[j])
  PROVE  \/ Continue(k) \/ RestartLocator(k)
         \/ \E c \in Conns : Network(c)
         \/ \E c \in Conns : Drop(c) \/ ConnectFails(c)
         \/ Grows
         \/ UNCHANGED vars
<1>1. CASE Start("restart", 0) \/ Start("close", 0)
  <2>1. /\ "restart" \in Ops /\ "close" \in Ops /\ 0 \in Nat
        /\ "restart" \notin UserOps /\ "close" \notin UserOps
    BY DEF Ops, UserOps, Closers
  <2> QED
    BY <1>1, <2>1, StartKept
<1>2. CASE \E u \in Users : \E op \in {"closeConsumer", "deletePublisher", "closeUser"} : Start(op, u)
  <2>1. \A u \in Users : u \in Nat
    BY ClientAssumption
  <2>2. {"closeConsumer", "deletePublisher", "closeUser"} \subseteq Ops
    BY DEF Ops
  <2> QED
    BY <1>2, <2>1, <2>2, StartKept
<1>3. ASSUME NEW j \in DOMAIN calls, Continue(j) \/ RestartLocator(j) PROVE j = k
  <2>1. ~Over(calls[j])
    BY <1>3, ContinueActs
  <2> QED
    BY <2>1
<1>4. CASE \E c \in Conns : MetadataUpdate(c)
  BY <1>4, MetadataUpdateKept
<1> QED
  BY <1>1, <1>2, <1>3, <1>4 DEF Next, Users

(* A restart that runs alone goes on, hears of a failure or of another     *)
(* call, or returns with everyone restored.                                *)
LEMMA LonelyStep ==
  ASSUME Inv, NEW k \in DOMAIN calls, Lonely(k), [Next]_vars, calls'[k].at \notin {"hung", "failed"}
  PROVE  \/ Goes(k)
         \/ calls'[k].at # "done" /\ (calls'[k].upset \/ calls'[k].beside # {})
         \/ calls'[k].at = "done" /\ Restored
<1>1. /\ calls[k].op = "restart" /\ ~Over(calls[k])
      /\ \A j \in DOMAIN calls : j # k => Over(calls[j])
      /\ calls[k].at = "refusing" \/ Restoring(k, calls[k])
  BY DEF Lonely
<1>2. CASE Continue(k) \/ RestartLocator(k)
  BY <1>1, <1>2, OwnStep DEF Goes
<1>3. CASE \E c \in Conns : Network(c)
  BY <1>3, LonelyConnected, LonelySocketCloses, LonelyBrokerAnswers, LonelyCloseAnswered DEF Network
<1>4. CASE \E c \in Conns : Drop(c) \/ ConnectFails(c)
  BY <1>1, <1>4, FailureUpsets DEF Over
<1>5. CASE Grows
  BY <1>1, <1>5 DEF Grows, Passive, Over
<1>6. CASE UNCHANGED vars
  BY <1>6, LonelyRests DEF vars, users, Mine, Opened
<1> QED
  BY <1>1, <1>2, <1>3, <1>4, <1>5, <1>6, WhoActs

LEMMA UpsetLasts ==
  ASSUME Inv, NEW k \in DOMAIN calls, calls[k].op = "restart", ~Over(calls[k]),
         \A j \in DOMAIN calls : j # k => Over(calls[j]), [Next]_vars, ~Over(calls'[k]),
         calls'[k].beside = {}, ~calls'[k].upset
  PROVE  ~calls[k].upset
<1>1. calls'[k].at \notin {"hung", "failed"}
  BY DEF Over
<1>2. CASE Continue(k) \/ RestartLocator(k)
  BY <1>1, <1>2, RestartDoes, UpsetStays
<1>3. CASE \E c \in Conns : Network(c)
  BY <1>1, <1>3, AnswersKeep
<1>4. ~(\E c \in Conns : Drop(c) \/ ConnectFails(c))
  BY FailureUpsets
<1>5. ~Grows
  BY DEF Grows
<1>6. CASE UNCHANGED vars
  BY <1>6 DEF vars
<1> QED
  BY <1>2, <1>3, <1>4, <1>5, <1>6, WhoActs

(* A restart that begins has everything before it.                         *)
LEMMA NewRestores ==
  ASSUME Inv, [Next]_vars, NEW k \in DOMAIN calls' \ DOMAIN calls, calls'[k].op = "restart"
  PROVE  Restoring(k, calls[k])'
<1>1. Grows
  BY StepInv DEF Steps
<1>2. calls'[k].at = "begins" /\ calls'[k].todo = {} /\ calls'[k].seen = {Locator}
  BY <1>1 DEF Grows, Begins
<1> QED
  BY <1>2 DEF Restoring, Onset, Loops, Declaring, Seized, Pending

LEMMA StepRestores == Inv /\ AloneInv /\ RestoreInv /\ [Next]_vars => RestoreInv'
<1> SUFFICES ASSUME Inv, AloneInv, RestoreInv, [Next]_vars,
                    NEW k \in DOMAIN calls', Running(calls'[k]), ~calls'[k].upset
             PROVE  calls'[k].at = "refusing" \/ Restoring(k, calls[k])'
  BY DEF RestoreInv
<1>1. CASE k \in DOMAIN calls
  <2>1. Steps
    <3>1. ~Grows
      BY <1>1 DEF Grows, Passive, Over, Running
    <3> QED
      BY <3>1, StepInv
  <2>2. Running(calls[k])
    BY <1>1, <2>1 DEF Steps, Passive, Acts, Over, Running
  <2>3. calls[k].op = "restart" /\ ~Over(calls[k]) /\ \A j \in DOMAIN calls : j # k => Over(calls[j])
    BY <1>1, <2>2 DEF AloneInv, Running
  <2>4. ~calls[k].upset
    BY <1>1, <2>3, UpsetLasts DEF Running
  <2>5. Lonely(k)
    BY <1>1, <2>2, <2>3, <2>4 DEF Lonely, RestoreInv
  <2>6. calls'[k].at \notin {"hung", "failed", "done"} /\ calls'[k].beside = {}
    BY DEF Running, Over
  <2> QED
    BY <1>1, <2>5, <2>6, LonelyStep DEF Goes
<1>2. CASE k \notin DOMAIN calls
  BY <1>2, NewRestores DEF Running
<1> QED
  BY <1>1, <1>2

(* The runs check this for restarts beside others, too.                    *)
LoneRestartRestores ==
  [][\A k \in DOMAIN calls :
       /\ calls[k].op = "restart" /\ ~Over(calls[k]) /\ calls'[k].at = "done"
       /\ ~calls[k].upset /\ calls[k].beside = {}
       => Restored]_vars

(* Client.restart keeps its promise for any number of publishers and       *)
(* consumers, wherever they share connections, and after whatever calls    *)
(* and failures came before: if it runs alone and nothing fails meanwhile, *)
(* then everyone in the client's maps is declared at the broker, on a      *)
(* connection that is open and ready, when it returns.                     *)
THEOREM RestartIsComplete == Spec => LoneRestartRestores
<1> DEFINE RInv == Inv /\ AloneInv /\ RestoreInv
<1>1. Init => RInv
  <2> SUFFICES ASSUME Init PROVE RInv
    OBVIOUS
  <2>1. DOMAIN calls = {}
    BY EmptySeq DEF Init
  <2> QED
    BY <2>1, InitInv DEF AloneInv, RestoreInv
<1>2. RInv /\ [Next]_vars => RInv'
  BY StepInv, StepAlone, StepRestores
<1>3. RInv /\ [Next]_vars
      => [\A k \in DOMAIN calls :
            /\ calls[k].op = "restart" /\ ~Over(calls[k]) /\ calls'[k].at = "done"
            /\ ~calls[k].upset /\ calls[k].beside = {}
            => Restored]_vars
  <2> SUFFICES ASSUME RInv, [Next]_vars, NEW k \in DOMAIN calls, calls[k].op = "restart",
                      ~Over(calls[k]), calls'[k].at = "done", ~calls[k].upset, calls[k].beside = {}
               PROVE  Restored
    OBVIOUS
  <2>1. Running(calls[k])
    BY DEF Running
  <2>2. Lonely(k)
    BY <2>1 DEF Lonely, AloneInv, RestoreInv
  <2>3. ~Goes(k)
    BY DEF Goes, Restoring
  <2> QED
    BY <2>2, <2>3, LonelyStep
<1> HIDE DEF RInv
<1> QED
  BY <1>1, <1>2, <1>3, PTL DEF Spec, LoneRestartRestores
-----------------------------------------------------------------------------
(* The first close ends every connection.                                  *)

Forgetful == Closers \cup {"automaticClose"}
Batch == {"closeConsumer", "automaticClose"}
Woke(call) == call.wake # "no"
FirstWoken(k) == Woke(calls[k]) /\ \A j \in DOMAIN calls : j < k => ~Woke(calls[j])
Up == {"open", "opening"}

(* An open socket is ready, and who has asked for one waits for it.        *)
Awaiting(call, c) == call.at = "connecting" /\ call.conn = c /\ ~Woke(call)
Socks ==
  /\ \A c \in Conns : sock[c] = "open" => ready[c]
  /\ \A c \in Conns : sock[c] = "opening" => \E k \in DOMAIN calls : Awaiting(calls[k], c)
  /\ \A k \in DOMAIN calls : calls[k].at = "connecting" =>
       calls[k].op = "restart" /\ (calls[k].conn # Locator => calls[k].conn = home[calls[k].user])

(* At most one call has an answer it has not acted on; only a metadata     *)
(* update has several calls begin at once.                                 *)
InTurn ==
  /\ \A k \in DOMAIN calls : calls[k].at = "begins" => Woke(calls[k])
  /\ \A j, k \in DOMAIN calls : j < k /\ Woke(calls[j]) /\ Woke(calls[k]) =>
       calls[k].at = "begins" /\ calls[j].op \in Batch

(* Who hangs has left no request, but for Client.close; the end of a       *)
(* connection is asked for by its users, that of the locator's by close.   *)
Place(f, c, call) ==
  /\ call.op # "close" => call.at # "hung" /\ (f.req \in {"close", "end"} => c = home[call.user])
  /\ call.op = "close" /\ f.req = "end" => c = Locator
Placed == \A c \in Conns : \A i \in DOMAIN queue[c] : Place(queue[c][i], c, calls[queue[c][i].by])

(* Who waits to give a connection back has asked for its end.              *)
Asked ==
  \A k \in DOMAIN calls :
    calls[k].op \in Forgetful /\ calls[k].at = "releasing" /\ ~Woke(calls[k]) => ~Silent(k)

(* Who is going to give it back finds it open.                             *)
Upright(call) ==
  \/ call.at = "begins" /\ call.op = "automaticClose"
  \/ call.at \in {"deleting", "unsubscribing"} /\ call.wake = "ok"
  => sock[home[call.user]] = "open"
Kind(call) ==
  /\ call.op = "closeConsumer" => call.user \in Consumers
  /\ call.op \in {"deletePublisher", "automaticClose"} => call.user \in Publishers
  /\ call.at \in {"deleting", "unsubscribing"} => call.op \in Closers

Orderly ==
  /\ Socks /\ InTurn /\ Placed /\ Asked
  /\ \A k \in DOMAIN calls : Upright(calls[k]) /\ Kind(calls[k])

(* Until a call has failed or a close has begun to close.                  *)
Fresh == \A j \in DOMAIN calls : calls[j].at # "failed" /\ (calls[j].op = "close" => calls[j].at = "begins")

(* Connections that may be left open: a publisher on it was closed by the  *)
(* application itself.                                                     *)
Exempt(c) ==
  \E j \in DOMAIN calls :
    calls[j].op = "closeUser" /\ calls[j].user \in Publishers /\ c = home[calls[j].user]

(* Users that will still give connection c back when the client closes.    *)
Leaves(call, u) == call.op \in Forgetful /\ call.at = "releasing" /\ call.user = u
Leaving(u) == \E j \in DOMAIN calls : Leaves(calls[j], u)
Able(c) == {u \in registered \cap UsersOf(c) : ~Leaving(u) /\ (u \in Consumers \/ u \notin closed)}

(* The end of connection c is asked for, or about to be because its stream *)
(* is gone.                                                                *)
Asks(c) == \E i \in DOMAIN queue[c] : queue[c][i].req = "close"
Refuses(call, c) ==
  /\ call.op = "restart"
  /\ \/ call.at = "connecting" /\ call.conn = c
     \/ call.at = "declaring" /\ home[call.user] = c /\ call.wake # "ok"
     \/ call.at = "refusing" /\ home[call.user] = c
Refusing(c) == ~exists[c] /\ \E k \in DOMAIN calls : Refuses(calls[k], c)

(* No connection is counted for more users than will give it back, and one *)
(* that is up has such a user or ends.                                     *)
Counts(c) ==
  c # Locator /\ ~Exempt(c) =>
    /\ refs[c] <= Cardinality(Able(c))
    /\ sock[c] \in Up => Able(c) # {} \/ Asks(c) \/ Refusing(c)

(* A closed publisher in the map is Exempt, or about to leave the map.     *)
Listed ==
  /\ \A k \in DOMAIN calls : calls[k].todo \subseteq registered
  /\ \A u \in registered \cap Publishers \cap closed :
       Exempt(home[u]) \/ \E r \in DOMAIN calls : Leaves(calls[r], u) /\ Woke(calls[r])
Counted == Fresh => Listed /\ \A c \in Conns : Counts(c)

(* A close that runs alone: who was called before is over.                 *)
Alone(k) == calls[k].op = "close" /\ calls[k].beside = {} /\ k = Len(calls)
ClosesAlone ==
  \A k \in DOMAIN calls : Alone(k) => \A j \in DOMAIN calls : j # k => Over(calls[j])

(* How far it has come, if it is the first and no call has failed.         *)
Clear(k) == \A j \in DOMAIN calls : calls[j].at # "failed" /\ (calls[j].op = "close" => j = k)
Remaining(c) == registered \cap Consumers \cap UsersOf(c)
AsksFor(k, c) == \E i \in DOMAIN queue[c] : queue[c][i].by = k
Ends(k, c) ==
  /\ calls[k].at = "publishers" /\ c # Locator =>
       /\ refs[c] <= Cardinality(Remaining(c))
       /\ sock[c] = "open" => Remaining(c) # {} \/ AsksFor(k, c)
  /\ calls[k].at = "consumers" /\ c # Locator /\ sock[c] = "open" => AsksFor(k, c)
  /\ calls[k].at = "locator" /\ sock[c] = "open" => c = Locator /\ calls[k].wake # "ok"
  /\ calls[k].at = "done" => sock[c] \notin Up
EndsAll(k) == \A c \in Conns : ~Exempt(c) => Ends(k, c)
Ending == ClosesAlone /\ \A k \in DOMAIN calls : Alone(k) /\ Clear(k) => EndsAll(k)

(* What a request does to sockets and calls.                               *)
LEMMA RequestDoes ==
  ASSUME Inv, NEW k \in DOMAIN calls, NEW call \in Call, NEW req \in Requests,
         NEW n \in [Conns -> Nat], Request(k, call, req, n)
  PROVE  /\ DOMAIN calls' = DOMAIN calls /\ Others(k)
         /\ \A c \in Conns : sock'[c] = IF n[c] > 0 /\ sock[c] = "opening" THEN "half" ELSE sock[c]
         /\ \A j \in DOMAIN calls : j # k =>
              \/ calls'[j] = calls[j]
              \/ \E c \in Conns : /\ sock[c] = "opening" /\ sock'[c] = "half"
                                  /\ calls[j].at = "connecting" /\ calls[j].conn = c /\ calls'[j].at = "hung"
         /\ calls'[k].op = call.op /\ calls'[k].user = call.user /\ calls'[k].conn = call.conn
         /\ calls'[k].todo = call.todo /\ calls'[k].beside = call.beside
         /\ calls'[k].at = IF \E c \in Conns : n[c] > 0 /\ sock[c] = "opening" THEN "hung" ELSE call.at
         /\ calls'[k].wake = IF \E c \in Conns : n[c] > 0 /\ sock[c] \in Up THEN "no"
                             ELSE IF (\A c \in Conns : n[c] = 0) \/ req = "close" THEN "ok" ELSE "error"
<1> USE DEF Inv, Up
<1> DEFINE asked == {c \in Conns : n[c] > 0}
           early == {c \in asked : sock[c] = "opening"}
           sent == {c \in asked : sock[c] = "open"}
           at == IF early # {} THEN "hung" ELSE call.at
           wake == IF early \cup sent # {} THEN "no"
                   ELSE IF asked = {} \/ req = "close" THEN "ok" ELSE "error"
           r == [call EXCEPT !.at = at, !.wake = wake]
<1>1. Others(k) /\ DOMAIN calls' = DOMAIN calls
  <2>1. TypeOK
    OBVIOUS
  <2>2. Others(k)
    BY <2>1, RequestFacts
  <2> QED
    BY <2>1, <2>2, LenProperties DEF Others, TypeOK
<1>2. /\ calls'[k] = r /\ sock' = [c \in Conns |-> IF c \in early THEN "half" ELSE sock[c]]
      /\ \A j \in DOMAIN calls : j # k =>
           calls'[j] = IF calls[j].at = "connecting" /\ calls[j].conn \in early
                       THEN [calls[j] EXCEPT !.at = "hung"] ELSE calls[j]
  BY DEF Request
<1>3. /\ r.op = call.op /\ r.user = call.user /\ r.conn = call.conn /\ r.todo = call.todo
      /\ r.beside = call.beside /\ r.at = at /\ r.wake = wake
  <2> HIDE DEF at, wake
  <2> QED
    BY DEF Call
<1>4. at = IF \E c \in Conns : n[c] > 0 /\ sock[c] = "opening" THEN "hung" ELSE call.at
  <2>1. early # {} <=> \E c \in Conns : n[c] > 0 /\ sock[c] = "opening"
    OBVIOUS
  <2> HIDE DEF early
  <2> QED
    BY <2>1
<1>5. wake = IF \E c \in Conns : n[c] > 0 /\ sock[c] \in Up THEN "no"
             ELSE IF (\A c \in Conns : n[c] = 0) \/ req = "close" THEN "ok" ELSE "error"
  <2>1. early \cup sent # {} <=> \E c \in Conns : n[c] > 0 /\ sock[c] \in Up
    OBVIOUS
  <2>2. asked = {} <=> \A c \in Conns : n[c] = 0
    OBVIOUS
  <2> HIDE DEF early, sent, asked
  <2> QED
    BY <2>1, <2>2
<1>6. ASSUME NEW j \in DOMAIN calls, j # k
      PROVE  \/ calls'[j] = calls[j]
             \/ \E c \in Conns : /\ sock[c] = "opening" /\ sock'[c] = "half"
                                 /\ calls[j].at = "connecting" /\ calls[j].conn = c /\ calls'[j].at = "hung"
  <2>1. CASE ~(calls[j].at = "connecting" /\ calls[j].conn \in early)
    BY <1>2, <1>6, <2>1
  <2>2. CASE calls[j].at = "connecting" /\ calls[j].conn \in early
    <3> DEFINE c == calls[j].conn
    <3>1. c \in Conns /\ sock[c] = "opening" /\ sock'[c] = "half"
      BY <1>2, <2>2
    <3>2. calls'[j] = [calls[j] EXCEPT !.at = "hung"]
      BY <1>2, <1>6, <2>2
    <3> HIDE DEF early
    <3>3. calls'[j].at = "hung"
      BY <3>2, CallFacts DEF Call
    <3> QED
      BY <2>2, <3>1, <3>3
  <2> QED
    BY <2>1, <2>2
<1>7. \A c \in Conns : sock'[c] = IF n[c] > 0 /\ sock[c] = "opening" THEN "half" ELSE sock[c]
  BY <1>2
<1> HIDE DEF r, early, sent, asked, at, wake
<1>8. calls'[k].at = at /\ calls'[k].wake = wake
  BY <1>2, <1>3
<1> QED
  BY <1>1, <1>2, <1>3, <1>4, <1>5, <1>6, <1>7, <1>8

(* What was written to an open socket is in its queue.                     *)
LEMMA RequestArrives ==
  ASSUME Inv, NEW k \in DOMAIN calls, NEW call \in Call, NEW req \in Requests,
         NEW n \in [Conns -> Nat], Request(k, call, req, n),
         NEW c \in Conns, n[c] > 0, sock[c] = "open"
  PROVE  \E i \in DOMAIN queue'[c] : queue'[c][i].req = req /\ queue'[c][i].by = k
<1> USE DEF Inv
<1> DEFINE e == [req |-> req, by |-> k]
           new == [i \in 1 .. n[c] |-> e]
<1>1. queue'[c] = queue[c] \o new
  BY DEF Request
<1>2. queue[c] \in Seq(Entry) /\ n[c] \in Nat \ {0} /\ e \in Entry
  <2>1. k \in Nat
    BY CallFacts
  <2>2. n[c] \in Nat \ {0} /\ queue[c] \in Seq(Entry)
    BY DEF TypeOK
  <2> QED
    BY <2>1, <2>2 DEF Entry
<1>3. new \in Seq(Entry) /\ Len(new) = n[c] /\ new[1] = e
  <2>1. new \in [1 .. n[c] -> Entry] /\ new[1] = e
    BY <1>2
  <2> HIDE DEF new
  <2> QED
    BY <1>2, <2>1, EachIsSeq
<1> HIDE DEF new, e
<1> DEFINE b == queue[c]
<1>4. b \in Seq(Entry)
  BY <1>2
<1> HIDE DEF b
<1>5. /\ Len(b \o new) = Len(b) + Len(new) /\ Len(b) \in Nat /\ DOMAIN (b \o new) = 1 .. Len(b \o new)
      /\ \A i \in 1 .. Len(b) + Len(new) : (b \o new)[i] = IF i <= Len(b) THEN b[i] ELSE new[i - Len(b)]
  BY <1>3, <1>4, ConcatProperties, LenProperties
<1> DEFINE l == Len(b)
<1>6. l + 1 \in 1 .. l + Len(new) /\ ~(l + 1 <= l) /\ l + 1 - l = 1
  BY <1>2, <1>3, <1>5
<1>7. l + 1 \in DOMAIN (b \o new) /\ (b \o new)[l + 1] = e
  BY <1>3, <1>5, <1>6
<1>8. queue'[c] = b \o new
  BY <1>1 DEF b
<1>9. e.req = req /\ e.by = k
  BY DEF e
<1> QED
  BY <1>7, <1>8, <1>9

LEMMA WokenIsFirst ==
  ASSUME Inv, NEW k \in DOMAIN calls, NEW op, NEW at, Woken(k, op, at)
  PROVE  FirstWoken(k) /\ calls[k].op \in op /\ calls[k].at = at
<1>1. \A j \in DOMAIN calls : j < k => j \in 1 .. k - 1
  <2> TAKE j \in DOMAIN calls
  <2>1. j \in 1 .. Len(calls) /\ k \in 1 .. Len(calls) /\ Len(calls) \in Nat
    BY CallFacts, LenProperties DEF Inv, TypeOK
  <2> QED
    BY <2>1
<1> QED
  BY <1>1 DEF Woken, FirstWoken, Woke

(* Beside the first woken call only users that have just begun to close    *)
(* are awake, and only if it is one of them itself.                        *)
LEMMA OthersAwake ==
  ASSUME Inv, InTurn, NEW k \in DOMAIN calls, FirstWoken(k), NEW j \in DOMAIN calls, j # k, Woke(calls[j])
  PROVE  calls[j].at = "begins" /\ calls[k].op \in Batch /\ k < j
<1>1. j \in Nat /\ k \in Nat
  BY CallFacts DEF Inv
<1>2. k < j
  BY <1>1 DEF FirstWoken
<1> QED
  BY <1>2 DEF InTurn, FirstWoken

(* Order under the steps of a call.                                        *)

(* The first woken call, now in the form call, asks for req.               *)
Due(call, req, n) ==
  /\ call.op # "close" =>
       \E d \in Conns : /\ \A c \in Conns : n[c] > 0 => c = d
                        /\ req \in {"close", "end"} => d = home[call.user]
  /\ call.op = "close" => req = "close" \/ \A c \in Conns : n[c] > 0 => c = Locator
LEMMA AskOrdered ==
  ASSUME Inv, Orderly, NEW k \in DOMAIN calls, FirstWoken(k), Silent(k),
         NEW call \in Call, NEW req \in Requests, NEW n \in [Conns -> Nat], Request(k, call, req, n),
         UNCHANGED <<home, ready>>, call.op = calls[k].op,
         call.op # "restart" => call.user = calls[k].user,
         call.at \notin {"begins", "connecting", "hung"},
         call.at \in {"deleting", "unsubscribing"} =>
           call.op \in Closers /\ req # "close" /\ \E c \in Conns : n[c] > 0,
         Due(call, req, n)
  PROVE  Orderly'
<1> USE DEF Inv
<1>1. /\ DOMAIN calls' = DOMAIN calls /\ Conns' = Conns
      /\ \A c \in Conns : sock'[c] = IF n[c] > 0 /\ sock[c] = "opening" THEN "half" ELSE sock[c]
      /\ \A j \in DOMAIN calls : j # k =>
           \/ calls'[j] = calls[j]
           \/ \E c \in Conns : /\ sock[c] = "opening" /\ sock'[c] = "half"
                               /\ calls[j].at = "connecting" /\ calls[j].conn = c /\ calls'[j].at = "hung"
      /\ calls'[k].op = call.op /\ calls'[k].user = call.user /\ calls'[k].conn = call.conn
      /\ calls'[k].at = IF \E c \in Conns : n[c] > 0 /\ sock[c] = "opening" THEN "hung" ELSE call.at
      /\ calls'[k].wake = IF \E c \in Conns : n[c] > 0 /\ sock[c] \in Up THEN "no"
                          ELSE IF (\A c \in Conns : n[c] = 0) \/ req = "close" THEN "ok" ELSE "error"
      /\ \A j \in DOMAIN calls : j # k => Passive(calls[j], calls'[j])
  BY RequestDoes, HomeStays DEF Others
<1>2. /\ calls[k].wake # "no" /\ calls'[k].at \notin {"begins", "connecting"}
      /\ \A j \in DOMAIN calls : j # k => calls'[j].at = calls[j].at \/ calls'[j].at = "hung"
  BY <1>1 DEF FirstWoken, Woke, Passive
<1>3. \A c \in Conns : sock[c] = "open" <=> sock'[c] = "open"
  BY <1>1 DEF Up
<1>4. Socks'
  <2>1. ASSUME NEW c \in Conns, sock'[c] = "opening"
        PROVE  \E j \in DOMAIN calls : Awaiting(calls'[j], c)
    <3>1. sock[c] = "opening"
      BY <1>1, <2>1
    <3>2. PICK j \in DOMAIN calls : Awaiting(calls[j], c)
      BY <3>1 DEF Orderly, Socks
    <3>3. j # k
      BY <1>2, <3>2 DEF Awaiting, Woke
    <3>4. calls'[j] = calls[j]
      BY <1>1, <2>1, <3>2, <3>3 DEF Awaiting
    <3> QED
      BY <3>2, <3>4
  <2>2. ASSUME NEW j \in DOMAIN calls, calls'[j].at = "connecting"
        PROVE  /\ calls'[j].op = "restart"
               /\ calls'[j].conn # Locator => calls'[j].conn = home[calls'[j].user]
    <3>1. j # k /\ calls[j].at = "connecting" /\ Passive(calls[j], calls'[j])
      BY <1>1, <1>2, <2>2
    <3> QED
      BY <3>1 DEF Passive, Orderly, Socks
  <2> QED
    BY <1>1, <1>3, <2>1, <2>2 DEF Socks, Orderly, Awaiting, Woke
<1>5. InTurn'
  <2>1. ASSUME NEW j \in DOMAIN calls, calls'[j].at = "begins" PROVE Woke(calls'[j])
    <3>1. j # k /\ calls[j].at = "begins" /\ Passive(calls[j], calls'[j])
      BY <1>1, <1>2, <2>1
    <3> QED
      BY <3>1 DEF Passive, Orderly, InTurn, Woke
  <2>2. ASSUME NEW i \in DOMAIN calls, NEW j \in DOMAIN calls, i < j, Woke(calls'[i]), Woke(calls'[j])
        PROVE  calls'[j].at = "begins" /\ calls'[i].op \in Batch
    <3>1. /\ i # k => Woke(calls[i]) /\ calls'[i].op = calls[i].op
          /\ j # k => Woke(calls[j]) /\ calls'[j].op = calls[j].op
          /\ Woke(calls[k]) /\ calls'[k].op = calls[k].op
      BY <1>1, <1>2, <2>2 DEF Passive, Woke
    <3>2. j # k
      BY <2>2, <3>1 DEF FirstWoken
    <3>3. calls[j].at = "begins" /\ calls[i].op \in Batch
      BY <2>2, <3>1, <3>2 DEF Orderly, InTurn
    <3>4. calls'[j] = calls[j]
      BY <1>1, <3>2, <3>3
    <3> QED
      BY <3>1, <3>3, <3>4
  <2> QED
    BY <1>1, <2>1, <2>2 DEF InTurn
<1>6. /\ \A c \in Conns : \A i \in DOMAIN queue[c] : i \in DOMAIN queue'[c] /\ queue'[c][i] = queue[c][i]
      /\ \A c \in Conns : \A i \in DOMAIN queue'[c] :
           \/ i \in DOMAIN queue[c] /\ queue'[c][i] = queue[c][i]
           \/ n[c] > 0 /\ queue'[c][i] = [req |-> req, by |-> k]
  BY RequestQueues
<1>7. Placed'
  <2> SUFFICES ASSUME NEW c \in Conns, NEW i \in DOMAIN queue'[c]
               PROVE  Place(queue[c][i], c, calls[queue[c][i].by])'
    BY <1>1 DEF Placed
  <2>1. CASE i \in DOMAIN queue[c] /\ queue'[c][i] = queue[c][i]
    <3> DEFINE j == queue[c][i].by
    <3>1. j \in DOMAIN calls /\ j # k /\ calls[j].at # "connecting"
      <4>1. j \in DOMAIN calls /\ ~Silent(j)
        BY <2>1 DEF QueueInv, Silent
      <4> HIDE DEF j
      <4> QED
        BY <4>1, IdleIsSilent
    <3>2. calls'[j] = calls[j]
      BY <1>1, <3>1
    <3> QED
      BY <2>1, <3>2 DEF Orderly, Placed, Place
  <2>2. CASE n[c] > 0 /\ queue'[c][i] = [req |-> req, by |-> k]
    <3>1. queue'[c][i].req = req /\ queue'[c][i].by = k
      BY <2>2
    <3>2. CASE call.op # "close"
      <4>1. PICK d \in Conns : /\ \A b \in Conns : n[b] > 0 => b = d
                               /\ req \in {"close", "end"} => d = home[call.user]
        BY <3>2 DEF Due
      <4>2. c = d
        BY <2>2, <4>1
      <4>3. CASE sock[c] = "opening"
        <5>1. queue'[c] = queue[c]
          BY <4>3 DEF Request
        <5>2. Silent(k) /\ queue[c][i].by = k /\ i \in DOMAIN queue[c]
          BY <3>1, <5>1
        <5> QED
          BY <5>2 DEF Silent
      <4>4. CASE sock[c] # "opening"
        <5>1. calls'[k].at = call.at
          BY <1>1, <4>1, <4>2, <4>4
        <5> QED
          BY <1>1, <3>1, <3>2, <4>1, <4>2, <5>1 DEF Place
      <4> QED
        BY <4>3, <4>4
    <3>3. CASE call.op = "close"
      BY <1>1, <2>2, <3>1, <3>3 DEF Due, Place
    <3> QED
      BY <3>2, <3>3
  <2> QED
    BY <1>6, <2>1, <2>2
<1>8. Asked'
  <2> SUFFICES ASSUME NEW j \in DOMAIN calls, calls'[j].op \in Forgetful,
                      calls'[j].at = "releasing", ~Woke(calls'[j])
               PROVE  ~Silent(j)'
    BY <1>1 DEF Asked
  <2>1. CASE j # k
    <3>1. calls'[j] = calls[j]
      BY <1>1, <2>1
    <3>2. ~Silent(j)
      BY <3>1 DEF Orderly, Asked
    <3> QED
      BY <1>1, <1>6, <3>2 DEF Silent
  <2>2. CASE j = k
    <3>1. PICK c \in Conns : n[c] > 0 /\ sock[c] \in Up
      BY <1>1, <2>2 DEF Woke
    <3>2. sock[c] = "open"
      BY <1>1, <2>2, <3>1 DEF Up
    <3>3. PICK i \in DOMAIN queue'[c] : queue'[c][i].req = req /\ queue'[c][i].by = k
      BY <3>1, <3>2, RequestArrives
    <3> QED
      BY <1>1, <2>2, <3>3 DEF Silent
  <2> QED
    BY <2>1, <2>2
<1>9. ASSUME NEW j \in DOMAIN calls PROVE Upright(calls[j])' /\ Kind(calls[j])'
  <2>1. Kind(calls[j])'
    <3>1. /\ calls'[j].op = calls[j].op /\ (calls[j].op # "restart" => calls'[j].user = calls[j].user)
          /\ calls'[j].at \in {"deleting", "unsubscribing"} => calls'[j].at = calls[j].at \/ calls[j].op \in Closers
      BY <1>1 DEF Passive
    <3>2. Kind(calls[j])
      BY DEF Orderly
    <3> QED
      BY <3>1, <3>2 DEF Kind
  <2>2. CASE j # k
    <3>1. calls'[j] = calls[j] \/ calls'[j].at = "hung"
      BY <1>1, <2>2
    <3>2. CASE calls'[j] = calls[j]
      <4>1. Upright(calls[j]) /\ Kind(calls[j])
        BY DEF Orderly
      <4>2. \/ calls[j].at = "begins" /\ calls[j].op = "automaticClose"
            \/ calls[j].at \in {"deleting", "unsubscribing"}
            => home[calls[j].user] \in Conns
        <5>1. calls[j].op \in UserOps => calls[j].user \in Users
          BY DEF ClosedInv
        <5> QED
          BY <4>1, <5>1, ConnFacts DEF Kind, UserOps
      <4> QED
        BY <1>3, <2>1, <3>2, <4>1, <4>2 DEF Upright
    <3> QED
      BY <2>1, <3>1, <3>2 DEF Upright
  <2>3. CASE j = k
    <3>1. calls'[k].at \in {"deleting", "unsubscribing"} => calls'[k].wake # "ok"
      BY <1>1
    <3> QED
      BY <1>2, <2>1, <2>3, <3>1 DEF Upright
  <2> QED
    BY <2>2, <2>3
<1> QED
  BY <1>1, <1>4, <1>5, <1>7, <1>8, <1>9 DEF Orderly, Kind

(* The first woken call moves, and asks for nothing.                       *)
Stays(a, b) == SameAwait(a, b) /\ b.conn = a.conn
LEMMA MoveOrdered ==
  ASSUME Inv, Orderly, NEW k \in DOMAIN calls, FirstWoken(k), Silent(k),
         DOMAIN calls' = DOMAIN calls, UNCHANGED <<home, sock, ready, queue>>,
         \A j \in DOMAIN calls : j # k => Stays(calls[j], calls'[j]),
         calls'[k].op = calls[k].op, calls'[k].user = calls[k].user,
         calls'[k].at \notin {"begins", "connecting", "releasing", "deleting", "unsubscribing"}
  PROVE  Orderly'
<1> USE DEF Inv
<1>1. Conns' = Conns /\ Woke(calls[k]) /\ calls'[k].op = calls[k].op
  BY HomeStays DEF FirstWoken
<1>2. \A j \in DOMAIN calls : j # k =>
        /\ calls'[j].at = calls[j].at /\ calls'[j].op = calls[j].op /\ calls'[j].user = calls[j].user
        /\ calls'[j].conn = calls[j].conn /\ calls'[j].wake = calls[j].wake
  BY DEF Stays, SameAwait
<1>3. Socks'
  <2>1. ASSUME NEW c \in Conns, sock[c] = "opening" PROVE \E j \in DOMAIN calls : Awaiting(calls'[j], c)
    <3>1. PICK j \in DOMAIN calls : Awaiting(calls[j], c)
      BY <2>1 DEF Orderly, Socks
    <3>2. j # k
      BY <1>1, <3>1 DEF Awaiting
    <3> QED
      BY <1>2, <3>1, <3>2 DEF Awaiting, Woke
  <2>2. ASSUME NEW j \in DOMAIN calls, calls'[j].at = "connecting"
        PROVE  /\ calls'[j].op = "restart"
               /\ calls'[j].conn # Locator => calls'[j].conn = home[calls'[j].user]
    <3>1. j # k
      BY <2>2
    <3> QED
      BY <1>2, <2>2, <3>1 DEF Orderly, Socks
  <2> QED
    BY <1>1, <2>1, <2>2 DEF Socks, Orderly, Awaiting, Woke
<1>4. InTurn'
  <2>1. ASSUME NEW j \in DOMAIN calls, calls'[j].at = "begins" PROVE Woke(calls'[j])
    <3>1. j # k
      BY <2>1
    <3> QED
      BY <1>2, <2>1, <3>1 DEF Orderly, InTurn, Woke
  <2>2. ASSUME NEW i \in DOMAIN calls, NEW j \in DOMAIN calls, i < j, Woke(calls'[i]), Woke(calls'[j])
        PROVE  calls'[j].at = "begins" /\ calls'[i].op \in Batch
    <3>1. /\ i # k => Woke(calls[i]) /\ calls'[i].op = calls[i].op
          /\ j # k => Woke(calls[j]) /\ calls'[j].at = calls[j].at
      BY <1>2, <2>2 DEF Woke
    <3>2. j # k
      BY <2>2, <3>1 DEF FirstWoken
    <3>3. calls[j].at = "begins" /\ calls[i].op \in Batch
      BY <1>1, <2>2, <3>1, <3>2 DEF Orderly, InTurn
    <3> QED
      BY <1>1, <3>1, <3>2, <3>3
  <2> QED
    BY <2>1, <2>2 DEF InTurn
<1>5. Placed'
  <2> SUFFICES ASSUME NEW c \in Conns, NEW i \in DOMAIN queue[c]
               PROVE  Place(queue[c][i], c, calls[queue[c][i].by])'
    BY <1>1 DEF Placed
  <2> DEFINE j == queue[c][i].by
  <2>1. j \in DOMAIN calls /\ j # k
    BY DEF QueueInv, Silent
  <2>2. Place(queue[c][i], c, calls[j])
    BY DEF Orderly, Placed
  <2>3. calls'[j].at = calls[j].at /\ calls'[j].op = calls[j].op /\ calls'[j].user = calls[j].user
    BY <1>2, <2>1
  <2>4. queue'[c][i] = queue[c][i]
    OBVIOUS
  <2> QED
    BY <2>2, <2>3, <2>4 DEF Place
<1>6. Asked'
  <2> SUFFICES ASSUME NEW j \in DOMAIN calls, calls'[j].op \in Forgetful,
                      calls'[j].at = "releasing", ~Woke(calls'[j])
               PROVE  ~Silent(j)'
    BY DEF Asked
  <2>1. ~Silent(j)
    BY <1>2 DEF Orderly, Asked, Woke
  <2> QED
    BY <1>1, <2>1 DEF Silent
<1>7. ASSUME NEW j \in DOMAIN calls PROVE Upright(calls[j])' /\ Kind(calls[j])'
  <2>1. Upright(calls[j]) /\ Kind(calls[j])
    BY DEF Orderly
  <2>2. CASE j = k
    BY <2>1, <2>2 DEF Upright, Kind
  <2>3. CASE j # k
    BY <1>2, <2>1, <2>3 DEF Upright, Kind
  <2> QED
    BY <2>2, <2>3
<1> QED
  BY <1>3, <1>4, <1>5, <1>6, <1>7 DEF Orderly

(* A step with at most one call awake, the actor w if it is one: others    *)
(* hang with a connection whose requests are lost, or stay.                *)
Hangs(j) == calls'[j].at = "hung" /\ \E c \in Conns : queue'[c] = <<>> /\ WaitsFor(j, c, queue[c])
Rests(j) ==
  /\ ~Woke(calls[j]) /\ calls'[j].op = calls[j].op /\ calls'[j].user = calls[j].user
  /\ calls'[j].conn = calls[j].conn /\ calls'[j].wake = calls[j].wake
  /\ calls'[j].at = calls[j].at \/ Hangs(j)
Remains(j) == \A c \in Conns : \A i \in DOMAIN queue[c] :
  queue[c][i].by = j => calls'[j].at = "hung" \/ \E m \in DOMAIN queue'[c] : queue'[c][m] = queue[c][i]

(* What the actor w must see to.                                           *)
ActsInOrder(w) ==
  /\ calls'[w].op = calls[w].op
  /\ calls[w].op # "restart" \/ ~Silent(w) => calls'[w].user = calls[w].user
  /\ calls'[w].at # "begins"
  /\ calls'[w].at = "connecting" =>
       calls[w].op = "restart" /\ (calls'[w].conn # Locator => calls'[w].conn = home[calls'[w].user])
  /\ calls[w].op \in Forgetful /\ calls'[w].at = "releasing" /\ ~Woke(calls'[w]) => ~Silent(w)'
  /\ calls'[w].at \in {"deleting", "unsubscribing"} =>
       /\ calls[w].op \in Closers
       /\ calls'[w].wake = "ok" => sock'[home[calls'[w].user]] = "open"
  /\ calls'[w].at = "hung" => Silent(w) \/ Hangs(w)
LEMMA RestOrdered ==
  ASSUME Inv, Orderly, DOMAIN calls' = DOMAIN calls, home' = home, NEW w,
         \A j \in DOMAIN calls : j # w => Rests(j) /\ Remains(j),
         w \in DOMAIN calls => ActsInOrder(w),
         \A c \in Conns : sock'[c] = "open" => ready'[c],
         \A c \in Conns : sock'[c] = "opening" =>
           \/ w \in DOMAIN calls /\ Awaiting(calls'[w], c)
           \/ sock[c] = "opening" /\ \A j \in DOMAIN calls : Awaiting(calls[j], c) => j # w /\ calls'[j].at # "hung",
         \A c \in Conns : \A i \in DOMAIN queue'[c] : \E m \in DOMAIN queue[c] : queue[c][m] = queue'[c][i]
  PROVE  Orderly'
<1> USE DEF Inv
<1>1. Conns' = Conns
  BY HomeStays
<1>2. ASSUME NEW j \in DOMAIN calls
      PROVE  /\ calls'[j].op = calls[j].op /\ (calls[j].op # "restart" => calls'[j].user = calls[j].user)
             /\ calls'[j].at # "begins"
             /\ j # w => /\ calls'[j].user = calls[j].user /\ calls'[j].conn = calls[j].conn
                         /\ calls'[j].wake = "no" /\ (calls'[j].at = calls[j].at \/ Hangs(j))
  <2>1. CASE j = w
    BY <2>1 DEF ActsInOrder
  <2>2. CASE j # w
    BY <2>2 DEF Rests, Hangs, Orderly, InTurn, Woke
  <2> QED
    BY <2>1, <2>2
<1>3. Socks'
  <2>1. ASSUME NEW c \in Conns, sock'[c] = "opening"
        PROVE  \E j \in DOMAIN calls : Awaiting(calls'[j], c)
    <3>1. CASE w \in DOMAIN calls /\ Awaiting(calls'[w], c)
      BY <3>1
    <3>2. CASE sock[c] = "opening" /\ \A j \in DOMAIN calls : Awaiting(calls[j], c) => j # w /\ calls'[j].at # "hung"
      <4>1. PICK j \in DOMAIN calls : Awaiting(calls[j], c)
        BY <3>2 DEF Orderly, Socks
      <4> QED
        BY <1>2, <3>2, <4>1 DEF Awaiting, Woke, Hangs
    <3> QED
      BY <2>1, <3>1, <3>2
  <2>2. ASSUME NEW j \in DOMAIN calls, calls'[j].at = "connecting"
        PROVE  /\ calls'[j].op = "restart"
               /\ calls'[j].conn # Locator => calls'[j].conn = home[calls'[j].user]
    <3>1. CASE j = w
      BY <1>2, <2>2, <3>1 DEF ActsInOrder
    <3>2. CASE j # w
      BY <1>2, <2>2, <3>2 DEF Hangs, Orderly, Socks
    <3> QED
      BY <3>1, <3>2
  <2> QED
    BY <1>1, <2>1, <2>2 DEF Socks, Awaiting, Woke
<1>4. InTurn'
  <2>1. \A j \in DOMAIN calls : Woke(calls'[j]) => j = w
    BY <1>2 DEF Woke
  <2>2. \A j, i \in DOMAIN calls : j < i => i # j
    <3>1. \A j \in DOMAIN calls : j \in Nat
      BY CallFacts
    <3> QED
      BY <3>1
  <2> QED
    BY <1>2, <2>1, <2>2 DEF InTurn
<1>5. ASSUME NEW j \in DOMAIN calls, NEW c \in Conns, NEW i \in DOMAIN queue[c], queue[c][i].by = j,
             Hangs(j), calls[j].op # "close"
      PROVE  queue'[c] = <<>>
  <2>1. PICK d \in Conns : queue'[d] = <<>> /\ WaitsFor(j, d, queue[d])
    BY <1>5 DEF Hangs
  <2>2. calls[j].at # "connecting"
    <3>1. ~Silent(j)
      BY <1>5 DEF Silent
    <3> QED
      BY <3>1, IdleIsSilent
  <2>3. PICK m \in DOMAIN queue[d] : queue[d][m].by = j
    BY <2>1, <2>2 DEF WaitsFor
  <2>4. CASE queue[c][i].req # "close" \/ queue[d][m].req # "close"
    BY <1>5, <2>1, <2>3, <2>4 DEF QueueInv
  <2>5. CASE queue[c][i].req = "close" /\ queue[d][m].req = "close"
    <3>1. Place(queue[c][i], c, calls[j]) /\ Place(queue[d][m], d, calls[j])
      BY <1>5, <2>3 DEF Orderly, Placed
    <3> QED
      BY <1>5, <2>1, <2>5, <3>1 DEF Place
  <2> QED
    BY <2>4, <2>5
<1>6. Placed'
  <2> SUFFICES ASSUME NEW c \in Conns, NEW i \in DOMAIN queue'[c]
               PROVE  Place(queue[c][i], c, calls[queue[c][i].by])'
    BY <1>1 DEF Placed
  <2>1. PICK m \in DOMAIN queue[c] : queue[c][m] = queue'[c][i]
    OBVIOUS
  <2> DEFINE j == queue[c][m].by
  <2>2. j \in DOMAIN calls /\ Place(queue[c][m], c, calls[j]) /\ ~Silent(j)
    BY DEF QueueInv, Orderly, Placed, Silent
  <2>3. calls[j].op # "close" => calls'[j].at # "hung"
    <3> SUFFICES ASSUME calls[j].op # "close", calls'[j].at = "hung" PROVE FALSE
      OBVIOUS
    <3>1. Hangs(j)
      <4>1. CASE j = w
        BY <2>2, <4>1 DEF ActsInOrder
      <4>2. CASE j # w
        BY <1>2, <2>2, <4>2 DEF Place
      <4> QED
        BY <4>1, <4>2
    <3>2. queue'[c] = <<>>
      BY <1>5, <2>2, <3>1
    <3> QED
      BY <3>2, EmptySeq
  <2>4. /\ queue'[c][i] = queue[c][m] /\ calls'[j].op = calls[j].op
        /\ calls[j].op # "restart" => calls'[j].user = calls[j].user
    BY <1>2, <2>1, <2>2
  <2>5. calls[j].op = "restart" => calls'[j].user = calls[j].user
    BY <1>2, <2>2 DEF ActsInOrder
  <2> QED
    BY <2>2, <2>3, <2>4, <2>5 DEF Place
<1>7. Asked'
  <2> SUFFICES ASSUME NEW j \in DOMAIN calls, calls'[j].op \in Forgetful,
                      calls'[j].at = "releasing", ~Woke(calls'[j])
               PROVE  ~Silent(j)'
    BY DEF Asked
  <2>1. CASE j = w
    BY <1>2, <2>1 DEF ActsInOrder
  <2>2. CASE j # w
    <3>1. calls[j].at = "releasing" /\ calls[j].op \in Forgetful /\ ~Woke(calls[j]) /\ Remains(j)
      BY <1>2, <2>2 DEF Hangs, Rests
    <3>2. PICK c \in Conns : \E i \in DOMAIN queue[c] : queue[c][i].by = j
      BY <3>1 DEF Orderly, Asked, Silent
    <3>3. PICK i \in DOMAIN queue[c] : queue[c][i].by = j
      BY <3>2
    <3>4. PICK m \in DOMAIN queue'[c] : queue'[c][m] = queue[c][i]
      BY <3>1, <3>3 DEF Remains
    <3> QED
      BY <1>1, <3>3, <3>4 DEF Silent
  <2> QED
    BY <2>1, <2>2
<1>8. ASSUME NEW j \in DOMAIN calls PROVE Upright(calls[j])' /\ Kind(calls[j])'
  <2>1. Kind(calls[j])
    BY DEF Orderly
  <2>2. CASE j = w
    BY <1>2, <2>1, <2>2 DEF Upright, Kind, ActsInOrder
  <2>3. CASE j # w
    BY <1>2, <2>1, <2>3 DEF Upright, Kind, Hangs
  <2> QED
    BY <2>2, <2>3
<1> QED
  BY <1>3, <1>4, <1>6, <1>7, <1>8 DEF Orderly

-----------------------------------------------------------------------------
(* The counts of the connections.                                          *)

LEMMA ExemptLasts ==
  ASSUME home' = home, DOMAIN calls \subseteq DOMAIN calls',
         \A j \in DOMAIN calls :
           calls'[j].op = calls[j].op /\ (calls[j].op # "restart" => calls'[j].user = calls[j].user),
         NEW c, Exempt(c)
  PROVE  Exempt(c)'
BY DEF Exempt

LEMMA AbleFinite ==
  ASSUME TypeOK, NEW c
  PROVE  IsFiniteSet(Able(c)) /\ Cardinality(Able(c)) \in Nat
<1>1. Able(c) \in SUBSET Users
  BY DEF Able, UsersOf
<1> QED
  BY <1>1, UsersFinite

(* A connection that loses no user stays counted as it is.                 *)
StaysUp(c) == sock[c] \in Up /\ (Asks(c) => Asks(c)') /\ (Refusing(c) => Refusing(c)')
KeepsUsers(c) ==
  /\ ~Exempt(c) /\ refs'[c] = refs[c] /\ Able(c) \subseteq Able(c)'
  /\ sock'[c] \in Up => Able(c)' # {} \/ StaysUp(c)
LEMMA CountStays ==
  ASSUME TypeOK, TypeOK', home' = home, NEW c \in Conns, Counts(c), Exempt(c)' \/ KeepsUsers(c)
  PROVE  Counts(c)'
<1> SUFFICES ASSUME c # Locator, ~Exempt(c)'
             PROVE  /\ refs'[c] <= Cardinality(Able(c)')
                    /\ sock'[c] \in Up => Able(c)' # {} \/ Asks(c)' \/ Refusing(c)'
  BY DEF Counts, Up
<1> USE DEF KeepsUsers, StaysUp
<1>1. /\ refs[c] <= Cardinality(Able(c))
      /\ sock[c] \in Up => Able(c) # {} \/ Asks(c) \/ Refusing(c)
  BY DEF Counts
<1>2. Cardinality(Able(c)) <= Cardinality(Able(c)') /\ Cardinality(Able(c)') \in Nat /\ Cardinality(Able(c)) \in Nat
  <2>1. IsFiniteSet(Able(c)') /\ Cardinality(Able(c)') \in Nat
    <3>1. Able(c)' \in SUBSET Users
      BY DEF Able, UsersOf, TypeOK
    <3> QED
      BY <3>1, UsersFinite
  <2> DEFINE s == Able(c)
             t == Able(c)'
  <2>2. s \in SUBSET t /\ IsFiniteSet(t)
    BY <2>1
  <2> HIDE DEF s, t
  <2>3. Cardinality(s) <= Cardinality(t)
    BY <2>2, FS_Subset
  <2> QED
    BY <2>1, <2>3, AbleFinite DEF s, t
<1>3. refs'[c] = refs[c] /\ refs[c] \in Int
  BY DEF TypeOK
<1>4. refs'[c] <= Cardinality(Able(c)')
  <2> DEFINE m == Cardinality(Able(c))
             n == Cardinality(Able(c)')
  <2>1. refs[c] <= m /\ m <= n /\ m \in Nat /\ n \in Nat
    BY <1>1, <1>2
  <2> HIDE DEF m, n
  <2>2. refs'[c] <= n
    BY <1>3, <2>1
  <2> QED
    BY <2>2 DEF n
<1> QED
  BY <1>1, <1>4

(* Nobody is released or forgotten.                                        *)
Ages(a, b) ==
  /\ b.op = a.op /\ (a.op # "restart" => b.user = a.user)
  /\ a.at = "failed" => b.at = "failed"
  /\ a.op = "close" /\ b.at = "begins" => a.at = "begins"
LEMMA FreshBefore ==
  ASSUME DOMAIN calls \subseteq DOMAIN calls', \A j \in DOMAIN calls : Ages(calls[j], calls'[j]), Fresh'
  PROVE  Fresh
BY DEF Fresh, Ages

LEMMA CountedStays ==
  ASSUME Inv, Inv', Counted, UNCHANGED <<home, refs, registered, closed>>,
         DOMAIN calls \subseteq DOMAIN calls',
         \A j \in DOMAIN calls :
           /\ Ages(calls[j], calls'[j])
           /\ calls'[j].at = "releasing" => calls[j].at = "releasing"
           /\ calls[j].at = "releasing" /\ Woke(calls[j]) => calls'[j].at = "releasing" /\ Woke(calls'[j])
           /\ calls'[j].todo \subseteq calls[j].todo \cup registered,
         \A j \in DOMAIN calls' \ DOMAIN calls : calls'[j].at = "begins" /\ calls'[j].todo = {},
         \A c \in Conns \ {Locator} : Fresh /\ Listed /\ sock'[c] \in Up =>
           Exempt(c) \/ Able(c)' # {} \/ StaysUp(c)
  PROVE  Counted'
<1> SUFFICES ASSUME Fresh' PROVE Listed' /\ \A c \in Conns' : Counts(c)'
  BY DEF Counted
<1>1. Fresh /\ Listed /\ \A c \in Conns : Counts(c)
  BY FreshBefore DEF Counted
<1>2. Conns' = Conns /\ \A c : UsersOf(c)' = UsersOf(c)
  BY HomeStays DEF UsersOf
<1>3. \A c : Exempt(c) => Exempt(c)'
  BY ExemptLasts DEF Ages
<1>4. \A u : Leaving(u)' => Leaving(u)
  <2> SUFFICES ASSUME NEW u, NEW j \in DOMAIN calls', Leaves(calls'[j], u) PROVE Leaving(u)
    BY DEF Leaving, Leaves
  <2>1. j \in DOMAIN calls /\ calls[j].at = "releasing"
    BY DEF Leaves
  <2>2. calls[j].op \in Forgetful /\ calls[j].user = u
    BY <2>1 DEF Leaves, Ages, Forgetful, Closers
  <2> QED
    BY <2>1, <2>2 DEF Leaving, Leaves
<1>5. \A c : Able(c) \subseteq Able(c)'
  BY <1>2, <1>4 DEF Able
<1>6. Listed'
  <2>1. ASSUME NEW k \in DOMAIN calls' PROVE calls'[k].todo \subseteq registered'
    BY <1>1 DEF Listed
  <2>2. ASSUME NEW u \in registered \cap Publishers \cap closed
        PROVE  Exempt(home[u])' \/ \E r \in DOMAIN calls' : Leaves(calls'[r], u) /\ Woke(calls'[r])
    <3>1. CASE Exempt(home[u])
      BY <1>3, <3>1 DEF Exempt
    <3>2. CASE \E r \in DOMAIN calls : Leaves(calls[r], u) /\ Woke(calls[r])
      <4>1. PICK r \in DOMAIN calls : Leaves(calls[r], u) /\ Woke(calls[r])
        BY <3>2
      <4>2. Leaves(calls'[r], u) /\ Woke(calls'[r])
        BY <4>1 DEF Leaves, Ages, Forgetful, Closers
      <4> QED
        BY <4>2
    <3> QED
      BY <1>1, <3>1, <3>2 DEF Listed
  <2> QED
    BY <2>1, <2>2 DEF Listed
<1>7. ASSUME NEW c \in Conns PROVE Counts(c)'
  <2>1. CASE c = Locator
    BY <2>1 DEF Counts
  <2>2. CASE c # Locator
    <3>1. Exempt(c)' \/ KeepsUsers(c)
      BY <1>1, <1>3, <1>5, <2>2 DEF KeepsUsers
    <3>2. TypeOK /\ TypeOK' /\ home' = home /\ Counts(c)
      BY <1>1 DEF Inv
    <3> QED
      BY <3>1, <3>2, CountStays
  <2> QED
    BY <2>1, <2>2
<1> QED
  BY <1>2, <1>6, <1>7

(* The first woken call moves, and nobody is released.                     *)
LEMMA MoveCloses ==
  ASSUME Inv, Inv', Orderly, Counted, NEW k \in DOMAIN calls, FirstWoken(k), Silent(k), ~Over(calls[k]),
         UNCHANGED <<home, sock, ready, queue, refs, registered, closed, exists>>,
         DOMAIN calls' = DOMAIN calls, \A j \in DOMAIN calls : j # k => calls'[j] = calls[j],
         calls'[k].op = calls[k].op, calls'[k].user = calls[k].user,
         calls'[k].todo \subseteq calls[k].todo \cup registered,
         calls'[k].at \in {"waiting", "publishers", "consumers", "done", "failed"},
         calls[k].at # "releasing",
         calls'[k].at = "failed" \/ \A c \in Conns \ {Locator} : ~Refuses(calls[k], c)
  PROVE  Orderly' /\ Counted'
<1>1. Orderly'
  BY MoveOrdered DEF Stays, SameAwait
<1>2. CASE calls'[k].at = "failed"
  BY <1>1, <1>2 DEF Counted, Fresh
<1>3. CASE calls'[k].at # "failed"
  <2>1. \A j \in DOMAIN calls :
           /\ Ages(calls[j], calls'[j])
           /\ calls'[j].at = "releasing" => calls[j].at = "releasing"
           /\ calls[j].at = "releasing" /\ Woke(calls[j]) => calls'[j].at = "releasing" /\ Woke(calls'[j])
           /\ calls'[j].todo \subseteq calls[j].todo \cup registered
    BY DEF Ages, Over
  <2>2. ASSUME NEW c \in Conns \ {Locator}, sock'[c] \in Up PROVE StaysUp(c)
    <3>1. Asks(c) => Asks(c)'
      BY DEF Asks
    <3>2. Refusing(c) => Refusing(c)'
      <4> SUFFICES ASSUME ~exists[c], NEW j \in DOMAIN calls, Refuses(calls[j], c)
                   PROVE  Refuses(calls[j], c)'
        BY DEF Refusing
      <4>1. j # k
        BY <1>3, <2>2
      <4> QED
        BY <4>1 DEF Refuses
    <3> QED
      BY <2>2, <3>1, <3>2 DEF StaysUp
  <2> QED
    BY <1>1, <2>1, <2>2, CountedStays
<1> QED
  BY <1>2, <1>3

(* It asks for something, and nobody is released.                          *)
LEMMA AskCounted ==
  ASSUME Inv, Inv', Orderly, Counted, NEW k \in DOMAIN calls, FirstWoken(k), ~Over(calls[k]),
         NEW call \in Call, NEW req \in Requests, NEW n \in [Conns -> Nat], Request(k, call, req, n),
         UNCHANGED <<home, refs, registered, closed, exists>>, call.op = calls[k].op,
         call.op # "restart" => call.user = calls[k].user, call.todo \subseteq calls[k].todo,
         call.at \notin {"begins", "releasing", "failed"}, calls[k].at # "releasing",
         \A c \in Conns \ {Locator} : Refuses(calls[k], c) =>
           /\ c = home[call.user] /\ \A d \in Conns : n[d] > 0 => d = c
           /\ call.at = "refusing" \/ (call.at = "declaring" /\ req # "close" /\ n[c] > 0)
  PROVE  Counted'
<1> USE DEF Inv
<1>1. /\ DOMAIN calls' = DOMAIN calls /\ Conns' = Conns
      /\ \A c \in Conns : sock'[c] = IF n[c] > 0 /\ sock[c] = "opening" THEN "half" ELSE sock[c]
      /\ \A j \in DOMAIN calls : j # k =>
           \/ calls'[j] = calls[j]
           \/ \E c \in Conns : /\ sock[c] = "opening" /\ sock'[c] = "half"
                               /\ calls[j].at = "connecting" /\ calls[j].conn = c /\ calls'[j].at = "hung"
      /\ calls'[k].op = call.op /\ calls'[k].user = call.user /\ calls'[k].todo = call.todo
      /\ calls'[k].at = IF \E c \in Conns : n[c] > 0 /\ sock[c] = "opening" THEN "hung" ELSE call.at
      /\ calls'[k].wake = IF \E c \in Conns : n[c] > 0 /\ sock[c] \in Up THEN "no"
                          ELSE IF (\A c \in Conns : n[c] = 0) \/ req = "close" THEN "ok" ELSE "error"
      /\ \A j \in DOMAIN calls : j # k => Passive(calls[j], calls'[j])
  BY RequestDoes, HomeStays DEF Others
<1>2. \A j \in DOMAIN calls :
         /\ Ages(calls[j], calls'[j])
         /\ calls'[j].at = "releasing" => calls[j].at = "releasing"
         /\ calls[j].at = "releasing" /\ Woke(calls[j]) => calls'[j].at = "releasing" /\ Woke(calls'[j])
         /\ calls'[j].todo \subseteq calls[j].todo \cup registered
  <2> TAKE j \in DOMAIN calls
  <2>1. CASE j = k
    BY <1>1, <2>1 DEF Ages, Over
  <2>2. CASE j # k
    BY <1>1, <2>2 DEF Ages, Passive
  <2> QED
    BY <2>1, <2>2
<1>3. \A d \in Conns : \A i \in DOMAIN queue[d] : i \in DOMAIN queue'[d] /\ queue'[d][i] = queue[d][i]
  BY RequestQueues, ZenonT(30)
<1>4. ASSUME NEW c \in Conns \ {Locator}, sock'[c] \in Up PROVE StaysUp(c)
  <2>1. sock[c] \in Up /\ sock'[c] # "half"
    BY <1>1, <1>4 DEF Up
  <2>2. Asks(c) => Asks(c)'
    BY <1>3 DEF Asks
  <2>3. Refusing(c) => Refusing(c)'
    <3> SUFFICES ASSUME ~exists[c], NEW j \in DOMAIN calls, Refuses(calls[j], c)
                 PROVE  Refuses(calls[j], c)'
      BY <1>1 DEF Refusing
    <3>1. CASE j = k
      <4>1. ~(n[c] > 0 /\ sock[c] = "opening")
        BY <1>1, <2>1
      <4>2. calls'[k].at = call.at
        BY <1>1, <3>1, <4>1
      <4>3. calls[k].op = "restart"
        BY <3>1 DEF Refuses
      <4>4. call.at = "declaring" /\ req # "close" => calls'[k].wake # "ok"
        BY <1>1, <3>1, <4>2
      <4> QED
        BY <1>1, <3>1, <4>2, <4>3, <4>4 DEF Refuses
    <3>2. CASE j # k
      <4>1. calls'[j] = calls[j]
        <5> SUFFICES ASSUME NEW d \in Conns, sock'[d] = "half", calls[j].at = "connecting", calls[j].conn = d
                     PROVE  FALSE
          BY <1>1, <3>2
        <5>1. c = d
          BY DEF Refuses
        <5> QED
          BY <2>1, <5>1
      <4> QED
        BY <4>1 DEF Refuses
    <3> QED
      BY <3>1, <3>2
  <2> QED
    BY <2>1, <2>2, <2>3 DEF StaysUp
<1> QED
  BY <1>1, <1>2, <1>4, CountedStays

(* It asks one connection.                                                 *)
LEMMA AskOneCloses ==
  ASSUME Inv, Inv', Orderly, Counted, NEW k \in DOMAIN calls, FirstWoken(k), Silent(k), ~Over(calls[k]),
         NEW call \in Call, NEW req \in Requests \ {"close"}, NEW c \in Conns, Request(k, call, req, Only(c)),
         UNCHANGED <<home, ready, refs, registered, closed, exists>>, call.op = calls[k].op,
         call.op # "restart" => call.user = calls[k].user, call.todo \subseteq calls[k].todo,
         call.at \in {"metadata", "unsubscribing", "deleting", "declaring", "refusing"},
         calls[k].at # "releasing", call.at \in {"unsubscribing", "deleting"} => call.op \in Closers,
         call.op # "close", req = "end" => c = home[call.user],
         call.op = "restart" => call.at \in {"declaring", "refusing"} /\ c = home[call.user],
         \A d \in Conns \ {Locator} : Refuses(calls[k], d) => d = c
  PROVE  Orderly' /\ Counted'
<1> DEFINE n == Only(c)
<1>1. n \in [Conns -> Nat] /\ n[c] > 0 /\ \A d \in Conns : n[d] > 0 => d = c
  BY OnlyFacts
<1>2. Request(k, call, req, n)
  OBVIOUS
<1> HIDE DEF n
<1>3. Due(call, req, n)
  BY <1>1 DEF Due
<1>4. Orderly'
  BY <1>1, <1>2, <1>3, AskOrdered
<1>5. Counted'
  <2>1. \A d \in Conns \ {Locator} : Refuses(calls[k], d) =>
          /\ d = home[call.user] /\ \A e \in Conns : n[e] > 0 => e = d
          /\ call.at = "refusing" \/ (call.at = "declaring" /\ req # "close" /\ n[d] > 0)
    BY <1>1 DEF Refuses
  <2> QED
    BY <1>1, <1>2, <2>1, AskCounted
<1> QED
  BY <1>4, <1>5

Sound == Inv /\ Orderly /\ Counted

LEMMA FirstFacts ==
  ASSUME Inv, NEW k \in DOMAIN calls, NEW op, NEW at \in Awaits \ {"done", "failed", "hung"}, Woken(k, op, at)
  PROVE  /\ FirstWoken(k) /\ Silent(k) /\ ~Over(calls[k]) /\ calls[k].op \in op /\ calls[k].at = at
         /\ calls[k] \in Call /\ calls[k].wake # "no"
BY WokenFacts, WokenIsFirst

LEMMA EndCloses ==
  ASSUME Sound, Inv', NEW k \in DOMAIN calls, FirstWoken(k), Silent(k), ~Over(calls[k]),
         NEW at \in {"waiting", "done", "failed"}, End(k, at),
         UNCHANGED <<home, sock, ready, queue, refs, registered, closed, exists>>,
         calls[k].at # "releasing",
         at = "failed" \/ \A c \in Conns \ {Locator} : ~Refuses(calls[k], c)
  PROVE  Orderly' /\ Counted'
<1> USE DEF Sound
<1> DEFINE r == [calls[k] EXCEPT !.at = at, !.wake = "no"]
<1>1. /\ DOMAIN calls' = DOMAIN calls /\ calls'[k] = r
      /\ \A j \in DOMAIN calls : j # k => calls'[j] = calls[j]
  BY DEF End, Inv, TypeOK
<1>2. r.op = calls[k].op /\ r.user = calls[k].user /\ r.at = at /\ r.todo = calls[k].todo
  BY CallFacts DEF Inv, Call
<1> HIDE DEF r
<1> QED
  BY <1>1, <1>2, MoveCloses

LEMMA closeConsumerCloses ==
  ASSUME Sound, Inv', NEW k \in DOMAIN calls, closeConsumer(k)
  PROVE  Orderly' /\ Counted'
<1> USE DEF Sound
<1>1. /\ FirstWoken(k) /\ Silent(k) /\ ~Over(calls[k]) /\ calls[k].op = "closeConsumer"
      /\ calls[k].at = "begins"
      /\ UNCHANGED <<home, ready, refs, registered, closed, exists>>
  BY FirstFacts DEF closeConsumer, Awaits, users
<1>2. CASE Request(k, At(k, "metadata"), "metadata", Only(Locator))
  <2> DEFINE call == At(k, "metadata")
  <2>1. /\ call \in Call /\ call.at = "metadata" /\ call.op = calls[k].op
        /\ call.user = calls[k].user /\ call.todo = calls[k].todo
    BY AtFacts DEF Awaits, Inv
  <2>2. Request(k, call, "metadata", Only(Locator)) /\ "metadata" \in Requests \ {"close"} /\ Locator \in Conns
    BY <1>2, ConnFacts DEF Requests, Inv
  <2> HIDE DEF call
  <2> QED
    BY <1>1, <2>1, <2>2, AskOneCloses DEF Refuses
<1>3. CASE End(k, "failed") /\ UNCHANGED <<sock, queue>>
  BY <1>1, <1>3, EndCloses
<1> QED
  BY <1>2, <1>3 DEF closeConsumer

LEMMA UnsubscribeCloses ==
  ASSUME Sound, Inv', NEW k \in DOMAIN calls, Unsubscribe(k)
  PROVE  Orderly' /\ Counted'
<1> USE DEF Sound
<1> DEFINE call == At(k, "unsubscribing")
           c == home[calls[k].user]
<1>1. /\ FirstWoken(k) /\ Silent(k) /\ ~Over(calls[k]) /\ calls[k].op = "closeConsumer"
      /\ calls[k].at = "metadata" /\ Request(k, call, "unsubscribe", Only(c))
      /\ UNCHANGED <<home, ready, refs, registered, closed, exists>>
  BY FirstFacts DEF Unsubscribe, Awaits, users
<1>2. /\ call \in Call /\ call.at = "unsubscribing" /\ call.op = calls[k].op
      /\ call.user = calls[k].user /\ call.todo = calls[k].todo
  BY AtFacts DEF Awaits, Inv
<1>3. c \in Conns /\ "unsubscribe" \in Requests \ {"close"} /\ calls[k].op \in Closers
  BY <1>1, ConnFacts DEF Inv, ClosedInv, UserOps, Closers, Requests
<1> HIDE DEF call, c
<1> QED
  BY <1>1, <1>2, <1>3, AskOneCloses DEF Refuses

LEMMA deletePublisherCloses ==
  ASSUME Sound, Inv', NEW k \in DOMAIN calls, deletePublisher(k)
  PROVE  Orderly' /\ Counted'
<1> USE DEF Sound
<1> DEFINE call == At(k, "deleting")
           c == IF calls[k].user \in registered THEN home[calls[k].user] ELSE Locator
<1>1. /\ FirstWoken(k) /\ Silent(k) /\ ~Over(calls[k]) /\ calls[k].op = "deletePublisher"
      /\ calls[k].at = "begins" /\ Request(k, call, "delete", Only(c))
      /\ UNCHANGED <<home, ready, refs, registered, closed, exists>>
  BY FirstFacts DEF deletePublisher, Awaits, users
<1>2. /\ call \in Call /\ call.at = "deleting" /\ call.op = calls[k].op
      /\ call.user = calls[k].user /\ call.todo = calls[k].todo
  BY AtFacts DEF Awaits, Inv
<1>3. c \in Conns /\ "delete" \in Requests \ {"close"} /\ calls[k].op \in Closers
  BY <1>1, ConnFacts DEF Inv, ClosedInv, UserOps, Closers, Requests
<1> HIDE DEF call, c
<1> QED
  BY <1>1, <1>2, <1>3, AskOneCloses DEF Refuses

LEMMA ThrowsCloses ==
  ASSUME Sound, Inv', NEW k \in DOMAIN calls, Throws(k) \/ RestartThrows(k)
  PROVE  Orderly' /\ Counted'
<1> USE DEF Sound
<1>1. /\ End(k, "failed")
      /\ UNCHANGED <<home, sock, ready, queue, refs, registered, closed, exists>>
  BY DEF Throws, RestartThrows, users
<1>2. \E at \in {"unsubscribing", "deleting", "metadata", "refusing", "connecting", "declaring"} : \E op : Woken(k, op, at)
  BY DEF Throws, RestartThrows
<1>3. FirstWoken(k) /\ Silent(k) /\ ~Over(calls[k]) /\ calls[k].at # "releasing"
  BY <1>2, FirstFacts DEF Awaits
<1> QED
  BY <1>1, <1>3, EndCloses

LEMMA restartCloses ==
  ASSUME Sound, Inv', NEW k \in DOMAIN calls, restart(k)
  PROVE  Orderly' /\ Counted'
<1> USE DEF Sound
<1>1. /\ FirstWoken(k) /\ Silent(k) /\ ~Over(calls[k]) /\ calls[k].at = "begins" /\ End(k, "waiting")
      /\ UNCHANGED <<home, sock, ready, queue, refs, registered, closed, exists>>
  BY FirstFacts DEF restart, Awaits, users
<1> QED
  BY <1>1, EndCloses DEF Refuses

LEMMA LocatorRestartedCloses ==
  ASSUME Sound, Inv', NEW k \in DOMAIN calls, LocatorRestarted(k)
  PROVE  Orderly' /\ Counted'
<1> USE DEF Sound
<1> DEFINE t == registered \cap Consumers
           r == [calls[k] EXCEPT !.at = "consumers", !.todo = t]
<1>1. /\ FirstWoken(k) /\ Silent(k) /\ ~Over(calls[k]) /\ calls[k] \in Call
      /\ calls[k].at = "connecting" /\ calls[k].conn = Locator
      /\ UNCHANGED <<home, sock, ready, queue, refs, registered, closed, exists>>
  BY FirstFacts DEF LocatorRestarted, Awaits, users
<1>2. /\ DOMAIN calls' = DOMAIN calls /\ calls'[k] = r
      /\ \A j \in DOMAIN calls : j # k => calls'[j] = calls[j]
  BY DEF LocatorRestarted, Inv, TypeOK
<1>3. t \subseteq registered
  OBVIOUS
<1> HIDE DEF t
<1>4. r.op = calls[k].op /\ r.user = calls[k].user /\ r.at = "consumers" /\ r.todo = t
  BY <1>1 DEF Call
<1> HIDE DEF r
<1>5. calls'[k].at = "consumers" /\ \A c \in Conns \ {Locator} : ~Refuses(calls[k], c)
  BY <1>1, <1>2, <1>4 DEF Refuses
<1> QED
  BY <1>1, <1>2, <1>3, <1>4, <1>5, MoveCloses

LEMMA RedeclaredCloses ==
  ASSUME Sound, Inv', NEW k \in DOMAIN calls, Redeclared(k)
  PROVE  Orderly' /\ Counted'
<1> USE DEF Sound
<1> DEFINE at == IF calls[k].user \in Consumers THEN "consumers" ELSE "publishers"
           r == [calls[k] EXCEPT !.at = at]
<1>1. /\ FirstWoken(k) /\ Silent(k) /\ ~Over(calls[k]) /\ calls[k] \in Call
      /\ calls[k].at = "declaring" /\ calls[k].wake = "ok"
      /\ UNCHANGED <<home, sock, ready, queue, refs, registered, closed, exists>>
  BY FirstFacts DEF Redeclared, Awaits, users
<1>2. /\ DOMAIN calls' = DOMAIN calls /\ calls'[k] = r
      /\ \A j \in DOMAIN calls : j # k => calls'[j] = calls[j]
  BY DEF Redeclared, Inv, TypeOK
<1>3. at \in {"consumers", "publishers"}
  OBVIOUS
<1> HIDE DEF at
<1>4. r.op = calls[k].op /\ r.user = calls[k].user /\ r.at = at /\ r.todo = calls[k].todo
  BY <1>1 DEF Call
<1> HIDE DEF r
<1>5. \A c \in Conns \ {Locator} : ~Refuses(calls[k], c)
  BY <1>1 DEF Refuses
<1> QED
  BY <1>1, <1>2, <1>3, <1>4, <1>5, MoveCloses

LEMMA LoopEndsCloses ==
  ASSUME Sound, Inv', NEW k \in DOMAIN calls, LoopEnds(k)
  PROVE  Orderly' /\ Counted'
<1> USE DEF Sound
<1>1. UNCHANGED <<home, sock, ready, queue, refs, registered, closed, exists>>
  BY DEF LoopEnds, users
<1>2. CASE /\ Woken(k, {"restart"}, "consumers")
           /\ calls' = [calls EXCEPT ![k].at = "publishers", ![k].todo = registered \cap Publishers]
  <2> DEFINE t == registered \cap Publishers
             r == [calls[k] EXCEPT !.at = "publishers", !.todo = t]
  <2>1. /\ FirstWoken(k) /\ Silent(k) /\ ~Over(calls[k]) /\ calls[k] \in Call
        /\ calls[k].at = "consumers"
    BY <1>2, FirstFacts DEF Awaits
  <2>2. /\ DOMAIN calls' = DOMAIN calls /\ calls'[k] = r
        /\ \A j \in DOMAIN calls : j # k => calls'[j] = calls[j]
    BY <1>2 DEF Inv, TypeOK
  <2>3. t \subseteq registered
    OBVIOUS
  <2> HIDE DEF t
  <2>4. r.op = calls[k].op /\ r.user = calls[k].user /\ r.at = "publishers" /\ r.todo = t
    BY <2>1 DEF Call
  <2> HIDE DEF r
  <2>5. \A c \in Conns \ {Locator} : ~Refuses(calls[k], c)
    BY <2>1 DEF Refuses
  <2> QED
    BY <1>1, <2>1, <2>2, <2>3, <2>4, <2>5, MoveCloses
<1>3. CASE Woken(k, {"restart"}, "publishers") /\ End(k, "done")
  <2>1. FirstWoken(k) /\ Silent(k) /\ ~Over(calls[k]) /\ calls[k].at = "publishers"
    BY <1>3, FirstFacts DEF Awaits
  <2> QED
    BY <1>1, <1>3, <2>1, EndCloses DEF Refuses
<1> QED
  BY <1>2, <1>3 DEF LoopEnds

(* Users give their connections back.                                      *)
ReleaseCount(us) == [c \in Conns |-> Cardinality({u \in us \cap UsersOf(c) : EndsConnection(u, us)})]
LEMMA ReleaseFacts ==
  ASSUME Inv, NEW us \in SUBSET Users
  PROVE  /\ ReleaseCount(us) \in [Conns -> Nat]
         /\ \A c \in Conns : ReleaseCount(us)[c] > 0 <=> \E u \in us \cap UsersOf(c) : EndsConnection(u, us)
<1>1. \A c \in Conns : LET s == {u \in us \cap UsersOf(c) : EndsConnection(u, us)} IN
        Cardinality(s) \in Nat /\ (Cardinality(s) > 0 <=> s # {})
  <2> TAKE c \in Conns
  <2> DEFINE s == {u \in us \cap UsersOf(c) : EndsConnection(u, us)}
  <2>1. s \in SUBSET Users
    OBVIOUS
  <2> HIDE DEF s
  <2>2. IsFiniteSet(s) /\ Cardinality(s) \in Nat
    BY <2>1, UsersFinite DEF Inv
  <2>3. Cardinality(s) > 0 <=> s # {}
    BY <2>2, FS_EmptySet
  <2> QED
    BY <2>2, <2>3 DEF s
<1> QED
  BY <1>1 DEF ReleaseCount

LEMMA ReleaseOrdered ==
  ASSUME Sound, Inv', NEW k \in DOMAIN calls, FirstWoken(k), Silent(k),
         calls[k].op \in UserOps \cup {"close"}, NEW at \in {"releasing", "publishers"},
         NEW us \in SUBSET Users, Release(k, At(k, at), us),
         calls[k].op = "close" \/ us \subseteq {calls[k].user}
  PROVE  Orderly'
<1> USE DEF Sound
<1> DEFINE n == ReleaseCount(us)
           call == At(k, at)
<1>1. Request(k, call, "close", n) /\ UNCHANGED <<home, ready>> /\ "close" \in Requests
  BY DEF Release, ReleaseCount, Requests
<1>2. /\ n \in [Conns -> Nat]
      /\ \A c \in Conns : n[c] > 0 <=> \E u \in us \cap UsersOf(c) : EndsConnection(u, us)
  BY ReleaseFacts
<1>3. /\ call \in Call /\ call.at = at /\ call.op = calls[k].op
      /\ call.user = calls[k].user /\ call.todo = calls[k].todo
  BY AtFacts DEF Awaits, Inv
<1>4. calls[k].op # "restart" /\ (at = "releasing" \/ at = "publishers")
  BY DEF UserOps, Closers
<1> HIDE DEF n, call
<1>5. Due(call, "close", n)
  <2>1. CASE calls[k].op = "close"
    BY <1>3, <2>1 DEF Due
  <2>2. CASE calls[k].op # "close"
    <3> DEFINE d == home[calls[k].user]
    <3>1. d \in Conns
      BY <2>2, ConnFacts DEF Inv, ClosedInv
    <3>2. \A c \in Conns : n[c] > 0 => c = d
      BY <1>2, <2>2 DEF UsersOf
    <3> QED
      BY <1>2, <1>3, <2>2, <3>1, <3>2 DEF Due
  <2> QED
    BY <2>1, <2>2
<1> QED
  BY <1>1, <1>2, <1>3, <1>5, <1>4, AskOrdered

LEMMA OneLess ==
  ASSUME TypeOK, NEW s \in SUBSET Users, NEW t \in SUBSET Users, NEW u, s \ {u} \subseteq t
  PROVE  /\ Cardinality(s) \in Nat /\ Cardinality(t) \in Nat
         /\ Cardinality(s) - 1 <= Cardinality(t) /\ (s \subseteq t => Cardinality(s) <= Cardinality(t))
         /\ t = {} <=> Cardinality(t) = 0
<1>1. IsFiniteSet(s) /\ Cardinality(s) \in Nat /\ IsFiniteSet(t) /\ Cardinality(t) \in Nat
  BY UsersFinite
<1>2. t = {} <=> Cardinality(t) = 0
  BY <1>1, FS_EmptySet
<1>3. s \subseteq t => Cardinality(s) <= Cardinality(t)
  BY <1>1, FS_Subset
<1>4. Cardinality(s) - 1 <= Cardinality(t)
  <2>1. CASE u \in s
    <3>1. Cardinality(s \ {u}) = Cardinality(s) - 1
      BY <1>1, <2>1, FS_RemoveElement
    <3>2. Cardinality(s \ {u}) <= Cardinality(t)
      BY <1>1, FS_Subset
    <3> QED
      BY <3>1, <3>2
  <2>2. CASE u \notin s
    <3>1. s \subseteq t
      BY <2>2
    <3> QED
      BY <1>1, <1>3, <3>1
  <2> QED
    BY <2>1, <2>2
<1> QED
  BY <1>1, <1>2, <1>3, <1>4

(* A connection that is up after a request was so before, and whatever was *)
(* to end it still is.                                                     *)
LEMMA RequestSparesUp ==
  ASSUME Inv, NEW k \in DOMAIN calls, NEW call \in Call, NEW req \in Requests,
         NEW n \in [Conns -> Nat], Request(k, call, req, n), UNCHANGED <<home, exists>>,
         NEW c \in Conns, sock'[c] \in Up
  PROVE  /\ sock[c] \in Up /\ sock'[c] = sock[c] /\ (n[c] > 0 => sock[c] = "open")
         /\ Asks(c) => Asks(c)'
         /\ \A j \in DOMAIN calls : j # k /\ Refuses(calls[j], c) => Refuses(calls[j], c)'
<1> USE DEF Inv
<1>1. /\ sock'[c] = IF n[c] > 0 /\ sock[c] = "opening" THEN "half" ELSE sock[c]
      /\ \A j \in DOMAIN calls : j # k =>
           \/ calls'[j] = calls[j]
           \/ \E d \in Conns : /\ sock[d] = "opening" /\ sock'[d] = "half"
                               /\ calls[j].at = "connecting" /\ calls[j].conn = d /\ calls'[j].at = "hung"
  BY RequestDoes
<1>2. sock[c] \in Up /\ sock'[c] = sock[c] /\ (n[c] > 0 => sock[c] = "open")
  BY <1>1 DEF Up
<1>3. \A d \in Conns : \A i \in DOMAIN queue[d] : i \in DOMAIN queue'[d] /\ queue'[d][i] = queue[d][i]
  BY RequestQueues
<1>4. ASSUME NEW j \in DOMAIN calls, j # k, Refuses(calls[j], c) PROVE Refuses(calls[j], c)'
  <2>1. calls'[j] = calls[j]
    BY <1>1, <1>2, <1>4 DEF Refuses, Up
  <2> QED
    BY <1>4, <2>1 DEF Refuses
<1> QED
  BY <1>2, <1>3, <1>4 DEF Asks

(* The user of call k gives its connection back, unless it has already.    *)
LEMMA ReleaseCounted ==
  ASSUME Sound, Inv', NEW k \in DOMAIN calls, FirstWoken(k), ~Over(calls[k]),
         calls[k].op \in UserOps, calls[k].at # "releasing", NEW us \in SUBSET Users,
         Release(k, At(k, "releasing"), us),
         IF us = {} THEN calls[k].user \in Publishers \cap closed
         ELSE us = {calls[k].user} /\ calls[k].user \notin Publishers \cap closed,
         us # {} /\ calls[k].op \in Forgetful =>
           \/ sock[home[calls[k].user]] = "open"
           \/ calls[k].op = "closeConsumer" /\ ~exists[home[calls[k].user]]
  PROVE  Counted'
<1> USE DEF Sound, Inv
<1> DEFINE n == ReleaseCount(us)
           call == At(k, "releasing")
           u == calls[k].user
<1>1. /\ Request(k, call, "close", n) /\ UNCHANGED <<home, ready, registered, exists>> /\ "close" \in Requests
      /\ refs' = [c \in Conns |-> refs[c] - Cardinality(us \cap UsersOf(c))]
      /\ closed' = closed \cup {v \in us : v \in Consumers \/ ~EndsConnection(v, us)}
  BY DEF Release, ReleaseCount, Requests
<1>2. /\ n \in [Conns -> Nat]
      /\ \A c \in Conns : n[c] > 0 <=> \E v \in us \cap UsersOf(c) : EndsConnection(v, us)
  BY ReleaseFacts
<1>3. /\ call \in Call /\ call.at = "releasing" /\ call.op = calls[k].op
      /\ call.user = calls[k].user /\ call.todo = calls[k].todo
  BY AtFacts DEF Awaits
<1>4. u \in Users /\ us \subseteq {u} /\ calls[k].op \notin {"restart", "close"} /\ Conns' = Conns
  BY <1>1, HomeStays DEF ClosedInv, UserOps, Closers
<1> HIDE DEF n, call
<1>5. /\ DOMAIN calls' = DOMAIN calls
      /\ \A c \in Conns : sock'[c] = IF n[c] > 0 /\ sock[c] = "opening" THEN "half" ELSE sock[c]
      /\ \A j \in DOMAIN calls : j # k =>
           \/ calls'[j] = calls[j]
           \/ \E c \in Conns : /\ sock[c] = "opening" /\ sock'[c] = "half"
                               /\ calls[j].at = "connecting" /\ calls[j].conn = c /\ calls'[j].at = "hung"
      /\ calls'[k].op = calls[k].op /\ calls'[k].user = u /\ calls'[k].todo = calls[k].todo
      /\ calls'[k].at = IF \E c \in Conns : n[c] > 0 /\ sock[c] = "opening" THEN "hung" ELSE "releasing"
      /\ calls'[k].wake = IF \E c \in Conns : n[c] > 0 /\ sock[c] \in Up THEN "no" ELSE "ok"
      /\ \A j \in DOMAIN calls : j # k => Passive(calls[j], calls'[j])
  BY <1>1, <1>2, <1>3, RequestDoes DEF Others
<1>6. \A j \in DOMAIN calls : Ages(calls[j], calls'[j])
  <2> TAKE j \in DOMAIN calls
  <2>1. CASE j = k
    BY <1>5, <2>1 DEF Ages, Over
  <2>2. CASE j # k
    BY <1>5, <2>2 DEF Ages, Passive
  <2> QED
    BY <2>1, <2>2
<1> SUFFICES ASSUME Fresh' PROVE Listed' /\ \A c \in Conns : Counts(c)'
  BY <1>4 DEF Counted
<1>7. Listed /\ \A c \in Conns : Counts(c)
  BY <1>5, <1>6, FreshBefore DEF Counted
<1>8. /\ \A c : Exempt(c) => Exempt(c)'
      /\ \A c : calls[k].op = "closeUser" /\ u \in Publishers /\ c = home[u] => Exempt(c)'
  BY <1>1, <1>5, <1>6, ExemptLasts DEF Ages, Exempt
<1>9. \A v : (calls[k].op \in Forgetful => v # u) /\ Leaving(v)' => Leaving(v)
  <2> SUFFICES ASSUME NEW v, calls[k].op \in Forgetful => v # u,
                      NEW j \in DOMAIN calls', Leaves(calls'[j], v)
               PROVE  Leaving(v)
    BY DEF Leaving, Leaves
  <2>1. j # k
    BY <1>5 DEF Leaves
  <2>2. calls'[j] = calls[j]
    BY <1>5, <2>1 DEF Leaves
  <2> QED
    BY <1>5, <2>2 DEF Leaving, Leaves
<1>10. Listed'
  <2>1. \A j \in DOMAIN calls' : calls'[j].todo \subseteq registered'
    BY <1>1, <1>5, <1>7 DEF Listed, Passive
  <2>2. ASSUME NEW v \in registered \cap Publishers \cap closed'
        PROVE  Exempt(home[v])' \/ \E r \in DOMAIN calls : Leaves(calls'[r], v) /\ Woke(calls'[r])
    <3>1. CASE v \in closed
      <4>1. \A r \in DOMAIN calls : ~(Leaves(calls[r], v) /\ Woke(calls[r]))
        BY OthersAwake DEF Leaves, Orderly
      <4>2. Exempt(home[v])
        BY <1>7, <3>1, <4>1 DEF Listed
      <4> QED
        BY <1>1, <1>8, <4>2
    <3>2. CASE v \notin closed
      <4>1. v = u /\ us = {u} /\ (v \in Consumers \/ ~EndsConnection(v, us))
        BY <1>1, <1>4, <3>2
      <4>2. v \notin Consumers
        BY ClientAssumption
      <4>3. \A c \in Conns : n[c] = 0
        <5>1. \A w \in us : ~EndsConnection(w, us)
          BY <4>1, <4>2
        <5> QED
          BY <1>2, <5>1
      <4>4. calls'[k].at = "releasing" /\ calls'[k].wake = "ok"
        BY <1>5, <4>3
      <4>5. CASE calls[k].op = "closeUser"
        <5>1. \A c : c = home[v] => Exempt(c)'
          BY <1>8, <3>2, <4>1, <4>5
        <5> QED
          BY <1>1, <5>1
      <4>6. CASE calls[k].op # "closeUser"
        <5>1. Leaves(calls'[k], v) /\ Woke(calls'[k])
          BY <1>5, <4>1, <4>4, <4>6 DEF Leaves, Woke, Forgetful, UserOps
        <5> QED
          BY <5>1
      <4> QED
        BY <4>5, <4>6
    <3> QED
      BY <3>1, <3>2
  <2> QED
    BY <1>1, <1>5, <2>1, <2>2 DEF Listed, Exempt
<1>11. ASSUME NEW c \in Conns, c # Locator, ~Exempt(c)'
       PROVE  /\ refs'[c] <= Cardinality(Able(c)')
              /\ sock'[c] \in Up => Able(c)' # {} \/ Asks(c)' \/ Refusing(c)'
  <2> DEFINE s == Able(c)
             t == Able(c)'
  <2>1. /\ refs[c] <= Cardinality(s) /\ (sock[c] \in Up => s # {} \/ Asks(c) \/ Refusing(c))
        /\ refs[c] \in Int /\ s \in SUBSET Users /\ t \in SUBSET Users
    BY <1>7, <1>8, <1>11 DEF Counts, TypeOK, Able
  <2>2. \A v \in s : v # u \/ calls[k].op = "closeUser" => v \in t
    <3> SUFFICES ASSUME NEW v \in s, v # u \/ calls[k].op = "closeUser" PROVE v \in t
      OBVIOUS
    <3>1. ~Leaving(v)'
      BY <1>9 DEF Able, Forgetful, Closers
    <3>2. v = u => v \in Consumers
      <4> SUFFICES ASSUME v = u, u \notin Consumers PROVE FALSE
        OBVIOUS
      <4>1. u \in Publishers /\ home[u] = c /\ calls[k].op = "closeUser"
        BY <1>4 DEF Users, Able, UsersOf
      <4> QED
        BY <1>8, <1>11, <4>1
    <3>3. v \in Consumers \/ v \notin closed'
      BY <1>1, <1>4, <3>2 DEF Able
    <3>4. v \in registered' /\ v \in UsersOf(c)'
      BY <1>1 DEF Able, UsersOf
    <3> QED
      BY <3>1, <3>3, <3>4 DEF Able
  <2>3. s \ {u} \subseteq t
    BY <2>2
  <2>4. refs'[c] = refs[c] - (IF u \in us /\ home[u] = c THEN 1 ELSE 0)
    <3>1. refs'[c] = refs[c] - Cardinality(us \cap UsersOf(c))
      BY <1>1
    <3>2. CASE u \in us /\ home[u] = c
      <4>1. us \cap UsersOf(c) = {u}
        BY <1>4, <3>2 DEF UsersOf
      <4> QED
        BY <3>1, <3>2, <4>1, FS_Singleton
    <3>3. CASE ~(u \in us /\ home[u] = c)
      <4>1. us \cap UsersOf(c) = {}
        BY <1>4, <3>3 DEF UsersOf
      <4> QED
        BY <2>1, <3>1, <3>3, <4>1, FS_EmptySet
    <3> QED
      BY <3>2, <3>3
  <2>5. /\ Cardinality(s) \in Nat /\ Cardinality(t) \in Nat
        /\ Cardinality(s) - 1 <= Cardinality(t) /\ (s \subseteq t => Cardinality(s) <= Cardinality(t))
        /\ t = {} <=> Cardinality(t) = 0
    <3> HIDE DEF s, t
    <3> QED
      BY <2>1, <2>3, OneLess
  <2>6. sock'[c] \in Up =>
          /\ sock[c] \in Up /\ sock'[c] = sock[c] /\ (n[c] > 0 => sock[c] = "open")
          /\ Asks(c) => Asks(c)'
          /\ \A j \in DOMAIN calls : j # k /\ Refuses(calls[j], c) => Refuses(calls[j], c)'
    BY <1>1, <1>2, <1>3, RequestSparesUp
  <2>7. sock'[c] \in Up /\ Refusing(c) => Refusing(c)'
    <3> SUFFICES ASSUME sock'[c] \in Up, ~exists[c], NEW j \in DOMAIN calls, Refuses(calls[j], c)
                 PROVE  Refusing(c)'
      BY DEF Refusing
    <3>1. j # k
      BY <1>4 DEF Refuses
    <3> QED
      BY <1>1, <1>5, <2>6, <3>1 DEF Refusing
  <2>8. CASE s \subseteq t
    <3>1. s # {} => t # {}
      BY <2>8
    <3>2. refs'[c] <= Cardinality(t)
      <4> DEFINE a == Cardinality(s)
                 b == Cardinality(t)
      <4>1. a <= b /\ refs[c] <= a /\ a \in Nat /\ b \in Nat /\ refs'[c] <= refs[c] /\ refs'[c] \in Int
        BY <2>1, <2>4, <2>5, <2>8
      <4> HIDE DEF a, b
      <4>2. refs'[c] <= b
        BY <2>1, <4>1
      <4> QED
        BY <4>2 DEF b
    <3> HIDE DEF s, t
    <3>3. sock'[c] \in Up => t # {} \/ Asks(c)' \/ Refusing(c)'
      BY <2>1, <2>6, <2>7, <3>1
    <3> QED
      BY <3>2, <3>3 DEF t
  <2>9. CASE ~(s \subseteq t)
    <3>1. u \in s /\ calls[k].op \in Forgetful
      BY <2>2, <2>9 DEF Forgetful, UserOps
    <3>2. home[u] = c /\ us = {u}
      BY <3>1, ClientAssumption DEF Able, UsersOf
    <3>3. refs'[c] = refs[c] - 1
      BY <2>4, <3>2
    <3>4. refs'[c] <= Cardinality(t)
      <4> DEFINE a == Cardinality(s)
                 b == Cardinality(t)
      <4>1. a - 1 <= b /\ refs[c] <= a /\ a \in Nat /\ b \in Nat
        BY <2>1, <2>5
      <4> HIDE DEF a, b
      <4>2. refs'[c] <= b
        BY <2>1, <3>3, <4>1
      <4> QED
        BY <4>2 DEF b
    <3>5. ASSUME sock'[c] \in Up, t = {} PROVE Asks(c)' \/ Refusing(c)'
      <4>1. refs[c] - 1 <= 0
        <5> HIDE DEF s, t
        <5>1. Cardinality(t) = 0
          BY <2>5, <3>5
        <5> QED
          BY <2>1, <3>3, <3>4, <5>1 DEF t
      <4>2. CASE sock[c] = "open"
        <5>1. ready[c]
          BY <4>2 DEF Orderly, Socks
        <5>2. Turn(u, us) = 1
          <6>1. {v \in us : home[v] = home[u] /\ v <= u} = {u}
            BY <1>4, <3>2, ConnFacts
          <6> QED
            BY <6>1, FS_Singleton DEF Turn
        <5>3. EndsConnection(u, us)
          BY <3>2, <4>1, <5>1, <5>2 DEF EndsConnection
        <5>4. n[c] > 0
          BY <1>2, <1>4, <3>2, <5>3 DEF UsersOf
        <5> QED
          BY <1>1, <1>2, <1>3, <4>2, <5>4, RequestArrives DEF Asks
      <4>3. CASE sock[c] = "opening"
        <5>1. ~exists[c]
          BY <3>1, <3>2, <4>3
        <5>2. PICK j \in DOMAIN calls : Awaiting(calls[j], c)
          BY <4>3 DEF Orderly, Socks
        <5>3. Refuses(calls[j], c) /\ j # k
          BY <1>4, <5>2 DEF Orderly, Socks, Awaiting, Refuses
        <5> QED
          BY <1>1, <1>5, <2>6, <3>5, <5>1, <5>3 DEF Refusing
      <4> QED
        BY <2>6, <3>5, <4>2, <4>3 DEF Up
    <3> QED
      BY <3>4, <3>5
  <2> QED
    BY <2>8, <2>9
<1> QED
  BY <1>1, <1>10, <1>11 DEF Counts, Up

LEMMA CloseUserCloses ==
  ASSUME Sound, Inv', NEW k \in DOMAIN calls, CloseUser(k)
  PROVE  Orderly' /\ Counted'
<1> DEFINE u == calls[k].user
           us == IF u \in Publishers \cap closed THEN {} ELSE {u}
<1>1. /\ FirstWoken(k) /\ Silent(k) /\ ~Over(calls[k]) /\ calls[k].op \in {"closeUser", "automaticClose"}
      /\ calls[k].at = "begins" /\ Release(k, At(k, "releasing"), us)
  BY FirstFacts DEF CloseUser, Awaits, Sound
<1>2. calls[k].op \in UserOps /\ u \in Users
  BY <1>1 DEF UserOps, Sound, Inv, ClosedInv
<1>3. calls[k].op \in Forgetful => sock[home[u]] = "open"
  BY <1>1 DEF Forgetful, Closers, Sound, Orderly, Upright
<1>4. /\ us \in SUBSET Users /\ us \subseteq {u}
      /\ IF us = {} THEN u \in Publishers \cap closed ELSE us = {u} /\ u \notin Publishers \cap closed
  BY <1>2
<1> HIDE DEF us
<1> QED
  BY <1>1, <1>2, <1>3, <1>4, ReleaseOrdered, ReleaseCounted

LEMMA closingCloses ==
  ASSUME Sound, Inv', NEW k \in DOMAIN calls, closing(k)
  PROVE  Orderly' /\ Counted'
<1> DEFINE u == calls[k].user
<1>1. /\ FirstWoken(k) /\ Silent(k) /\ ~Over(calls[k]) /\ calls[k].op = "closeConsumer"
      /\ (calls[k].at = "metadata" /\ calls[k].wake = "refused")
           \/ (calls[k].at = "unsubscribing" /\ calls[k].wake = "ok")
  <2>1. CASE Woken(k, {"closeConsumer"}, "metadata") /\ calls[k].wake = "refused"
    BY <2>1, FirstFacts DEF Awaits, Sound
  <2>2. CASE Woken(k, {"closeConsumer"}, "unsubscribing") /\ calls[k].wake = "ok"
    BY <2>2, FirstFacts DEF Awaits, Sound
  <2> QED
    BY <2>1, <2>2 DEF closing
<1>2. Release(k, At(k, "releasing"), {u})
  BY DEF closing
<1>3. calls[k].op \in UserOps /\ u \in Users /\ u \notin Publishers
  BY <1>1, ClientAssumption DEF UserOps, Closers, Sound, Inv, ClosedInv, Orderly, Kind
<1>4. sock[home[u]] = "open" \/ ~exists[home[u]]
  BY <1>1 DEF Sound, Inv, ClosedInv, CloseInv, Closers, Orderly, Upright
<1>5. {u} \in SUBSET Users /\ {u} # {}
  BY <1>3
<1> QED
  BY <1>1, <1>2, <1>3, <1>4, <1>5, ReleaseOrdered, ReleaseCounted

LEMMA DeletedCloses ==
  ASSUME Sound, Inv', NEW k \in DOMAIN calls, Deleted(k)
  PROVE  Orderly' /\ Counted'
<1> DEFINE u == calls[k].user
           us == {u} \ closed
<1>1. /\ FirstWoken(k) /\ Silent(k) /\ ~Over(calls[k]) /\ calls[k].op = "deletePublisher"
      /\ calls[k].at = "deleting" /\ calls[k].wake = "ok" /\ Release(k, At(k, "releasing"), us)
  BY FirstFacts DEF Deleted, Awaits, Sound
<1>2. calls[k].op \in UserOps /\ u \in Users /\ u \in Publishers
  BY <1>1 DEF UserOps, Closers, Sound, Inv, ClosedInv, Orderly, Kind
<1>3. sock[home[u]] = "open"
  BY <1>1 DEF Sound, Orderly, Upright
<1>4. /\ us \in SUBSET Users /\ us \subseteq {u}
      /\ IF us = {} THEN u \in Publishers \cap closed ELSE us = {u} /\ u \notin Publishers \cap closed
  BY <1>2
<1> HIDE DEF us
<1> QED
  BY <1>1, <1>2, <1>3, <1>4, ReleaseOrdered, ReleaseCounted

LEMMA ForgetsUser ==
  ASSUME TypeOK, NEW k \in DOMAIN calls, NEW r \in Call, NEW u,
         calls' = Forget(u, [calls EXCEPT ![k] = r])
  PROVE  \A j \in DOMAIN calls : u \notin calls'[j].todo
<1> DEFINE drop(c) == [c EXCEPT !.todo = @ \ {u}]
           over == [calls EXCEPT ![k] = r]
<1>1. DOMAIN over = DOMAIN calls /\ \A j \in DOMAIN calls : over[j] \in Call
  BY CallFacts DEF TypeOK
<1>2. \A j \in DOMAIN over : calls'[j] = drop(over[j])
  BY DEF Forget
<1> HIDE DEF over
<1>3. \A c \in Call : u \notin drop(c).todo
  BY DEF Call
<1> HIDE DEF drop
<1> QED
  BY <1>1, <1>2, <1>3

LEMMA ReleasedCloses ==
  ASSUME Sound, Inv', NEW k \in DOMAIN calls, Released(k)
  PROVE  Orderly' /\ Counted'
<1> USE DEF Sound, Inv
<1> DEFINE u == calls[k].user
           r == [calls[k] EXCEPT !.at = "done", !.wake = "no"]
<1>1. /\ FirstWoken(k) /\ Silent(k) /\ ~Over(calls[k]) /\ calls[k] \in Call
      /\ calls[k].at = "releasing" /\ calls[k].wake # "no"
      /\ UNCHANGED <<home, sock, ready, queue, refs, exists>> /\ closed' = closed \cup {u}
  BY FirstFacts DEF Released, Awaits
<1>2. [calls EXCEPT ![k].at = "done", ![k].wake = "no"] = [calls EXCEPT ![k] = r]
  BY DEF TypeOK
<1>3. /\ r \in Call /\ r.op = calls[k].op /\ r.user = u /\ r.at = "done" /\ r.todo = calls[k].todo
  BY <1>1 DEF Call, Awaits, Wakes
<1> HIDE DEF r
<1>4. calls[k].op \in UserOps /\ u \in Users /\ calls[k].op \notin {"restart", "close"}
  BY <1>1 DEF ClosedInv, UserOps, Closers
<1>5. /\ Others(k) /\ (\A j \in DOMAIN calls : j # k => SameAwait(calls[j], calls'[j]))
      /\ calls'[k].op = calls[k].op /\ calls'[k].user = u /\ calls'[k].at = "done"
      /\ calls'[k].todo \subseteq calls[k].todo
      /\ IF calls[k].op \in Forgetful
         THEN registered' = registered \ {u} /\ \A j \in DOMAIN calls : u \notin calls'[j].todo
         ELSE registered' = registered
  <2>1. CASE /\ Forgets(calls[k].op)
             /\ registered' = registered \ {u} /\ calls' = Forget(u, [calls EXCEPT ![k] = r])
    <3>1. /\ Others(k) /\ (\A j \in DOMAIN calls : j # k => SameAwait(calls[j], calls'[j]))
          /\ calls'[k].op = r.op /\ calls'[k].user = r.user /\ calls'[k].at = r.at
          /\ calls'[k].todo \subseteq r.todo
      BY <1>3, <2>1, ForgetFacts
    <3>2. \A j \in DOMAIN calls : u \notin calls'[j].todo
      BY <1>3, <2>1, ForgetsUser
    <3>3. calls[k].op \in Forgetful
      BY <1>4, <2>1 DEF Forgets, Forgetful, UserOps
    <3> QED
      BY <1>3, <2>1, <3>1, <3>3, <3>2
  <2>2. CASE ~Forgets(calls[k].op) /\ calls' = [calls EXCEPT ![k] = r] /\ UNCHANGED registered
    <3>1. Others(k) /\ calls'[k] = r /\ \A j \in DOMAIN calls : j # k => calls'[j] = calls[j]
      BY <1>3, <2>2, OneChanges
    <3>2. calls[k].op \notin Forgetful
      BY <2>2 DEF Forgets, Forgetful, Closers
    <3> QED
      BY <1>3, <2>2, <3>1, <3>2 DEF SameAwait
  <2> QED
    BY <1>2, <2>1, <2>2 DEF Released
<1>6. DOMAIN calls' = DOMAIN calls /\ Conns' = Conns /\ registered' \subseteq registered
  BY <1>1, <1>5, LenProperties, HomeStays DEF Others, TypeOK
<1>7. \A j \in DOMAIN calls : j # k =>
        /\ calls'[j].at = calls[j].at /\ calls'[j].op = calls[j].op /\ calls'[j].user = calls[j].user
        /\ calls'[j].conn = calls[j].conn /\ calls'[j].wake = calls[j].wake
        /\ calls'[j].todo \subseteq calls[j].todo
  BY <1>5 DEF Others, Passive, SameAwait
<1>8. Orderly'
  BY <1>1, <1>5, <1>6, <1>7, MoveOrdered DEF Stays
<1> SUFFICES ASSUME Fresh' PROVE Listed' /\ \A c \in Conns : Counts(c)'
  BY <1>6, <1>8 DEF Counted
<1>9. \A j \in DOMAIN calls : Ages(calls[j], calls'[j])
  BY <1>1, <1>4, <1>5, <1>7 DEF Ages
<1>10. Listed /\ \A c \in Conns : Counts(c)
  BY <1>6, <1>9, FreshBefore DEF Counted
<1>11. /\ \A c : Exempt(c) => Exempt(c)'
       /\ \A c : calls[k].op = "closeUser" /\ u \in Publishers /\ c = home[u] => Exempt(c)'
  BY <1>1, <1>5, <1>6, <1>9, ExemptLasts DEF Ages, Exempt
<1>12. \A v : Leaving(v)' => Leaving(v)
  <2> SUFFICES ASSUME NEW v, NEW j \in DOMAIN calls', Leaves(calls'[j], v)
               PROVE  Leaving(v)
    BY DEF Leaving, Leaves
  <2>1. j # k
    BY <1>5 DEF Leaves
  <2> QED
    BY <1>6, <1>7, <2>1 DEF Leaving, Leaves
<1>13. Listed'
  <2>1. \A j \in DOMAIN calls' : calls'[j].todo \subseteq registered'
    BY <1>5, <1>6, <1>7, <1>10 DEF Listed
  <2>2. ASSUME NEW v \in registered' \cap Publishers \cap closed' PROVE Exempt(home[v])'
    <3>1. CASE v # u
      <4>1. \A i \in DOMAIN calls : ~(Leaves(calls[i], v) /\ Woke(calls[i]))
        <5> SUFFICES ASSUME NEW i \in DOMAIN calls, Leaves(calls[i], v), Woke(calls[i]) PROVE FALSE
          OBVIOUS
        <5>1. i # k /\ calls[i].at = "releasing"
          BY <3>1 DEF Leaves
        <5>2. calls[i].at = "begins"
          BY <1>1, <5>1, OthersAwake DEF Orderly
        <5> QED
          BY <5>1, <5>2
      <4>2. Exempt(home[v])
        BY <1>1, <1>6, <1>10, <3>1, <4>1 DEF Listed
      <4> QED
        BY <1>1, <1>11, <4>2
    <3>2. CASE v = u
      <4>1. calls[k].op = "closeUser"
        BY <1>4, <1>5, <3>2 DEF Forgetful, UserOps
      <4>2. \A c : c = home[v] => Exempt(c)'
        BY <1>11, <3>2, <4>1
      <4> QED
        BY <1>1, <4>2
    <3> QED
      BY <3>1, <3>2
  <2> QED
    BY <2>1, <2>2 DEF Listed
<1>14. ASSUME NEW c \in Conns PROVE Counts(c)'
  <2>1. CASE c = Locator \/ Exempt(c)'
    BY <2>1 DEF Counts
  <2>2. CASE c # Locator /\ ~Exempt(c)'
    <3>1. Able(c) \subseteq Able(c)'
      <4> SUFFICES ASSUME NEW v \in Able(c) PROVE v \in Able(c)'
        OBVIOUS
      <4>1. ~Leaving(v)'
        BY <1>12 DEF Able
      <4>2. v = u => calls[k].op = "closeUser"
        BY <1>1, <1>4 DEF Able, Leaving, Leaves, Forgetful, UserOps
      <4>3. v = u => v \in Consumers
        BY <1>11, <2>2, <4>2 DEF Able, UsersOf, Users
      <4>4. v \in registered'
        BY <1>5, <4>2 DEF Able, Forgetful, Closers
      <4>5. v \in Consumers \/ v \notin closed'
        BY <1>1, <4>3 DEF Able
      <4>6. v \in UsersOf(c)'
        BY <1>1 DEF Able, UsersOf
      <4> QED
        BY <4>1, <4>4, <4>5, <4>6 DEF Able
    <3>2. Asks(c) => Asks(c)'
      BY <1>1 DEF Asks
    <3>3. Refusing(c) => Refusing(c)'
      <4> SUFFICES ASSUME ~exists[c], NEW j \in DOMAIN calls, Refuses(calls[j], c)
                   PROVE  Refuses(calls[j], c)'
        BY <1>1, <1>6 DEF Refusing
      <4>1. j # k
        BY <1>4 DEF Refuses
      <4> QED
        BY <1>1, <1>7, <4>1 DEF Refuses
    <3>4. sock'[c] \in Up => Able(c)' # {} \/ StaysUp(c)
      BY <1>1, <3>2, <3>3 DEF StaysUp
    <3>5. KeepsUsers(c)
      BY <1>1, <1>11, <2>2, <3>1, <3>4 DEF KeepsUsers
    <3> QED
      BY <1>1, <1>10, <3>5, CountStays
  <2> QED
    BY <2>1, <2>2
<1> QED
  BY <1>13, <1>14

(* Connection c loses its requests: who waits for it hangs, but for w, who *)
(* acts.                                                                   *)
Loses(c, w) ==
  /\ DOMAIN calls' = DOMAIN calls /\ UNCHANGED <<home, exists>>
  /\ queue' = [queue EXCEPT ![c] = <<>>]
  /\ \A j \in DOMAIN calls : j # w =>
       /\ ~Woke(calls[j]) /\ calls'[j].op = calls[j].op /\ calls'[j].user = calls[j].user
       /\ calls'[j].conn = calls[j].conn /\ calls'[j].wake = calls[j].wake
       /\ calls'[j].todo \subseteq calls[j].todo
       /\ calls'[j].at = IF WaitsFor(j, c, queue[c]) THEN "hung" ELSE calls[j].at
LEMMA LosesFacts ==
  ASSUME Inv, Orderly, NEW c \in Conns, NEW w, Loses(c, w)
  PROVE  /\ \A j \in DOMAIN calls : j # w =>
              /\ Rests(j) /\ Remains(j) /\ Ages(calls[j], calls'[j])
              /\ calls'[j].at = "releasing" =>
                   /\ calls[j].at = "releasing"
                   /\ calls[j].op \in Forgetful => home[calls[j].user] # c
              /\ \A d \in Conns \ {c} :
                   /\ Awaiting(calls[j], d) => calls'[j].at # "hung"
                   /\ Refuses(calls[j], d) => Refuses(calls[j], d)'
         /\ \A d \in Conns : \A i \in DOMAIN queue'[d] : \E m \in DOMAIN queue[d] : queue[d][m] = queue'[d][i]
         /\ \A d \in Conns \ {c} : queue'[d] = queue[d]
<1> USE DEF Inv
<1>1. queue'[c] = <<>> /\ \A d \in Conns \ {c} : queue'[d] = queue[d]
  BY DEF Loses, TypeOK
<1>2. \A d \in Conns : \A i \in DOMAIN queue'[d] : \E m \in DOMAIN queue[d] : queue[d][m] = queue'[d][i]
  BY <1>1, EmptySeq
<1>3. ASSUME NEW j \in DOMAIN calls, j # w
      PROVE  /\ Rests(j) /\ Remains(j) /\ Ages(calls[j], calls'[j])
             /\ calls'[j].at = "releasing" =>
                  /\ calls[j].at = "releasing"
                  /\ calls[j].op \in Forgetful => home[calls[j].user] # c
             /\ \A d \in Conns \ {c} :
                  /\ Awaiting(calls[j], d) => calls'[j].at # "hung"
                  /\ Refuses(calls[j], d) => Refuses(calls[j], d)'
  <2>1. /\ ~Woke(calls[j]) /\ calls'[j].op = calls[j].op /\ calls'[j].user = calls[j].user
        /\ calls'[j].conn = calls[j].conn /\ calls'[j].wake = calls[j].wake
        /\ calls'[j].at = IF WaitsFor(j, c, queue[c]) THEN "hung" ELSE calls[j].at
    BY <1>3 DEF Loses
  <2>2. Rests(j)
    BY <1>1, <2>1 DEF Rests, Hangs
  <2>3. Remains(j)
    <3> SUFFICES ASSUME NEW d \in Conns, NEW i \in DOMAIN queue[d], queue[d][i].by = j
                 PROVE  calls'[j].at = "hung" \/ \E m \in DOMAIN queue'[d] : queue'[d][m] = queue[d][i]
      BY DEF Remains
    <3>1. CASE d = c
      BY <2>1, <3>1 DEF WaitsFor
    <3>2. CASE d # c
      BY <1>1, <3>2
    <3> QED
      BY <3>1, <3>2
  <2>4. ASSUME NEW i \in DOMAIN queue[c], queue[c][i].by = j
        PROVE  /\ ~Awaiting(calls[j], c) /\ calls[j].at \notin {"begins", "waiting", "connecting", "done", "failed"}
               /\ Fits(queue[c][i], c, calls[j]) /\ Place(queue[c][i], c, calls[j]) /\ queue[c][i].req \in Requests
    <3>1. ~Silent(j)
      BY <2>4 DEF Silent
    <3>2. calls[j].at \notin {"begins", "waiting", "connecting", "done", "failed"}
      BY <3>1, IdleIsSilent
    <3>3. Fits(queue[c][i], c, calls[j]) /\ Place(queue[c][i], c, calls[j])
      BY <2>4 DEF QueueInv, Orderly, Placed
    <3>4. queue[c][i] \in Entry
      <4>1. queue[c] \in Seq(Entry)
        BY DEF TypeOK
      <4> QED
        BY <4>1
    <3> QED
      BY <3>2, <3>3, <3>4 DEF Awaiting, Entry
  <2>5. WaitsFor(j, c, queue[c]) =>
          \/ calls[j].at = "connecting" /\ calls[j].conn = c
          \/ \E i \in DOMAIN queue[c] : queue[c][i].by = j
    BY DEF WaitsFor
  <2>6. Ages(calls[j], calls'[j])
    BY <2>1, <2>4, <2>5 DEF Ages
  <2>7. ASSUME calls'[j].at = "releasing", calls[j].op \in Forgetful PROVE home[calls[j].user] # c
    <3>1. calls[j].at = "releasing" /\ ~WaitsFor(j, c, queue[c])
      BY <2>1, <2>7
    <3>2. PICK d \in Conns : \E i \in DOMAIN queue[d] : queue[d][i].by = j
      BY <2>1, <2>7, <3>1 DEF Orderly, Asked, Silent
    <3>3. PICK i \in DOMAIN queue[d] : queue[d][i].by = j
      BY <3>2
    <3>4. Fits(queue[d][i], d, calls[j]) /\ Place(queue[d][i], d, calls[j])
      BY <3>3 DEF QueueInv, Orderly, Placed
    <3>5. queue[d][i].req \in Requests
      <4>1. queue[d] \in Seq(Entry)
        BY DEF TypeOK
      <4>2. queue[d][i] \in Entry
        BY <4>1
      <4> QED
        BY <4>2 DEF Entry
    <3>6. queue[d][i].req = "close"
      BY <3>1, <3>4, <3>5 DEF Fits, Suits, Requests
    <3>7. d = home[calls[j].user]
      BY <2>7, <3>4, <3>6 DEF Place, Forgetful, Closers
    <3> QED
      BY <3>1, <3>3, <3>7 DEF WaitsFor
  <2>8. ASSUME NEW d \in Conns \ {c}
        PROVE  /\ Awaiting(calls[j], d) => calls'[j].at # "hung"
               /\ Refuses(calls[j], d) => Refuses(calls[j], d)'
    <3>1. Awaiting(calls[j], d) => ~WaitsFor(j, c, queue[c])
      BY <2>4, <2>5 DEF Awaiting
    <3>2. Refuses(calls[j], d) => ~WaitsFor(j, c, queue[c])
      <4> SUFFICES ASSUME Refuses(calls[j], d), NEW i \in DOMAIN queue[c], queue[c][i].by = j PROVE FALSE
        BY <2>5 DEF Refuses
      <4>1. calls[j].at \in {"declaring", "refusing"} /\ home[calls[j].user] = d /\ calls[j].op = "restart"
        BY <2>4 DEF Refuses
      <4>2. (queue[c][i].req = "declare" /\ c = home[calls[j].user]) \/ queue[c][i].req = "end"
        BY <2>4, <4>1 DEF Fits, Suits, Requests
      <4> QED
        BY <2>4, <4>1, <4>2 DEF Place
    <3>3. Refuses(calls[j], d) => Refuses(calls[j], d)'
      BY <2>1, <3>2 DEF Refuses, Loses
    <3> QED
      BY <2>1, <3>1, <3>3 DEF Awaiting
  <2> QED
    BY <2>1, <2>2, <2>3, <2>6, <2>7, <2>8
<1> QED
  BY <1>1, <1>2, <1>3

LEMMA ReconnectCloses ==
  ASSUME Sound, Inv', NEW k \in DOMAIN calls, Silent(k), ~Over(calls[k]), calls[k].op = "restart",
         calls[k].at \in {"waiting", "consumers", "publishers"},
         \A j \in DOMAIN calls : j # k => ~Woke(calls[j]),
         NEW call \in Call, call.op = "restart", call.todo \subseteq calls[k].todo,
         NEW c \in Conns, c # Locator => call.user \in calls[k].todo /\ c = home[call.user],
         Reconnect(k, call, c),
         UNCHANGED <<home, ready, refs, registered, closed, exists>>
  PROVE  Orderly' /\ Counted'
<1> USE DEF Sound, Inv
<1> DEFINE a == Abandon(calls, c, queue[c])
           r == [call EXCEPT !.at = "connecting", !.conn = c, !.seen = @ \cup {c}, !.wake = "no"]
<1>1. /\ DOMAIN a = DOMAIN calls
      /\ \A j \in DOMAIN calls :
           /\ WaitsFor(j, c, queue[c]) => a[j] = [calls[j] EXCEPT !.at = "hung"]
           /\ ~WaitsFor(j, c, queue[c]) => a[j] = calls[j]
           /\ Passive(calls[j], a[j])
  BY AbandonFacts
<1>2. /\ calls' = [a EXCEPT ![k] = r] /\ sock' = [sock EXCEPT ![c] = "opening"]
      /\ queue' = [queue EXCEPT ![c] = <<>>]
  BY DEF Reconnect
<1>3. r.op = "restart" /\ r.user = call.user /\ r.at = "connecting" /\ r.conn = c /\ r.wake = "no" /\ r.todo = call.todo
  BY DEF Call
<1>4. \A j \in DOMAIN calls : [calls[j] EXCEPT !.at = "hung"].at = "hung"
  BY CallFacts DEF Call
<1> HIDE DEF a, r
<1>5. DOMAIN calls' = DOMAIN calls /\ calls'[k] = r /\ \A j \in DOMAIN calls : j # k => calls'[j] = a[j]
  BY <1>1, <1>2
<1>6. \A d \in Conns : sock'[d] = IF d = c THEN "opening" ELSE sock[d]
  BY <1>2 DEF TypeOK
<1>7. Loses(c, k)
  <2>1. ASSUME NEW j \in DOMAIN calls, j # k
        PROVE  calls'[j].at = IF WaitsFor(j, c, queue[c]) THEN "hung" ELSE calls[j].at
    <3>1. CASE WaitsFor(j, c, queue[c])
      <4>1. calls'[j] = [calls[j] EXCEPT !.at = "hung"]
        BY <1>1, <1>5, <2>1, <3>1
      <4> QED
        BY <1>4, <3>1, <4>1
    <3>2. CASE ~WaitsFor(j, c, queue[c])
      BY <1>1, <1>5, <2>1, <3>2
    <3> QED
      BY <3>1, <3>2
  <2> QED
    BY <1>1, <1>2, <1>5, <2>1 DEF Loses, Passive
<1>8. /\ \A j \in DOMAIN calls : j # k =>
           /\ Rests(j) /\ Remains(j) /\ Ages(calls[j], calls'[j])
           /\ calls'[j].at = "releasing" =>
                /\ calls[j].at = "releasing"
                /\ calls[j].op \in Forgetful => home[calls[j].user] # c
           /\ \A d \in Conns \ {c} :
                /\ Awaiting(calls[j], d) => calls'[j].at # "hung"
                /\ Refuses(calls[j], d) => Refuses(calls[j], d)'
      /\ \A d \in Conns : \A i \in DOMAIN queue'[d] : \E m \in DOMAIN queue[d] : queue[d][m] = queue'[d][i]
      /\ \A d \in Conns \ {c} : queue'[d] = queue[d]
  BY <1>7, LosesFacts
<1>9. Orderly'
  <2>1. ActsInOrder(k)
    BY <1>3, <1>5 DEF ActsInOrder, Forgetful, Closers
  <2>2. \A d \in Conns : sock'[d] = "open" => ready'[d]
    BY <1>6 DEF Orderly, Socks
  <2>3. \A d \in Conns : sock'[d] = "opening" =>
          \/ k \in DOMAIN calls /\ Awaiting(calls'[k], d)
          \/ sock[d] = "opening" /\ \A j \in DOMAIN calls : Awaiting(calls[j], d) => j # k /\ calls'[j].at # "hung"
    <3> SUFFICES ASSUME NEW d \in Conns, sock'[d] = "opening"
                 PROVE  \/ Awaiting(calls'[k], d)
                        \/ sock[d] = "opening" /\ \A j \in DOMAIN calls : Awaiting(calls[j], d) => j # k /\ calls'[j].at # "hung"
      OBVIOUS
    <3>1. CASE d = c
      BY <1>3, <1>5, <3>1 DEF Awaiting, Woke
    <3>2. CASE d # c
      <4>1. ~Awaiting(calls[k], d)
        BY DEF Awaiting
      <4> QED
        BY <1>6, <1>8, <3>2, <4>1
    <3> QED
      BY <3>1, <3>2
  <2> QED
    BY <1>5, <1>8, <2>1, <2>2, <2>3, RestOrdered
<1>10. \A j \in DOMAIN calls :
           /\ Ages(calls[j], calls'[j])
           /\ calls'[j].at = "releasing" => calls[j].at = "releasing"
           /\ calls[j].at = "releasing" /\ Woke(calls[j]) => calls'[j].at = "releasing" /\ Woke(calls'[j])
           /\ calls'[j].todo \subseteq calls[j].todo \cup registered
  <2> TAKE j \in DOMAIN calls
  <2>1. CASE j = k
    BY <1>3, <1>5, <2>1 DEF Ages, Over
  <2>2. CASE j # k
    BY <1>7, <1>8, <2>2 DEF Loses
  <2> QED
    BY <2>1, <2>2
<1>11. ASSUME NEW d \in Conns \ {Locator}, Fresh, Listed, sock'[d] \in Up
       PROVE  Exempt(d) \/ Able(d)' # {} \/ StaysUp(d)
  <2>1. CASE d = c
    <3> DEFINE u == call.user
    <3>1. u \in registered /\ u \in Users /\ home[u] = d
      BY <1>11, <2>1 DEF Listed, TypeOK
    <3> HIDE DEF u
    <3>2. u \in Publishers /\ u \in closed => Exempt(d)
      <4> SUFFICES ASSUME u \in Publishers, u \in closed PROVE Exempt(d)
        OBVIOUS
      <4>1. \A j \in DOMAIN calls : ~(Leaves(calls[j], u) /\ Woke(calls[j]))
        BY DEF Leaves
      <4>2. Exempt(home[u])
        BY <1>11, <3>1, <4>1 DEF Listed
      <4> QED
        BY <3>1, <4>2
    <3>3. ~Leaving(u)'
      <4> SUFFICES ASSUME NEW j \in DOMAIN calls, Leaves(calls'[j], u) PROVE FALSE
        BY <1>5 DEF Leaving, Leaves
      <4>1. j # k
        BY <1>3, <1>5 DEF Leaves
      <4>2. calls'[j].op = calls[j].op /\ calls'[j].user = calls[j].user
        BY <1>7, <4>1 DEF Loses
      <4> QED
        BY <1>8, <2>1, <3>1, <4>1, <4>2 DEF Leaves
    <3>4. u \in Able(d)' \/ Exempt(d)
      <4>1. u \in registered' /\ u \in UsersOf(d)' /\ closed' = closed
        BY <3>1 DEF UsersOf
      <4> QED
        BY <3>1, <3>2, <3>3, <4>1 DEF Able, Users
    <3> QED
      BY <3>4
  <2>2. CASE d # c
    <3>1. sock[d] \in Up /\ queue'[d] = queue[d]
      BY <1>6, <1>8, <1>11, <2>2
    <3>2. Refusing(d) => Refusing(d)'
      <4> SUFFICES ASSUME ~exists[d], NEW j \in DOMAIN calls, Refuses(calls[j], d)
                   PROVE  Refuses(calls[j], d)'
        BY <1>5 DEF Refusing
      <4>1. j # k
        BY DEF Refuses
      <4> QED
        BY <1>8, <2>2, <4>1
    <3> QED
      BY <3>1, <3>2 DEF StaysUp, Asks
  <2> QED
    BY <2>1, <2>2
<1> QED
  BY <1>5, <1>9, <1>10, <1>11, CountedStays

LEMMA RestartLocatorCloses ==
  ASSUME Sound, Inv', NEW k \in DOMAIN calls, RestartLocator(k)
  PROVE  Orderly' /\ Counted'
<1> USE DEF Sound, Inv
<1> DEFINE call == calls[k]
<1>1. /\ call.op = "restart" /\ call.at = "waiting" /\ Reconnect(k, call, Locator)
      /\ UNCHANGED <<home, ready, refs, registered, closed, exists>>
  BY DEF RestartLocator, users
<1>2. \A j \in DOMAIN calls : ~Woke(calls[j])
  BY DEF RestartLocator, Quiet, Woke
<1>3. Silent(k) /\ ~Over(calls[k]) /\ call \in Call /\ call.todo \subseteq calls[k].todo
  BY <1>1, IdleIsSilent, CallFacts DEF Over
<1>4. Locator \in Conns
  BY ConnFacts
<1>5. calls[k].op = "restart" /\ calls[k].at = "waiting"
  BY <1>1
<1> HIDE DEF call
<1> QED
  BY <1>1, <1>2, <1>3, <1>4, <1>5, ReconnectCloses

LEMMA NextUserCloses ==
  ASSUME Sound, Inv', NEW k \in DOMAIN calls, NextUser(k)
  PROVE  Orderly' /\ Counted'
<1> USE DEF Sound, Inv
<1>1. /\ FirstWoken(k) /\ Silent(k) /\ ~Over(calls[k]) /\ calls[k] \in Call /\ calls[k].op = "restart"
      /\ calls[k].at \in {"consumers", "publishers"}
      /\ UNCHANGED <<home, ready, refs, registered, closed, exists>>
  BY FirstFacts DEF NextUser, Awaits, users
<1>2. PICK u \in calls[k].todo :
        LET call == [calls[k] EXCEPT !.user = u, !.todo = @ \ {u}] IN
          \/ declareOnConnection(k, call)
          \/ Reconnect(k, call, home[u])
  BY DEF NextUser
<1> DEFINE call == [calls[k] EXCEPT !.user = u, !.todo = @ \ {u}]
           c == home[u]
<1>3. u \in Users /\ u \in Nat /\ c \in Conns /\ c # Locator
  <2>1. u \in Users
    BY <1>1 DEF Call
  <2> QED
    BY <2>1, ConnFacts
<1>4. /\ call \in Call /\ call.user = u /\ call.todo \subseteq calls[k].todo /\ call.op = "restart"
  BY <1>1, <1>3 DEF Call
<1>5. ASSUME NEW j \in DOMAIN calls, j # k PROVE ~Woke(calls[j])
  <2> SUFFICES ASSUME Woke(calls[j]) PROVE FALSE
    OBVIOUS
  <2>1. calls[k].op \in Batch
    BY <1>1, <1>5, OthersAwake DEF Orderly
  <2> QED
    BY <1>1, <2>1 DEF Batch
<1>6. CASE declareOnConnection(k, call)
  <2> DEFINE e == [call EXCEPT !.at = "declaring"]
  <2>1. /\ e \in Call /\ e.at = "declaring" /\ e.op = "restart" /\ e.user = u
        /\ e.todo \subseteq calls[k].todo
    <3> HIDE DEF call
    <3> QED
      BY <1>4 DEF Call, Awaits
  <2>2. Request(k, e, "declare", Only(c))
    <3>1. Request(k, e, "declare", Only(home[call.user]))
      BY <1>6 DEF declareOnConnection
    <3>2. home[call.user] = c
      BY <1>4
    <3> HIDE DEF call, c
    <3> QED
      BY <3>1, <3>2
  <2>3. "declare" \in Requests \ {"close"} /\ home[u] = c
    BY DEF Requests
  <2> HIDE DEF e, call, c
  <2> QED
    BY <1>1, <1>3, <2>1, <2>2, <2>3, AskOneCloses DEF Refuses
<1>7. CASE Reconnect(k, call, c)
  <2>1. home[u] = c
    OBVIOUS
  <2> HIDE DEF call, c
  <2> QED
    BY <1>1, <1>3, <1>4, <1>5, <1>7, <2>1, ReconnectCloses
<1> QED
  BY <1>2, <1>6, <1>7

LEMMA ConnectionRestartedCloses ==
  ASSUME Sound, Inv', NEW k \in DOMAIN calls, ConnectionRestarted(k)
  PROVE  Orderly' /\ Counted'
<1> USE DEF Sound, Inv
<1> DEFINE c == home[calls[k].user]
           e == At(k, "declaring")
<1>1. /\ FirstWoken(k) /\ Silent(k) /\ ~Over(calls[k]) /\ calls[k].op = "restart"
      /\ calls[k].at = "connecting" /\ calls[k].conn # Locator
      /\ UNCHANGED <<home, ready, refs, registered, closed, exists>>
  BY FirstFacts DEF ConnectionRestarted, Awaits, users
<1>2. calls[k].conn = c /\ c \in Conns
  BY <1>1, ConnFacts DEF Orderly, Socks, ClosedInv, Declaring
<1>3. /\ e \in Call /\ e.at = "declaring" /\ e.op = calls[k].op
      /\ e.user = calls[k].user /\ e.todo = calls[k].todo
  BY AtFacts DEF Awaits
<1>4. Request(k, e, "declare", Only(c)) /\ "declare" \in Requests \ {"close"}
  BY DEF ConnectionRestarted, declareOnConnection, At, Requests
<1>5. c = home[e.user]
  BY <1>3
<1> HIDE DEF c, e
<1>6. \A d \in Conns \ {Locator} : Refuses(calls[k], d) => d = c
  BY <1>1, <1>2 DEF Refuses
<1> QED
  BY <1>1, <1>2, <1>3, <1>4, <1>5, <1>6, AskOneCloses

LEMMA RefusedCloses ==
  ASSUME Sound, Inv', NEW k \in DOMAIN calls, Refused(k)
  PROVE  Orderly' /\ Counted'
<1> USE DEF Sound, Inv
<1> DEFINE u == calls[k].user
<1>1. /\ FirstWoken(k) /\ Silent(k) /\ ~Over(calls[k]) /\ calls[k].op = "restart" /\ calls[k] \in Call
      /\ calls[k].at = "declaring"
      /\ UNCHANGED <<home, ready, refs, closed, exists>>
  BY FirstFacts DEF Refused, Awaits
<1>2. CASE /\ calls' = Forget(u, [calls EXCEPT ![k].at = "failed", ![k].wake = "no"])
           /\ UNCHANGED <<sock, queue>>
  <2> DEFINE r == [calls[k] EXCEPT !.at = "failed", !.wake = "no"]
  <2>1. calls' = Forget(u, [calls EXCEPT ![k] = r])
    <3>1. [calls EXCEPT ![k].at = "failed", ![k].wake = "no"] = [calls EXCEPT ![k] = r]
      BY DEF TypeOK
    <3> QED
      BY <1>2, <3>1
  <2>2. r \in Call /\ r.op = "restart" /\ r.user = u /\ r.at = "failed"
    BY <1>1 DEF Call, Awaits, Wakes
  <2> HIDE DEF r
  <2>3. /\ Others(k) /\ (\A j \in DOMAIN calls : j # k => SameAwait(calls[j], calls'[j]))
        /\ calls'[k].op = r.op /\ calls'[k].user = r.user /\ calls'[k].at = r.at
    BY <2>1, <2>2, ForgetFacts
  <2>4. DOMAIN calls' = DOMAIN calls
    BY <2>3, LenProperties DEF Others, TypeOK
  <2>5. ~Fresh'
    BY <2>2, <2>3, <2>4 DEF Fresh
  <2>6. \A j \in DOMAIN calls : j # k => Stays(calls[j], calls'[j])
    BY <2>3 DEF Stays, Others, Passive
  <2>7. Orderly'
    BY <1>1, <1>2, <2>2, <2>3, <2>4, <2>6, MoveOrdered
  <2> QED
    BY <2>5, <2>7 DEF Counted
<1>3. CASE Request(k, At(k, "refusing"), "end", Only(home[u])) /\ UNCHANGED registered
  <2> DEFINE c == home[u]
             e == At(k, "refusing")
  <2>1. c \in Conns
    BY <1>1, ConnFacts DEF ClosedInv, Declaring
  <2>2. /\ e \in Call /\ e.at = "refusing" /\ e.op = calls[k].op
        /\ e.user = calls[k].user /\ e.todo = calls[k].todo
    BY AtFacts DEF Awaits
  <2>3. Request(k, e, "end", Only(c)) /\ "end" \in Requests \ {"close"}
    BY <1>3 DEF Requests
  <2>4. c = home[e.user] /\ c = home[calls[k].user]
    BY <2>2
  <2> HIDE DEF c, e
  <2>5. \A d \in Conns \ {Locator} : Refuses(calls[k], d) => d = c
    BY <1>1, <2>4 DEF Refuses
  <2> QED
    BY <1>1, <1>3, <2>1, <2>2, <2>3, <2>4, <2>5, AskOneCloses
<1> QED
  BY <1>2, <1>3 DEF Refused

(* Once a close has begun to close, the counts are over.                   *)
LEMMA AskOfClose ==
  ASSUME Sound, Inv', NEW k \in DOMAIN calls, FirstWoken(k), Silent(k), calls[k].op = "close",
         NEW at \in {"publishers", "consumers", "locator"}, NEW req \in {"close", "end"},
         NEW n \in [Conns -> Nat], Request(k, At(k, at), req, n), UNCHANGED <<home, ready>>,
         req = "close" \/ n = Only(Locator)
  PROVE  Orderly' /\ Counted'
<1> USE DEF Sound, Inv
<1> DEFINE call == At(k, at)
<1>1. call \in Call /\ call.at = at /\ call.op = "close" /\ call.user = calls[k].user
  BY AtFacts DEF Awaits
<1>2. Request(k, call, req, n) /\ req \in Requests
  BY DEF Requests
<1> HIDE DEF call
<1>3. Due(call, req, n)
  BY <1>1, ConnFacts, OnlyFacts DEF Due
<1>4. Orderly'
  <2>1. at \notin {"begins", "connecting", "hung", "deleting", "unsubscribing"}
    OBVIOUS
  <2> QED
    BY <1>1, <1>2, <1>3, <2>1, AskOrdered
<1>5. /\ DOMAIN calls' = DOMAIN calls /\ calls'[k].op = "close" /\ calls'[k].at # "begins"
  BY <1>1, <1>2, RequestDoes
<1> QED
  BY <1>4, <1>5 DEF Counted, Fresh

LEMMA closeCloses ==
  ASSUME Sound, Inv', NEW k \in DOMAIN calls,
         closeAllPublishers(k) \/ closeAllConsumers(k) \/ CloseLocator(k) \/ Closed(k)
  PROVE  Orderly' /\ Counted'
<1> USE DEF Sound
<1>1. /\ FirstWoken(k) /\ Silent(k) /\ ~Over(calls[k]) /\ calls[k].op = "close"
      /\ calls[k].at \in {"begins", "publishers", "consumers", "locator"}
  <2>1. PICK at \in {"begins", "publishers", "consumers", "locator"} : Woken(k, {"close"}, at)
    BY DEF closeAllPublishers, closeAllConsumers, CloseLocator, Closed
  <2> QED
    BY <2>1, FirstFacts DEF Awaits
<1>2. \A us \in SUBSET Users : ReleaseCount(us) \in [Conns -> Nat]
  BY ReleaseFacts
<1>3. registered \subseteq Users
  BY DEF Inv, TypeOK
<1>4. CASE closeAllPublishers(k)
  <2> DEFINE n == ReleaseCount((registered \cap Publishers) \ closed)
  <2>1. n \in [Conns -> Nat]
    BY <1>2, <1>3
  <2>2. Request(k, At(k, "publishers"), "close", n) /\ UNCHANGED <<home, ready>>
    BY <1>4 DEF closeAllPublishers, Release, ReleaseCount
  <2> HIDE DEF n
  <2> QED
    BY <1>1, <2>1, <2>2, AskOfClose
<1>5. CASE closeAllConsumers(k)
  <2> DEFINE n == ReleaseCount(registered \cap Consumers)
  <2>1. n \in [Conns -> Nat]
    BY <1>2, <1>3
  <2>2. Request(k, At(k, "consumers"), "close", n) /\ UNCHANGED <<home, ready>>
    BY <1>5 DEF closeAllConsumers, ReleaseCount
  <2> HIDE DEF n
  <2> QED
    BY <1>1, <2>1, <2>2, AskOfClose
<1>6. CASE CloseLocator(k)
  <2> DEFINE n == Only(Locator)
  <2>1. n \in [Conns -> Nat]
    BY ConnFacts, OnlyFacts DEF Inv
  <2>2. Request(k, At(k, "locator"), "end", n) /\ UNCHANGED <<home, ready>>
    BY <1>6 DEF CloseLocator
  <2> QED
    BY <1>1, <2>1, <2>2, AskOfClose
<1>7. CASE Closed(k)
  <2>1. /\ \E at \in {"waiting", "done", "failed"} : End(k, at)
        /\ UNCHANGED <<home, sock, ready, queue, refs, registered, closed, exists>>
    BY <1>7 DEF Closed, users
  <2>2. \A c \in Conns \ {Locator} : ~Refuses(calls[k], c)
    BY <1>1 DEF Refuses
  <2> QED
    BY <1>1, <2>1, <2>2, EndCloses
<1> QED
  BY <1>4, <1>5, <1>6, <1>7

LEMMA ContinueCloses ==
  ASSUME Sound, Inv', NEW k \in DOMAIN calls, Continue(k)
  PROVE  Orderly' /\ Counted'
BY ReleasedCloses, CloseUserCloses, closeConsumerCloses, UnsubscribeCloses, closingCloses,
   deletePublisherCloses, DeletedCloses, ThrowsCloses, closeCloses, restartCloses,
   LocatorRestartedCloses, NextUserCloses, ConnectionRestartedCloses, RedeclaredCloses,
   LoopEndsCloses, RefusedCloses
   DEF Continue

(* Sockets and the broker: the waiting call w is woken, if it is a call.   *)
LEMMA WakeCloses ==
  ASSUME Sound, Inv', Quiet, NEW w, DOMAIN calls' = DOMAIN calls,
         UNCHANGED <<home, refs, registered, closed, exists>>,
         \A j \in DOMAIN calls :
           /\ calls'[j].op = calls[j].op /\ calls'[j].user = calls[j].user /\ calls'[j].conn = calls[j].conn
           /\ calls'[j].at = calls[j].at /\ calls'[j].todo \subseteq calls[j].todo
           /\ j # w => calls'[j].wake = calls[j].wake /\ Remains(j),
         w \in DOMAIN calls =>
           /\ calls[w].at \in {"connecting", "metadata", "unsubscribing", "deleting", "declaring"}
           /\ calls[w].at \in {"unsubscribing", "deleting"} /\ calls'[w].wake = "ok" =>
                sock'[home[calls[w].user]] = "open",
         \A c \in Conns : \A i \in DOMAIN queue'[c] : \E m \in DOMAIN queue[c] : queue[c][m] = queue'[c][i],
         \A c \in Conns :
           /\ sock'[c] = "open" => ready'[c]
           /\ sock'[c] = "opening" => sock[c] = "opening" /\ (w \in DOMAIN calls => ~Awaiting(calls[w], c))
           /\ sock'[c] \in Up =>
                /\ sock[c] \in Up /\ (Asks(c) => Asks(c)')
                /\ w \in DOMAIN calls /\ ~exists[c] /\ Refuses(calls[w], c) => Refuses(calls'[w], c)
  PROVE  Orderly' /\ Counted'
<1> USE DEF Sound, Inv
<1>1. \A j \in DOMAIN calls : ~Woke(calls[j])
  BY DEF Quiet, Woke
<1>2. Orderly'
  <2>1. \A j \in DOMAIN calls : j # w => Rests(j) /\ Remains(j)
    BY <1>1 DEF Rests
  <2>2. w \in DOMAIN calls => ActsInOrder(w)
    BY <1>1 DEF ActsInOrder, Orderly, Socks, Kind
  <2>3. \A c \in Conns : sock'[c] = "opening" =>
          \/ w \in DOMAIN calls /\ Awaiting(calls'[w], c)
          \/ sock[c] = "opening" /\ \A j \in DOMAIN calls : Awaiting(calls[j], c) => j # w /\ calls'[j].at # "hung"
    BY DEF Awaiting
  <2> QED
    BY <2>1, <2>2, <2>3, RestOrdered
<1>3. \A j \in DOMAIN calls :
         /\ Ages(calls[j], calls'[j])
         /\ calls'[j].at = "releasing" => calls[j].at = "releasing"
         /\ calls[j].at = "releasing" /\ Woke(calls[j]) => calls'[j].at = "releasing" /\ Woke(calls'[j])
         /\ calls'[j].todo \subseteq calls[j].todo \cup registered
  BY <1>1 DEF Ages
<1>4. ASSUME NEW c \in Conns \ {Locator}, sock'[c] \in Up PROVE StaysUp(c)
  <2>1. Refusing(c) => Refusing(c)'
    <3> SUFFICES ASSUME ~exists[c], NEW j \in DOMAIN calls, Refuses(calls[j], c)
                 PROVE  Refuses(calls[j], c)'
      BY DEF Refusing
    <3>1. CASE j = w
      <4>1. Refuses(calls'[w], c)
        BY <1>4, <3>1
      <4> QED
        BY <3>1, <4>1 DEF Refuses
    <3>2. CASE j # w
      BY <3>2 DEF Refuses
    <3> QED
      BY <3>1, <3>2
  <2> QED
    BY <1>4, <2>1 DEF StaysUp
<1> QED
  BY <1>2, <1>3, <1>4, CountedStays

LEMMA ConnectedCloses ==
  ASSUME Sound, Inv', NEW c \in Conns, Connected(c)
  PROVE  Orderly' /\ Counted'
<1> USE DEF Sound, Inv
<1>1. PICK k \in DOMAIN calls : calls[k].at = "connecting" /\ calls[k].conn = c /\ calls' = Wake(k, "ok")
  BY DEF Connected
<1>2. /\ Quiet /\ UNCHANGED <<home, queue, refs, registered, closed, exists>> /\ sock[c] = "opening"
      /\ \A d \in Conns : /\ sock'[d] = IF d = c THEN "open" ELSE sock[d]
                          /\ ready'[d] = IF d = c THEN TRUE ELSE ready[d]
  BY DEF Connected, users, TypeOK
<1>3. /\ DOMAIN calls' = DOMAIN calls
      /\ \A j \in DOMAIN calls : j # k => calls'[j] = calls[j]
      /\ calls'[k].at = calls[k].at /\ calls'[k].op = calls[k].op /\ calls'[k].user = calls[k].user
      /\ calls'[k].conn = calls[k].conn /\ calls'[k].todo = calls[k].todo
  BY <1>1, SocketWakes DEF Wakes
<1>4. \A j \in DOMAIN calls : Remains(j)
  BY <1>2 DEF Remains
<1>5. \A d \in Conns : sock'[d] = "open" => ready'[d]
  BY <1>2 DEF Orderly, Socks
<1>6. \A d \in Conns : sock'[d] = "opening" => sock[d] = "opening" /\ ~Awaiting(calls[k], d)
  BY <1>1, <1>2 DEF Awaiting
<1>7. \A d \in Conns : sock'[d] \in Up =>
        /\ sock[d] \in Up /\ (Asks(d) => Asks(d)')
        /\ Refuses(calls[k], d) => Refuses(calls'[k], d)
  BY <1>1, <1>2, <1>3 DEF Up, Asks, Refuses
<1> QED
  BY <1>1, <1>2, <1>3, <1>4, <1>5, <1>6, <1>7, WakeCloses

LEMMA ConnectFailsCloses ==
  ASSUME Sound, Inv', NEW c \in Conns, ConnectFails(c)
  PROVE  Orderly' /\ Counted'
<1> USE DEF Sound, Inv
<1>1. PICK k \in DOMAIN calls : calls[k].at = "connecting" /\ calls[k].conn = c /\ calls' = Upset(Wake(k, "error"))
  BY DEF ConnectFails
<1>2. /\ Quiet /\ UNCHANGED <<home, queue, refs, registered, closed, exists>>
      /\ \A d \in Conns : /\ sock'[d] = IF d = c THEN "down" ELSE sock[d]
                          /\ ready'[d] = IF d = c THEN FALSE ELSE ready[d]
  BY DEF ConnectFails, users, TypeOK
<1> DEFINE w == Wake(k, "error")
<1>3. /\ DOMAIN w = DOMAIN calls
      /\ \A j \in DOMAIN calls : w[j] \in Call /\ (j # k => w[j] = calls[j])
      /\ w[k].at = calls[k].at /\ w[k].op = calls[k].op /\ w[k].user = calls[k].user
      /\ w[k].conn = calls[k].conn /\ w[k].todo = calls[k].todo
  BY <1>1, SocketWakes DEF Wakes
<1>4. calls' = Upset(w)
  BY <1>1
<1> HIDE DEF w
<1>5. /\ DOMAIN calls' = DOMAIN calls
      /\ \A j \in DOMAIN calls : Passive(w[j], calls'[j]) /\ SameAwait(w[j], calls'[j])
  BY <1>3, <1>4, UpsetFacts
<1>6. \A j \in DOMAIN calls :
           /\ calls'[j].op = calls[j].op /\ calls'[j].user = calls[j].user /\ calls'[j].conn = calls[j].conn
           /\ calls'[j].at = calls[j].at /\ calls'[j].todo \subseteq calls[j].todo
           /\ j # k => calls'[j].wake = calls[j].wake
  <2> TAKE j \in DOMAIN calls
  <2>1. Passive(w[j], calls'[j]) /\ SameAwait(w[j], calls'[j])
    BY <1>5
  <2>2. CASE j = k
    BY <1>3, <2>1, <2>2 DEF Passive, SameAwait
  <2>3. CASE j # k
    BY <1>3, <2>1, <2>3 DEF Passive, SameAwait
  <2> QED
    BY <2>2, <2>3
<1>7. \A j \in DOMAIN calls : Remains(j)
  BY <1>2 DEF Remains
<1>8. \A d \in Conns : /\ sock'[d] = "open" => ready'[d]
                       /\ sock'[d] = "opening" => sock[d] = "opening" /\ ~Awaiting(calls[k], d)
  <2>1. \A d \in Conns : sock'[d] = "open" => ready'[d]
    BY <1>2 DEF Orderly, Socks
  <2>2. \A d \in Conns : sock'[d] = "opening" => sock[d] = "opening" /\ ~Awaiting(calls[k], d)
    BY <1>1, <1>2 DEF Awaiting
  <2> QED
    BY <2>1, <2>2
<1>9. \A d \in Conns : sock'[d] \in Up =>
        /\ sock[d] \in Up /\ (Asks(d) => Asks(d)')
        /\ Refuses(calls[k], d) => Refuses(calls'[k], d)
  BY <1>1, <1>2, <1>6 DEF Up, Asks, Refuses
<1> QED
  BY <1>1, <1>2, <1>5, <1>6, <1>7, <1>8, <1>9, WakeCloses

LEMMA SocketClosesCloses ==
  ASSUME Sound, Inv', NEW c \in Conns, SocketCloses(c)
  PROVE  Orderly' /\ Counted'
<1> USE DEF Sound, Inv
<1>1. /\ Quiet /\ UNCHANGED <<home, queue, refs, registered, closed, exists, calls>>
      /\ \A d \in Conns : /\ sock'[d] = IF d = c THEN "down" ELSE sock[d]
                          /\ ready'[d] = IF d = c THEN FALSE ELSE ready[d]
  BY DEF SocketCloses, users, TypeOK
<1>2. \A j \in DOMAIN calls : Remains(j)
  BY <1>1 DEF Remains
<1>3. \A d \in Conns : /\ sock'[d] = "open" => ready'[d]
                       /\ sock'[d] = "opening" => sock[d] = "opening"
  BY <1>1 DEF Orderly, Socks
<1>4. \A d \in Conns : sock'[d] \in Up => sock[d] \in Up /\ (Asks(d) => Asks(d)')
  BY <1>1 DEF Up, Asks
<1>5. 0 \notin DOMAIN calls
  <2>1. \A j \in DOMAIN calls : j \in 1 .. Len(calls) /\ Len(calls) \in Nat
    BY CallFacts, LenProperties DEF TypeOK
  <2> QED
    BY <2>1
<1> QED
  BY <1>1, <1>2, <1>3, <1>4, <1>5, WakeCloses

(* A connection is lost, and call w gets what it waited for, if it is one. *)
LEMMA LoseCloses ==
  ASSUME Sound, Inv', Quiet, NEW c \in Conns, NEW w, Loses(c, w),
         UNCHANGED <<ready, refs, registered, closed>>, sock' = [sock EXCEPT ![c] = "half"],
         w \in DOMAIN calls =>
           /\ ActsInOrder(w) /\ Ages(calls[w], calls'[w])
           /\ calls'[w].at = "releasing" => calls[w].at = "releasing"
           /\ calls'[w].todo \subseteq calls[w].todo
           /\ \A d \in Conns \ {c} : ~Awaiting(calls[w], d) /\ ~Refuses(calls[w], d)
  PROVE  Orderly' /\ Counted'
<1> USE DEF Sound, Inv
<1>1. /\ \A j \in DOMAIN calls : j # w =>
           /\ Rests(j) /\ Remains(j) /\ Ages(calls[j], calls'[j])
           /\ calls'[j].at = "releasing" => calls[j].at = "releasing"
           /\ \A d \in Conns \ {c} :
                /\ Awaiting(calls[j], d) => calls'[j].at # "hung"
                /\ Refuses(calls[j], d) => Refuses(calls[j], d)'
      /\ \A d \in Conns : \A i \in DOMAIN queue'[d] : \E m \in DOMAIN queue[d] : queue[d][m] = queue'[d][i]
      /\ \A d \in Conns \ {c} : queue'[d] = queue[d]
  BY LosesFacts
<1>2. DOMAIN calls' = DOMAIN calls /\ UNCHANGED <<home, exists>>
  BY DEF Loses
<1>3. \A d \in Conns : sock'[d] = IF d = c THEN "half" ELSE sock[d]
  BY DEF TypeOK
<1>4. Orderly'
  <2>1. \A d \in Conns : sock'[d] = "open" => ready'[d]
    BY <1>3 DEF Orderly, Socks
  <2>2. \A d \in Conns : sock'[d] = "opening" =>
          \/ w \in DOMAIN calls /\ Awaiting(calls'[w], d)
          \/ sock[d] = "opening" /\ \A j \in DOMAIN calls : Awaiting(calls[j], d) => j # w /\ calls'[j].at # "hung"
    BY <1>1, <1>3
  <2> QED
    BY <1>1, <1>2, <2>1, <2>2, RestOrdered
<1>5. \A j \in DOMAIN calls :
           /\ Ages(calls[j], calls'[j])
           /\ calls'[j].at = "releasing" => calls[j].at = "releasing"
           /\ calls[j].at = "releasing" /\ Woke(calls[j]) => calls'[j].at = "releasing" /\ Woke(calls'[j])
           /\ calls'[j].todo \subseteq calls[j].todo \cup registered
  <2>1. \A j \in DOMAIN calls : ~Woke(calls[j])
    BY DEF Quiet, Woke
  <2>2. \A j \in DOMAIN calls : calls'[j].todo \subseteq calls[j].todo
    BY DEF Loses
  <2> QED
    BY <1>1, <2>1, <2>2
<1>6. ASSUME NEW d \in Conns \ {Locator}, sock'[d] \in Up PROVE StaysUp(d)
  <2>1. d # c /\ sock[d] \in Up /\ queue'[d] = queue[d]
    BY <1>1, <1>3, <1>6 DEF Up
  <2>2. Refusing(d) => Refusing(d)'
    <3> SUFFICES ASSUME ~exists[d], NEW j \in DOMAIN calls, Refuses(calls[j], d)
                 PROVE  Refuses(calls[j], d)'
      BY <1>2 DEF Refusing
    <3> QED
      BY <1>1, <2>1
  <2> QED
    BY <2>1, <2>2 DEF StaysUp, Asks
<1> QED
  BY <1>2, <1>4, <1>5, <1>6, CountedStays

LEMMA DropDoes ==
  ASSUME Inv, NEW c \in Conns, Drop(c)
  PROVE  /\ Quiet /\ UNCHANGED <<ready, refs, registered, closed>> /\ sock' = [sock EXCEPT ![c] = "half"]
         /\ Loses(c, 0) /\ 0 \notin DOMAIN calls
<1> USE DEF Inv
<1> DEFINE a == Abandon(calls, c, queue[c])
<1>1. /\ Quiet /\ UNCHANGED <<home, ready, refs, registered, closed, exists>>
      /\ sock' = [sock EXCEPT ![c] = "half"] /\ queue' = [queue EXCEPT ![c] = <<>>] /\ calls' = Upset(a)
  BY DEF Drop, users
<1>2. /\ DOMAIN a = DOMAIN calls
      /\ \A j \in DOMAIN calls :
           /\ WaitsFor(j, c, queue[c]) => a[j] = [calls[j] EXCEPT !.at = "hung"]
           /\ ~WaitsFor(j, c, queue[c]) => a[j] = calls[j]
           /\ a[j] \in Call /\ Passive(calls[j], a[j])
  BY AbandonFacts
<1> HIDE DEF a
<1>3. /\ DOMAIN calls' = DOMAIN calls
      /\ \A j \in DOMAIN calls : Passive(a[j], calls'[j]) /\ SameAwait(a[j], calls'[j])
  BY <1>1, <1>2, UpsetFacts
<1>4. ASSUME NEW j \in DOMAIN calls
      PROVE  calls'[j].at = IF WaitsFor(j, c, queue[c]) THEN "hung" ELSE calls[j].at
  <2>1. calls'[j].at = a[j].at /\ calls[j] \in Call
    BY <1>3, CallFacts DEF SameAwait
  <2>2. CASE WaitsFor(j, c, queue[c])
    <3>1. a[j] = [calls[j] EXCEPT !.at = "hung"]
      BY <1>2, <2>2
    <3>2. a[j].at = "hung"
      BY <2>1, <3>1 DEF Call
    <3> QED
      BY <2>1, <2>2, <3>2
  <2>3. CASE ~WaitsFor(j, c, queue[c])
    BY <1>2, <2>1, <2>3
  <2> QED
    BY <2>2, <2>3
<1>5. Loses(c, 0)
  <2>1. ASSUME NEW j \in DOMAIN calls
        PROVE  /\ ~Woke(calls[j]) /\ calls'[j].op = calls[j].op /\ calls'[j].user = calls[j].user
               /\ calls'[j].conn = calls[j].conn /\ calls'[j].wake = calls[j].wake
               /\ calls'[j].todo \subseteq calls[j].todo
    <3>1. Passive(calls[j], a[j]) /\ Passive(a[j], calls'[j])
      BY <1>2, <1>3
    <3> QED
      BY <1>1, <3>1 DEF Passive, Quiet, Woke
  <2> QED
    BY <1>1, <1>3, <1>4, <2>1 DEF Loses
<1>6. 0 \notin DOMAIN calls
  <2>1. \A j \in DOMAIN calls : j \in 1 .. Len(calls) /\ Len(calls) \in Nat
    BY CallFacts, LenProperties DEF TypeOK
  <2> QED
    BY <2>1
<1> QED
  BY <1>1, <1>5, <1>6

LEMMA DropCloses ==
  ASSUME Sound, Inv', NEW c \in Conns, Drop(c)
  PROVE  Orderly' /\ Counted'
BY DropDoes, LoseCloses DEF Sound

LEMMA TailFacts ==
  ASSUME NEW S, NEW s \in Seq(S), s # <<>>
  PROVE  /\ 1 \in DOMAIN s /\ Head(s) = s[1]
         /\ \A i \in DOMAIN Tail(s) : \E m \in DOMAIN s : Tail(s)[i] = s[m]
         /\ \A m \in DOMAIN s : m = 1 \/ \E i \in DOMAIN Tail(s) : Tail(s)[i] = s[m]
<1> DEFINE t == Tail(s)
           n == Len(s)
<1>1. n \in Nat \ {0} /\ DOMAIN s = 1 .. n /\ Head(s) = s[1]
  BY EmptySeq, LenProperties, HeadTailProperties
<1>2. /\ DOMAIN t = 1 .. n - 1 /\ \A i \in 1 .. n - 1 : t[i] = s[i + 1]
  BY HeadTailProperties, LenProperties
<1> HIDE DEF t, n
<1>3. ASSUME NEW i \in DOMAIN t PROVE \E m \in DOMAIN s : t[i] = s[m]
  <2>1. i + 1 \in DOMAIN s /\ t[i] = s[i + 1]
    BY <1>1, <1>2
  <2> QED
    BY <2>1
<1>4. ASSUME NEW m \in DOMAIN s, m # 1 PROVE \E i \in DOMAIN t : t[i] = s[m]
  <2>1. m - 1 \in 1 .. n - 1 /\ m - 1 + 1 = m
    BY <1>1, <1>4
  <2>2. m - 1 \in DOMAIN t /\ t[m - 1] = s[m]
    BY <1>2, <2>1
  <2> QED
    BY <2>2
<1>5. 1 \in DOMAIN s /\ Head(s) = s[1]
  BY <1>1
<1> QED
  BY <1>3, <1>4, <1>5 DEF t

(* Call k, whose request for the end of connection c is answered.          *)
Answered(k, c) ==
  /\ Loses(c, k) /\ ActsInOrder(k) /\ Ages(calls[k], calls'[k])
  /\ calls[k].at \in {"hung", "releasing", "publishers", "consumers", "locator", "refusing"}
  /\ calls[k].op = "close" /\ calls[k].at = "locator" => c = Locator
  /\ calls'[k].at = calls[k].at \/ calls'[k].at = "hung"
  /\ calls'[k].todo \subseteq calls[k].todo
  /\ \A d \in Conns \ {c} : ~Awaiting(calls[k], d) /\ ~Refuses(calls[k], d)
LEMMA CloseAnsweredDoes ==
  ASSUME Sound, NEW c \in Conns, CloseAnswered(c)
  PROVE  /\ Quiet /\ UNCHANGED <<ready, refs, registered, closed>> /\ sock' = [sock EXCEPT ![c] = "half"]
         /\ \E k \in DOMAIN calls : Answered(k, c)
<1> USE DEF Sound, Inv
<1> DEFINE f == Head(queue[c])
           q == Tail(queue[c])
<1>1. queue[c] \in Seq(Entry) /\ queue[c] # <<>>
  BY DEF CloseAnswered, TypeOK
<1>2. /\ 1 \in DOMAIN queue[c] /\ f = queue[c][1]
      /\ \A i \in DOMAIN q : \E m \in DOMAIN queue[c] : q[i] = queue[c][m]
      /\ \A m \in DOMAIN queue[c] : m = 1 \/ \E i \in DOMAIN q : q[i] = queue[c][m]
  BY <1>1, TailFacts
<1> HIDE DEF f, q
<1>3. PICK k \in DOMAIN calls : k = f.by /\ Fits(f, c, calls[k]) /\ Place(f, c, calls[k])
  BY <1>2 DEF QueueInv, Orderly, Placed
<1> DEFINE left == Abandon(calls, c, q)
           more == \E d \in Conns \ {c} : WaitsFor(k, d, queue[d])
<1>4. /\ Quiet /\ UNCHANGED <<home, ready, refs, registered, closed, exists>>
      /\ queue' = [queue EXCEPT ![c] = <<>>] /\ sock' = [sock EXCEPT ![c] = "half"]
      /\ calls' = IF more \/ left[k].at = "hung" THEN left ELSE [left EXCEPT ![k].wake = "ok"]
      /\ f.req \in {"close", "end"}
  BY <1>3 DEF CloseAnswered, users, f, q
<1>5. calls[k].at \in {"hung", "releasing", "publishers", "consumers", "locator", "refusing"}
  BY <1>3, <1>4 DEF Fits, Suits
<1>6. /\ DOMAIN left = DOMAIN calls
      /\ \A j \in DOMAIN calls :
           /\ WaitsFor(j, c, q) => left[j] = [calls[j] EXCEPT !.at = "hung"]
           /\ ~WaitsFor(j, c, q) => left[j] = calls[j]
           /\ left[j] \in Call /\ Passive(calls[j], left[j])
  BY AbandonFacts
<1> HIDE DEF left
<1>7. ASSUME NEW j \in DOMAIN calls, WaitsFor(j, c, q) PROVE left[j].at = "hung"
  <2>1. left[j] = [calls[j] EXCEPT !.at = "hung"] /\ calls[j] \in Call
    BY <1>6, <1>7, CallFacts
  <2> QED
    BY <2>1 DEF Call
<1> DEFINE r == [left[k] EXCEPT !.wake = "ok"]
<1>8. /\ r.at = left[k].at /\ r.op = left[k].op /\ r.user = left[k].user /\ r.wake = "ok"
      /\ r.conn = left[k].conn /\ r.todo = left[k].todo
  <2>1. left[k] \in Call
    BY <1>3, <1>6
  <2> QED
    BY <2>1 DEF Call, Wakes
<1>9. [left EXCEPT ![k].wake = "ok"] = [left EXCEPT ![k] = r]
  BY <1>3, <1>6
<1> HIDE DEF r
<1>10. /\ DOMAIN calls' = DOMAIN calls
       /\ \A j \in DOMAIN calls : j # k => calls'[j] = left[j]
       /\ \/ calls'[k] = left[k] /\ (more \/ left[k].at = "hung")
          \/ calls'[k] = r /\ ~more /\ left[k].at # "hung"
  BY <1>3, <1>6, <1>9, <1>4
<1> HIDE DEF more
<1>11. /\ calls'[k].op = calls[k].op /\ calls'[k].user = calls[k].user /\ calls'[k].todo \subseteq calls[k].todo
       /\ calls'[k].at = calls[k].at \/ calls'[k].at = "hung"
  BY <1>3, <1>6, <1>8, <1>10 DEF Passive
<1>12. Loses(c, k)
  <2>1. ASSUME NEW j \in DOMAIN calls, j # k
        PROVE  calls'[j].at = IF WaitsFor(j, c, queue[c]) THEN "hung" ELSE calls[j].at
    <3>1. WaitsFor(j, c, queue[c]) <=> WaitsFor(j, c, q)
      BY <1>2, <1>3, <2>1 DEF WaitsFor
    <3> QED
      BY <1>6, <1>7, <1>10, <2>1, <3>1
  <2>2. ASSUME NEW j \in DOMAIN calls, j # k
        PROVE  /\ ~Woke(calls[j]) /\ calls'[j].op = calls[j].op /\ calls'[j].user = calls[j].user
               /\ calls'[j].conn = calls[j].conn /\ calls'[j].wake = calls[j].wake
               /\ calls'[j].todo \subseteq calls[j].todo
    BY <1>6, <1>10, <1>4, <2>2 DEF Passive, Quiet, Woke
  <2> QED
    BY <1>10, <1>4, <2>1, <2>2 DEF Loses
<1>13. queue'[c] = <<>> /\ \A d \in Conns \ {c} : queue'[d] = queue[d]
  BY <1>4 DEF TypeOK
<1>14. ActsInOrder(k)
  <2>1. ASSUME calls'[k].at = "releasing", ~Woke(calls'[k]) PROVE ~Silent(k)'
    <3>1. more
      BY <1>8, <1>10, <2>1 DEF Woke
    <3>2. PICK d \in Conns \ {c} : WaitsFor(k, d, queue[d])
      BY <3>1 DEF more
    <3>3. PICK i \in DOMAIN queue[d] : queue[d][i].by = k
      BY <1>5, <3>2 DEF WaitsFor
    <3>4. Conns' = Conns /\ queue'[d] = queue[d]
      BY <1>13, <1>4, HomeStays
    <3> QED
      BY <3>3, <3>4 DEF Silent
  <2>2. WaitsFor(k, c, queue[c])
    BY <1>2, <1>3 DEF WaitsFor
  <2>3. calls'[k].at = "hung" => Hangs(k)
    BY <1>13, <2>2 DEF Hangs
  <2> QED
    BY <1>5, <1>11, <2>1, <2>3 DEF ActsInOrder
<1>15. \A d \in Conns \ {c} : ~Awaiting(calls[k], d) /\ ~Refuses(calls[k], d)
  <2> SUFFICES ASSUME NEW d \in Conns \ {c}, Refuses(calls[k], d) PROVE FALSE
    BY <1>5 DEF Awaiting
  <2>1. calls[k].at = "refusing" /\ home[calls[k].user] = d /\ calls[k].op = "restart"
    BY <1>5 DEF Refuses
  <2> QED
    BY <1>3, <1>4, <2>1 DEF Place
<1>16. Ages(calls[k], calls'[k])
  BY <1>5, <1>11 DEF Ages
<1>17. calls[k].op = "close" /\ calls[k].at = "locator" => c = Locator
  BY <1>3, <1>4 DEF Fits, Suits, Place
<1> QED
  BY <1>4, <1>5, <1>11, <1>12, <1>14, <1>15, <1>16, <1>17 DEF Answered

LEMMA CloseAnsweredCloses ==
  ASSUME Sound, Inv', NEW c \in Conns, CloseAnswered(c)
  PROVE  Orderly' /\ Counted'
<1>1. /\ Quiet /\ UNCHANGED <<ready, refs, registered, closed>> /\ sock' = [sock EXCEPT ![c] = "half"]
      /\ \E k \in DOMAIN calls : Answered(k, c)
  BY CloseAnsweredDoes
<1>2. PICK k \in DOMAIN calls : Answered(k, c)
  BY <1>1
<1> QED
  BY <1>1, <1>2, LoseCloses DEF Answered

LEMMA BrokerAnswersCloses ==
  ASSUME Sound, Inv', NEW c \in Conns, BrokerAnswers(c)
  PROVE  Orderly' /\ Counted'
<1> USE DEF Sound, Inv
<1> DEFINE f == Head(queue[c])
           q == Tail(queue[c])
<1>1. queue[c] \in Seq(Entry) /\ queue[c] # <<>>
  BY DEF BrokerAnswers, TypeOK
<1>2. /\ 1 \in DOMAIN queue[c] /\ f = queue[c][1]
      /\ \A i \in DOMAIN q : \E m \in DOMAIN queue[c] : q[i] = queue[c][m]
      /\ \A m \in DOMAIN queue[c] : m = 1 \/ \E i \in DOMAIN q : q[i] = queue[c][m]
  BY <1>1, TailFacts
<1> HIDE DEF f, q
<1>3. f.req \in Requests \ {"close", "end"}
  <2>1. f.req \notin {"close", "end"}
    BY DEF BrokerAnswers, f
  <2>2. queue[c][1] \in Entry
    BY <1>1, <1>2, ElementOfSeq, LenProperties
  <2> QED
    BY <1>2, <2>1, <2>2 DEF Entry
<1>4. PICK k \in DOMAIN calls : k = f.by /\ Fits(f, c, calls[k])
  BY <1>2 DEF QueueInv
<1> DEFINE v == Verdict(f.req, calls[k].user, c)
<1>5. /\ Quiet /\ UNCHANGED <<home, sock, ready, refs, registered, closed, exists>>
      /\ queue' = [queue EXCEPT ![c] = q] /\ calls' = [calls EXCEPT ![k].wake = v] /\ sock[c] = "open"
  BY <1>4 DEF BrokerAnswers, users, Wake, f, q
<1>6. queue'[c] = q /\ \A d \in Conns \ {c} : queue'[d] = queue[d]
  BY <1>5 DEF TypeOK
<1>7. \/ f.req = "metadata" /\ calls[k].at = "metadata"
      \/ f.req = "unsubscribe" /\ calls[k].at = "unsubscribing"
      \/ f.req = "delete" /\ calls[k].at = "deleting"
      \/ f.req = "declare" /\ calls[k].at = "declaring" /\ c = home[calls[k].user]
  BY <1>3, <1>4 DEF Fits, Suits, Requests
<1>8. v = "ok" =>
        \/ f.req = "metadata"
        \/ f.req \in {"unsubscribe", "delete"} /\ calls[k].user \in known[c]
        \/ f.req = "declare" /\ exists[c]
  BY DEF Verdict
<1> HIDE DEF v
<1> DEFINE r == [calls[k] EXCEPT !.wake = v]
<1>9. /\ DOMAIN calls' = DOMAIN calls /\ calls'[k] = r
      /\ \A j \in DOMAIN calls : j # k => calls'[j] = calls[j]
  BY <1>5 DEF TypeOK
<1>10. /\ r.op = calls[k].op /\ r.user = calls[k].user /\ r.conn = calls[k].conn
       /\ r.at = calls[k].at /\ r.todo = calls[k].todo /\ r.wake = v
  BY CallFacts DEF Call
<1> HIDE DEF r
<1>11. \A j \in DOMAIN calls : j # k => Remains(j)
  <2> SUFFICES ASSUME NEW j \in DOMAIN calls, j # k, NEW d \in Conns, NEW i \in DOMAIN queue[d], queue[d][i].by = j
               PROVE  \E m \in DOMAIN queue'[d] : queue'[d][m] = queue[d][i]
    BY DEF Remains
  <2> QED
    BY <1>2, <1>4, <1>6
<1>12. calls[k].at \in {"unsubscribing", "deleting"} /\ calls'[k].wake = "ok" =>
         sock'[home[calls[k].user]] = "open"
  <2> SUFFICES ASSUME calls[k].at \in {"unsubscribing", "deleting"}, v = "ok"
               PROVE  sock[home[calls[k].user]] = "open"
    BY <1>5, <1>9, <1>10
  <2>1. calls[k].user \in known[c]
    BY <1>7, <1>8
  <2> QED
    BY <1>5, <2>1 DEF KnownInv, UsersOf
<1>13. \A d \in Conns : \A i \in DOMAIN queue'[d] : \E m \in DOMAIN queue[d] : queue[d][m] = queue'[d][i]
  BY <1>2, <1>6
<1>14. ASSUME NEW d \in Conns
       PROVE  /\ sock'[d] = sock[d] /\ (sock[d] = "open" => ready'[d])
              /\ ~Awaiting(calls[k], d) /\ (Asks(d) => Asks(d)')
              /\ ~exists[d] /\ Refuses(calls[k], d) => Refuses(calls'[k], d)
  <2>1. Asks(d) => Asks(d)'
    BY <1>2, <1>3, <1>6 DEF Asks
  <2>2. ASSUME ~exists[d], Refuses(calls[k], d) PROVE Refuses(calls'[k], d)
    <3>1. calls[k].at = "declaring" /\ home[calls[k].user] = d /\ calls[k].op = "restart"
      BY <1>7, <2>2 DEF Refuses
    <3>2. v # "ok"
      BY <1>7, <1>8, <2>2, <3>1
    <3> QED
      BY <1>9, <1>10, <3>1, <3>2 DEF Refuses
  <2> QED
    BY <1>5, <1>7, <2>1, <2>2 DEF Awaiting, Orderly, Socks
<1>15. \A j \in DOMAIN calls :
         /\ calls'[j].op = calls[j].op /\ calls'[j].user = calls[j].user /\ calls'[j].conn = calls[j].conn
         /\ calls'[j].at = calls[j].at /\ calls'[j].todo \subseteq calls[j].todo
         /\ j # k => calls'[j].wake = calls[j].wake
  BY <1>9, <1>10
<1>16. calls[k].at \in {"connecting", "metadata", "unsubscribing", "deleting", "declaring"}
  BY <1>7
<1>17. /\ k \in DOMAIN calls =>
            /\ calls[k].at \in {"connecting", "metadata", "unsubscribing", "deleting", "declaring"}
            /\ calls[k].at \in {"unsubscribing", "deleting"} /\ calls'[k].wake = "ok" =>
                 sock'[home[calls[k].user]] = "open"
       /\ \A d \in Conns :
            /\ sock'[d] = "open" => ready'[d]
            /\ sock'[d] = "opening" => sock[d] = "opening" /\ (k \in DOMAIN calls => ~Awaiting(calls[k], d))
            /\ sock'[d] \in Up =>
                 /\ sock[d] \in Up /\ (Asks(d) => Asks(d)')
                 /\ k \in DOMAIN calls /\ ~exists[d] /\ Refuses(calls[k], d) => Refuses(calls'[k], d)
  <2>1. \A d \in Conns : ready'[d] = ready[d]
    BY <1>5
  <2> QED
    BY <1>12, <1>14, <1>16, <2>1
<1>18. \A j \in DOMAIN calls :
         /\ calls'[j].op = calls[j].op /\ calls'[j].user = calls[j].user /\ calls'[j].conn = calls[j].conn
         /\ calls'[j].at = calls[j].at /\ calls'[j].todo \subseteq calls[j].todo
         /\ j # k => calls'[j].wake = calls[j].wake /\ Remains(j)
  BY <1>11, <1>15
<1> QED
  BY <1>5, <1>9, <1>13, <1>17, <1>18, WakeCloses

(* Calls begin: one of the application, or one for each user of a stream   *)
(* that has changed.                                                       *)
LEMMA BegunCloses ==
  ASSUME Sound, Inv', Quiet, UNCHANGED <<home, sock, ready, queue, refs, registered, closed>>,
         \A c \in Conns : ~exists[c] => ~exists'[c], DOMAIN calls \subseteq DOMAIN calls',
         \A j \in DOMAIN calls : SameAwait(calls[j], calls'[j]) /\ Passive(calls[j], calls'[j]),
         \A j \in DOMAIN calls' \ DOMAIN calls :
           Begins(calls'[j]) /\ Kind(calls'[j]) /\ Upright(calls'[j]),
         \A i, j \in DOMAIN calls' \ DOMAIN calls : i = j \/ calls'[i].op \in Batch
  PROVE  Orderly' /\ Counted'
<1> USE DEF Sound, Inv
<1>1. Conns' = Conns
  BY HomeStays
<1>2. ASSUME NEW j \in DOMAIN calls
      PROVE  /\ calls'[j].at = calls[j].at /\ calls'[j].wake = calls[j].wake
             /\ calls'[j].op = calls[j].op /\ calls'[j].user = calls[j].user
             /\ calls'[j].conn = calls[j].conn /\ calls'[j].todo \subseteq calls[j].todo
             /\ ~Woke(calls[j]) /\ ~Woke(calls'[j]) /\ j \in DOMAIN calls'
  BY DEF SameAwait, Passive, Quiet, Woke
<1>3. ASSUME NEW j \in DOMAIN calls' \ DOMAIN calls
      PROVE  calls'[j].at = "begins" /\ calls'[j].todo = {} /\ Woke(calls'[j])
  BY DEF Begins, Woke
<1>4. Socks'
  <2>1. ASSUME NEW c \in Conns, sock[c] = "opening" PROVE \E k \in DOMAIN calls' : Awaiting(calls'[k], c)
    <3>1. PICK k \in DOMAIN calls : Awaiting(calls[k], c)
      BY <2>1 DEF Orderly, Socks
    <3> QED
      BY <1>2, <3>1 DEF Awaiting
  <2>2. ASSUME NEW k \in DOMAIN calls', calls'[k].at = "connecting"
        PROVE  calls'[k].op = "restart" /\ (calls'[k].conn # Locator => calls'[k].conn = home[calls'[k].user])
    <3>1. k \in DOMAIN calls
      BY <1>3, <2>2
    <3> QED
      BY <1>2, <2>2, <3>1 DEF Orderly, Socks
  <2>3. \A c \in Conns : sock[c] = "open" => ready[c]
    BY DEF Orderly, Socks
  <2> QED
    BY <1>1, <2>1, <2>2, <2>3 DEF Socks
<1>5. InTurn'
  <2>1. ASSUME NEW k \in DOMAIN calls', calls'[k].at = "begins" PROVE Woke(calls'[k])
    <3>1. k \notin DOMAIN calls
      BY <1>2, <2>1 DEF Orderly, InTurn
    <3> QED
      BY <1>3, <3>1
  <2>2. ASSUME NEW j \in DOMAIN calls', NEW k \in DOMAIN calls', j < k, Woke(calls'[j]), Woke(calls'[k])
        PROVE  calls'[k].at = "begins" /\ calls'[j].op \in Batch
    <3>1. j \in DOMAIN calls' \ DOMAIN calls /\ k \in DOMAIN calls' \ DOMAIN calls
      BY <1>2, <2>2
    <3>2. \A i \in DOMAIN calls' : i \in Nat
      <4>1. calls' \in Seq(Call')
        BY DEF TypeOK
      <4> QED
        BY <4>1, LenProperties
    <3> QED
      BY <1>3, <2>2, <3>1, <3>2
  <2> QED
    BY <2>1, <2>2 DEF InTurn
<1>6. ASSUME NEW c \in Conns, NEW i \in DOMAIN queue[c]
      PROVE  Place(queue[c][i], c, calls[queue[c][i].by])'
  <2>1. PICK j \in DOMAIN calls : j = queue[c][i].by
    BY DEF QueueInv
  <2>2. Place(queue[c][i], c, calls[j])
    BY <2>1 DEF Orderly, Placed
  <2> QED
    BY <1>2, <2>1, <2>2 DEF Place
<1>7. Placed'
  BY <1>1, <1>6 DEF Placed
<1>8. Asked'
  <2> SUFFICES ASSUME NEW j \in DOMAIN calls', calls'[j].op \in Forgetful,
                      calls'[j].at = "releasing", ~Woke(calls'[j])
               PROVE  ~Silent(j)'
    BY DEF Asked
  <2>1. j \in DOMAIN calls /\ ~Silent(j)
    BY <1>2, <1>3 DEF Orderly, Asked
  <2> QED
    BY <1>1, <2>1 DEF Silent
<1>9. ASSUME NEW j \in DOMAIN calls' PROVE Upright(calls[j])' /\ Kind(calls[j])'
  <2>1. CASE j \in DOMAIN calls
    BY <1>2, <2>1 DEF Orderly, Upright, Kind
  <2>2. CASE j \notin DOMAIN calls
    BY <2>2 DEF Upright, Kind
  <2> QED
    BY <2>1, <2>2
<1>10. Orderly'
  BY <1>4, <1>5, <1>7, <1>8, <1>9 DEF Orderly
<1>11. \A j \in DOMAIN calls :
         /\ Ages(calls[j], calls'[j])
         /\ calls'[j].at = "releasing" => calls[j].at = "releasing"
         /\ calls[j].at = "releasing" /\ Woke(calls[j]) => calls'[j].at = "releasing" /\ Woke(calls'[j])
         /\ calls'[j].todo \subseteq calls[j].todo \cup registered
  BY <1>2 DEF Ages
<1>12. ASSUME NEW c \in Conns, sock'[c] \in Up PROVE StaysUp(c)
  <2>1. Refusing(c) => Refusing(c)'
    BY <1>2 DEF Refusing, Refuses
  <2> QED
    BY <1>12, <2>1 DEF StaysUp, Asks
<1>13. Counted'
  BY <1>3, <1>11, <1>12, CountedStays
<1> QED
  BY <1>10, <1>13

(* One call begins.                                                        *)
LEMMA StartCloses ==
  ASSUME Sound, Inv', NEW op \in Ops, NEW u \in Nat, op \in UserOps => u \in Users,
         op = "closeConsumer" => u \in Consumers, op = "deletePublisher" => u \in Publishers, Start(op, u)
  PROVE  Orderly' /\ Counted'
<1>1. /\ Quiet
      /\ UNCHANGED <<home, sock, ready, queue, known, refs, registered, closed, listening, exists>>
      /\ DOMAIN calls \subseteq DOMAIN calls'
      /\ \A j \in DOMAIN calls : SameAwait(calls[j], calls'[j]) /\ Passive(calls[j], calls'[j])
      /\ \A j \in DOMAIN calls' \ DOMAIN calls :
           Begins(calls'[j]) /\ calls'[j].op = op /\ calls'[j].user = u
      /\ \A i, j \in DOMAIN calls' \ DOMAIN calls : i = j
  BY StartDoes DEF Sound
<1>2. \A j \in DOMAIN calls' \ DOMAIN calls : Kind(calls'[j]) /\ Upright(calls'[j])
  BY <1>1 DEF Begins, Kind, Upright, Ops
<1> QED
  BY <1>1, <1>2, BegunCloses

(* Each user of a stream begins to close.                                  *)
LEMMA MetadataUpdateCloses ==
  ASSUME Sound, Inv', NEW c \in Conns, MetadataUpdate(c)
  PROVE  Orderly' /\ Counted'
<1>1. /\ Quiet /\ sock[c] = "open"
      /\ UNCHANGED <<home, sock, ready, queue, refs, registered, closed>>
      /\ \A d \in Conns : ~exists[d] => ~exists'[d]
      /\ DOMAIN calls \subseteq DOMAIN calls'
      /\ \A j \in DOMAIN calls : SameAwait(calls[j], calls'[j]) /\ Passive(calls[j], calls'[j])
      /\ \A j \in DOMAIN calls' \ DOMAIN calls :
           /\ Begins(calls'[j]) /\ calls'[j].user \in UsersOf(c)
           /\ calls'[j].op = IF calls'[j].user \in Consumers THEN "closeConsumer" ELSE "automaticClose"
  BY MetadataUpdateDoes DEF Sound
<1>2. ASSUME NEW j \in DOMAIN calls' \ DOMAIN calls
      PROVE  Kind(calls'[j]) /\ Upright(calls'[j]) /\ calls'[j].op \in Batch
  <2>1. calls'[j].at = "begins" /\ home[calls'[j].user] = c /\ calls'[j].user \in Users
    BY <1>1 DEF Begins, UsersOf
  <2> QED
    BY <1>1, <2>1 DEF Kind, Upright, Batch, Users
<1> QED
  BY <1>1, <1>2, BegunCloses

LEMMA InitSound == Init => Sound
<1> SUFFICES ASSUME Init PROVE Sound
  OBVIOUS
<1>1. Inv /\ DOMAIN calls = {}
  BY InitInv, EmptySeq DEF Init
<1>2. \A c \in Conns : sock[c] = "open" /\ ready[c] /\ refs[c] = Cardinality(UsersOf(c)) /\ DOMAIN queue[c] = {}
  BY EmptySeq DEF Init
<1>3. Orderly
  BY <1>1, <1>2 DEF Orderly, Socks, InTurn, Placed, Asked
<1>4. Listed
  BY <1>1 DEF Listed, Init
<1>5. ASSUME NEW c \in Conns PROVE Counts(c)
  <2>1. Able(c) = UsersOf(c)
    BY <1>1 DEF Able, Leaving, UsersOf, Init
  <2>2. Cardinality(UsersOf(c)) \in Int /\ refs[c] = Cardinality(UsersOf(c))
    BY <1>1, <1>2 DEF Inv, TypeOK
  <2>3. c # Locator => UsersOf(c) # {}
    BY DEF Conns, UsersOf
  <2> QED
    BY <2>1, <2>2, <2>3 DEF Counts
<1> QED
  BY <1>1, <1>3, <1>4, <1>5 DEF Sound, Counted

LEMMA StepSound == Sound /\ [Next]_vars => Sound'
<1> SUFFICES ASSUME Sound, [Next]_vars PROVE Orderly' /\ Counted'
  BY StepInv DEF Sound
<1>1. Inv'
  BY StepInv DEF Sound
<1>2. CASE Start("restart", 0) \/ Start("close", 0)
  <2>1. /\ "restart" \in Ops /\ "close" \in Ops /\ 0 \in Nat
        /\ "restart" \notin UserOps /\ "close" \notin UserOps
    BY DEF Ops, UserOps, Closers
  <2> QED
    BY <1>1, <1>2, <2>1, StartCloses
<1>3. CASE \/ \E u \in Consumers : Start("closeConsumer", u)
           \/ \E u \in Publishers : Start("deletePublisher", u)
           \/ \E u \in Users : Start("closeUser", u)
  <2>1. Users = Consumers \cup Publishers /\ \A u \in Users : u \in Nat
    BY ClientAssumption DEF Users
  <2>2. {"closeConsumer", "deletePublisher", "closeUser"} \subseteq Ops
    BY DEF Ops
  <2> QED
    BY <1>1, <1>3, <2>1, <2>2, StartCloses
<1>4. CASE \E k \in DOMAIN calls : Continue(k) \/ RestartLocator(k)
  BY <1>1, <1>4, ContinueCloses, RestartLocatorCloses
<1>5. CASE \E c \in Conns : Network(c) \/ ConnectFails(c) \/ Drop(c) \/ MetadataUpdate(c)
  BY <1>1, <1>5, ConnectedCloses, SocketClosesCloses, BrokerAnswersCloses, CloseAnsweredCloses,
     ConnectFailsCloses, DropCloses, MetadataUpdateCloses DEF Network
<1>6. CASE UNCHANGED vars
  <2>1. UNCHANGED <<home, sock, ready, queue, known, refs, registered, closed, listening, exists, calls>>
    BY <1>6 DEF vars, users
  <2>2. Conns' = Conns /\ \A c : UsersOf(c)' = UsersOf(c)
    BY <2>1 DEF Conns, UsersOf
  <2>3. Socks' /\ InTurn'
    BY <2>1, <2>2 DEF Sound, Orderly, Socks, InTurn
  <2>4. Placed' /\ Asked'
    BY <2>1, <2>2 DEF Sound, Orderly, Placed, Place, Asked, Silent
  <2>5. \A k \in DOMAIN calls : Upright(calls[k])' /\ Kind(calls[k])'
    BY <2>1 DEF Sound, Orderly, Upright, Kind
  <2>6. Orderly'
    BY <2>1, <2>3, <2>4, <2>5 DEF Orderly
  <2>7. /\ Fresh' = Fresh /\ \A c : Exempt(c)' = Exempt(c) /\ Able(c)' = Able(c)
        /\ \A c : Refusing(c)' = Refusing(c) /\ Asks(c)' = Asks(c)
    BY <2>1, <2>2 DEF Fresh, Exempt, Able, Leaving, Asks, Refusing, Refuses
  <2>8. Listed' = Listed
    BY <2>1, <2>7 DEF Listed
  <2>9. \A c : Counts(c)' = Counts(c)
    BY <2>1, <2>7 DEF Counts
  <2>10. Counted'
    BY <2>2, <2>7, <2>8, <2>9 DEF Sound, Counted
  <2> QED
    BY <2>6, <2>10
<1> QED
  BY <1>2, <1>3, <1>4, <1>5, <1>6 DEF Next

-----------------------------------------------------------------------------
(* A close that runs alone.                                                *)

(* Of users that give a connection back at once, the last is at the end of *)
(* the count.                                                              *)
LEMMA LastTurn ==
  ASSUME TypeOK, NEW us \in SUBSET Users, NEW c, us \cap UsersOf(c) # {}
  PROVE  \E u \in us \cap UsersOf(c) : Turn(u, us) >= Cardinality(us \cap UsersOf(c))
<1> DEFINE s == us \cap UsersOf(c)
           n == Cardinality(s)
           upTo(u) == {v \in us : home[v] = home[u] /\ v <= u}
<1>1. s \subseteq Nat /\ s \in SUBSET Users /\ s # {} /\ \A u \in s : upTo(u) = {v \in s : v <= u}
  BY ClientAssumption DEF UsersOf
<1>2. \A u : Turn(u, us) = Cardinality(upTo(u))
  BY DEF Turn
<1> HIDE DEF s, upTo
<1>3. /\ IsFiniteSet(s) /\ n \in Nat /\ n # 0
      /\ \A u \in s : IsFiniteSet(upTo(u)) /\ Cardinality(upTo(u)) \in Nat
  <2>1. \A u \in s : upTo(u) \in SUBSET Users
    BY <1>1
  <2> QED
    BY <1>1, <2>1, UsersFinite, FS_EmptySet
<1> SUFFICES ASSUME \A u \in s : Cardinality(upTo(u)) < n PROVE FALSE
  BY <1>2, <1>3 DEF s
<1>4. ASSUME NEW u \in s PROVE Cardinality(upTo(u)) \in 1 .. n - 1
  <2>1. upTo(u) # {}
    BY <1>1
  <2>2. Cardinality(upTo(u)) # 0
    BY <1>3, <2>1, FS_EmptySet
  <2> QED
    BY <1>3, <2>2
<1>5. ASSUME NEW u \in s, NEW v \in s, u < v PROVE Cardinality(upTo(u)) # Cardinality(upTo(v))
  <2>1. /\ \A w \in s : w <= u => w <= v
        /\ v <= v /\ ~(v <= u)
    <3>1. u \in Nat /\ v \in Nat /\ \A w \in s : w \in Nat
      BY <1>1
    <3> QED
      BY <1>5, <3>1
  <2>2. upTo(u) = {w \in s : w <= u} /\ upTo(v) = {w \in s : w <= v}
    BY <1>1
  <2>3. upTo(u) \in SUBSET upTo(v) /\ upTo(u) # upTo(v)
    BY <2>1, <2>2
  <2> QED
    BY <1>3, <2>3, FS_Subset
<1> DEFINE t == [u \in s |-> Cardinality(upTo(u))]
           m == n - 1
<1>6. t \in [s -> 1 .. m]
  BY <1>4
<1>7. IsFiniteSet(1 .. m) /\ Cardinality(1 .. m) < Cardinality(s)
  <2>1. 1 \in Int /\ m \in Int
    BY <1>3
  <2> HIDE DEF m
  <2>2. IsFiniteSet(1 .. m) /\ Cardinality(1 .. m) = IF 1 > m THEN 0 ELSE m - 1 + 1
    BY <2>1, FS_Interval
  <2> QED
    BY <1>3, <2>1, <2>2 DEF m
<1> HIDE DEF t, m, n
<1>8. PICK x \in s, y \in s : x # y /\ t[x] = t[y]
  BY <1>3, <1>6, <1>7, FS_PigeonHole
<1>9. x < y \/ y < x
  BY <1>1, <1>8
<1> QED
  BY <1>5, <1>8, <1>9 DEF t

(* So it asks for the end of a connection that is open.                    *)
LEMMA LastEnds ==
  ASSUME Sound, NEW us \in SUBSET Users, NEW c \in Conns, sock[c] = "open",
         us \cap UsersOf(c) # {}, refs[c] <= Cardinality(us \cap UsersOf(c))
  PROVE  ReleaseCount(us)[c] > 0
<1>1. PICK u \in us \cap UsersOf(c) : Turn(u, us) >= Cardinality(us \cap UsersOf(c))
  BY LastTurn DEF Sound, Inv
<1>2. home[u] = c /\ ready[c]
  BY <1>1 DEF UsersOf, Sound, Orderly, Socks
<1> DEFINE a == {v \in us : home[v] = home[u] /\ v <= u}
           b == us \cap UsersOf(c)
<1>3. Cardinality(a) \in Nat /\ Cardinality(b) \in Nat /\ refs[c] \in Int
  <2>1. a \in SUBSET Users /\ b \in SUBSET Users
    OBVIOUS
  <2> HIDE DEF a, b
  <2> QED
    BY <2>1, UsersFinite DEF Sound, Inv, TypeOK
<1>4. Turn(u, us) \in Nat /\ Cardinality(us \cap UsersOf(c)) \in Nat
  BY <1>3 DEF Turn
<1>5. EndsConnection(u, us)
  BY <1>1, <1>2, <1>3, <1>4 DEF EndsConnection
<1> QED
  BY <1>1, <1>5, ReleaseFacts DEF Sound

(* A close that everyone else's calls have come to an end before; what a   *)
(* step of the network, or one of its own, does to it.                     *)
Closing(k) ==
  /\ k \in DOMAIN calls /\ calls[k].op = "close"
  /\ \A j \in DOMAIN calls : j # k => Over(calls[j])
KeepsEnding(k) ==
  /\ \A j \in DOMAIN calls : Over(calls[j]) => calls'[j].at = calls[j].at
  /\ Clear(k) /\ EndsAll(k) /\ calls'[k].at # "failed" => EndsAll(k)'

LEMMA EndsStays ==
  ASSUME UNCHANGED <<home, refs, registered>>, NEW k, EndsAll(k), DOMAIN calls \subseteq DOMAIN calls',
         \A j \in DOMAIN calls :
           calls'[j].op = calls[j].op /\ (calls[j].op # "restart" => calls'[j].user = calls[j].user),
         calls'[k].at = calls[k].at \/ calls'[k].at = "hung",
         \A c \in Conns :
           /\ sock'[c] \in Up => sock'[c] = sock[c]
           /\ calls[k].at \in {"publishers", "consumers"} /\ sock'[c] = "open" /\ AsksFor(k, c) => AsksFor(k, c)'
           /\ Ends(k, c) /\ calls[k].at = "locator" /\ calls'[k].wake = "ok" /\ sock'[c] = "open" =>
                calls[k].wake = "ok"
  PROVE  EndsAll(k)'
<1>1. Conns' = Conns /\ \A c : Remaining(c)' = Remaining(c)
  BY HomeStays DEF Remaining, UsersOf
<1>2. ASSUME NEW c \in Conns, ~Exempt(c)' PROVE Ends(k, c)'
  <2>1. ~Exempt(c)
    BY <1>2, ExemptLasts
  <2>2. Ends(k, c)
    BY <2>1 DEF EndsAll
  <2>3. CASE calls'[k].at = "hung"
    BY <2>3 DEF Ends
  <2>4. CASE calls'[k].at = calls[k].at
    <3>1. sock'[c] = "open" => sock[c] = "open"
      BY DEF Up
    <3>2. calls'[k].at = "publishers" /\ c # Locator =>
            /\ refs'[c] <= Cardinality(Remaining(c)')
            /\ sock'[c] = "open" => Remaining(c)' # {} \/ AsksFor(k, c)'
      BY <1>1, <2>2, <2>4, <3>1 DEF Ends
    <3>3. calls'[k].at = "consumers" /\ c # Locator /\ sock'[c] = "open" => AsksFor(k, c)'
      BY <2>2, <2>4, <3>1 DEF Ends
    <3>4. calls'[k].at = "locator" /\ sock'[c] = "open" => c = Locator /\ calls'[k].wake # "ok"
      BY <2>2, <2>4, <3>1 DEF Ends
    <3>5. calls'[k].at = "done" => sock'[c] \notin Up
      BY <2>2, <2>4 DEF Ends
    <3> QED
      BY <3>2, <3>3, <3>4, <3>5 DEF Ends
  <2> QED
    BY <2>3, <2>4
<1> QED
  BY <1>1, <1>2 DEF EndsAll

(* Nobody else opens a connection, and the close that acts has no request. *)
LEMMA ClosingFacts ==
  ASSUME Sound, NEW k, Closing(k)
  PROVE  /\ \A c \in Conns : sock[c] # "opening"
         /\ \A j \in DOMAIN calls : calls[j].at \in {"done", "failed"} => Silent(j)
         /\ Silent(k) => \A c \in Conns : ~AsksFor(k, c)
<1> USE DEF Sound, Inv
<1>1. \A c \in Conns : sock[c] # "opening"
  BY DEF Orderly, Socks, Awaiting, Closing, Over
<1>2. \A j \in DOMAIN calls : calls[j].at \in {"done", "failed"} => Silent(j)
  BY IdleIsSilent
<1> QED
  BY <1>1, <1>2 DEF Silent, AsksFor

(* The close asks for something.                                           *)
LEMMA AskGoes ==
  ASSUME Sound, NEW k, Closing(k), FirstWoken(k), ~Over(calls[k]), home' = home,
         NEW at \in {"publishers", "consumers", "locator"}, NEW req \in {"close", "end"},
         NEW n \in [Conns -> Nat], Request(k, At(k, at), req, n)
  PROVE  /\ DOMAIN calls' = DOMAIN calls /\ calls'[k].at = at
         /\ \A j \in DOMAIN calls : Over(calls[j]) => calls'[j].at = calls[j].at
         /\ Conns' = Conns /\ \A c : Exempt(c) => Exempt(c)'
         /\ \A c \in Conns : sock'[c] = sock[c]
         /\ \A c \in Conns : n[c] > 0 /\ sock[c] = "open" => AsksFor(k, c)' /\ calls'[k].wake = "no"
<1> USE DEF Sound, Inv, Closing
<1> DEFINE call == At(k, at)
<1>1. call \in Call /\ call.at = at /\ call.op = "close" /\ call.user = calls[k].user
  BY AtFacts DEF Awaits
<1>2. Request(k, call, req, n) /\ req \in Requests
  BY DEF Requests
<1> HIDE DEF call
<1>3. /\ DOMAIN calls' = DOMAIN calls
      /\ \A c \in Conns : sock'[c] = IF n[c] > 0 /\ sock[c] = "opening" THEN "half" ELSE sock[c]
      /\ \A j \in DOMAIN calls : j # k =>
           \/ calls'[j] = calls[j]
           \/ \E c \in Conns : /\ sock[c] = "opening" /\ sock'[c] = "half"
                               /\ calls[j].at = "connecting" /\ calls[j].conn = c /\ calls'[j].at = "hung"
      /\ calls'[k].op = call.op /\ calls'[k].user = call.user
      /\ calls'[k].at = IF \E c \in Conns : n[c] > 0 /\ sock[c] = "opening" THEN "hung" ELSE call.at
      /\ calls'[k].wake = IF \E c \in Conns : n[c] > 0 /\ sock[c] \in Up THEN "no"
                          ELSE IF (\A c \in Conns : n[c] = 0) \/ req = "close" THEN "ok" ELSE "error"
  BY <1>1, <1>2, RequestDoes
<1>4. \A c \in Conns : sock[c] # "opening"
  BY ClosingFacts
<1>5. \A j \in DOMAIN calls : j # k => calls'[j] = calls[j]
  BY <1>3, <1>4
<1>6. calls'[k].at = at /\ \A c \in Conns : sock'[c] = sock[c]
  BY <1>1, <1>3, <1>4
<1>7. Conns' = Conns /\ \A c : Exempt(c) => Exempt(c)'
  BY <1>1, <1>3, <1>5, HomeStays, ExemptLasts
<1>8. ASSUME NEW c \in Conns, n[c] > 0, sock[c] = "open" PROVE AsksFor(k, c)' /\ calls'[k].wake = "no"
  <2>1. AsksFor(k, c)'
    BY <1>1, <1>2, <1>8, RequestArrives DEF AsksFor
  <2> QED
    BY <1>3, <1>8, <2>1 DEF Up
<1> QED
  BY <1>3, <1>5, <1>6, <1>7, <1>8

(* All publishers give their connections back: the consumers are left.     *)
LEMMA closeAllPublishersGoes ==
  ASSUME Sound, NEW k, Closing(k), closeAllPublishers(k)
  PROVE  KeepsEnding(k)
<1> USE DEF Sound, Inv
<1> DEFINE us == (registered \cap Publishers) \ closed
           n == ReleaseCount(us)
<1>1. /\ k \in DOMAIN calls /\ calls[k].op = "close"
      /\ FirstWoken(k) /\ Silent(k) /\ ~Over(calls[k]) /\ calls[k].at = "begins"
  <2>1. k \in DOMAIN calls /\ Woken(k, {"close"}, "begins") /\ "begins" \in Awaits \ {"done", "failed", "hung"}
    BY DEF Closing, closeAllPublishers, Awaits
  <2> QED
    BY <2>1, FirstFacts
<1>2. us \in SUBSET Users /\ n \in [Conns -> Nat]
  BY ReleaseFacts DEF TypeOK
<1>3. /\ Request(k, At(k, "publishers"), "close", n) /\ UNCHANGED <<home, registered>>
      /\ refs' = [c \in Conns |-> refs[c] - Cardinality(us \cap UsersOf(c))]
  BY DEF closeAllPublishers, Release, ReleaseCount
<1> HIDE DEF us, n
<1>4. /\ calls'[k].at = "publishers"
      /\ \A j \in DOMAIN calls : Over(calls[j]) => calls'[j].at = calls[j].at
      /\ Conns' = Conns /\ \A c : Exempt(c) => Exempt(c)'
      /\ \A c \in Conns : sock'[c] = sock[c]
      /\ \A c \in Conns : n[c] > 0 /\ sock[c] = "open" => AsksFor(k, c)'
  BY <1>1, <1>2, <1>3, AskGoes
<1>5. ASSUME Clear(k), NEW c \in Conns, c # Locator, ~Exempt(c)
      PROVE  /\ refs'[c] <= Cardinality(Remaining(c)')
             /\ sock'[c] = "open" => Remaining(c)' # {} \/ AsksFor(k, c)'
  <2> DEFINE b == us \cap UsersOf(c)
  <2>1. Fresh
    BY <1>1, <1>5 DEF Clear, Fresh
  <2>2. refs[c] <= Cardinality(Able(c)) /\ (sock[c] \in Up => Able(c) # {} \/ Asks(c) \/ Refusing(c))
    BY <1>5, <2>1 DEF Counted, Counts
  <2>3. \A j \in DOMAIN calls : calls[j].at = "begins" \/ Over(calls[j])
    BY <1>1 DEF Closing
  <2>4. /\ Able(c) = b \cup Remaining(c) /\ b \cap Remaining(c) = {}
        /\ b \in SUBSET Users /\ Remaining(c) \in SUBSET Users
    <3>1. \A u : ~Leaving(u)
      BY <2>3 DEF Leaving, Leaves, Over
    <3> QED
      BY <1>2, <3>1, ClientAssumption DEF Able, Remaining, us, TypeOK, Users
  <2>5. ~Refusing(c)
    BY <2>3 DEF Refusing, Refuses, Over
  <2>6. ~Asks(c)
    <3> SUFFICES ASSUME NEW i \in DOMAIN queue[c], queue[c][i].req = "close" PROVE FALSE
      BY DEF Asks
    <3>1. PICK j \in DOMAIN calls : j = queue[c][i].by
      BY DEF QueueInv
    <3>2. j # k
      BY <1>1, <3>1 DEF Silent
    <3>3. Fits(queue[c][i], c, calls[j]) /\ Place(queue[c][i], c, calls[j])
      BY <3>1 DEF QueueInv, Orderly, Placed
    <3>4. calls[j].op # "close" /\ Over(calls[j])
      BY <1>5, <3>2 DEF Clear, Closing
    <3> QED
      BY <3>3, <3>4 DEF Fits, Suits, Place, Over
  <2>7. Remaining(c)' = Remaining(c)
    BY <1>3 DEF Remaining, UsersOf
  <2>8. refs'[c] = refs[c] - Cardinality(b) /\ refs[c] \in Int
    BY <1>3 DEF TypeOK
  <2>9. /\ IsFiniteSet(b) /\ Cardinality(b) \in Nat
        /\ IsFiniteSet(Remaining(c)) /\ Cardinality(Remaining(c)) \in Nat
    BY <2>4, UsersFinite
  <2> HIDE DEF b
  <2>10. Cardinality(Able(c)) = Cardinality(b) + Cardinality(Remaining(c))
    BY <2>4, <2>9, FS_Union, FS_EmptySet, SMTT(30)
  <2>11. refs'[c] <= Cardinality(Remaining(c)')
    BY <2>2, <2>7, <2>8, <2>9, <2>10
  <2>12. ASSUME sock'[c] = "open", Remaining(c)' = {} PROVE AsksFor(k, c)'
    <3>1. sock[c] = "open" /\ Able(c) = b
      BY <1>4, <2>4, <2>7, <2>12
    <3>2. b # {} /\ refs[c] <= Cardinality(b)
      BY <2>2, <2>5, <2>6, <3>1 DEF Up
    <3>3. n[c] > 0
      BY <1>2, <3>1, <3>2, LastEnds DEF b, n
    <3> QED
      BY <1>4, <3>1, <3>3
  <2> QED
    BY <2>11, <2>12
<1>6. ASSUME Clear(k) PROVE EndsAll(k)'
  BY <1>4, <1>5, <1>6 DEF EndsAll, Ends
<1> QED
  BY <1>4, <1>6 DEF KeepsEnding

(* All consumers: each connection still open is about to end.              *)
LEMMA closeAllConsumersGoes ==
  ASSUME Sound, NEW k, Closing(k), closeAllConsumers(k)
  PROVE  KeepsEnding(k)
<1> USE DEF Sound, Inv
<1> DEFINE us == registered \cap Consumers
           n == ReleaseCount(us)
<1>1. /\ k \in DOMAIN calls /\ calls[k].op = "close"
      /\ FirstWoken(k) /\ Silent(k) /\ ~Over(calls[k]) /\ calls[k].at = "publishers"
  <2>1. k \in DOMAIN calls /\ Woken(k, {"close"}, "publishers") /\ "publishers" \in Awaits \ {"done", "failed", "hung"}
    BY DEF Closing, closeAllConsumers, Awaits
  <2> QED
    BY <2>1, FirstFacts
<1>2. us \in SUBSET Users /\ n \in [Conns -> Nat]
  BY ReleaseFacts DEF TypeOK
<1>3. Request(k, At(k, "consumers"), "close", n) /\ home' = home
  BY DEF closeAllConsumers, ReleaseCount
<1> HIDE DEF us, n
<1>4. /\ calls'[k].at = "consumers"
      /\ \A j \in DOMAIN calls : Over(calls[j]) => calls'[j].at = calls[j].at
      /\ Conns' = Conns /\ \A c : Exempt(c) => Exempt(c)'
      /\ \A c \in Conns : sock'[c] = sock[c]
      /\ \A c \in Conns : n[c] > 0 /\ sock[c] = "open" => AsksFor(k, c)'
  BY <1>1, <1>2, <1>3, AskGoes
<1>5. ASSUME EndsAll(k), NEW c \in Conns, c # Locator, ~Exempt(c), sock[c] = "open" PROVE AsksFor(k, c)'
  <2>1. us \cap UsersOf(c) = Remaining(c)
    BY DEF us, Remaining
  <2>2. Remaining(c) # {} /\ refs[c] <= Cardinality(Remaining(c))
    BY <1>1, <1>5, ClosingFacts DEF EndsAll, Ends
  <2>3. n[c] > 0
    BY <1>2, <1>5, <2>1, <2>2, LastEnds DEF n
  <2> QED
    BY <1>4, <1>5, <2>3
<1>6. ASSUME EndsAll(k) PROVE EndsAll(k)'
  BY <1>4, <1>5, <1>6 DEF EndsAll, Ends
<1> QED
  BY <1>4, <1>6 DEF KeepsEnding

LEMMA CloseLocatorGoes ==
  ASSUME Sound, NEW k, Closing(k), CloseLocator(k)
  PROVE  KeepsEnding(k)
<1> USE DEF Sound, Inv
<1> DEFINE n == Only(Locator)
<1>1. /\ k \in DOMAIN calls /\ calls[k].op = "close"
      /\ FirstWoken(k) /\ Silent(k) /\ ~Over(calls[k]) /\ calls[k].at = "consumers"
  <2>1. k \in DOMAIN calls /\ Woken(k, {"close"}, "consumers") /\ "consumers" \in Awaits \ {"done", "failed", "hung"}
    BY DEF Closing, CloseLocator, Awaits
  <2> QED
    BY <2>1, FirstFacts
<1>2. n \in [Conns -> Nat] /\ n[Locator] > 0 /\ Locator \in Conns
  BY ConnFacts, OnlyFacts
<1>3. Request(k, At(k, "locator"), "end", n) /\ home' = home
  BY DEF CloseLocator
<1> HIDE DEF n
<1>4. /\ calls'[k].at = "locator"
      /\ \A j \in DOMAIN calls : Over(calls[j]) => calls'[j].at = calls[j].at
      /\ Conns' = Conns /\ \A c : Exempt(c) => Exempt(c)'
      /\ \A c \in Conns : sock'[c] = sock[c]
      /\ \A c \in Conns : n[c] > 0 /\ sock[c] = "open" => calls'[k].wake = "no"
  BY <1>1, <1>2, <1>3, AskGoes
<1>5. ASSUME EndsAll(k), NEW c \in Conns, ~Exempt(c), sock[c] = "open" PROVE c = Locator /\ calls'[k].wake # "ok"
  <2>1. c = Locator
    BY <1>1, <1>5, ClosingFacts DEF EndsAll, Ends
  <2> QED
    BY <1>2, <1>4, <1>5, <2>1
<1>6. ASSUME EndsAll(k) PROVE EndsAll(k)'
  BY <1>4, <1>5, <1>6 DEF EndsAll, Ends
<1> QED
  BY <1>4, <1>6 DEF KeepsEnding

(* The close returns, or a call throws.                                    *)
LEMMA EndGoes ==
  ASSUME Sound, NEW k, Closing(k), Closed(k) \/ Throws(k)
  PROVE  KeepsEnding(k)
<1> USE DEF Sound, Inv
<1>1. k \in DOMAIN calls /\ calls[k].op = "close" /\ calls[k] \in Call
  BY CallFacts DEF Closing
<1>2. /\ End(k, "failed") \/ (End(k, "done") /\ calls[k].at = "locator" /\ calls[k].wake = "ok")
      /\ UNCHANGED <<home, sock>> /\ ~Over(calls[k])
  BY <1>1 DEF Closed, Throws, Woken, Over
<1>3. /\ DOMAIN calls' = DOMAIN calls /\ \A j \in DOMAIN calls : j # k => calls'[j] = calls[j]
      /\ calls'[k].op = calls[k].op /\ calls'[k].user = calls[k].user
      /\ calls'[k].at = "failed" \/ (calls'[k].at = "done" /\ calls[k].at = "locator" /\ calls[k].wake = "ok")
  BY <1>1, <1>2 DEF End, Call, TypeOK
<1>4. Conns' = Conns /\ \A c : Exempt(c) => Exempt(c)'
  BY <1>2, <1>3, HomeStays, ExemptLasts
<1>5. ASSUME EndsAll(k), calls'[k].at = "done", NEW c \in Conns, ~Exempt(c) PROVE sock'[c] \notin Up
  BY <1>2, <1>3, <1>5, ClosingFacts DEF EndsAll, Ends, Up
<1>6. ASSUME EndsAll(k), calls'[k].at # "failed" PROVE EndsAll(k)'
  BY <1>3, <1>4, <1>5, <1>6 DEF EndsAll, Ends
<1> QED
  BY <1>2, <1>3, <1>6 DEF KeepsEnding

(* Sockets end, and the broker answers.                                    *)
LEMMA LoseGoes ==
  ASSUME Sound, NEW k, Closing(k), NEW c \in Conns, NEW w, Loses(c, w), Quiet,
         UNCHANGED <<refs, registered>>, sock' = [sock EXCEPT ![c] = "half"],
         w \in DOMAIN calls => Answered(w, c)
  PROVE  KeepsEnding(k)
<1> USE DEF Sound, Inv
<1>1. k \in DOMAIN calls /\ calls[k].op = "close" /\ \A j \in DOMAIN calls : j # k => Over(calls[j])
  BY DEF Closing
<1>2. /\ DOMAIN calls' = DOMAIN calls /\ home' = home
      /\ \A j \in DOMAIN calls : j # w =>
           /\ calls'[j].op = calls[j].op /\ calls'[j].user = calls[j].user /\ calls'[j].wake = calls[j].wake
           /\ calls'[j].at = IF WaitsFor(j, c, queue[c]) THEN "hung" ELSE calls[j].at
  BY DEF Loses
<1>3. \A d \in Conns \ {c} : queue'[d] = queue[d]
  BY LosesFacts
<1>4. \A d \in Conns : sock'[d] = IF d = c THEN "half" ELSE sock[d]
  BY DEF TypeOK
<1>5. ASSUME NEW j \in DOMAIN calls, Over(calls[j]) PROVE calls'[j].at = calls[j].at
  <2>1. CASE j = w
    BY <1>5, <2>1 DEF Answered, Over
  <2>2. CASE j # w /\ calls[j].at = "hung"
    BY <1>2, <2>2
  <2>3. CASE j # w /\ calls[j].at \in {"done", "failed"}
    <3>1. Silent(j)
      BY <2>3, ClosingFacts
    <3>2. ~WaitsFor(j, c, queue[c])
      BY <2>3, <3>1 DEF WaitsFor, Silent
    <3> QED
      BY <1>2, <2>3, <3>2
  <2> QED
    BY <1>5, <2>1, <2>2, <2>3 DEF Over
<1>6. \A j \in DOMAIN calls :
        calls'[j].op = calls[j].op /\ (calls[j].op # "restart" => calls'[j].user = calls[j].user)
  BY <1>2 DEF Answered, Ages
<1>7. calls'[k].at = calls[k].at \/ calls'[k].at = "hung"
  BY <1>1, <1>2 DEF Answered
<1>8. ASSUME NEW d \in Conns
      PROVE  /\ sock'[d] \in Up => sock'[d] = sock[d]
             /\ sock'[d] = "open" /\ AsksFor(k, d) => AsksFor(k, d)'
             /\ Ends(k, d) /\ calls[k].at = "locator" /\ calls'[k].wake = "ok" /\ sock'[d] = "open" =>
                  calls[k].wake = "ok"
  <2>1. CASE d = c
    BY <1>4, <2>1 DEF Up
  <2>2. CASE d # c
    <3>1. sock'[d] = sock[d] /\ queue'[d] = queue[d]
      BY <1>3, <1>4, <2>2
    <3>2. Ends(k, d) /\ calls[k].at = "locator" /\ sock[d] = "open" => k # w
      BY <1>1, <2>2 DEF Answered, Ends
    <3> QED
      BY <1>1, <1>2, <3>1, <3>2 DEF AsksFor
  <2> QED
    BY <2>1, <2>2
<1>9. EndsAll(k) => EndsAll(k)'
  BY <1>2, <1>6, <1>7, <1>8, EndsStays
<1> QED
  BY <1>5, <1>9 DEF KeepsEnding

LEMMA NetworkGoes ==
  ASSUME Sound, NEW k, Closing(k), NEW c \in Conns, Network(c) \/ ConnectFails(c) \/ Drop(c)
  PROVE  KeepsEnding(k)
<1> USE DEF Sound, Inv
<1>1. /\ sock[c] # "opening" /\ k \in DOMAIN calls /\ calls[k].op = "close"
  BY ClosingFacts DEF Closing
<1>2. CASE Connected(c) \/ ConnectFails(c)
  BY <1>1, <1>2 DEF Connected, ConnectFails
<1>3. CASE SocketCloses(c)
  <2>1. /\ UNCHANGED <<home, refs, registered, calls, queue>> /\ \A d \in Conns : sock'[d] \in Up => sock'[d] = sock[d]
    BY <1>3 DEF SocketCloses, users, TypeOK, Up
  <2>2. EndsAll(k) => EndsAll(k)'
    BY <2>1, EndsStays DEF AsksFor
  <2> QED
    BY <2>1, <2>2 DEF KeepsEnding
<1>4. CASE BrokerAnswers(c)
  <2> DEFINE f == Head(queue[c])
             q == Tail(queue[c])
  <2>1. queue[c] \in Seq(Entry) /\ queue[c] # <<>>
    BY <1>4 DEF BrokerAnswers, TypeOK
  <2>2. /\ 1 \in DOMAIN queue[c] /\ f = queue[c][1]
        /\ \A m \in DOMAIN queue[c] : m = 1 \/ \E i \in DOMAIN q : q[i] = queue[c][m]
    BY <2>1, TailFacts
  <2> HIDE DEF f, q
  <2>3. PICK j \in DOMAIN calls : j = f.by /\ Fits(f, c, calls[j])
    BY <2>2 DEF QueueInv
  <2>4. /\ UNCHANGED <<home, sock, refs, registered>> /\ f.req \notin {"close", "end"}
        /\ queue' = [queue EXCEPT ![c] = q] /\ \E v \in Wakes : calls' = [calls EXCEPT ![j].wake = v]
    BY <1>4, <2>3 DEF BrokerAnswers, users, Wake, Verdict, Wakes, f, q
  <2>5. f.req \in Requests
    <3>1. queue[c][1] \in Entry
      BY <2>1, <2>2, ElementOfSeq, LenProperties
    <3> QED
      BY <2>2, <3>1 DEF Entry
  <2>6. /\ calls[j].at \in {"metadata", "unsubscribing", "deleting", "declaring"}
    BY <2>3, <2>4, <2>5 DEF Fits, Suits, Requests
  <2>7. \A i \in DOMAIN calls :
          /\ calls'[i].at = calls[i].at /\ calls'[i].op = calls[i].op /\ calls'[i].user = calls[i].user
          /\ i # j => calls'[i] = calls[i]
    BY <2>4, CallFacts DEF Call
  <2>8. DOMAIN calls' = DOMAIN calls
    BY <2>4 DEF TypeOK
  <2>9. ASSUME NEW d \in Conns, calls[k].at \in {"publishers", "consumers"}, AsksFor(k, d)
        PROVE  AsksFor(k, d)'
    <3>1. j # k
      BY <2>6, <2>9
    <3>2. queue'[d] = IF d = c THEN q ELSE queue[d]
      BY <2>4 DEF TypeOK
    <3> QED
      BY <2>2, <2>3, <2>9, <3>1, <3>2 DEF AsksFor
  <2>10. calls[k].at = "locator" => calls'[k].wake = calls[k].wake
    BY <1>1, <2>6, <2>7
  <2>11. EndsAll(k) => EndsAll(k)'
    BY <1>1, <2>4, <2>7, <2>8, <2>9, <2>10, EndsStays
  <2> QED
    BY <2>7, <2>11 DEF KeepsEnding
<1>5. CASE CloseAnswered(c)
  <2>1. /\ Quiet /\ UNCHANGED <<ready, refs, registered, closed>> /\ sock' = [sock EXCEPT ![c] = "half"]
        /\ \E w \in DOMAIN calls : Answered(w, c)
    BY <1>5, CloseAnsweredDoes
  <2> QED
    BY <2>1, LoseGoes DEF Answered
<1>6. CASE Drop(c)
  BY <1>6, DropDoes, LoseGoes
<1> QED
  BY <1>2, <1>3, <1>4, <1>5, <1>6 DEF Network

(* Of the calls, only the close itself takes a step.                       *)
LEMMA ContinueGoes ==
  ASSUME Sound, NEW k, Closing(k), NEW j \in DOMAIN calls, Continue(j) \/ RestartLocator(j)
  PROVE  KeepsEnding(k)
<1> USE DEF Sound, Inv
<1>1. ~Over(calls[j])
  BY DEF Continue, Released, CloseUser, closeConsumer, Unsubscribe, closing, deletePublisher, Deleted, Throws,
     closeAllPublishers, closeAllConsumers, CloseLocator, Closed, restart, LocatorRestarted, NextUser,
     ConnectionRestarted, Redeclared, LoopEnds, Refused, RestartThrows, RestartLocator, Woken, Over
<1>2. j = k /\ calls[j].op = "close"
  BY <1>1 DEF Closing
<1>3. calls[j].at # "releasing"
  BY <1>2 DEF ClosedInv, UserOps, Closers
<1>4. closeAllPublishers(k) \/ closeAllConsumers(k) \/ CloseLocator(k) \/ Closed(k) \/ Throws(k)
  BY <1>2, <1>3 DEF Continue, Released, CloseUser, closeConsumer, Unsubscribe, closing, deletePublisher, Deleted,
     restart, LocatorRestarted, NextUser, ConnectionRestarted, Redeclared, LoopEnds, Refused, RestartThrows,
     RestartLocator, Woken
<1> QED
  BY <1>4, closeAllPublishersGoes, closeAllConsumersGoes, CloseLocatorGoes, EndGoes

(* Calls that begin beside it leave it as it is.                           *)
LEMMA BegunGoes ==
  ASSUME Sound, NEW k, Closing(k), UNCHANGED <<home, sock, queue, refs, registered>>,
         DOMAIN calls \subseteq DOMAIN calls', \A j \in DOMAIN calls : SameAwait(calls[j], calls'[j])
  PROVE  KeepsEnding(k)
<1>1. EndsAll(k) => EndsAll(k)'
  BY EndsStays DEF SameAwait, Closing, AsksFor
<1> QED
  BY <1>1 DEF KeepsEnding, SameAwait

LEMMA StepGoes ==
  ASSUME Sound, [Next]_vars, NEW k, Closing(k)
  PROVE  KeepsEnding(k)
<1> USE DEF Sound
<1>1. CASE Start("restart", 0) \/ Start("close", 0)
  <2>1. /\ "restart" \in Ops /\ "close" \in Ops /\ 0 \in Nat
        /\ "restart" \notin UserOps /\ "close" \notin UserOps
    BY DEF Ops, UserOps, Closers
  <2> QED
    BY <1>1, <2>1, StartDoes, BegunGoes
<1>2. CASE \E u \in Users : \E op \in {"closeConsumer", "deletePublisher", "closeUser"} : Start(op, u)
  <2>1. \A u \in Users : u \in Nat
    BY ClientAssumption
  <2>2. {"closeConsumer", "deletePublisher", "closeUser"} \subseteq Ops
    BY DEF Ops
  <2> QED
    BY <1>2, <2>1, <2>2, StartDoes, BegunGoes
<1>3. CASE \E j \in DOMAIN calls : Continue(j) \/ RestartLocator(j)
  BY <1>3, ContinueGoes
<1>4. CASE \E c \in Conns : Network(c) \/ ConnectFails(c) \/ Drop(c)
  BY <1>4, NetworkGoes
<1>5. CASE \E c \in Conns : MetadataUpdate(c)
  BY <1>5, MetadataUpdateDoes, BegunGoes
<1>6. CASE UNCHANGED vars
  <2>1. UNCHANGED <<home, sock, queue, refs, registered, calls>>
    BY <1>6 DEF vars, users
  <2> QED
    BY <2>1, BegunGoes DEF SameAwait
<1> QED
  BY <1>1, <1>2, <1>3, <1>4, <1>5, <1>6 DEF Next, Users

LEMMA StepEnding == Sound /\ Ending /\ [Next]_vars => Ending'
<1> SUFFICES ASSUME Sound, Ending, [Next]_vars, NEW k \in DOMAIN calls', Alone(k)'
             PROVE  /\ \A j \in DOMAIN calls' : j # k => Over(calls'[j])
                    /\ Clear(k)' => EndsAll(k)'
  BY DEF Ending, ClosesAlone
<1>1. Inv' /\ (Steps \/ Grows)
  BY StepInv DEF Sound
<1>2. /\ DOMAIN calls = 1 .. Len(calls) /\ Len(calls) \in Nat
      /\ DOMAIN calls' = 1 .. Len(calls') /\ Len(calls') \in Nat
  <2>1. calls \in Seq(Call) /\ calls' \in Seq(Call')
    BY <1>1 DEF Sound, Inv, TypeOK
  <2> QED
    BY <2>1, LenProperties
<1>3. CASE k \notin DOMAIN calls
  <2>1. Grows
    BY <1>1, <1>3 DEF Steps
  <2>2. Begins(calls'[k]) /\ calls'[k].beside = {} /\ calls'[k].op = "close"
    BY <1>3, <2>1 DEF Grows, Alone
  <2>3. \A j \in DOMAIN calls : Over(calls'[j])
    BY <2>1, <2>2 DEF Grows, Begins, Passive, Over
  <2>4. ASSUME NEW j \in DOMAIN calls', j # k PROVE j \in DOMAIN calls
    BY <1>3, <2>1, <2>2, <2>4 DEF Grows
  <2>5. EndsAll(k)'
    BY <2>2 DEF Begins, EndsAll, Ends
  <2> QED
    BY <2>3, <2>4, <2>5
<1>4. CASE k \in DOMAIN calls
  <2>1. \A j \in DOMAIN calls : calls'[j].op = calls[j].op /\ calls[j].beside \subseteq calls'[j].beside
    BY <1>1 DEF Steps, Grows, Passive, Acts
  <2>2. DOMAIN calls' = DOMAIN calls /\ k = Len(calls)
    <3> DEFINE l == Len(calls)
               m == Len(calls')
    <3>1. k = m /\ k \in 1 .. l /\ l \in Nat /\ m \in Nat
      BY <1>2, <1>4 DEF Alone
    <3>2. 1 .. l \subseteq 1 .. m
      BY <1>1, <1>2 DEF Steps, Grows
    <3> HIDE DEF l, m
    <3>3. l \in 1 .. m
      BY <3>1, <3>2
    <3>4. l = m
      BY <3>1, <3>3
    <3> QED
      BY <1>2, <3>1, <3>4 DEF l, m
  <2>3. Alone(k)
    BY <1>4, <2>1, <2>2 DEF Alone
  <2>4. Closing(k)
    BY <1>4, <2>3 DEF Closing, Alone, Ending, ClosesAlone
  <2>5. KeepsEnding(k)
    BY <2>4, StepGoes
  <2>6. \A j \in DOMAIN calls : j # k => Over(calls'[j])
    BY <2>4, <2>5 DEF Closing, KeepsEnding, Over
  <2>7. Clear(k)' => Clear(k) /\ calls'[k].at # "failed"
    BY <1>4, <2>1, <2>2, <2>5 DEF Clear, KeepsEnding, Over
  <2> QED
    BY <1>4, <2>2, <2>3, <2>5, <2>6, <2>7 DEF KeepsEnding, Ending
<1> QED
  BY <1>3, <1>4

CloseInvariant == Sound /\ Ending

(* Client.close is complete: when the first close has returned, with       *)
(* nothing called beside it or later and no call failed before, none of    *)
(* the client's connections is open or opening, whatever was restarted,    *)
(* closed, dropped or refused before, but that of a publisher which the    *)
(* application closed itself.  The argument: as long as no call has failed *)
(* a connection is counted for no more users than will still give it back, *)
(* so that the last of these finds the count at 0 and asks for its end.    *)
THEOREM CloseIsComplete == Spec => []CloseEndsAll
<1>1. Init => CloseInvariant
  <2>1. Init => DOMAIN calls = {}
    BY EmptySeq DEF Init
  <2> QED
    BY <2>1, InitSound DEF CloseInvariant, Ending, ClosesAlone
<1>2. CloseInvariant /\ [Next]_vars => CloseInvariant'
  BY StepSound, StepEnding DEF CloseInvariant
<1>3. CloseInvariant => CloseEndsAll
  <2> SUFFICES ASSUME Sound, Ending, NEW k \in DOMAIN calls, Alone(k), Clear(k), calls[k].at = "done",
                      NEW c \in Conns, ~Exempt(c)
               PROVE  sock[c] \in {"half", "down"}
    BY DEF CloseInvariant, CloseEndsAll, Returned, Alone, Clear, Exempt
  <2>1. sock[c] \notin Up
    BY DEF Ending, EndsAll, Ends
  <2> QED
    BY <2>1 DEF Sound, Inv, TypeOK, Up
<1> QED
  BY <1>1, <1>2, <1>3, PTL DEF Spec
====
