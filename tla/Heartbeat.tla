----------------------------- MODULE Heartbeat -----------------------------
(***************************************************************************)
(* The heartbeat of one connection (heartbeat.ts) with the socket it runs  *)
(* on (connection.ts: the socket listeners, send, sendAndWait, close,      *)
(* restart).  Time passes in ticks; the two Dates are kept as ages, capped *)
(* where the code no longer tells them apart.  A timer is punctual and a   *)
(* write to an open socket is done within the tick.                        *)
(***************************************************************************)
EXTENDS Naturals

CONSTANTS
  Interval,     \* the negotiated interval, in ticks
  MaxDrops      \* bound: how often the network fails

ASSUME HeartbeatAssumption == Interval \in Nat \ {0} /\ MaxDrops \in Nat

MAX_HEARTBEATS_MISSED == 2
Old == 2 * Interval + 1      \* cap of the ages

VARIABLES
  sock,         \* "open", "ended", "opening" or "handshake"
  started,      \* heartBeatStarted; the field interval is 0 iff it is FALSE
  loop,         \* the asynchronous heartbeat(): where it is
  timer,        \* ticks until the timeout fires, when loop = "timer"
  sentAge,      \* ticks since lastMessageSent
  recvAge,      \* ticks since lastMessageReceived
  idleCounter,
  peerAlive,    \* the broker answers
  used          \* number of failures so far

vars == <<sock, started, loop, timer, sentAge, recvAge, idleCounter, peerAlive, used>>

Init ==
  /\ sock = "open" /\ started = TRUE
  /\ loop = "timer" /\ timer = Interval
  /\ sentAge = 0 /\ recvAge = 0 /\ idleCounter = 0
  /\ peerAlive = TRUE /\ used = 0

Older(age) == IF age < Old THEN age + 1 ELSE age
Punctual == /\ loop = "timer" => timer > 0
            /\ loop = "sending" => sock # "open"

Tick ==
  /\ Punctual
  /\ timer' = IF loop = "timer" THEN timer - 1 ELSE timer
  /\ sentAge' = Older(sentAge) /\ recvAge' = Older(recvAge)
  /\ UNCHANGED <<sock, started, loop, idleCounter, peerAlive, used>>

-----------------------------------------------------------------------------
(* The traffic of the connection.                                          *)

reportLastMessageReceived == recvAge' = 0 /\ idleCounter' = 0
reportLastMessageSent == sentAge' = 0 /\ idleCounter' = 0

Receive ==
  /\ sock = "open" /\ peerAlive
  /\ reportLastMessageReceived
  /\ UNCHANGED <<sock, started, loop, timer, sentAge, peerAlive, used>>

(* sendAndWait reports its request, send does not report its frame.        *)
Request ==
  /\ sock = "open"
  /\ reportLastMessageSent
  /\ UNCHANGED <<sock, started, loop, timer, recvAge, peerAlive, used>>

-----------------------------------------------------------------------------
(* The loop.                                                               *)

(* idleDetection, with the ages s and r that hold when it is called and    *)
(* the counter n; then the loop goes on, unless it has been stopped, now   *)
(* by closing the connection or before.                                    *)
idleDetection(s, r, n) ==
  LET missed == started /\ r > Interval /\ s > Interval
      counter == IF missed THEN n + 1 ELSE n
      closes == counter = MAX_HEARTBEATS_MISSED
      goesOn == started /\ ~closes
  IN
  /\ sentAge' = (IF missed THEN 0 ELSE s)
  /\ recvAge' = (IF missed THEN 0 ELSE r)
  /\ idleCounter' = counter
  /\ sock' = IF closes THEN "ended" ELSE sock
  /\ started' = goesOn
  /\ loop' = IF goesOn THEN "timer" ELSE "none"
  /\ timer' = IF goesOn THEN Interval ELSE timer

(* A mutant of MustSend: a message exactly an interval old is recent.      *)
MustSendMutant == sentAge > Interval

MustSend == sentAge >= Interval

(* The timeout fires; on a socket that is not open send never settles.     *)
Fire ==
  /\ loop = "timer" /\ timer = 0
  /\ \/ /\ MustSend
        /\ loop' = IF sock \in {"open", "handshake"} THEN "sending" ELSE "hung"
        /\ UNCHANGED <<sock, started, timer, sentAge, recvAge, idleCounter>>
     \/ /\ ~MustSend
        /\ idleDetection(sentAge, recvAge, idleCounter)
  /\ UNCHANGED <<peerAlive, used>>

(* A mutant of SendDone: the heartbeat is not reported as sent.            *)
SendDoneMutant ==
  /\ loop = "sending"
  /\ idleDetection(sentAge, recvAge, idleCounter)
  /\ UNCHANGED <<peerAlive, used>>

(* The heartbeat is written: it is reported as sent, and resets the count. *)
SendDone ==
  /\ loop = "sending"
  /\ idleDetection(0, recvAge, 0)
  /\ UNCHANGED <<peerAlive, used>>

(* The write fails: heartbeat() rejects, and nobody calls it again.        *)
SendFails ==
  /\ loop = "sending" /\ sock = "ended"
  /\ loop' = "hung"
  /\ UNCHANGED <<sock, started, timer, sentAge, recvAge, idleCounter, peerAlive, used>>

-----------------------------------------------------------------------------
(* The connection.                                                         *)

(* The peer goes silent, without the socket noticing.                      *)
PeerDies ==
  /\ sock = "open" /\ peerAlive
  /\ peerAlive' = FALSE
  /\ UNCHANGED <<sock, started, loop, timer, sentAge, recvAge, idleCounter, used>>

Drop ==
  /\ used < MaxDrops
  /\ sock \in {"open", "handshake", "opening"}
  /\ sock' = "ended" /\ used' = used + 1
  /\ UNCHANGED <<started, loop, timer, sentAge, recvAge, idleCounter, peerAlive>>

(* Connection.close: stop, and after the answer to Close the socket ends.  *)
Close ==
  /\ sock = "open" /\ peerAlive /\ used < MaxDrops
  /\ started' = FALSE
  /\ loop' = IF loop = "timer" THEN "none" ELSE loop
  /\ sock' = "ended" /\ used' = used + 1 /\ reportLastMessageSent
  /\ UNCHANGED <<timer, recvAge, peerAlive>>

(* Restart; the 5 seconds before it settle every write.                    *)
Restart ==
  /\ sock = "ended" /\ loop # "sending"
  /\ sock' = "opening" /\ peerAlive' = TRUE
  /\ UNCHANGED <<started, loop, timer, sentAge, recvAge, idleCounter, used>>

SocketConnects ==
  /\ sock = "opening"
  /\ sock' = "handshake"
  /\ UNCHANGED <<started, loop, timer, sentAge, recvAge, idleCounter, peerAlive, used>>

(* The handshake is over: a heartbeat that counts as started is left as it *)
(* is.  The requests and answers of the handshake have been reported.      *)
HandshakeDone ==
  /\ sock = "handshake"
  /\ sock' = "open" /\ started' = TRUE
  /\ \/ started /\ UNCHANGED <<loop, timer>>
     \/ ~started /\ loop' = "timer" /\ timer' = Interval
  /\ sentAge' = 0 /\ recvAge' = 0 /\ idleCounter' = 0
  /\ UNCHANGED <<peerAlive, used>>

Next ==
  \/ Tick \/ Receive \/ Request
  \/ Fire \/ SendDone \/ SendFails
  \/ PeerDies \/ Drop \/ Close \/ Restart \/ SocketConnects \/ HandshakeDone

Spec == Init /\ [][Next]_vars
-----------------------------------------------------------------------------
(* Properties.                                                             *)

TypeOK ==
  /\ sock \in {"open", "ended", "opening", "handshake"}
  /\ started \in BOOLEAN
  /\ loop \in {"timer", "sending", "hung", "none"}
  /\ timer \in 0 .. Interval
  /\ sentAge \in 0 .. Old /\ recvAge \in 0 .. Old
  /\ idleCounter \in 0 .. MAX_HEARTBEATS_MISSED
  /\ peerAlive \in BOOLEAN
  /\ used \in 0 .. MaxDrops

(* As long as the connection has not failed, the broker never waits two    *)
(* intervals for a frame: it would take the client for dead.               *)
SilenceBounded == used = 0 => sentAge < 2 * Interval

(* What the code does about a silent peer: it never counts a missed        *)
(* heartbeat, as either the heartbeat it has just sent resets the age of   *)
(* the last message sent, or there was a recent one.                       *)
NeverMissed == idleCounter = 0
=============================================================================
