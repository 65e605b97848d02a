--------------------------- MODULE PublishContract ---------------------------
(***************************************************************************)
(* What a publisher promises, with nothing of how it does it: the broker   *)
(* appends its messages in chunks of consecutive sends, each chunk beyond  *)
(* everything stored before.  Messages may be skipped, never reordered or  *)
(* repeated.  Publisher implements this specification.                     *)
(***************************************************************************)
EXTENDS Naturals, Sequences

CONSTANTS Publishers, MaxChunkLength

VARIABLES
  accepted,   \* accepted[p]: how many messages p was given
  stored      \* stored[p]: the messages of p in the stream

Run(first, n) == [i \in 1 .. n |-> first + i - 1]

Init ==
  /\ accepted = [p \in Publishers |-> 0]
  /\ stored = [p \in Publishers |-> <<>>]

Accept(p) ==
  /\ accepted' = [accepted EXCEPT ![p] = @ + 1]
  /\ UNCHANGED stored

Store(p) ==
  /\ \E first \in 1 .. accepted[p], n \in 1 .. MaxChunkLength :
       /\ first + n - 1 <= accepted[p]
       /\ \A i \in DOMAIN stored[p] : stored[p][i] < first
       /\ stored' = [stored EXCEPT ![p] = @ \o Run(first, n)]
  /\ UNCHANGED accepted

Next == \E p \in Publishers : Accept(p) \/ Store(p)

Spec == Init /\ [][Next]_<<accepted, stored>>
=============================================================================
