----------------------------- MODULE Subsequences -----------------------------
(* Parts of a sequence, in its order.                                      *)
EXTENDS Naturals, Sequences

(* s without what is in gone.                                              *)
Without(s, gone) ==
  LET kept[n \in 0 .. Len(s)] ==
        IF n = 0 THEN <<>>
        ELSE IF s[n] \in gone THEN kept[n - 1] ELSE Append(kept[n - 1], s[n])
  IN  kept[Len(s)]

(* s without what it holds further in front already.                       *)
FirstOnes(s) ==
  LET again == {j \in DOMAIN s : \E i \in 1 .. j - 1 : s[i] = s[j]}
      places == Without([i \in DOMAIN s |-> i], again)
  IN  [n \in DOMAIN places |-> s[places[n]]]
=============================================================================
