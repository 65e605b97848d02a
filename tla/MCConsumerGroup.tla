---------------------------- MODULE MCConsumerGroup ----------------------------
(* Values for the constants of ConsumerGroup.                              *)
EXTENDS ConsumerGroup

TwoMembers == {1, 2}

Of(listens, stores, shared, super, es) ==
  [listens |-> listens, stores |-> stores, shared |-> shared,
   super |-> super, rank |-> 1,
   limit |-> [e \in Events |-> IF e \in es THEN 1 ELSE 0]]

Mixed ==
  {Of(TRUE, stores, FALSE, super, {"drop", "crash"}) :
     stores \in {"message", "local"}, super \in BOOLEAN}
  \cup {Of(TRUE, "outside", FALSE, FALSE, {"drop", "crash"}),
        Of(TRUE, "outside", FALSE, TRUE, {"crash"}),
        Of(TRUE, "message", TRUE, FALSE, {"close", "closeConsumer"}),
        Of(FALSE, "message", TRUE, TRUE, {"closeConsumer"}),
        Of(FALSE, "message", FALSE, TRUE, {"close"})}
=============================================================================
