------------------------------ MODULE MCClient ------------------------------
(* Values for the constants of Client.                                     *)
EXTENDS Client, TLC

(* Two consumers share a connection, and so do the first and the last of   *)
(* three publishers: a restart goes to another connection in between.      *)
TwoConsumers == {1, 2}
ThreePublishers == {3, 4, 5}
Interleaved == {1 :> 1 @@ 2 :> 1 @@ 3 :> 2 @@ 4 :> 3 @@ 5 :> 2}

Few(ops, n, es) ==
  [ops |-> ops, calls |-> n, limit |-> [e \in Events |-> IF e \in es THEN 1 ELSE 0]]

Mixed ==
  {Few({"restart", "closeConsumer", "deletePublisher"}, 2, {}),
   Few({"restart", "close", "closeUser"}, 3, {}),
   Few({"restart"}, 2, {"drop", "unreachable"}),
   Few({"restart", "close"}, 2, {"update"}),
   Few({"restart", "close"}, 2, {"drop"})}
=============================================================================
