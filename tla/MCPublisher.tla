---------------------------- MODULE MCPublisher ----------------------------
(* Values for the constants of Publisher.                                  *)
EXTENDS Publisher, TLC

Only(f) == [e \in Events |-> IF e \in DOMAIN f THEN f[e] ELSE 0]

DropAndRestart == Only("drop" :> 1 @@ "restart" :> 1)
AllButRestart == Only("drop" :> 1 @@ "close" :> 1 @@ "delete" :> 1 @@ "update" :> 1)
=============================================================================
