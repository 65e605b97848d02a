---------------------------- MODULE MCConnection ----------------------------
(* Values for the constants of Connection.                                 *)
EXTENDS Connection, TLC

Each == "drop" :> 1 @@ "restart" :> 1 @@ "early" :> 1
=============================================================================
