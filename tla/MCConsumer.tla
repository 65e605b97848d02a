----------------------------- MODULE MCConsumer -----------------------------
(* Values for the constants of Consumer.                                   *)
EXTENDS Consumer, TLC

Both == {"received", "completed"}
Default == {"completed"}

(* Each event of the set once.                                             *)
Once(events) == [e \in Events |-> IF e \in events THEN 1 ELSE 0]

(* One event of any kind, or a throw and another.                          *)
Few == {Once({})} \cup {Once({e}) : e \in Events} \cup {Once({e, "throw"}) : e \in Events}
OneRestart == {Once({}), Once({"restart"})}
=============================================================================
