--------------------------- MODULE MCSuperStream ---------------------------
(* Values for the constants of SuperStream.                                *)
EXTENDS SuperStream, TLC

CONSTANTS p1, p2, a, b

TwoPartitions == {p1, p2}
TwoKeys == {a, b}
Symmetry == Permutations(TwoPartitions) \cup Permutations(TwoKeys)

Once(es) == [e \in Events |-> IF e \in es THEN 1 ELSE 0]
InTurn(ops, n, es) == [ops |-> ops, serial |-> TRUE, calls |-> n, limit |-> Once(es)]
AtOnce(ops, n, es) == [ops |-> ops, serial |-> FALSE, calls |-> n, limit |-> Once(es)]

Mixed ==
  {InTurn({"send", "numbered", "close"}, 4, {}),
   InTurn({"send", "batch", "close"}, 4, {"rebind"}),
   InTurn({"send", "basic", "close"}, 3, {"refuse"}),
   AtOnce({"send", "batch", "close"}, 2, {}),
   AtOnce({"send", "basic", "close"}, 3, {}),
   AtOnce({"send", "batch"}, 2, {"rebind", "refuse"})}

HashAndKey == {"hash", "key"}
=============================================================================
