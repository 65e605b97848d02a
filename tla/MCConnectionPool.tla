-------------------------- MODULE MCConnectionPool --------------------------
(* Values for the constants of ConnectionPool.                             *)
EXTENDS ConnectionPool, TLC

CONSTANTS u1, u2, u3

Three == {u1, u2, u3}
Both == {"publisher", "consumer"}
InTurnOrNot == BOOLEAN
WithAndWithout == BOOLEAN

Symmetry == Permutations(Users)

AllEvents == [e \in Events |-> 1]
=============================================================================
