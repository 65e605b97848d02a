------------------------------- MODULE MCOutbox -------------------------------
(* Values for the constants of Outbox.                                     *)
EXTENDS Outbox

FullOrNot == {1, 2, NumIds + 1}
AloneOrNot == BOOLEAN
=============================================================================
