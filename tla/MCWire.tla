------------------------------- MODULE MCWire -------------------------------
(* Values for the constants of Wire.                                       *)
EXTENDS Wire, TLC

Plain(messages) == [kind |-> "plain", messages |-> messages]
Filtered(messages) == [kind |-> "filtered", messages |-> messages]
Batch(messages) == [kind |-> "batch", messages |-> messages]
Pair(k, v) == [key |-> Value("string", k), value |-> v]

Bare == [content |-> 2, properties |-> <<>>, application |-> <<>>, annotations |-> <<>>,
         filterValue |-> 0]
Tagged == [Bare EXCEPT !.content = 256, !.filterValue = 5,
  !.application = <<Pair(3, Value("number", 7)), Pair(4, Value("string", 255))>>,
  !.annotations = <<Pair(1, Value("byte", 0)), Pair(256, Value("number", 0))>>]
Full == [Bare EXCEPT !.properties = <<[NoProperties EXCEPT
  !.messageId = Value("string", 255), !.userId = Value("buffer", 5), !.to = Value("string", 0),
  !.contentType = Value("string", 256), !.creationTime = Value("date", 9),
  !.groupSequence = Value("number", 3)]>>]
Zero == [Bare EXCEPT !.application = <<Pair(3, Value("number", 0))>>]
Nobody == [Bare EXCEPT !.properties = <<[NoProperties EXCEPT !.userId = Value("buffer", 0)]>>]

AllRequests ==
  {Filtered(<<Tagged>>), Plain(<<Full, Bare>>), Plain(<<Full, Tagged>>),
   Plain(<<Zero>>), Plain(<<Nobody>>), Batch(<<Bare, Bare>>)}

(* Events end with a frame or a byte before, in or behind a frame's size,  *)
(* and inside its messages.                                                *)
InAndBetween == {-1, 0, 2, 4, 80}
NineTenths == <<9, 10>>
=============================================================================
