-------------------------- MODULE BufferDataWriter --------------------------
(***************************************************************************)
(* The growing buffer into which a request is encoded (BufferDataWriter of *)
(* requests/abstract_request.ts, the same as requests/                     *)
(* buffer_data_writer.ts).  Only sizes matter: what is written is counted  *)
(* in bytes.                                                               *)
(*                                                                         *)
(* AbstractRequest.toBuffer runs without interruption; a step is one write *)
(* of it.                                                                  *)
(***************************************************************************)
EXTENDS Naturals

CONSTANTS
  InitialSize,   \* bufferSizeParams.initialSize
  MaxSize,       \* bufferSizeParams.maxSize, the connection's frameMax
  MaxRatio,      \* <<p, q>>: bufferSizeParams.maxRatio is p / q
  Multiplier     \* bufferSizeParams.multiplier

Unlimited == 0                                \* DEFAULT_UNLIMITED_FRAME_MAX
PrefixSize == 4                               \* the frame's size, written last

ASSUME WriterAssumption ==
  /\ InitialSize \in Nat /\ InitialSize >= PrefixSize
  /\ MaxSize \in Nat /\ Multiplier \in Nat
  /\ MaxRatio \in (Nat \ {0}) \X (Nat \ {0}) /\ MaxRatio[1] <= MaxRatio[2]

VARIABLES
  length,  \* buffer.length
  offset,  \* BufferDataWriter.offset
  asked,   \* history: the bytes to be written so far, with the prefix
  status   \* "writing", or "thrown": a write threw a RangeError, toBuffer fails

writer == <<length, offset, asked, status>>

WriterInit ==
  /\ length = InitialSize
  /\ offset = PrefixSize /\ asked = PrefixSize
  /\ status = "writing"

(* A new buffer, for the next request.                                     *)
New ==
  /\ length' = InitialSize
  /\ offset' = PrefixSize /\ asked' = PrefixSize
  /\ status' = "writing"

Least(a, b) == IF a <= b THEN a ELSE b

(* A mutant of NewSize: the bytes to come are not counted.                 *)
NewSizeMutant(n) ==
  IF MaxSize = Unlimited THEN length * Multiplier ELSE Least(length * Multiplier, MaxSize)

NewSize(n) ==
  LET required == length * Multiplier + offset + n
  IN  IF MaxSize = Unlimited THEN required ELSE Least(required, MaxSize)

(* The buffer's length after growIfNeeded.                                 *)
Grown(n) ==
  IF (offset + n) * MaxRatio[2] > length * MaxRatio[1] THEN NewSize(n) ELSE length

(* A number of n bytes is written whole or not at all.                     *)
WriteNumber(n) ==
  /\ status = "writing"
  /\ length' = Grown(n)
  /\ asked' = asked + n
  /\ \/ offset + n <= Grown(n) /\ offset' = offset + n /\ UNCHANGED status
     \/ offset + n > Grown(n) /\ status' = "thrown" /\ UNCHANGED offset

(* Of a string or a buffer, as much as fits is written.  A string does not *)
(* start behind the end of a buffer that has shrunk.                       *)
WriteData(n) ==
  /\ status = "writing"
  /\ length' = Grown(n)
  /\ asked' = asked + n
  /\ \/ /\ offset <= Grown(n) /\ UNCHANGED status
        /\ offset' = offset + Least(n, Grown(n) - offset)
     \/ /\ offset > Grown(n) /\ status' \in {"writing", "thrown"}
        /\ UNCHANGED offset

WriterNext == New \/ \E n \in Nat : WriteNumber(n) \/ WriteData(n)

WriterSpec == WriterInit /\ [][WriterNext]_writer
-----------------------------------------------------------------------------
(* Properties.                                                             *)

WriterTypeOK ==
  /\ length \in Nat /\ offset \in Nat /\ asked \in Nat /\ status \in {"writing", "thrown"}

(* A request that fits the limit is written to the last byte, however the  *)
(* buffer grew on the way; growing never throws.                           *)
WrittenWhole ==
  MaxSize = Unlimited \/ asked <= MaxSize => status = "writing" /\ offset = asked

(* A buffer that starts below its limit stays below it, and so does the    *)
(* frame.                                                                  *)
HardLimit ==
  MaxSize # Unlimited /\ InitialSize <= MaxSize => length <= MaxSize /\ offset <= MaxSize
=============================================================================
