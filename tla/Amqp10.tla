------------------------------- MODULE Amqp10 -------------------------------
(***************************************************************************)
(* AMQP 1.0 messages: amqpEncode (amqp10/encoder.ts) and decodeMessage     *)
(* (response_decoder.ts, amqp10/ *.ts).                                    *)
(*                                                                         *)
(* An encoded message is a sequence of tokens, one per value, header of a  *)
(* section, and content.  A token has a format code, what the decoder      *)
(* reads from it (n), the numbers it is written as (their widths, in head) *)
(* and the bytes of text that follow (data).                               *)
(***************************************************************************)
EXTENDS Integers, Sequences, SequencesExt

(* A value the application gives.  n is its length, or the number itself.  *)
Value(kind, n) == [kind |-> kind, n |-> n]
Absent == Value("absent", 0)
Falsy(v) == v = Absent \/ (v.kind \in {"string", "number"} /\ v.n = 0)

(* The fields of MessageProperties, in the order of the standard.          *)
Fields == <<"messageId", "userId", "to", "subject", "replyTo", "correlationId", "contentType",
            "contentEncoding", "absoluteExpiryTime", "creationTime", "groupId", "groupSequence",
            "replyToGroupId">>
NoProperties == [f \in ToSet(Fields) |-> Absent]

(* What an application may give, as the types of publisher.ts have it.     *)
Given(kind) == [kind : {kind}, n : IF kind = "string" \/ kind = "buffer" THEN Nat ELSE Int]
FieldValues(f) ==
  {Absent} \cup Given(CASE f = "userId"                                 -> "buffer"
                        [] f \in {"absoluteExpiryTime", "creationTime"} -> "date"
                        [] f = "groupSequence"                          -> "number"
                        [] OTHER                                        -> "string")
MessageProperties ==
  {p \in [ToSet(Fields) -> [kind : {"absent", "string", "buffer", "date", "number"}, n : Int]] :
     \A f \in ToSet(Fields) : p[f] \in FieldValues(f)}
ApplicationProperty == [key : Given("string"), value : Given("string") \cup Given("number")]
MessageAnnotation ==
  [key : Given("string"), value : Given("string") \cup Given("number") \cup Given("byte")]
Message ==
  [content : Nat, properties : {s \in Seq(MessageProperties) : Len(s) <= 1},
   application : Seq(ApplicationProperty), annotations : Seq(MessageAnnotation), filterValue : Nat]

-----------------------------------------------------------------------------
(* Encoding.                                                               *)

Token(code, n, head, data) == [code |-> code, n |-> n, head |-> head, data |-> data]
Null == Token("Null", 0, <<1>>, 0)
Total(numbers) ==
  LET sum[n \in 0 .. Len(numbers)] == IF n = 0 THEN 0 ELSE sum[n - 1] + numbers[n]
  IN  sum[Len(numbers)]
Bytes(tokens) == Total([i \in DOMAIN tokens |-> Total(tokens[i].head) + tokens[i].data])

(* Text with its length in one byte, or in four.                           *)
Sized(short, long, n) ==
  IF n <= 255 THEN Token(short, n, <<1, 1>>, n) ELSE Token(long, n, <<1, 4>>, n)

amqpWriteString(v) == IF Falsy(v) THEN Null ELSE Sized("Str8", "Str32", v.n)
amqpWriteSymbol(v) == IF Falsy(v) THEN Null ELSE Sized("Sym8", "Sym32", v.n)
amqpWriteBuffer(v) == IF v.n = 0 THEN Null ELSE Sized("Vbin8", "Vbin32", v.n)
amqpWriteNumber(v) == IF Falsy(v) THEN Null ELSE Token("Uint", v.n, <<1, 4>>, 0)
amqpWriteDate(v) == IF Falsy(v) THEN Null ELSE Token("Timestamp", v.n, <<1, 8>>, 0)
amqpWriteValue(v) ==
  CASE v.kind = "byte"   -> Token("Ubyte", v.n, <<1, 1>>, 0)
    [] v.kind = "string" -> amqpWriteString(v)
    [] v.kind = "number" -> IF Falsy(v) THEN Null ELSE Token("Int", v.n, <<1, 4>>, 0)

(* A section: its type, a format code and, for a list or a map, two sizes; *)
(* the decoder reads the second one, the number of elements.               *)
Section(type, code, n, widths) ==
  <<Token("Described", type, <<1, 1, 1>>, 0), Token(code, n, <<1>> \o widths, 0)>>

(* Of the pairs of a map, those with an empty key are left out.            *)
writePairs(pairs) ==
  FlattenSeq([i \in DOMAIN pairs |->
    IF Falsy(pairs[i].key) THEN <<>>
    ELSE <<amqpWriteString(pairs[i].key), amqpWriteValue(pairs[i].value)>>])
writeMap(type, pairs) ==
  IF pairs = <<>> THEN <<>>
  ELSE Section(type, "Map32", 2 * Len(pairs), <<4, 4>>) \o writePairs(pairs)

writeField(f, v) ==
  CASE f = "userId"                                  -> amqpWriteBuffer(v)
    [] f \in {"contentType", "contentEncoding"}      -> amqpWriteSymbol(v)
    [] f \in {"absoluteExpiryTime", "creationTime"}  -> amqpWriteDate(v)
    [] f = "groupSequence"                           -> amqpWriteNumber(v)
    [] OTHER                                         -> amqpWriteString(v)
(* properties is <<>>, or a sequence of one record.                        *)
writeProperties(properties) ==
  IF properties = <<>> THEN <<>>
  ELSE Section("Properties", "List32", Len(Fields), <<4, 4>>)
       \o [i \in DOMAIN Fields |-> writeField(Fields[i], properties[1][Fields[i]])]

writeContent(n) ==
  IF n <= 255 THEN <<Token("Described", "Data", <<1, 1, 1>>, 0), Token("Vbin8", n, <<1, 1>>, n)>>
              ELSE <<Token("Described", "Data", <<1, 1, 1>>, 0), Token("Vbin32", n, <<1, 4>>, n)>>

encode(m) ==
  writeMap("Annotations", m.annotations) \o writeProperties(m.properties)
    \o writeMap("Application", m.application) \o writeContent(m.content)

-----------------------------------------------------------------------------
(* The size computed before, which is written in front of the message and  *)
(* compared with the frame size.                                           *)

getSizeOf(v) ==
  IF Falsy(v) THEN 1
  ELSE CASE v.kind = "byte"                 -> 2
         [] v.kind \in {"string", "buffer"} -> IF v.n <= 255 THEN 2 + v.n ELSE 5 + v.n
         [] v.kind = "date"                 -> 9
         [] v.kind = "number"               -> 5

PropertySizeDescription == 3 + 1 + 4 + 4
sizeOfMap(pairs) ==
  IF pairs = <<>> THEN 0
  ELSE PropertySizeDescription
       + Total([i \in DOMAIN pairs |-> getSizeOf(pairs[i].key) + getSizeOf(pairs[i].value)])
sizeOfProperties(properties) ==
  IF properties = <<>> THEN 0
  ELSE PropertySizeDescription + Total([i \in DOMAIN Fields |-> getSizeOf(properties[1][Fields[i]])])
messageSize(m) ==
  m.content + 3 + (IF m.content <= 255 THEN 2 ELSE 5)
    + sizeOfProperties(m.properties) + sizeOfMap(m.application) + sizeOfMap(m.annotations)

-----------------------------------------------------------------------------
(* Decoding.                                                               *)

(* What cannot be read: the decoder throws, or reads what was not meant.   *)
Garbled == Value("garbled", 0)

decodeFormatCode(t) ==
  CASE t.code \in {"Str8", "Sym8", "Str32", "Sym32"} -> Value("string", t.n)
    [] t.code \in {"Uint", "Int", "Ubyte"}           -> Value("number", t.n)
    [] t.code = "Null"                               -> Value("number", 0)
    [] OTHER                                         -> Garbled

(* Properties.parse goes by the position of a field, whatever its code:    *)
(* a length of one byte for userId, four bytes for groupSequence.          *)
readField(f, t) ==
  IF t.code = "Null" THEN Absent
  ELSE CASE f = "userId"        -> IF t.code = "Vbin8" THEN Value("buffer", t.n) ELSE Garbled
         [] f = "groupSequence" -> IF t.code = "Uint" THEN Value("number", t.n) ELSE Garbled
         [] f \in {"absoluteExpiryTime", "creationTime"} ->
              IF t.code = "Timestamp" THEN Value("date", t.n) ELSE Garbled
         [] OTHER               -> decodeFormatCode(t)

(* An application property must not be falsy, an annotation may be.        *)
readPair(type, key, value) ==
  LET k == decodeFormatCode(key)
      v == decodeFormatCode(value)
  IN  IF k = Garbled \/ Falsy(k) \/ v = Garbled \/ (type = "Application" /\ Falsy(v))
      THEN [key |-> Absent, value |-> Garbled]
      ELSE [key |-> k, value |-> v]

Empty == [content |-> 0, properties |-> NoProperties, application |-> <<>>, annotations |-> <<>>]

(* The section at token i: the message and the next token, or <<>>.        *)
readMap(message, tokens, i) ==
  LET type == tokens[i].n
      count == tokens[i + 1].n \div 2
      at(k) == i + 2 * k
      pairs == [k \in 1 .. count |-> readPair(type, tokens[at(k)], tokens[at(k) + 1])]
  IN  IF i + 1 + 2 * count > Len(tokens) \/ \E k \in 1 .. count : pairs[k].value = Garbled
      THEN <<>>
      ELSE <<IF type = "Application" THEN [message EXCEPT !.application = pairs]
                                     ELSE [message EXCEPT !.annotations = pairs],
             i + 2 + 2 * count>>
readProperties(message, tokens, i) ==
  LET fields == [k \in 1 .. Len(Fields) |-> readField(Fields[k], tokens[i + 1 + k])]
      read == [f \in ToSet(Fields) |-> fields[CHOOSE k \in DOMAIN Fields : Fields[k] = f]]
  IN  IF \E k \in DOMAIN fields : fields[k] = Garbled
      THEN <<>>
      ELSE <<[message EXCEPT !.properties = read], i + 2 + Len(Fields)>>
readSection(message, tokens, i) ==
  CASE tokens[i].n \in {"Application", "Annotations"} -> readMap(message, tokens, i)
    [] tokens[i].n = "Properties"                     -> readProperties(message, tokens, i)
    [] tokens[i].n = "Data"   -> <<[message EXCEPT !.content = tokens[i + 1].n], i + 2>>

(* The loop of decodeMessage, from what was read and the next token to the *)
(* same behind one more section: sections are read until the bytes read    *)
(* are as many as the size says.                                           *)
ReadWhole(read, tokens, size) == Bytes(SubSeq(tokens, 1, read[2] - 1)) = size
readNext(read, tokens, size) ==
  IF read = <<>> \/ ReadWhole(read, tokens, size) THEN read
  ELSE IF read[2] > Len(tokens) \/ tokens[read[2]].code # "Described" THEN <<>>
  ELSE readSection(read[1], tokens, read[2])

(* <<message>>, or <<>> when the decoder throws.                           *)
decodeMessage(tokens, size) ==
  LET after[k \in 0 .. Len(tokens)] ==
        IF k = 0 THEN <<Empty, 1>> ELSE readNext(after[k - 1], tokens, size)
      read == after[Len(tokens)]
  IN  IF read # <<>> /\ ReadWhole(read, tokens, size) THEN <<read[1]>> ELSE <<>>
=============================================================================
