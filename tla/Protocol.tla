------------------------------ MODULE Protocol ------------------------------
(***************************************************************************)
(* The binary protocol of src/src/protocol/protocol.cpp: messages, their    *)
(* bytes, and what the parser does to its buffer.  A message is a record    *)
(* [type, value]: the value of a string, an error or a bulk string is its   *)
(* sequence of bytes, that of an integer a number, that of an array the     *)
(* sequence of its elements.                                                *)
(***************************************************************************)
EXTENDS Integers, SequencesExt

CONSTANT NullPtr    \* the null MessagePtr

SIMPLE_STRING == 1
ERROR_MSG     == 2
INTEGER       == 3
BULK_STRING   == 4
ARRAY         == 5
NULL_VALUE    == 6

Strings == {SIMPLE_STRING, ERROR_MSG, BULK_STRING}

Message(type, value) == [type |-> type, value |-> value]
NullMessage == Message(NULL_VALUE, <<>>)

HeaderSize == 5
-----------------------------------------------------------------------------
(* n bytes of a number, the least significant first; \div rounds down, like *)
(* the arithmetic shift of the code, so negative numbers come out in two's  *)
(* complement.                                                              *)
RECURSIVE LittleEndian(_, _)
LittleEndian(v, n) ==
  IF n = 0 THEN <<>> ELSE <<v % 256>> \o LittleEndian(v \div 256, n - 1)

(* The unsigned number four bytes encode. *)
ReadLength(buf) == buf[2] + 256 * (buf[3] + 256 * (buf[4] + 256 * buf[5]))

ReadInt64Unsigned(bytes) ==    \* mutant: only the low bytes are shifted in
  FoldRight(LAMBDA b, acc : 256 * acc + b, SubSeq(bytes, 1, 3), 0)

(* The signed number eight bytes encode: the last byte carries the sign. *)
ReadInt64(bytes) ==
  LET top == IF Last(bytes) >= 128 THEN Last(bytes) - 256 ELSE Last(bytes)
  IN  FoldRight(LAMBDA b, acc : 256 * acc + b, Front(bytes), top)

Header(type, length) == <<type>> \o LittleEndian(length, 4)

RECURSIVE Serialize(_)
Serialize(m) ==
  IF m.type \in Strings THEN Header(m.type, Len(m.value)) \o m.value
  ELSE IF m.type = INTEGER THEN Header(INTEGER, 8) \o LittleEndian(m.value, 8)
  ELSE IF m.type = ARRAY
       THEN Header(ARRAY, Len(m.value)) \o
              FlattenSeq([i \in DOMAIN m.value |-> Serialize(m.value[i])])
  ELSE Header(NULL_VALUE, 0)

SerializeMessages(messages) ==
  FlattenSeq([i \in DOMAIN messages |-> Serialize(messages[i])])

-----------------------------------------------------------------------------
HasMessageStrict(buf) ==    \* mutant: > where the code says >=
  /\ Len(buf) > HeaderSize
  /\ buf[1] = ARRAY \/ Len(buf) > HeaderSize + ReadLength(buf)

HasMessageByHeader(buf) ==    \* mutant: the length is not looked at
  Len(buf) >= HeaderSize

(* has_message: an array counts as complete once its header is there.  The  *)
(* sums of lengths stay far below the 2^32 where the code's would wrap.     *)
HasMessage(buf) ==
  /\ Len(buf) >= HeaderSize
  /\ buf[1] = ARRAY \/ Len(buf) >= HeaderSize + ReadLength(buf)

ConsumeBytes(buf, count) == IF count >= Len(buf) THEN <<>> ELSE SubSeq(buf, count + 1, Len(buf))

(* What a parse_ function returns, and the buffer it leaves. *)
Parsed(m, buf) == [msg |-> m, rest |-> buf]

ParseTextKeepsHeader(type, buf, length) ==    \* mutant: consumes the payload's length only
  IF Len(buf) < HeaderSize + length THEN Parsed(NullPtr, buf)
  ELSE Parsed(Message(type, SubSeq(buf, HeaderSize + 1, HeaderSize + length)),
              ConsumeBytes(buf, length))

ParseText(type, buf, length) ==
  IF Len(buf) < HeaderSize + length THEN Parsed(NullPtr, buf)
  ELSE Parsed(Message(type, SubSeq(buf, HeaderSize + 1, HeaderSize + length)),
              ConsumeBytes(buf, HeaderSize + length))

ParseSimpleString(buf, length) == ParseText(SIMPLE_STRING, buf, length)
ParseError(buf, length)        == ParseText(ERROR_MSG, buf, length)
ParseBulkString(buf, length)   == ParseText(BULK_STRING, buf, length)

ParseInteger(buf, length) ==
  IF length # 8 \/ Len(buf) < HeaderSize + 8 THEN Parsed(NullPtr, buf)
  ELSE Parsed(Message(INTEGER, ReadInt64(SubSeq(buf, HeaderSize + 1, HeaderSize + 8))),
              ConsumeBytes(buf, HeaderSize + 8))

(* parse_array consumes as it goes: when an element is missing, the header  *)
(* and the elements before it are gone from the buffer.                     *)
RECURSIVE ParseMessage(_), ParseElements(_, _, _)
ParseElements(buf, count, array) ==
  IF count = 0 THEN Parsed(Message(ARRAY, array), buf)
  ELSE LET elem == ParseMessage(buf)
       IN  IF elem.msg = NullPtr THEN elem
           ELSE ParseElements(elem.rest, count - 1, Append(array, elem.msg))

ParseArrayResets(buf, count) ==    \* mutant: a missing element clears the buffer
  LET result == ParseElements(ConsumeBytes(buf, HeaderSize), count, <<>>)
  IN  IF result.msg = NullPtr THEN Parsed(NullPtr, <<>>) ELSE result

(* reserve(count), which a count of many millions would fail by throwing,   *)
(* is left out: the counts here are those of arrays that were serialized.   *)
ParseArray(buf, count) == ParseElements(ConsumeBytes(buf, HeaderSize), count, <<>>)

(* parse_message; an unknown type clears the buffer. *)
ParseMessage(buf) ==
  IF Len(buf) < HeaderSize THEN Parsed(NullPtr, buf)
  ELSE LET type   == buf[1]
           length == ReadLength(buf)
       IN  CASE type = SIMPLE_STRING -> ParseSimpleString(buf, length)
             [] type = ERROR_MSG     -> ParseError(buf, length)
             [] type = INTEGER       -> ParseInteger(buf, length)
             [] type = BULK_STRING   -> ParseBulkString(buf, length)
             [] type = ARRAY         -> ParseArray(buf, length)
             [] type = NULL_VALUE    -> Parsed(NullMessage, ConsumeBytes(buf, HeaderSize))
             [] OTHER                -> Parsed(NullPtr, <<>>)
=============================================================================
