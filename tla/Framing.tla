------------------------------ MODULE Framing ------------------------------
(***************************************************************************)
(* The binary protocol as its users see it: messages become bytes, and a    *)
(* parser finds messages at the front of a buffer.  Server and Client take  *)
(* the three operations as parameters; their runs give them the values that *)
(* Protocol defines, and their proofs hold for every codec with the         *)
(* properties below.                                                        *)
(***************************************************************************)
EXTENDS Integers, SequencesExt

CONSTANTS NullPtr,            \* the null MessagePtr
          serialize(_),       \* the bytes of a message
          has_message(_),     \* does the parser with this buffer announce a message?
          parse_message(_)    \* what it returns, and the buffer it leaves

Byte == 0 .. 255

(* The bytes of m are announced and parsed when they are all there, and     *)
(* what follows them stays in the buffer.                                   *)
Framed(m, tail) ==
  /\ has_message(serialize(m) \o tail)
  /\ parse_message(serialize(m) \o tail) = [msg |-> m, rest |-> tail]

(* The first n bytes of m are no message, and stay in the buffer.           *)
Awaited(m, n) ==
  LET buf == SubSeq(serialize(m), 1, n)
  IN  ~has_message(buf) /\ parse_message(buf) = [msg |-> NullPtr, rest |-> buf]

(* The first n bytes of m are announced as a message, but taken for none:   *)
(* the parser keeps some of them or none.                                   *)
Torn(m, n) ==
  LET buf == SubSeq(serialize(m), 1, n)
  IN  has_message(buf) /\ parse_message(buf).msg = NullPtr
=============================================================================
