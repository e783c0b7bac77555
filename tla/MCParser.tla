------------------------------ MODULE MCParser ------------------------------
(* Messages for model checking: every type, empty and nested values, a      *)
(* negative and a two-byte integer, and payload bytes that look like types. *)
EXTENDS Parser

Texts == {Message(BULK_STRING, <<>>), Message(BULK_STRING, <<ARRAY, 0>>),
          Message(SIMPLE_STRING, <<BULK_STRING>>), Message(ERROR_MSG, <<255>>)}

Numbers == {Message(INTEGER, -2), Message(INTEGER, 300)}

Arrays == {Message(ARRAY, <<>>),
           Message(ARRAY, <<Message(BULK_STRING, <<7>>), NullMessage>>),
           Message(ARRAY, <<Message(ARRAY, <<Message(INTEGER, -1)>>), Message(ARRAY, <<>>)>>)}

AllMessages == Texts \cup Numbers \cup Arrays \cup {NullMessage}
=============================================================================
