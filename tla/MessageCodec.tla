----------------------------- MODULE MessageCodec -----------------------------
(***************************************************************************)
(* The messages of a browser: how the user interface writes them, and how  *)
(* MessageHandler reads integers and strings of variable length and finds  *)
(* the item that a message is for.                                         *)
(*                                                                         *)
(* Everything is in bytes, but a byte may be narrower than eight bits: all *)
(* limits of the protocol follow from Sign, which is 64 in the program.    *)
(***************************************************************************)
EXTENDS Integers, SequencesExt

CONSTANTS
  Sign,         \* the sign bit in the first byte of an integer: 64
  Commands,     \* ids of the ItemCommands
  Selections    \* ids of the ItemChoices

More == 2 * Sign          \* the bit that says that more bytes follow: 128
Byte == 0..(4 * Sign - 1)

ASSUME SignAssumption == Sign \in {4, 8, 16, 32, 64}
ASSUME ItemsAssumption == Commands \intersect Selections = {}

------------------------------------------------------------------------------
(* Message.cpp: integers and strings.                                       *)

TELEMETRY_UPDATE == 1
TELEMETRY_QUERY  == 3

\* Unsigned integers are written in groups of seven bits, the lowest first.
write_unsigned_integer[v \in Nat] ==
  IF v < More THEN <<v>>
              ELSE <<More + (v % More)>> \o write_unsigned_integer[v \div More]

\* The first group of a signed integer has the sign and six bits.
write_signed_integer(v) ==
  LET m     == IF v < 0 THEN -v ELSE v
      first == (IF v < 0 THEN Sign ELSE 0) + (m % Sign)
  IN  IF m < Sign THEN <<first>>
                  ELSE <<More + first>> \o write_unsigned_integer[m \div Sign]

write_string(s) == write_unsigned_integer[Len(s)] \o s

\* The groups at the start of s and what follows them, or not ok if s ends
\* before they do; value then has no meaning.
read_groups[s \in Seq(Byte)] ==
  IF s = <<>> THEN [ok |-> FALSE, value |-> 0, rest |-> s]
  ELSE IF Head(s) < More THEN [ok |-> TRUE, value |-> Head(s), rest |-> Tail(s)]
  ELSE LET higher == read_groups[Tail(s)]
       IN  [ok    |-> higher.ok,
            value |-> (Head(s) % More) + More * higher.value,
            rest  |-> higher.rest]

\* The integer at the start of s.  The code reads none but signed ones.
read_int(s) ==
  IF s = <<>> THEN [ok |-> FALSE, value |-> 0, rest |-> s]
  ELSE LET higher == IF Head(s) < More THEN [ok |-> TRUE, value |-> 0, rest |-> Tail(s)]
                                       ELSE read_groups[Tail(s)]
           m == (Head(s) % Sign) + Sign * higher.value
       IN  [ok    |-> higher.ok,
            value |-> IF (Head(s) \div Sign) % 2 = 1 THEN -m ELSE m,
            rest  |-> higher.rest]

\* A string is its length and its characters; "" where nothing is left.  No
\* message has a length that its bytes do not bear out, with which the code
\* would return what happens to be in memory.
read_string(s) ==
  LET length == read_int(s)
  IN  IF length.ok /\ length.value \in 0..Len(length.rest)
        THEN [value |-> SubSeq(length.rest, 1, length.value),
              rest  |-> SubSeq(length.rest, length.value + 1, Len(length.rest))]
        ELSE [value |-> <<>>, rest |-> length.rest]

------------------------------------------------------------------------------
(* MessageHandler::handle and deserialize_value of the items.               *)

Query == [type |-> TELEMETRY_QUERY]
Press(id, value, modifiers) ==
  [item |-> id, value |-> value, modifiers |-> modifiers]
Choose(id, selected) == [item |-> id, selected |-> selected]

Modifiers[s \in Seq(Byte)] ==
  LET next == read_string(s)
  IN  IF next.value = <<>> THEN {} ELSE {next.value} \union Modifiers[next.rest]

deserialize_value(id, s) ==
  LET value == read_int(s)
  IN  IF id \in Commands THEN Press(id, value.value, Modifiers[value.rest])
                         ELSE Choose(id, value.value)

\* What a payload makes the handler do: nothing if it throws, as it does for
\* an item that it does not know.
handle(payload) ==
  LET type == read_int(payload)
      id   == read_int(type.rest)
  IN  CASE type.value = TELEMETRY_QUERY -> <<Query>>
        [] type.value = TELEMETRY_UPDATE /\ id.value \in Commands \union Selections ->
             <<deserialize_value(id.value, id.rest)>>
        [] OTHER -> <<>>

------------------------------------------------------------------------------
(* The user interface.                                                      *)

Close == [type |-> -1]
Update(id, value, modifiers) ==
  [type |-> TELEMETRY_UPDATE, item |-> id, value |-> value,
   modifiers |-> modifiers]

\* The names of keys.
Modifier == {s \in Seq(Byte) : Len(s) \in 1 .. Sign - 1}

Message == {Query, Close}
  \union [type : {TELEMETRY_UPDATE}, item : Int, value : Int, modifiers : Seq(Modifier)]

\* The peer writes as the program does; a choice comes without modifiers.
Payload(m) ==
  IF m = Close THEN <<>>
  ELSE IF m = Query THEN write_unsigned_integer[TELEMETRY_QUERY]
  ELSE write_unsigned_integer[TELEMETRY_UPDATE]
         \o write_signed_integer(m.item) \o write_signed_integer(m.value)
         \o FlattenSeq([i \in DOMAIN m.modifiers |-> write_string(m.modifiers[i])])

==============================================================================
