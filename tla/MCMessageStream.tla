---------------------------- MODULE MCMessageStream ----------------------------
(***************************************************************************)
(* MessageStream with bytes of four bits, for TLC: a payload of six bytes  *)
(* needs the longer header, an id of four needs two bytes, and the value   *)
(* -100 needs three.                                                       *)
(***************************************************************************)
EXTENDS MessageStream

MCMask == <<5, 12, 3, 10>>

Control == <<9>>
Shift   == <<2, 13>>

\* Item 4 is a command, item 2 a choice, item 1 is one the program lacks.
MCMessages == {
  Query, Close, Update(2, 3, <<>>), Update(1, 1, <<>>), Update(4, -100, <<>>),
  Update(4, 0, <<Control, Shift>>)}

==============================================================================
