----------------------------- MODULE MCDBModule -----------------------------
(***************************************************************************)
(* Instances of DBModule for TLC.  Two items whose texts are literals, and *)
(* one whose base64 text is the name of a column.                          *)
(***************************************************************************)
EXTENDS DBModule

EncodeOf == [i \in Items |-> IF i = "c" THEN "Data" ELSE "base64 " \o i]

LiteralTexts == {"base64 a", "base64 b"}

\* a single item, two items, an item that is no literal
SomeMessages == {<<"a">>, <<"a", "b">>, <<"c">>}
==============================================================================
