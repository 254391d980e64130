------------------------------- MODULE MCWire -------------------------------
(* WireJs with short names and payloads that look like parts of a header. *)
EXTENDS WireInv, TLC

\* An id that looks like the size of a name, and like a type.
MCId == <<0, 0, 1, 101>>
\* Names and payloads that begin like numbers or like a message, or have a character of
\* two bytes.
MCNames == {<<1>>, <<0, 200>>, <<101, 0, 0, 1>>}
MCNamesEmpty == {<<>>}
MCPayloads == {<<>>, <<200>>, <<102, 0, 1>>}
MCTextPayloads == {<<>>, <<102, 0, 1>>}
\* A character of two bytes; one of two units of UTF-16; a zero in the middle.
MCWidePayloads == {<<200>>}
MCAstralPayloads == {<<300>>}
MCNulPayloads == {<<1, 199, 1>>}

\* The premises of the theorems about WireJs.
ASSUME PremisesHold == NamesNotEmpty /\ StringsPlain /\ NumbersSigned
=============================================================================
