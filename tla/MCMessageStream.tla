------------------------- MODULE MCMessageStream -------------------------
(* Small instances of MessageStream for TLC. *)
EXTENDS MessageStream

\* One plain character, one space, the delimiter and one of two bytes.
FourCharacters == {"a", "sp", "nl", "wide"}
==========================================================================
