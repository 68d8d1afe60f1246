-------------------------- MODULE MessageParser --------------------------
(***************************************************************************)
(* The framing of src/src/protocol/parser.ts as pure operators, and the    *)
(* decoding of a chunk that every caller performs in front of it           *)
(* (data.toString("utf-8") in handler.ts and tcp-client.ts).               *)
(*                                                                         *)
(* A character is whatever the caller's alphabet holds; the parser only    *)
(* knows the delimiter and the white space that trim() strips.  A chunk is *)
(* a sequence of bytes: a character of one byte is its own byte, and the   *)
(* one character of two bytes, Wide, is the bytes Lead and Cont.           *)
(***************************************************************************)
EXTENDS Naturals, Sequences, SequencesExt

CONSTANT MaxMessageLength  \* PROTOCOL.MAX_MESSAGE_LENGTH, in characters

ASSUME ParserAssumption == MaxMessageLength \in Nat \ {0}

Delimiter == "nl"        \* PROTOCOL.MESSAGE_DELIMITER
White == {"sp", "nl"}    \* what String.trim() removes
Wide == "wide"           \* a character that takes two bytes in UTF-8
Lead == "lead"
Cont == "cont"
Replacement == "bad"     \* U+FFFD

---------------------------------------------------------------------------

\* Buffer.toString("utf-8") on one chunk: a lead byte and the continuation
\* byte behind it are one character, either of them alone is U+FFFD.
DecodeAt(chunk, i) ==
    LET follows == i > 1 /\ chunk[i - 1] = Lead
        followed == i < Len(chunk) /\ chunk[i + 1] = Cont
    IN CASE chunk[i] = Lead -> IF followed THEN <<Wide>> ELSE <<Replacement>>
         [] chunk[i] = Cont -> IF follows THEN <<>> ELSE <<Replacement>>
         [] OTHER           -> <<chunk[i]>>

\* Mutant: the bytes are taken for characters.
DecodeNothing(chunk) == chunk

Decode(chunk) == FlattenSeq([i \in 1 .. Len(chunk) |-> DecodeAt(chunk, i)])

\* String.trim()
Trim(text) ==
    LET ink == {i \in 1 .. Len(text) : text[i] \notin White}
    IN IF ink = {} THEN <<>> ELSE SubSeq(text, Min(ink), Max(ink))

\* "Only add non-empty messages"
Push(message, messages) ==
    IF message = <<>> THEN messages ELSE <<message>> \o messages

\* String.indexOf(delimiter): 0 when there is none.
IndexOfDelimiter(text) == SelectInSeq(text, LAMBDA c : c = Delimiter)

\* The while loop of feed(): cut off the text before the first delimiter
\* until there is no delimiter left.
Extract[text \in Seq(STRING)] ==
    LET i == IndexOfDelimiter(text)
        after == Extract[SubSeq(text, i + 1, Len(text))]
    IN IF i = 0
         THEN [messages |-> <<>>, rest |-> text]
         ELSE [messages |-> Push(Trim(SubSeq(text, 1, i - 1)), after.messages),
               rest |-> after.rest]

\* Mutant: the limit is compared before the last character is counted.
OneTooLong(rest) == Len(rest) > MaxMessageLength + 1

TooLong(rest) == Len(rest) > MaxMessageLength

\* Mutant: the partial message is not kept for the next chunk.
FeedForgets(buffer, data) ==
    LET result == Extract[buffer \o data]
    IN [messages |-> result.messages, buffer |-> <<>>,
        thrown |-> TooLong(result.rest)]

\* Mutant: a chunk that is refused leaves the buffer as it was.
FeedRollsBack(buffer, data) ==
    LET result == Extract[buffer \o data]
        refused == TooLong(result.rest)
    IN [messages |-> IF refused THEN <<>> ELSE result.messages,
        buffer |-> IF refused THEN buffer ELSE result.rest,
        thrown |-> refused]

\* feed(data): the messages completed by data, the new buffer, and whether
\* it threw; when it throws the messages extracted so far are lost with it.
Feed(buffer, data) ==
    LET result == Extract[buffer \o data]
    IN IF TooLong(result.rest)
         THEN [messages |-> <<>>, buffer |-> <<>>, thrown |-> TRUE]
         ELSE [messages |-> result.messages, buffer |-> result.rest,
               thrown |-> FALSE]

\* reset()
Reset == <<>>
==========================================================================
