-------------------------- MODULE MessageStream --------------------------
(***************************************************************************)
(* One direction of a connection: a text written by the peer arrives as    *)
(* bytes in chunks of the network's choosing, and the receiver's 'data'    *)
(* listener decodes each chunk and feeds it to its MessageParser.          *)
(***************************************************************************)
EXTENDS MessageParser, Framing

CONSTANTS
    Character,   \* the alphabet of the text, Wide among it
    MaxText      \* the longest text considered

\* Characters are characters and not bytes, those decoding puts in included.
ASSUME StreamAssumption ==
    /\ MaxText \in Nat
    /\ Character \cup {Replacement} \subseteq STRING \ {Lead, Cont}

VARIABLES
    text,      \* everything the peer writes, chosen at the start
    position,  \* bytes of it delivered so far
    buffer,    \* MessageParser.buffer
    messages,  \* everything feed() has returned, in order
    thrown,    \* feed() has thrown at least once
    torn       \* some chunk ended inside a character

vars == <<text, position, buffer, messages, thrown, torn>>

\* The bytes on the wire.
Bytes == FlattenSeq([i \in 1 .. Len(text) |->
            IF text[i] = Wide THEN <<Lead, Cont>> ELSE <<text[i]>>])

Init ==
    /\ text \in BoundedSeq(Character, MaxText)
    /\ position = 0
    /\ buffer = <<>>
    /\ messages = <<>>
    /\ thrown = FALSE
    /\ torn = FALSE

\* A 'data' event with the next bytes, up to position n.
Receive(n) ==
    LET result == Feed(buffer, Decode(SubSeq(Bytes, position + 1, n)))
    IN /\ buffer' = result.buffer
       /\ messages' = messages \o result.messages
       /\ thrown' = (thrown \/ result.thrown)
       /\ torn' = (torn \/ Bytes[n] = Lead)
       /\ position' = n
       /\ UNCHANGED text

Next == \E n \in position + 1 .. Len(Bytes) : Receive(n)

Spec == Init /\ [][Next]_vars

---------------------------------------------------------------------------
\* What has arrived so far, decoded as one piece.
Delivered == Decode(SubSeq(Bytes, 1, position))

---------------------------------------------------------------------------
(* Properties *)

\* Every variable stays in its range.
TypeOK ==
    /\ text \in Seq(Character)
    /\ position \in 0 .. Len(Bytes)
    /\ buffer \in Seq(Character \cup {Replacement})
    /\ messages \in Seq(Seq(Character \cup {Replacement}))
    /\ thrown \in BOOLEAN
    /\ torn \in BOOLEAN

\* Between two data events the parser holds no complete line and never more
\* than the limit, whatever the peer sends and however it is cut.
BufferBounded ==
    /\ Len(buffer) <= MaxMessageLength
    /\ DelimitersIn(buffer) = {}

\* For a text that keeps to the limit, chunking is invisible: the messages
\* are exactly the non-blank lines delivered, in order, nothing is refused,
\* and the buffer is the unfinished line.  A character cut in two by a chunk
\* is the one exception (ChunkingInvisible).
FramingExact ==
    (WithinLimit(Delivered) /\ ~torn)
        => messages = Messages(Delivered) /\ buffer = Partial(Delivered) /\ ~thrown

\* What an overflow destroys is bounded: the messages are lines of the text,
\* in order, at most one of each and never two lines joined.  Only a line
\* beyond the limit may be cut short, and only such a line, or one in front of
\* it whose message is thrown away with it, may be missing.
OverflowContained == ~torn => Salvaged(messages, Delivered)

\* README.md:377: the parser extracts complete messages "from arbitrary data
\* chunks", so the cut between two chunks may fall anywhere.
ChunkingInvisible ==
    WithinLimit(Delivered) => messages = Messages(Delivered)
==========================================================================
