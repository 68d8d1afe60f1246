----------------------------- MODULE Exchange -----------------------------
(***************************************************************************)
(* One conversation end to end: lines typed at the client's prompt         *)
(* (src/src/client/tcp-client.ts), the server's MessageParser and answers  *)
(* (src/src/server/handler.ts), and the client's own MessageParser, over a *)
(* TCP connection that cuts both directions into chunks wherever it likes. *)
(* Timeouts, whose ERROR line the client shows like a response, and        *)
(* connections broken from outside belong to ConnectionHandler and System; *)
(* characters of several bytes to MessageStream.                           *)
(***************************************************************************)
EXTENDS Requests, Subsequences

CONSTANTS
    Line,      \* the lines the user may type, white space included
    MaxLines   \* how many of them

\* readline hands out lines without their end; no answer but a quoting one is
\* beyond the limit by the server's own text.
ASSUME ExchangeAssumption ==
    /\ MaxLines \in Nat
    /\ MaxMessageLength > 1
    /\ \A line \in Line :
          line \in Seq(STRING) /\ \A i \in 1 .. Len(line) : line[i] # Delimiter

\* The server's fixed texts and the delimiter are characters, a fact about
\* literals that proofs have to be told.
ASSUME TextAssumption ==
    {Delimiter, "EVENT:", "WELCOME", "OK:", "ERROR:", "PONG", "usage", "now",
     "info", "Goodbye!", "Unknown", "Available", "TooLarge"} \subseteq STRING

VARIABLES
    typed,         \* the trimmed lines the client has sent
    isQuitting,    \* TCPClient.isQuitting
    toServer,      \* characters on their way to the server
    serverBuffer,  \* the buffer of the connection's parser
    ended,         \* the server has called end()
    broken,        \* a write after end() has destroyed the server's socket
    refused,       \* the server's feed() has thrown
    toClient,      \* characters on their way to the client
    clientBuffer,  \* the buffer of the client's parser
    events,        \* "EVENT:" messages the client has displayed
    replies,       \* other messages it has displayed
    crashed        \* the client's feed() has thrown, uncaught

serverVars == <<serverBuffer, ended, broken, refused>>
clientVars == <<clientBuffer, events, replies, crashed>>
vars == <<typed, isQuitting, toServer, toClient, serverVars, clientVars>>

\* What write() puts on the wire for each of some messages.
Wire(messages) == FlattenSeq([i \in 1 .. Len(messages) |-> Append(messages[i], Delimiter)])

Welcome == <<"EVENT:", "WELCOME">>

---------------------------------------------------------------------------

Init ==
    /\ typed = <<>>
    /\ isQuitting = FALSE
    /\ toServer = <<>>
    /\ serverBuffer = <<>>
    /\ ended = FALSE
    /\ broken = FALSE
    /\ refused = FALSE
    /\ toClient = Wire(<<Welcome>>)
    /\ clientBuffer = <<>>
    /\ events = <<>>
    /\ replies = <<>>
    /\ crashed = FALSE

\* What the prompt takes for QUIT: the whole line, in any letter case.
Quits(line) == Len(line) = 1 /\ UpperCase(Head(line)) = "QUIT"

\* The prompt's 'line' listener while connected; a blank line is ignored.
TypeLine(line) ==
    LET trimmed == Trim(line)
    IN /\ ~crashed
       /\ Len(typed) < MaxLines
       /\ trimmed # <<>>
       /\ typed' = Append(typed, trimmed)
       /\ isQuitting' = (isQuitting \/ Quits(trimmed))
       /\ toServer' = toServer \o Wire(<<trimmed>>)
       /\ UNCHANGED <<toClient, serverVars, clientVars>>

\* Mutant: QUIT does not end the loop.
UpToLast(messages) == messages

\* The messages of one chunk the server answers: those up to a QUIT.
UpToQuit(messages) ==
    LET quit == SelectInSeq(messages, IsQuit)
    IN IF quit = 0 THEN messages ELSE SubSeq(messages, 1, quit)

\* write() of some answers, the last of them end() if it is QUIT's.  On a
\* socket past its end() the first write destroys it, and what the socket
\* still has queued is lost.
Answer(answers, quit) ==
    \/ /\ ~ended
       /\ toClient' = toClient \o Wire(answers)
       /\ ended' = quit
       /\ UNCHANGED broken
    \/ /\ ended /\ answers = <<>>
       /\ UNCHANGED <<toClient, ended, broken>>
    \/ /\ ended /\ answers # <<>>
       /\ broken' = TRUE
       /\ \E n \in 0 .. Len(toClient) : toClient' = SubSeq(toClient, 1, n)
       /\ UNCHANGED ended

\* The server's 'data' handler for the next n characters.
ServerData(n) ==
    LET result == Feed(serverBuffer, SubSeq(toServer, 1, n))
        asked == UpToQuit(result.messages)
    IN /\ ~broken
       /\ toServer' = SubSeq(toServer, n + 1, Len(toServer))
       /\ serverBuffer' = result.buffer
       /\ refused' = (refused \/ result.thrown)
       /\ IF result.thrown
            THEN Answer(<<FormatResponse("ERROR:", <<"TooLarge">>)>>, FALSE)
            ELSE Answer([i \in 1 .. Len(asked) |-> Respond(asked[i])],
                        asked # <<>> /\ IsQuit(Last(asked)))
       /\ UNCHANGED <<typed, isQuitting, clientVars>>

IsEvent(message) == Head(message) = "EVENT:"

\* Mutant: every message is displayed as a response.
ShowAll(messages) == replies' = replies \o messages /\ UNCHANGED events

\* The client's 'data' handler shows server events and responses apart.
Show(messages) ==
    LET serverEvents == {m \in ToSet(messages) : IsEvent(m)}
    IN /\ events' = events \o Among(messages, serverEvents)
       /\ replies' = replies \o Among(messages, ToSet(messages) \ serverEvents)

\* The client's 'data' handler for the next n characters; what feed() throws
\* nobody catches.
ClientData(n) ==
    LET result == Feed(clientBuffer, SubSeq(toClient, 1, n))
    IN /\ ~crashed
       /\ toClient' = SubSeq(toClient, n + 1, Len(toClient))
       /\ clientBuffer' = result.buffer
       /\ crashed' = result.thrown
       /\ Show(result.messages)
       /\ UNCHANGED <<typed, isQuitting, toServer, serverVars>>

Next ==
    \/ \E line \in Line : TypeLine(line)
    \/ \E n \in 1 .. Len(toServer) : ServerData(n)
    \/ \E n \in 1 .. Len(toClient) : ClientData(n)

Spec == Init /\ [][Next]_vars

---------------------------------------------------------------------------
(* Properties *)

\* Every variable stays in its range, and both parsers keep to the limit.
TypeOK ==
    /\ typed \in Seq(Seq(STRING)) /\ Len(typed) <= MaxLines
    /\ {toServer, toClient, serverBuffer, clientBuffer} \subseteq Seq(STRING)
    /\ \A buffer \in {serverBuffer, clientBuffer} : Len(buffer) <= MaxMessageLength
    /\ {events, replies} \subseteq Seq(Seq(STRING))
    /\ {isQuitting, ended, broken, refused, crashed} \subseteq BOOLEAN

\* The lines that are due an answer: all up to the first QUIT.
Due == UpToQuit(typed)

Overlong(message) == Len(message) > MaxMessageLength

\* What the client displays as responses are the answers to the lines typed,
\* one each and in order, through two parsers and any cut of the two
\* directions; nothing is displayed behind the answer to QUIT.  Once
\* everything has arrived none is missing, unless a line typed behind QUIT
\* has made the server break the connection.  A line beyond the limit may be
\* refused instead; the ERROR line of a timeout, shown as a response too, is
\* outside this module.
RepliesFollowRequests ==
    (\A i \in 1 .. Len(typed) : ~Overlong(typed[i])) =>
        LET expected == [i \in 1 .. Len(Due) |-> Respond(Due[i])]
        IN /\ IsPrefix(replies, expected)
           /\ (toServer = <<>> /\ toClient = <<>> /\ ~crashed) =>
                 replies = expected \/ (broken /\ Len(Due) < Len(typed))

\* ECHO is faithful: the text behind its first space comes back as typed,
\* inner and leading spaces included.
EchoIntact ==
    \A i \in 1 .. Len(replies) :
        (~refused /\ i <= Len(typed) /\ IsPrefix(<<"ECHO", "sp">>, typed[i]))
            => Tail(replies[i]) = SubSeq(typed[i], 3, Len(typed[i]))

\* Client and server parse QUIT by different rules: whatever the client takes
\* for QUIT the server does too, and ends the connection.  (The converse
\* fails: "QUIT now" is QUIT for the server only.)
QuitUnderstood ==
    (isQuitting /\ toServer = <<>> /\ ~refused) => ended

\* The client dies of nothing but what its user typed: an overlong line, or
\* an unknown command that is beyond the limit once it is quoted in full.
OnlyLongRepliesKill ==
    crashed =>
        \E i \in 1 .. Len(typed) :
            \/ Overlong(typed[i])
            \/ /\ ParseRequest(typed[i]) = NoRequest
               /\ Overlong(Respond(typed[i]))

\* README.md:32: data that "arrives in chunks" is buffered and scanned for
\* the delimiter; a response cut into chunks is not fatal to the client.
ChunksAreHarmless == ~crashed
==========================================================================
