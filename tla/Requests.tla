----------------------------- MODULE Requests -----------------------------
(***************************************************************************)
(* The two formats of src/src/protocol on top of the framing: parseRequest *)
(* of parser.ts, executeCommand and the unknown-command branch of          *)
(* src/src/server/handler.ts, and formatResponse of protocol.ts.           *)
(*                                                                         *)
(* A command name counts as one character, and so does every fixed text of *)
(* the server; what is kept of lengths is that the answer to ECHO is       *)
(* shorter than the request, and the answer to an unknown command longer.  *)
(***************************************************************************)
EXTENDS MessageParser

\* enum Command, in upper and in lower case
Command == {"PING", "ECHO", "TIME", "INFO", "QUIT"}

\* String.toUpperCase()
UpperCase(c) == IF c = "quit" THEN "QUIT" ELSE IF c = "echo" THEN "ECHO" ELSE c

\* A message that is no request: parseRequest returned null.
NoRequest == [command |-> "none", args |-> <<>>]

\* Mutant: the whole message is compared with the commands.
ParseWhole(message) ==
    IF Len(message) = 1 /\ UpperCase(Head(message)) \in Command
      THEN [command |-> UpperCase(Head(message)), args |-> <<>>]
      ELSE NoRequest

\* parseRequest(): cut at the first space, compare in upper case.
ParseRequest(message) ==
    LET text == Trim(message)
        space == SelectInSeq(text, LAMBDA c : c = "sp")
        name == IF space = 0 THEN text ELSE SubSeq(text, 1, space - 1)
        args == IF space = 0 THEN <<>> ELSE SubSeq(text, space + 1, Len(text))
    IN IF Len(name) = 1 /\ UpperCase(Head(name)) \in Command
         THEN [command |-> UpperCase(Head(name)), args |-> args]
         ELSE NoRequest

\* formatResponse(), without the delimiter.
FormatResponse(status, message) == <<status>> \o message

\* Mutant: the command is echoed with its text.
EchoVerbose(args) == <<"ECHO", "sp">> \o args

\* What ECHO sends back.
EchoText(args) == args

\* executeCommand(); INFO and TIME are a fixed text each.
ExecuteCommand(request) ==
    CASE request.command = "PING" -> FormatResponse("OK:", <<"PONG">>)
      [] request.command = "ECHO" ->
           IF request.args = <<>> THEN FormatResponse("ERROR:", <<"usage">>)
                                  ELSE FormatResponse("OK:", EchoText(request.args))
      [] request.command = "TIME" -> FormatResponse("OK:", <<"now">>)
      [] request.command = "INFO" -> FormatResponse("OK:", <<"info">>)
      [] request.command = "QUIT" -> FormatResponse("OK:", <<"Goodbye!">>)

\* What is sent in answer to one message: an unknown command is quoted in
\* full between two fixed texts.
Respond(message) ==
    IF ParseRequest(message) = NoRequest
      THEN FormatResponse("ERROR:", <<"Unknown">> \o message \o <<"Available">>)
      ELSE ExecuteCommand(ParseRequest(message))

\* The request closes the connection.
IsQuit(message) == ParseRequest(message).command = "QUIT"
==========================================================================
