------------------------ MODULE ConnectionHandler ------------------------
(***************************************************************************)
(* One accepted connection: handleConnection() and executeCommand() of     *)
(* src/src/server/handler.ts, the counters of its MetricsTracker record,   *)
(* and the way out of the server, of which the handler only sees write()   *)
(* and end(): messages queue in user space until the kernel, and through   *)
(* it the peer, takes them.                                                *)
(*                                                                         *)
(* Of an answer only its kind is kept, and of INFO's the two counters it   *)
(* reports; Exchange has what the answers say.  The client's text is       *)
(* chosen at the start and arrives in chunks cut anywhere.                 *)
(***************************************************************************)
EXTENDS NetSocket, Requests, Framing

CONSTANTS
    Character,  \* the client's alphabet: commands, the delimiter, ...
    MaxText,    \* the longest text a client sends
    Window,     \* messages the kernel holds for a peer that does not read
    IdleTicks   \* clock ticks in the 5-minute idle timeout

\* Every character is one byte and not a part of one.
ASSUME HandlerAssumption ==
    /\ Character \subseteq STRING \ {Lead, Cont}
    /\ MaxText \in Nat
    /\ Window \in Nat \ {0}
    /\ IdleTicks \in Nat \ {0}

VARIABLES
    text,      \* what the client sends
    position,  \* how much of it has been delivered
    sock,      \* the socket
    error,     \* what destroyed it, if not a normal close
    timer,     \* ticks until 'timeout' fires, or Off
    buffer,    \* MessageParser.buffer
    out,       \* everything write() and end() accepted, in order
    taken,     \* how much of it the peer has read
    metrics,   \* the counters of the connection's record
    reports    \* messages in and out as each INFO answer reported them

vars == <<text, position, sock, error, timer, buffer, out, taken, metrics, reports>>

Off == IdleTicks + 1

Errors == {"none", "writeAfterEnd", "reset"}

\* Messages the server can send.
Answers == {"ok", "info", "unknown", "goodbye"}
Notices == {"welcome", "tooLong", "timedOut"}

\* Messages of out that are in the kernel's hands or beyond; the others wait
\* in the socket's own queue behind the one being written.
Handed == Min({Len(out), taken + Window})
Queued == Len(out) - Handed

\* The record created by addConnection() and the one left by
\* removeConnection().
Fresh == [bytes |-> 0, received |-> 0, sent |-> 0]

---------------------------------------------------------------------------

\* handleConnection(): the record, the welcome message, the idle timer.
Init ==
    /\ text \in BoundedSeq(Character, MaxText)
    /\ position = 0
    /\ sock = Accepted
    /\ error = "none"
    /\ timer = IdleTicks
    /\ buffer = <<>>
    /\ out = <<"welcome">>
    /\ taken = 0
    /\ metrics = Fresh
    /\ reports = <<>>

\* The socket becomes k; a destroyed socket has no timer.
Becomes(k, t) == sock' = k /\ timer' = IF Open(k) THEN t ELSE Off

\* parseRequest() and executeCommand(): the kind of answer to one message.
Answer(message) ==
    LET command == ParseRequest(message).command
    IN CASE command = "none" -> "unknown"
         [] command = "QUIT" -> "goodbye"
         [] command = "INFO" -> "info"
         [] OTHER            -> "ok"

\* Mutant: the loop goes on behind QUIT.
AnswerEvery(messages) ==
    [i \in 1 .. Len(messages) |-> Answer(messages[i])]

\* The loop over the messages of one chunk: QUIT returns from the handler
\* and leaves the rest of them unanswered.
AnswersTo(messages) ==
    LET answers == [i \in 1 .. Len(messages) |-> Answer(messages[i])]
        quit == SelectInSeq(answers, LAMBDA a : a = "goodbye")
    IN IF quit = 0 THEN answers ELSE SubSeq(answers, 1, quit)

\* Mutant: QUIT destroys the socket behind its goodbye instead of ending it.
SendAndDestroy(msgs) ==
    IF msgs = <<>> \/ ~CanWrite(sock)
      THEN Becomes(Write(sock), IdleTicks) /\ UNCHANGED <<out, error>>
      ELSE /\ Becomes(IF Last(msgs) = "goodbye" THEN Destroy(sock) ELSE sock,
                      IdleTicks)
           /\ out' = out \o msgs
           /\ UNCHANGED error

\* write(msg) for each message, end(msg) for a goodbye: an open socket takes
\* them all, a socket past its end() is destroyed by the first.
Send(msgs) ==
    IF msgs = <<>>
      THEN Becomes(sock, IdleTicks) /\ UNCHANGED <<out, error>>
      ELSE IF CanWrite(sock)
        THEN /\ Becomes(IF Last(msgs) = "goodbye" THEN EndWith(sock) ELSE Write(sock),
                        IdleTicks)
             /\ out' = out \o msgs
             /\ UNCHANGED error
        ELSE /\ Becomes(Write(sock), Off)
             /\ error' = "writeAfterEnd"
             /\ UNCHANGED out

\* Mutant: the answers are not counted.
RecordReceived(bytes, received, sent) ==
    metrics' = [metrics EXCEPT !.bytes = @ + bytes, !.received = @ + received]

\* metrics.recordReceived() and one metrics.recordSent() per answer, whether
\* or not the socket still accepted it.
Record(bytes, received, sent) ==
    metrics' = [metrics EXCEPT !.bytes = @ + bytes, !.received = @ + received,
                               !.sent = @ + sent]

\* The answers to INFO among some answers.
Infos(answers) == {i \in 1 .. Len(answers) : answers[i] = "info"}

\* Mutant: an answer is counted before it is made.
ReportItself(received, answers) ==
    [k \in 1 .. Cardinality(Infos(answers)) |->
        [received |-> metrics.received + received,
         sent |-> metrics.sent + Len(answers)]]

\* getConnectionInfo() for each INFO among the answers to one chunk: all its
\* messages are counted already, its answers one after the other.
Report(received, answers) ==
    [k \in 1 .. Cardinality(Infos(answers)) |->
        [received |-> metrics.received + received,
         sent |-> metrics.sent + Nth(Infos(answers), k) - 1]]

Receiving == Open(sock) /\ ~sock.eof

\* The 'data' handler for the bytes up to position n.
Data(n) ==
    /\ Receiving
    /\ LET result == Feed(buffer, Decode(SubSeq(text, position + 1, n)))
           answers == AnswersTo(result.messages)
       IN /\ buffer' = result.buffer
          /\ IF result.thrown
               THEN Send(<<"tooLong">>) /\ UNCHANGED <<metrics, reports>>
               ELSE /\ Send(answers)
                    /\ Record(n - position, Len(result.messages), Len(answers))
                    /\ reports' = reports \o
                         (IF CanWrite(sock)
                            THEN Report(Len(result.messages), answers) ELSE <<>>)
    /\ position' = n
    /\ UNCHANGED <<text, taken>>

\* The client's FIN ('end'): the handler only logs, Node ends the socket.
End ==
    /\ Receiving
    /\ Becomes(Eof(sock), IdleTicks)
    /\ UNCHANGED <<text, position, error, buffer, out, taken, metrics, reports>>

\* Everything written is in the kernel, and the FIN goes out.
Finished ==
    /\ Open(sock) /\ sock.ending /\ ~sock.finished
    /\ Queued = 0
    /\ Becomes(Finish(sock), timer)
    /\ UNCHANGED <<text, position, error, buffer, out, taken, metrics, reports>>

\* The peer reads one message.  If others are queued the kernel takes the
\* next one, which completes a write and re-arms the timer.  What the kernel
\* holds still reaches the peer after a normal close.
Take ==
    /\ error = "none"
    /\ taken < Handed
    /\ Open(sock) \/ sock.finished
    /\ taken' = taken + 1
    /\ timer' = IF Open(sock) /\ Queued > 0 THEN IdleTicks ELSE timer
    /\ UNCHANGED <<text, position, sock, error, buffer, out, metrics, reports>>

\* The peer resets the connection ('error').
SocketError ==
    /\ Open(sock)
    /\ Becomes(Destroy(sock), Off)
    /\ error' = "reset"
    /\ UNCHANGED <<text, position, buffer, out, taken, metrics, reports>>

\* Mutant: the notice is written and the connection stays open.
TimeoutWrites ==
    /\ Open(sock) /\ timer = 0
    /\ CanWrite(sock)
    /\ Becomes(sock, IdleTicks)
    /\ out' = Append(out, "timedOut")
    /\ UNCHANGED <<text, position, error, buffer, taken, metrics, reports>>

\* Mutant: a second timeout is ignored.
TimeoutOnce ==
    /\ Open(sock) /\ timer = 0
    /\ IF CanWrite(sock)
         THEN /\ Becomes(EndWith(sock), IF Queued = 0 THEN IdleTicks ELSE Off)
              /\ out' = Append(out, "timedOut")
         ELSE Becomes(sock, Off) /\ UNCHANGED out
    /\ UNCHANGED <<text, position, error, buffer, taken, metrics, reports>>

\* The 'timeout' handler: end(msg).  The message re-arms the timer unless it
\* has to wait behind a write; on a socket already past its end() it is a
\* write after end.
Timeout ==
    /\ Open(sock) /\ timer = 0
    /\ IF CanWrite(sock)
         THEN /\ Becomes(EndWith(sock), IF Queued = 0 THEN IdleTicks ELSE Off)
              /\ out' = Append(out, "timedOut")
              /\ UNCHANGED error
         ELSE /\ Becomes(EndWith(sock), Off)
              /\ error' = "writeAfterEnd"
              /\ UNCHANGED out
    /\ UNCHANGED <<text, position, buffer, taken, metrics, reports>>

\* Mutant: an expired timer keeps counting.
TickExpired ==
    /\ timer \in 0 .. IdleTicks
    /\ timer' = timer - 1
    /\ UNCHANGED <<text, position, sock, error, buffer, out, taken, metrics, reports>>

Tick ==
    /\ timer \in 1 .. IdleTicks
    /\ timer' = timer - 1
    /\ UNCHANGED <<text, position, sock, error, buffer, out, taken, metrics, reports>>

\* The 'close' event: removeConnection() and parser.reset().
Close ==
    /\ Destroyed(sock)
    /\ Becomes(EmitClose(sock), Off)
    /\ metrics' = Fresh
    /\ buffer' = Reset
    /\ UNCHANGED <<text, position, error, out, taken, reports>>

Next ==
    \/ \E n \in position + 1 .. Len(text) : Data(n)
    \/ End
    \/ Finished
    \/ Take
    \/ SocketError
    \/ Timeout
    \/ Tick
    \/ Close

Spec == Init /\ [][Next]_vars

\* What the event loop, the kernel and the clock owe every connection.  No
\* client is obliged to send, to leave or to answer the server's FIN.
ServerFairness ==
    /\ WF_vars(Finished)
    /\ WF_vars(Timeout)
    /\ WF_vars(Tick)
    /\ WF_vars(Close)

\* Any client, one that is alive and never reads included.
AnyClientSpec == Spec /\ ServerFairness

\* A client that keeps reading.
ReadingClientSpec == AnyClientSpec /\ WF_vars(Take)

---------------------------------------------------------------------------
(* Properties *)

Delivered == SubSeq(text, 1, position)

\* The answers among the messages sent.
Answered == Among(out, Answers)

Said(m) == m \in ToSet(out)

\* Every variable stays in its range.
TypeOK ==
    /\ text \in Seq(Character)
    /\ position \in 0 .. Len(text)
    /\ sock \in SocketStates
    /\ error \in Errors
    /\ timer \in 0 .. Off
    /\ buffer \in Seq(Character)
    /\ out \in Seq(Answers \cup Notices)
    /\ taken \in 0 .. Len(out)
    /\ metrics \in [bytes : Nat, received : Nat, sent : Nat]
    /\ reports \in Seq([received : Nat, sent : Nat])

\* The answers due to a list of messages: one each, up to the first QUIT.
Due(messages) ==
    LET due == {i \in 1 .. Len(messages) :
                  \A j \in 1 .. i - 1 : ~IsQuit(messages[j])}
    IN [i \in 1 .. Max(due \cup {0}) |-> Answer(messages[i])]

\* For a client that keeps to the length limit the server's answers are those
\* of its requests, one by one and in order, up to and including QUIT,
\* however the requests were cut into chunks; while the server still writes,
\* none is missing.
AnswersFollowRequests ==
    WithinLimit(Delivered) =>
        LET due == Due(Messages(Delivered))
        IN /\ IsPrefix(Answered, due)
           /\ CanWrite(sock) => Answered = due

\* The goodbye to a QUIT and the notice of a timeout are the last thing the
\* client is told, and the server never ends a connection of its own accord
\* without one of them.
FarewellIsLast ==
    /\ \A i \in 1 .. Len(out) - 1 : out[i] \notin {"goodbye", "timedOut"}
    /\ (sock.ending /\ ~sock.eof) => Last(out) \in {"goodbye", "timedOut"}

\* For as long as the connection has a record, messages out is the number of
\* answers sent: one that a socket past its end() did not take is counted
\* too, but it breaks the connection, and no more are counted than there were
\* requests.  While the server still writes, messages in is the same number,
\* and bytes in is what has arrived, unless a chunk was refused.
CountersMatch ==
    /\ Tracked(sock) =>
         /\ metrics.sent \in Len(Answered) .. metrics.received
         /\ error # "writeAfterEnd" => metrics.sent = Len(Answered)
    /\ CanWrite(sock) =>
         /\ metrics.received = Len(Answered)
         /\ ~Said("tooLong") => metrics.bytes = position

\* The client's answers to INFO are consistent with the answers around them:
\* messages out is the number of answers in front of this one, pipelined or
\* not, and messages in counts at least this request and no line that has not
\* arrived.
InfoIsConsistent ==
    LET infos == Infos(Answered)
    IN /\ Len(reports) = Cardinality(infos)
       /\ \A k \in 1 .. Cardinality(infos) :
             /\ reports[k].sent = Nth(infos, k) - 1
             /\ reports[k].received \in Nth(infos, k) .. Len(Messages(Delivered))

\* The connection of a client that reads is closed in the end, whether it
\* quits, leaves, falls silent or ignores the server's FIN.
ConnectionCloses == Open(sock) ~> sock.phase = "closed"

\* A client that reads gets its goodbye, unless the connection broke.
GoodbyeArrives == Said("goodbye") ~> (taken = Len(out) \/ error # "none")

\* handler.ts:135: "If no data is received for 5 minutes, consider the
\* connection idle", to prevent "resource exhaustion from abandoned
\* connections": a silent connection is closed, whoever abandoned it.
AbandonedConnectionCloses == Open(sock) ~> sock.phase = "closed"

\* README.md:68: QUIT is to "Gracefully close the connection": after the
\* goodbye the server does not itself break the connection off.
QuitIsGraceful == Said("goodbye") => error # "writeAfterEnd"
==========================================================================
