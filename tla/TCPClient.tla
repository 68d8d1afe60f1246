---------------------------- MODULE TCPClient ----------------------------
(***************************************************************************)
(* The interactive client: src/src/client/tcp-client.ts with its           *)
(* ReconnectManager and the entry point index.ts.  What races here is the  *)
(* user (typing, closing the prompt, interrupting), the server (FIN, RST,  *)
(* a refused connection) and the reconnect timer.                          *)
(*                                                                         *)
(* A socket in the phase "idle" is one whose connect() is in progress; the *)
(* client drops its old socket when it makes a new one, so one is enough.  *)
(***************************************************************************)
EXTENDS NetSocket, ReconnectManager

VARIABLES
    autoReconnect,  \* ClientConfig.autoReconnect
    sock,           \* TCPClient.socket
    isConnected,    \* TCPClient.isConnected
    isQuitting,     \* TCPClient.isQuitting
    prompt,         \* TCPClient.rl: null, an open interface or a closed one
    partial,        \* the parser's buffer holds an unfinished message
    initial,        \* main() still awaits the first connect()
    exiting,        \* the one-second timeout of the SIGINT handler is armed
    process         \* the operating-system process

vars == <<autoReconnect, sock, isConnected, isQuitting, prompt, partial,
          reconnectVars, initial, exiting, process>>

Running == process = "running"
Connecting == sock.phase = "idle"

\* main(): the first connect() is under way.
Init ==
    /\ autoReconnect \in BOOLEAN
    /\ sock = Idle
    /\ isConnected = FALSE
    /\ isQuitting = FALSE
    /\ prompt = "null"
    /\ partial = FALSE
    /\ ReconnectInit
    /\ initial = TRUE
    /\ exiting = FALSE
    /\ process = "running"

---------------------------------------------------------------------------
(* The methods the handlers call. *)

\* Mutant: isConnected is only ever set.
StaysConnected == UNCHANGED isConnected

\* 'end' and 'close' clear isConnected.
LosesConnection == isConnected' = FALSE

\* Mutant: the parser keeps what the lost connection left in it.
KeepParser == UNCHANGED partial

\* parser.reset()
ResetParser == partial' = FALSE

\* Mutant: only an established connection is retried.
WillRetryLoss == autoReconnect /\ ~isQuitting /\ isConnected

\* A closed socket is followed by another attempt.
WillRetry == autoReconnect /\ ~isQuitting

\* this.socket.end(), if the socket is not destroyed; a socket still
\* connecting is ended once it is connected.
Ended(k) == IF k.phase \in {"idle", "open"} /\ ~k.ending
              THEN [k EXCEPT !.ending = TRUE] ELSE k

\* disconnect()
Disconnect ==
    /\ isQuitting' = TRUE
    /\ Cancel
    /\ prompt' = "null"
    /\ sock' = Ended(sock)

\* What an interface's 'close' listener does when the interface is closed:
\* the first to find isQuitting unset disconnects.
PromptCloses ==
    IF isQuitting
      THEN prompt' = "closed" /\ UNCHANGED <<sock, isQuitting, reconnectVars>>
      ELSE Disconnect

---------------------------------------------------------------------------
(* Socket events. *)

\* The 'connect' event: reset() the manager, then startPrompt(), whose
\* rl.close() runs the 'close' listener of the old interface on the spot
\* before the new interface is made.
Connected ==
    /\ Running /\ Connecting
    /\ LET established == [sock EXCEPT !.phase = "open"]
           quits == prompt = "open" /\ ~isQuitting
       IN /\ isQuitting' = (isQuitting \/ quits)
          /\ sock' = IF quits THEN Ended(established) ELSE established
    /\ isConnected' = TRUE
    /\ ResetBackoff
    /\ prompt' = "open"
    /\ initial' = FALSE
    /\ UNCHANGED <<autoReconnect, partial, exiting, process>>

\* Mutant: the error handler schedules the retry that 'close' schedules.
ConnectFailsRetries ==
    /\ Running /\ Connecting
    /\ sock' = [sock EXCEPT !.phase = "destroyed"]
    /\ initial' = FALSE
    /\ ScheduleReconnect
    /\ UNCHANGED <<autoReconnect, isConnected, isQuitting, prompt, partial,
                   exiting, process>>

\* 'error' on a socket that is connecting: the promise is rejected, and
\* main() exits if it was the first connect() and there are no retries.
ConnectFails ==
    /\ Running /\ Connecting
    /\ sock' = [sock EXCEPT !.phase = "destroyed"]
    /\ initial' = FALSE
    /\ process' = IF initial /\ ~autoReconnect THEN "failed" ELSE process
    /\ UNCHANGED <<autoReconnect, isConnected, isQuitting, prompt, partial,
                   reconnectVars, exiting>>

\* 'data': feed() may leave a partial message behind; when it throws nothing
\* catches it and the process dies.
Data ==
    /\ Running /\ Open(sock) /\ ~sock.eof
    /\ \/ partial' \in BOOLEAN /\ UNCHANGED process
       \/ process' = "crashed" /\ UNCHANGED partial
    /\ UNCHANGED <<autoReconnect, sock, isConnected, isQuitting, prompt,
                   reconnectVars, initial, exiting>>

\* 'end': the server's FIN.
End ==
    /\ Running /\ Open(sock) /\ ~sock.eof
    /\ sock' = Eof(sock)
    /\ LosesConnection
    /\ UNCHANGED <<autoReconnect, isQuitting, prompt, partial,
                   reconnectVars, initial, exiting, process>>

\* What the client wrote is flushed and its FIN is sent.
Flushed ==
    /\ Running /\ Open(sock) /\ sock.ending /\ ~sock.finished
    /\ sock' = Finish(sock)
    /\ UNCHANGED <<autoReconnect, isConnected, isQuitting, prompt, partial,
                   reconnectVars, initial, exiting, process>>

\* 'error' on an established connection.
SocketError ==
    /\ Running /\ Open(sock)
    /\ sock' = Destroy(sock)
    /\ UNCHANGED <<autoReconnect, isConnected, isQuitting, prompt, partial,
                   reconnectVars, initial, exiting, process>>

\* 'close': parser.reset(), and the next attempt unless the client quits.
Close ==
    /\ Running /\ Destroyed(sock)
    /\ sock' = EmitClose(sock)
    /\ LosesConnection
    /\ ResetParser
    /\ IF WillRetry THEN ScheduleReconnect ELSE UNCHANGED reconnectVars
    /\ UNCHANGED <<autoReconnect, isQuitting, prompt, initial, exiting, process>>

\* A reconnect timeout fires: connect() makes a new socket.
Reconnect ==
    /\ Running
    /\ Fire
    /\ sock' = Idle
    /\ UNCHANGED <<autoReconnect, isConnected, isQuitting, prompt, partial,
                   initial, exiting, process>>

---------------------------------------------------------------------------
(* The user. *)

\* Mutant: the line is not compared with QUIT.
NoticesNothing(quit) == UNCHANGED isQuitting

NoticesQuit(quit) == isQuitting' = (isQuitting \/ quit)

\* A line is entered while isConnected is set: "QUIT" sets isQuitting, and
\* the line is written; on a socket past its end() that is an error.
Line(quit) ==
    /\ Running /\ prompt = "open" /\ isConnected
    /\ NoticesQuit(quit)
    /\ sock' = Write(sock)
    /\ UNCHANGED <<autoReconnect, isConnected, prompt, partial,
                   reconnectVars, initial, exiting, process>>

\* The prompt is closed (Ctrl+D, or Ctrl+C at a terminal).
ClosePrompt ==
    /\ Running /\ prompt = "open"
    /\ PromptCloses
    /\ UNCHANGED <<autoReconnect, isConnected, partial, initial, exiting, process>>

\* SIGINT from outside the terminal, the first or another: disconnect(), and
\* exit a second after the first.
Interrupt ==
    /\ Running
    /\ Disconnect
    /\ exiting' = TRUE
    /\ UNCHANGED <<autoReconnect, isConnected, partial, initial, process>>

\* That second is over.
Exit ==
    /\ Running /\ exiting
    /\ process' = "exited"
    /\ UNCHANGED <<autoReconnect, sock, isConnected, isQuitting, prompt,
                   partial, reconnectVars, initial, exiting>>

\* Node ends a process with no socket, no timer and no open interface.
NothingLeft ==
    /\ Running /\ ~exiting
    /\ sock.phase = "closed" /\ scheduled = 0 /\ prompt # "open"
    /\ process' = "exited"
    /\ UNCHANGED <<autoReconnect, sock, isConnected, isQuitting, prompt,
                   partial, reconnectVars, initial, exiting>>

Next ==
    \/ Connected \/ ConnectFails \/ Data \/ End \/ Flushed \/ SocketError
    \/ Close \/ Reconnect
    \/ (\E quit \in BOOLEAN : Line(quit))
    \/ ClosePrompt \/ Interrupt \/ Exit \/ NothingLeft

Spec == Init /\ [][Next]_vars

\* The event loop runs what is due, and a connection attempt has an outcome;
\* the user and the server owe the client nothing.
Fairness ==
    /\ WF_vars(Connected \/ ConnectFails)
    /\ WF_vars(Close)
    /\ WF_vars(Reconnect)
    /\ WF_vars(Exit)

FairSpec == Spec /\ Fairness

---------------------------------------------------------------------------
(* Properties *)

\* Every variable stays in its range.
TypeOK ==
    /\ autoReconnect \in BOOLEAN
    /\ sock \in SocketStates
    /\ isConnected \in BOOLEAN
    /\ isQuitting \in BOOLEAN
    /\ prompt \in {"null", "open", "closed"}
    /\ partial \in BOOLEAN
    /\ attempt \in 0 .. AttemptBound
    /\ scheduled \in Nat
    /\ backoff \in 0 .. MaxDelay
    /\ handle \in {"null", "armed", "fired"}
    /\ initial \in BOOLEAN
    /\ exiting \in BOOLEAN
    /\ process \in {"running", "failed", "crashed", "exited"}

\* There is one chain of attempts: a timeout is armed only when the last
\* socket is closed, and then it is the one the manager knows of, although
\* scheduleReconnect() overwrites its handle without looking.
SingleChain ==
    /\ scheduled > 0 => sock.phase = "closed"
    /\ scheduled = (IF handle = "armed" THEN 1 ELSE 0)

\* A client that quits has no attempt pending and makes no other, whichever
\* of the user, the server and the timer came first.
QuitIsFinal ==
    /\ [](isQuitting => scheduled = 0)
    /\ [][isQuitting /\ ~Connecting => ~Connecting']_vars

\* A new connection does not start with the unfinished message of the last.
FreshBuffer == Connecting => ~partial

\* While the client takes lines, its socket has not closed, has not read the
\* server's FIN, and is past its end() only if the client itself quits: of a
\* user who does not quit no line is a write after end.
ConnectedSocket ==
    isConnected => /\ sock.phase \in {"open", "destroyed"}
                   /\ ~sock.eof
                   /\ sock.ending => isQuitting

\* With auto-reconnect on, every lost connection or failed attempt is
\* followed by another attempt, unless the client quits, dies or has used up
\* its attempts.
LossIsRetried ==
    (autoReconnect /\ Destroyed(sock))
        ~> (Connecting \/ isQuitting \/ ~Running \/ GivesUp(attempt))

\* The 'close' of a socket that was connected starts the backoff over; that
\* of a failed attempt doubles the last delay up to the maximum, although an
\* 'error' event came first and the timer's handle has been overwritten.
BackoffGrows ==
    [][scheduled' > scheduled =>
         backoff' = IF isConnected \/ sock.eof
                      THEN Least(MaxDelay, InitialDelay)
                      ELSE Least(MaxDelay, IF backoff = 0 THEN InitialDelay
                                                          ELSE 2 * backoff)]_vars

\* README.md:33: a dropped connection is answered by auto-reconnect, so that
\* a reconnect which succeeds does not itself make the client quit.
ReconnectDoesNotQuit == [][Connected => isQuitting' = isQuitting]_vars
==========================================================================
