------------------------------ MODULE System ------------------------------
(***************************************************************************)
(* The two programs together: one client of src/src/client and the server  *)
(* of src/src/server, over a network that may be cut without telling       *)
(* either side, with a server that may end and be started again.  Every    *)
(* step of TCPServer and TCPClient is here; the ones that are each other's *)
(* cause are joined, the ones the other side or the network cause get its  *)
(* state as a guard.                                                       *)
(*                                                                         *)
(* Of the bytes in flight only the lines to the server are kept, and of    *)
(* those only how the two sides understand QUIT.  Exchange has the rest.   *)
(***************************************************************************)
EXTENDS NetSocket, SequencesExt

CONSTANTS
    Socket, MaxConnections, IdleTicks,                \* of TCPServer
    InitialDelay, MaxDelay, MaxAttempts, AttemptBound, \* of TCPClient
    Pipeline,  \* lines the user types ahead of the server
    None       \* no end of a connection at the server

VARIABLES
    \* of TCPServer
    sock, timer, listening, activeConnections, connectionCounter, connectionId,
    connections, totalConnectionsServed, isShuttingDown, step, stragglers,
    process,
    \* of TCPClient
    autoReconnect, clientSocket, isConnected, isQuitting, prompt, partial,
    attempt, scheduled, handle, backoff, initial, exiting, clientProcess,
    \* of the network
    peer,     \* the server's end of the client's last connection, or None
    up,       \* lines on their way to each end
    cut,      \* ends whose packets get lost in both directions
    goodbye   \* the line that made the server say goodbye to peer

Server == INSTANCE TCPServer

Client == INSTANCE TCPClient WITH sock <- clientSocket, process <- clientProcess

\* Both configurations are sane, and the user types a bounded number ahead.
ASSUME SystemAssumption ==
    /\ Server!ServerConstants
    /\ Client!ReconnectConstants
    /\ Pipeline \in Nat

serverVars == <<sock, timer, listening, activeConnections, connectionCounter,
                connectionId, connections, totalConnectionsServed,
                isShuttingDown, step, stragglers, process>>
clientVars == <<autoReconnect, clientSocket, isConnected, isQuitting, prompt,
                partial, attempt, scheduled, handle, backoff, initial, exiting,
                clientProcess>>
networkVars == <<peer, up, cut, goodbye>>
vars == <<serverVars, clientVars, networkVars>>

End == Socket \cup {None}

\* A line for the client's QUIT check and for the server's parseRequest():
\* QUIT for both, QUIT with an argument, which is QUIT for the server only,
\* and anything else.
Kinds == {"quit", "quitArgs", "other"}

Init ==
    /\ Server!Init
    /\ Client!Init
    /\ peer = None
    /\ up = [e \in End |-> <<>>]
    /\ cut = {}
    /\ goodbye = "none"

\* Neither the client nor its kernel holds the other end of s any more.
ClientGone(s) == peer # s \/ ~Open(clientSocket) \/ ~Client!Running

\* The connections the server still holds its end of.
Held == IF Server!Running THEN Server!Live ELSE {}

\* The client's last connection is not one of them.
ServerGone == peer \notin Held

---------------------------------------------------------------------------
(* Making a connection. *)

\* The server hands the connection to onConnection().  Which of the unused
\* names it gets makes no difference.
Accepts ==
    LET s == CHOOSE s \in Socket \ Server!Admitted : TRUE
    IN /\ Client!Connected
       /\ Server!Admitted # Socket
       /\ Server!Connection(s)
       /\ peer' = s
       /\ goodbye' = "none"
       /\ UNCHANGED <<up, cut>>

\* The kernel completes the handshake and the connection is dropped before
\* onConnection(): the server is full, or it stops listening.
Drops ==
    /\ Client!Connected
    /\ Server!Running /\ listening
    /\ peer' = None
    /\ up' = [up EXCEPT ![None] = <<>>]
    /\ cut' = cut \ {None}
    /\ goodbye' = "none"
    /\ UNCHANGED serverVars

\* Nobody listens, or the network fails.
Refuses ==
    /\ Client!ConnectFails
    /\ UNCHANGED <<serverVars, networkVars>>

Connect == Accepts \/ Drops \/ Refuses

---------------------------------------------------------------------------
(* From one side to the other. *)

\* The user enters a line.
Line(kind) ==
    /\ Len(up[peer]) < Pipeline
    /\ Client!Line(kind = "quit")
    /\ up' = IF CanWrite(clientSocket)
               THEN [up EXCEPT ![peer] = Append(@, kind)] ELSE up
    /\ UNCHANGED <<serverVars, peer, cut, goodbye>>

\* The next n lines reach the server in one chunk.
ServerData(s, n) ==
    LET chunk == SubSeq(up[s], 1, n)
        quit == SelectInSeq(chunk, LAMBDA kind : kind # "other")
    IN /\ s \notin cut
       /\ Server!Data(s, IF quit = 0 THEN "replies" ELSE "quit")
       /\ up' = [up EXCEPT ![s] = SubSeq(@, n + 1, Len(@))]
       /\ goodbye' = IF quit # 0 /\ CanWrite(sock[s]) /\ peer = s
                       THEN chunk[quit] ELSE goodbye
       /\ UNCHANGED <<clientVars, peer, cut>>

\* The client's FIN follows its last line.
ServerEnd(s) ==
    /\ s \notin cut /\ up[s] = <<>>
    /\ ClientGone(s) \/ clientSocket.finished
    /\ Server!End(s)
    /\ UNCHANGED <<clientVars, networkVars>>

\* A reset from a client that is gone, or the keep-alive probes that
\* handleConnection() asks for fail.
ServerSocketError(s) ==
    /\ s \in cut \/ ClientGone(s)
    /\ Server!SocketError(s)
    /\ UNCHANGED <<clientVars, networkVars>>

\* A message of the server that feed() throws on kills the client; Exchange
\* has the lines that cause one.
ClientCrash ==
    /\ peer \in Held \ cut
    /\ Client!Data /\ clientProcess' = "crashed"
    /\ UNCHANGED <<serverVars, networkVars>>

\* The server's FIN.
ClientEnd ==
    /\ peer \notin cut
    /\ peer \notin {s \in Held : ~sock[s].finished}
    /\ Client!End
    /\ UNCHANGED <<serverVars, networkVars>>

\* The client has sent something that nothing acknowledges.  It never calls
\* setKeepAlive(), so a client that sends nothing is told nothing.
Unanswered == up[peer] # <<>> \/ clientSocket.finished

\* A reset from a server that is gone, or retransmissions fail.
ClientSocketError ==
    /\ IF peer \in cut THEN Unanswered ELSE ServerGone
    /\ Client!SocketError
    /\ UNCHANGED <<serverVars, networkVars>>

---------------------------------------------------------------------------
(* Faults, and what each side does by itself. *)

\* The path of the client's connection fails.
Cut ==
    /\ ~ServerGone /\ ~ClientGone(peer)
    /\ peer \notin cut
    /\ cut' = cut \cup {peer}
    /\ UNCHANGED <<serverVars, clientVars, peer, up, goodbye>>

\* A new server process: Server!Init again.
Anew ==
    /\ sock' = [s \in Socket |-> Idle]
    /\ timer' = [s \in Socket |-> Server!Off]
    /\ connectionId' = [s \in Socket |-> 0]
    /\ listening' = FALSE /\ isShuttingDown' = FALSE
    /\ activeConnections' = {} /\ connections' = {} /\ stragglers' = {}
    /\ connectionCounter' = 0 /\ totalConnectionsServed' = 0
    /\ step' = "none" /\ process' = "starting"

\* The server is started again while there is a client left; its old
\* connections have no end there.
Restart ==
    /\ process \notin {"starting", "running"} /\ Client!Running
    /\ Anew
    /\ peer' = None
    /\ up' = [e \in End |-> IF e = None THEN up[peer] ELSE <<>>]
    /\ cut' = IF peer \in cut THEN {None} ELSE {}
    /\ UNCHANGED <<clientVars, goodbye>>

\* Everything due at one end of the server: what its kernel was given is
\* sent, what has arrived or failed is read, and a destroyed socket closes.
ServerDue(s) ==
    \/ \E n \in 1 .. Len(up[s]) : ServerData(s, n)
    \/ ServerEnd(s)
    \/ ServerSocketError(s)
    \/ (Server!Flushed(s) \/ Server!Close(s)) /\ UNCHANGED <<clientVars, networkVars>>

\* The same of the client's socket.
ClientDue ==
    \/ ClientEnd
    \/ ClientSocketError
    \/ (Client!Flushed \/ Client!Close) /\ UNCHANGED <<serverVars, networkVars>>

\* What clocks, signals and the process itself make the server do.
ServerStep ==
    /\ \/ Server!Start \/ Server!ServerError \/ Server!Tick \/ Server!Signal
       \/ Server!NotifyConnections \/ Server!ShutdownDone
       \/ \E s \in Socket : Server!Timeout(s)
    /\ UNCHANGED <<clientVars, networkVars>>

\* What the user, the timers and the process itself make the client do.
ClientStep ==
    /\ Client!Reconnect \/ Client!ClosePrompt \/ Client!NothingLeft
    /\ UNCHANGED <<serverVars, networkVars>>

Next ==
    \/ Connect
    \/ \E kind \in Kinds : Line(kind)
    \/ \E s \in Socket : ServerDue(s)
    \/ ClientDue
    \/ ClientCrash
    \/ Cut
    \/ Restart
    \/ ServerStep
    \/ ClientStep

Spec == Init /\ [][Next]_vars

\* What is due in either event loop happens, and the network delivers what is
\* not cut and reports what is.  Nothing is assumed of the clock, so that no
\* property rests on the idle timeout, nor of the user or the signals.
Fairness ==
    /\ \A s \in Socket : WF_vars(ServerDue(s))
    /\ WF_vars(ClientDue)

FairSpec == Spec /\ Fairness

---------------------------------------------------------------------------
(* Properties *)

\* Every variable stays in its range.
TypeOK ==
    /\ Server!TypeOK
    /\ Client!TypeOK
    /\ peer \in End
    /\ up \in [End -> BoundedSeq(Kinds, Pipeline)]
    /\ cut \subseteq End
    /\ goodbye \in Kinds \cup {"none"}

\* A client that the server has said goodbye to tries again only if the line
\* was QUIT with an argument, which it does not take for QUIT itself.
GoodbyeNotRetried ==
    scheduled > 0 => goodbye \in {"none", "quitArgs"}

\* A client that quits or goes away in any other manner frees its place at
\* the server without the help of the idle timeout, whatever is typed behind
\* QUIT and whatever happens to the network, so that a lost connection does
\* not stay counted against its own client's next attempt.
PlaceIsFreed ==
    \A s \in Socket :
        (Open(sock[s]) /\ (ClientGone(s) \/ "quit" \in ToSet(up[s])))
            ~> (~Open(sock[s]) \/ ~Server!Running)

\* A client that shows itself connected for ever to a server that is gone is
\* one whose network was cut and whose user types nothing: everything else
\* reaches it.
PhantomNeedsSilence ==
    <>[](isConnected /\ Client!Running /\ ServerGone)
        => <>[](peer \in cut /\ ~Unanswered)
==========================================================================
