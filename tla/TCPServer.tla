---------------------------- MODULE TCPServer ----------------------------
(***************************************************************************)
(* The server process: src/src/server/tcp-server.ts and index.ts, with the *)
(* socket set-up, timeout and close handlers of handler.ts and the         *)
(* connection registry of metrics.ts.  Node runs every callback to         *)
(* completion on one thread, so each callback is one action; what the      *)
(* callbacks can race with is the order of the events, and the one await   *)
(* inside shutdown().                                                      *)
(*                                                                         *)
(* Each element of Socket is one connection attempt.  What a request says  *)
(* and what is answered is the business of ConnectionHandler; here a data  *)
(* event only matters for what it makes the server do to the socket.       *)
(***************************************************************************)
EXTENDS NetSocket, FiniteSets

CONSTANTS
    Socket,          \* the connections clients will ever attempt
    MaxConnections,  \* ServerConfig.maxConnections; 0 means unlimited
    IdleTicks        \* clock ticks in the 5-minute idle timeout

ServerConstants ==
    /\ IsFiniteSet(Socket)
    /\ MaxConnections \in Nat
    /\ IdleTicks \in Nat \ {0}

ASSUME ServerAssumption == ServerConstants

VARIABLES
    sock,                    \* net.Socket state of each connection
    timer,                   \* ticks until 'timeout' fires, or Off
    listening,               \* the listening handle exists
    activeConnections,       \* TCPServer.activeConnections
    connectionCounter,       \* TCPServer.connectionCounter
    connectionId,            \* the id each socket's closures captured
    connections,             \* MetricsTracker.connections: its ids
    totalConnectionsServed,  \* MetricsTracker.totalConnectionsServed
    isShuttingDown,          \* TCPServer.isShuttingDown
    step,                    \* where the first shutdown() call is
    stragglers,              \* live sockets met by step 2 of shutdown()
    process                  \* the operating-system process

shutdownVars == <<isShuttingDown, step, stragglers>>
registryVars == <<activeConnections, connectionCounter, connectionId,
                  connections, totalConnectionsServed>>
vars == <<sock, timer, listening, registryVars, shutdownVars, process>>

Off == IdleTicks + 1

\* shutdown(): not called, awaiting server.close(), in its step 2.
Steps == {"none", "closing", "draining"}

\* How the process is: before 'listening', serving, exited after a complete
\* shutdown(), exited by a later signal while shutdown() was pending, exited
\* with status 1 on a server error.
Processes == {"starting", "running", "drained", "forced", "failed"}

Live == {s \in Socket : Open(sock[s])}
Admitted == {s \in Socket : sock[s].phase # "idle"}
Running == process = "running"

\* The socket of s becomes k and its idle timer t; destroying a socket clears
\* its timer.
SocketStep(s, k, t) ==
    /\ sock' = [sock EXCEPT ![s] = k]
    /\ timer' = [timer EXCEPT ![s] = IF Open(k) THEN t ELSE Off]

---------------------------------------------------------------------------

Init ==
    /\ sock = [s \in Socket |-> Idle]
    /\ timer = [s \in Socket |-> Off]
    /\ listening = FALSE
    /\ activeConnections = {}
    /\ connectionCounter = 0
    /\ connectionId = [s \in Socket |-> 0]
    /\ connections = {}
    /\ totalConnectionsServed = 0
    /\ isShuttingDown = FALSE
    /\ step = "none"
    /\ stragglers = {}
    /\ process = "starting"

\* start(): 'listening' resolves the promise, and main() installs the signal
\* handlers before any other event is handled.
Start ==
    /\ process = "starting"
    /\ listening' = TRUE
    /\ process' = "running"
    /\ UNCHANGED <<sock, timer, registryVars, shutdownVars>>

\* The server's 'error' event (EADDRINUSE before listening, a failed accept
\* after it): whatever the code, process.exit(1).
ServerError ==
    /\ process = "starting" \/ (Running /\ listening)
    /\ process' = "failed"
    /\ UNCHANGED <<sock, timer, listening, registryVars, shutdownVars>>

\* Mutant: one connection too many.
AtMostLimit == MaxConnections = 0 \/ Cardinality(Live) <= MaxConnections

\* net.Server drops what exceeds maxConnections before any callback runs; an
\* unset or zero limit drops nothing.
BelowLimit == MaxConnections = 0 \/ Cardinality(Live) < MaxConnections

\* metrics.addConnection(id)
AddConnection(id) ==
    /\ connections' = connections \cup {id}
    /\ totalConnectionsServed' = totalConnectionsServed + 1

\* The branch of onConnection taken while shutting down: end(), destroy().
RejectConnection(s) ==
    /\ SocketStep(s, Destroy(EndWith(Accepted)), Off)
    /\ UNCHANGED registryVars

\* The other branch, with handleConnection's set-up; the welcome message is
\* the first write and leaves the socket as it is.
AdmitConnection(s) ==
    /\ connectionCounter' = connectionCounter + 1
    /\ connectionId' = [connectionId EXCEPT ![s] = connectionCounter']
    /\ activeConnections' = activeConnections \cup {s}
    /\ AddConnection(connectionId'[s])
    /\ SocketStep(s, Write(Accepted), IdleTicks)

\* Mutant: accepted connections are still delivered after close(), and the
\* isShuttingDown check is missing.
LateConnection(s) ==
    /\ Running
    /\ s \notin Admitted
    /\ BelowLimit
    /\ AdmitConnection(s)
    /\ UNCHANGED <<listening, shutdownVars, process>>

\* onConnection(socket)
Connection(s) ==
    /\ Running /\ listening
    /\ s \notin Admitted
    /\ BelowLimit
    /\ IF isShuttingDown THEN RejectConnection(s) ELSE AdmitConnection(s)
    /\ UNCHANGED <<listening, shutdownVars, process>>

\* Ways the lines completed by one chunk end up using the socket: not at all
\* (a partial line), by one or more write()s, by end(msg) for QUIT.
Lines == {"none", "replies", "quit"}

\* Mutant: QUIT is answered like any other command.
AnswersQuit(k, lines) == IF lines = "none" THEN k ELSE Write(k)

AfterLines(k, lines) ==
    CASE lines = "none"    -> k
      [] lines = "replies" -> Write(k)
      [] lines = "quit"    -> EndWith(k)

Receiving(s) == Running /\ Open(sock[s]) /\ ~sock[s].eof

\* The 'data' handler.  Data still arrives after end() until the peer's FIN;
\* every read re-arms the idle timer.
Data(s, lines) ==
    /\ Receiving(s)
    /\ SocketStep(s, AfterLines(sock[s], lines), IdleTicks)
    /\ UNCHANGED <<listening, registryVars, shutdownVars, process>>

\* The peer's FIN arrives ('end').
End(s) ==
    /\ Receiving(s)
    /\ SocketStep(s, Eof(sock[s]), IdleTicks)
    /\ UNCHANGED <<listening, registryVars, shutdownVars, process>>

\* The peer has taken everything written and the FIN follows.  Completing a
\* write that had to wait re-arms the timer, sending only the FIN does not; a
\* socket whose timer is off is one whose last message was waiting.
Flushed(s) ==
    /\ Running /\ Open(sock[s])
    /\ sock[s].ending /\ ~sock[s].finished
    /\ \E t \in {timer[s], IdleTicks} \ {Off} : SocketStep(s, Finish(sock[s]), t)
    /\ UNCHANGED <<listening, registryVars, shutdownVars, process>>

\* The 'error' handler: ECONNRESET, EPIPE or ETIMEDOUT.  Node has destroyed
\* the socket, the handler only logs.
SocketError(s) ==
    /\ Running /\ Open(sock[s])
    /\ SocketStep(s, Destroy(sock[s]), Off)
    /\ UNCHANGED <<listening, registryVars, shutdownVars, process>>

\* Mutant: the handler logs and forgets to end the connection.
TimeoutLogged(s) ==
    /\ Running /\ Open(sock[s]) /\ timer[s] = 0
    /\ SocketStep(s, sock[s], Off)
    /\ UNCHANGED <<listening, registryVars, shutdownVars, process>>

\* The 'timeout' handler: end(msg).  Node does not re-arm the timer; the
\* message does, unless it has to queue behind a write still in flight.
Timeout(s) ==
    /\ Running /\ Open(sock[s]) /\ timer[s] = 0
    /\ \E t \in {IdleTicks, Off} : SocketStep(s, EndWith(sock[s]), t)
    /\ UNCHANGED <<listening, registryVars, shutdownVars, process>>

\* Mutant: an expired timer keeps counting.
TickExpired ==
    /\ Running
    /\ \E s \in Socket : timer[s] \in 0 .. IdleTicks
    /\ timer' = [s \in Socket |-> IF timer[s] = Off THEN Off ELSE timer[s] - 1]
    /\ UNCHANGED <<sock, listening, registryVars, shutdownVars, process>>

\* Time passes for every armed timer.
Tick ==
    /\ Running
    /\ \E s \in Socket : timer[s] \in 1 .. IdleTicks
    /\ timer' = [s \in Socket |->
                   IF timer[s] \in 1 .. IdleTicks THEN timer[s] - 1 ELSE timer[s]]
    /\ UNCHANGED <<sock, listening, registryVars, shutdownVars, process>>

\* Mutant: the record is read for the log line and never deleted.
ReadConnection(id) == UNCHANGED <<connections, totalConnectionsServed>>

\* metrics.removeConnection(id)
RemoveConnection(id) ==
    /\ connections' = connections \ {id}
    /\ UNCHANGED totalConnectionsServed

\* The 'close' event: first the listener of tcp-server.ts, then the one of
\* handler.ts.
Close(s) ==
    /\ Running /\ Destroyed(sock[s])
    /\ SocketStep(s, EmitClose(sock[s]), Off)
    /\ activeConnections' = activeConnections \ {s}
    /\ RemoveConnection(connectionId[s])
    /\ UNCHANGED <<connectionCounter, connectionId, listening, shutdownVars, process>>

\* Mutant: shutdown() awaits the close of a server it never closes.
SignalWithoutClose ==
    /\ Running
    /\ isShuttingDown' = TRUE
    /\ IF isShuttingDown THEN process' = "forced" /\ UNCHANGED step
                         ELSE step' = "closing" /\ UNCHANGED process
    /\ UNCHANGED <<sock, timer, listening, registryVars, stragglers>>

\* SIGINT, SIGTERM or an uncaught exception: the closure of main() awaits
\* shutdown() and exits.  The first call stops listening and waits in
\* server.close(); any later call returns at once, so the process exits.
Signal ==
    /\ Running
    /\ isShuttingDown' = TRUE
    /\ IF isShuttingDown
         THEN process' = "forced" /\ UNCHANGED <<step, listening>>
         ELSE step' = "closing" /\ listening' = FALSE /\ UNCHANGED process
    /\ UNCHANGED <<sock, timer, registryVars, stragglers>>

\* Mutant: close() calls back as soon as the listener is gone.
ListenerClosed == ~listening

\* server.close() calls back once the listener is gone and no socket is left
\* undestroyed.
ServerClosed == ~listening /\ Live = {}

\* The rest of shutdown() after its first await: end(msg) on everything still
\* in activeConnections.  Sockets whose 'close' is pending are among them,
\* and end() resolves their promise with an error.
NotifyConnections ==
    /\ Running /\ step = "closing" /\ ServerClosed
    /\ step' = "draining"
    /\ stragglers' = {s \in activeConnections : Open(sock[s])}
    /\ sock' = [s \in Socket |->
                  IF s \in activeConnections THEN EndWith(sock[s]) ELSE sock[s]]
    /\ UNCHANGED <<timer, listening, registryVars, isShuttingDown, process>>

\* Mutant: main() exits without awaiting shutdown().
ShutdownNotAwaited ==
    /\ Running /\ step # "none"
    /\ process' = "drained"
    /\ UNCHANGED <<sock, timer, listening, registryVars, shutdownVars>>

\* Promise.all(closePromises): every straggler has flushed its goodbye or is
\* destroyed.  The 5-second force-close of a straggler is no action here:
\* NoForceClose shows that there is never a straggler to close.
ShutdownDone ==
    /\ Running /\ step = "draining"
    /\ \A s \in stragglers : sock[s].finished \/ ~Open(sock[s])
    /\ process' = "drained"
    /\ UNCHANGED <<sock, timer, listening, registryVars, shutdownVars>>

SocketNext(s) ==
    \/ Connection(s)
    \/ \E lines \in Lines : Data(s, lines)
    \/ End(s)
    \/ Flushed(s)
    \/ SocketError(s)
    \/ Timeout(s)
    \/ Close(s)

Next ==
    \/ Start
    \/ ServerError
    \/ \E s \in Socket : SocketNext(s)
    \/ Tick
    \/ Signal
    \/ NotifyConnections
    \/ ShutdownDone

Spec == Init /\ [][Next]_vars

\* Node's event loop runs what is due, the clock advances, and peers read what
\* they are sent (ConnectionHandler has the ones that do not).  No client is
\* obliged to send, to leave, to be quiet or to answer the server's FIN.
Fairness ==
    /\ WF_vars(Tick)
    /\ WF_vars(NotifyConnections)
    /\ WF_vars(ShutdownDone)
    /\ \A s \in Socket :
          /\ WF_vars(Timeout(s))
          /\ WF_vars(Close(s))
          /\ WF_vars(Flushed(s))

FairSpec == Spec /\ Fairness

---------------------------------------------------------------------------
(* Properties *)

\* Every variable stays in its range.
TypeOK ==
    /\ sock \in [Socket -> SocketStates]
    /\ timer \in [Socket -> 0 .. Off]
    /\ listening \in BOOLEAN
    /\ activeConnections \subseteq Socket
    /\ connectionCounter \in Nat
    /\ connectionId \in [Socket -> Nat]
    /\ connections \subseteq Nat
    /\ totalConnectionsServed \in Nat
    /\ isShuttingDown \in BOOLEAN
    /\ step \in Steps
    /\ stragglers \subseteq Socket
    /\ process \in Processes

\* The Set of sockets kept by TCPServer and the Map of ids kept by
\* MetricsTracker, updated by two different 'close' listeners, always
\* describe the same connections: those accepted whose 'close' has not been
\* emitted.  No id is ever given out twice, and the total that INFO reports
\* counts every connection admitted once.
RegistriesAgree ==
    /\ activeConnections = {s \in Socket : Tracked(sock[s])}
    /\ connections = {connectionId[s] : s \in activeConnections}
    /\ \A s, r \in Admitted : connectionId[s] = connectionId[r] => s = r
    /\ totalConnectionsServed = Cardinality(Admitted)

\* Step 2 of shutdown() never meets a live socket: the await of
\* server.close() in front of it returns only when there is none, although
\* activeConnections may still be non-empty.
NoForceClose == stragglers = {}

\* A shutdown() that ran to its end leaves no connection open behind it.
CleanExit == process = "drained" => Live = {}

\* Once shutdown() has been called the set of tracked connections can only
\* shrink: the listener is gone in the same step the flag is set.
NoAdmissionWhileDraining ==
    [][isShuttingDown => activeConnections' \subseteq activeConnections]_vars

\* A connection that stays open for good is one whose client goes on sending:
\* the idle timeout, and the write-after-end error of a second timeout,
\* evict every other one.
SilentClientEvicted ==
    \A s \in Socket :
        <>[](Running /\ Open(sock[s]))
            => []<><<\E lines \in Lines : Data(s, lines)>>_vars

\* If the clients eventually fall silent, shutdown() comes to its end.
DrainCompletes ==
    <>[][\A s \in Socket, lines \in Lines : ~Data(s, lines)]_vars
        => (isShuttingDown ~> ~Running)

\* What the comment on shutdown() promises: it waits for the clients "(or
\* timeout)" and then destroys any remaining connections, so it terminates
\* whatever the clients do.
ShutdownTerminates == isShuttingDown ~> ~Running

\* What DrainServer sees of the process.
Mode == CASE process = "starting" -> "new"
          [] process = "running"  -> IF isShuttingDown THEN "draining" ELSE "up"
          [] process = "drained"  -> "drained"
          [] process = "forced"   -> "aborted"
          [] process = "failed"   -> "crashed"

Drain == INSTANCE DrainServer WITH
    Client <- Socket,
    Limit <- IF MaxConnections = 0 THEN Cardinality(Socket) ELSE MaxConnections,
    waiting <- Socket \ Admitted,
    live <- Live,
    mode <- Mode

\* The server implements DrainServer: it admits only while it is up and below
\* its limit, and it goes down in good order only with nobody connected.
ImplementsDrain == Drain!Spec
==========================================================================
