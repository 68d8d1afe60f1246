------------------------- MODULE TCPServerProofs -------------------------
(***************************************************************************)
(* Proofs about TCPServer, for every set of connections, every limit and   *)
(* every idle timeout.                                                     *)
(***************************************************************************)
EXTENDS TCPServer, TLAPS, FiniteSetTheorems

\* The five events that only move one open socket on, seen alike: the socket
\* stays tracked and nothing else but its timer changes.
Quiet(s) ==
    /\ Running /\ Open(sock[s])
    /\ \E k \in SocketStates, t \in 0 .. Off : Tracked(k) /\ SocketStep(s, k, t)
    /\ UNCHANGED <<listening, registryVars, shutdownVars, process>>

\* RegistriesAgree is not inductive: that a new id is fresh needs the bound
\* the counter puts on the old ones.
RegistryInv ==
    /\ RegistriesAgree
    /\ \A s \in Admitted : connectionId[s] \in 1 .. connectionCounter

\* NoForceClose and CleanExit rest on the order of shutdown(): the listener
\* is gone while the flag is set, and once step 2 has begun nobody is live.
DrainInv ==
    /\ isShuttingDown => ~listening
    /\ process = "starting" => ~isShuttingDown
    /\ step # "none" => isShuttingDown
    /\ step = "draining" => Live = {}
    /\ NoForceClose
    /\ CleanExit

IInv == TypeOK /\ RegistryInv /\ DrainInv

---------------------------------------------------------------------------

\* Every operation the server applies to an open socket returns a socket that
\* is open or destroyed, never one that is idle or closed.
LEMMA SocketResults ==
    ASSUME NEW k \in SocketStates, Open(k),
           NEW r \in {k, Write(k), EndWith(k), Destroy(k), Eof(k), Finish(k)}
    PROVE  r \in SocketStates /\ Tracked(r)
<1>1. Destroy(k) \in SocketStates /\ Tracked(Destroy(k))
  BY DEF Destroy, Open, Destroyed, Tracked, SocketStates, Phases
<1>2. k \in SocketStates /\ Tracked(k)
  BY DEF Tracked
<1>3. Write(k) \in SocketStates /\ Tracked(Write(k))
  BY <1>1, <1>2 DEF Write
<1>4. EndWith(k) \in SocketStates /\ Tracked(EndWith(k))
  BY <1>1 DEF EndWith, CanWrite, Open, Tracked, SocketStates
<1>5. Eof(k) \in SocketStates /\ Tracked(Eof(k))
  BY DEF Eof, Destroy, Open, Destroyed, Tracked, SocketStates, Phases
<1>6. Finish(k) \in SocketStates /\ Tracked(Finish(k))
  BY DEF Finish, Destroy, Open, Destroyed, Tracked, SocketStates, Phases
<1> QED
  BY <1>1, <1>2, <1>3, <1>4, <1>5, <1>6

\* Data, FIN, flush, error and timeout move one open socket on and touch
\* neither the registries nor the shutdown.
LEMMA QuietActions ==
    ASSUME ServerConstants, TypeOK, NEW s \in Socket,
           \/ \E lines \in Lines : Data(s, lines)
           \/ End(s) \/ Flushed(s) \/ SocketError(s) \/ Timeout(s)
    PROVE  Quiet(s)
<1> DEFINE k == sock[s]
<1>0. k \in SocketStates /\ timer[s] \in 0 .. Off
  BY DEF TypeOK
<1>1. IdleTicks \in 0 .. Off /\ Off \in 0 .. Off
  BY DEF ServerConstants, Off
<1>2. CASE \E lines \in Lines : Data(s, lines)
  <2> PICK lines \in Lines : Data(s, lines)
    BY <1>2
  <2>1. Open(k)
    BY DEF Data, Receiving
  <2>2. AfterLines(k, lines) \in {k, Write(k), EndWith(k)}
    BY DEF AfterLines, Lines
  <2>3. AfterLines(k, lines) \in SocketStates /\ Tracked(AfterLines(k, lines))
    BY <1>0, <2>1, <2>2, SocketResults
  <2> QED
    BY <1>1, <2>1, <2>3 DEF Data, Receiving, Quiet
<1>3. CASE End(s)
  <2>1. Open(k)
    BY <1>3 DEF End, Receiving
  <2>2. Eof(k) \in SocketStates /\ Tracked(Eof(k))
    BY <1>0, <2>1, SocketResults
  <2> QED
    BY <1>1, <1>3, <2>1, <2>2 DEF End, Receiving, Quiet
<1>4. CASE Flushed(s)
  <2>1. Open(k)
    BY <1>4 DEF Flushed
  <2>2. Finish(k) \in SocketStates /\ Tracked(Finish(k))
    BY <1>0, <2>1, SocketResults
  <2> QED
    BY <1>0, <1>1, <1>4, <2>1, <2>2 DEF Flushed, Quiet
<1>5. CASE SocketError(s)
  <2>1. Open(k)
    BY <1>5 DEF SocketError
  <2>2. Destroy(k) \in SocketStates /\ Tracked(Destroy(k))
    BY <1>0, <2>1, SocketResults
  <2> QED
    BY <1>1, <1>5, <2>1, <2>2 DEF SocketError, Quiet
<1>6. CASE Timeout(s)
  <2>1. Open(k)
    BY <1>6 DEF Timeout
  <2>2. EndWith(k) \in SocketStates /\ Tracked(EndWith(k))
    BY <1>0, <2>1, SocketResults
  <2> QED
    BY <1>1, <1>6, <2>1, <2>2 DEF Timeout, Quiet
<1> QED
  BY <1>2, <1>3, <1>4, <1>5, <1>6

\* The next-state relation with the five quiet actions folded into one.
LEMMA NextCases ==
    ASSUME ServerConstants, TypeOK, Next
    PROVE  \/ Start \/ ServerError \/ Tick \/ Signal
           \/ NotifyConnections \/ ShutdownDone
           \/ \E s \in Socket : Connection(s) \/ Close(s) \/ Quiet(s)
BY QuietActions DEF Next, SocketNext

---------------------------------------------------------------------------

\* The server starts with every variable in its range.
LEMMA InitType == ASSUME ServerConstants, Init PROVE TypeOK
<1>1. Idle \in SocketStates
  BY DEF SocketStates, Phases, Idle
<1>2. Off \in 0 .. Off
  BY DEF ServerConstants, Off
<1> QED
  BY <1>1, <1>2 DEF Init, TypeOK, Steps, Processes

\* No step takes a variable out of its range.
LEMMA TypeStep ==
    ASSUME ServerConstants, TypeOK, [Next]_vars PROVE TypeOK'
<1> USE DEF TypeOK
<1>0. Off \in Nat /\ IdleTicks \in 0 .. Off /\ Off \in 0 .. Off
  BY DEF ServerConstants, Off
<1>1. CASE Start
  BY <1>1 DEF Start, registryVars, shutdownVars, Processes
<1>2. CASE ServerError
  BY <1>2 DEF ServerError, registryVars, shutdownVars, Processes
<1>3. CASE Tick
  <2>1. timer' \in [Socket -> 0 .. Off]
    BY <1>0, <1>3 DEF Tick
  <2> QED
    BY <1>3, <2>1 DEF Tick, registryVars, shutdownVars
<1>4. CASE Signal
  BY <1>4 DEF Signal, registryVars, Processes, Steps
<1>5. CASE NotifyConnections
  <2>1. sock' = sock /\ stragglers' = {}
    BY <1>5 DEF NotifyConnections, ServerClosed, Live, EndWith, CanWrite,
                Destroy, Open
  <2> QED
    BY <1>5, <2>1 DEF NotifyConnections, registryVars, Steps
<1>6. CASE ShutdownDone
  BY <1>6 DEF ShutdownDone, registryVars, shutdownVars, Processes
<1>7. ASSUME NEW s \in Socket, Connection(s) PROVE TypeOK'
  <2>1. Accepted \in SocketStates /\ Open(Accepted)
    BY DEF Accepted, Idle, SocketStates, Phases, Open
  <2>2. /\ Write(Accepted) \in SocketStates
        /\ Destroy(EndWith(Accepted)) \in SocketStates
    BY <2>1 DEF Write, EndWith, CanWrite, Destroy, SocketStates, Phases, Open
  <2>3. CASE isShuttingDown
    BY <1>0, <1>7, <2>2, <2>3
       DEF Connection, RejectConnection, SocketStep, registryVars, shutdownVars
  <2>4. CASE ~isShuttingDown
    <3>1. AdmitConnection(s)
      BY <1>7, <2>4 DEF Connection
    <3>2. UNCHANGED <<listening, isShuttingDown, step, stragglers, process>>
      BY <1>7 DEF Connection, shutdownVars
    <3>9. /\ connectionCounter' = connectionCounter + 1
          /\ connectionId' = [connectionId EXCEPT ![s] = connectionCounter + 1]
      BY <3>1 DEF AdmitConnection
    <3>3. /\ connectionCounter' \in Nat
          /\ connectionId' \in [Socket -> Nat]
          /\ connectionId'[s] \in Nat
      BY <3>9
    <3>10. /\ connections' = connections \cup {connectionId'[s]}
          /\ totalConnectionsServed' = totalConnectionsServed + 1
      BY <3>1 DEF AdmitConnection, AddConnection
    <3>4. connections' \subseteq Nat
      BY <3>3, <3>10
    <3>11. totalConnectionsServed' \in Nat
      BY <3>10
    <3>5. /\ sock' \in [Socket -> SocketStates]
          /\ timer' \in [Socket -> 0 .. Off]
          /\ activeConnections' \subseteq Socket
      BY <1>0, <2>2, <3>1 DEF AdmitConnection, SocketStep
    <3> QED
      BY <3>2, <3>3, <3>4, <3>5, <3>11
  <2> QED
    BY <2>3, <2>4
<1>8. ASSUME NEW s \in Socket, Close(s) PROVE TypeOK'
  <2>1. EmitClose(sock[s]) \in SocketStates
    BY DEF EmitClose, SocketStates, Phases
  <2> QED
    BY <1>0, <1>8, <2>1 DEF Close, RemoveConnection, SocketStep, shutdownVars
<1>9. ASSUME NEW s \in Socket, Quiet(s) PROVE TypeOK'
  BY <1>0, <1>9 DEF Quiet, SocketStep, registryVars, shutdownVars
<1>10. CASE UNCHANGED vars
  BY <1>10 DEF vars, registryVars, shutdownVars
<1> HIDE DEF TypeOK
<1> QED
  BY <1>1, <1>2, <1>3, <1>4, <1>5, <1>6, <1>7, <1>8, <1>9, <1>10, NextCases

\* Every variable of the server stays in its range.
THEOREM TypeCorrect == Spec => []TypeOK
<1>1. Init => TypeOK
  BY InitType, ServerAssumption
<1>2. TypeOK /\ [Next]_vars => TypeOK'
  BY TypeStep, ServerAssumption
<1> QED
  BY <1>1, <1>2, PTL DEF Spec

---------------------------------------------------------------------------

\* No socket other than s changes its phase, and s does not enter or leave
\* the set of live, tracked or admitted sockets other than as k says.
LEMMA OneSocketMoves ==
    ASSUME ServerConstants, TypeOK, NEW s \in Socket, NEW k \in SocketStates,
           NEW t, SocketStep(s, k, t)
    PROVE  /\ sock'[s] = k
           /\ \A r \in Socket \ {s} : sock'[r] = sock[r]
BY DEF SocketStep, TypeOK

\* Only an admission and a 'close' event change what is tracked, and both
\* change the two registries alike.
LEMMA RegistryStep ==
    ASSUME ServerConstants, TypeOK, TypeOK', RegistryInv, DrainInv, [Next]_vars
    PROVE  RegistryInv'
<1> USE DEF RegistryInv, RegistriesAgree
<1>1. CASE UNCHANGED <<sock, registryVars>>
  BY <1>1 DEF registryVars, Admitted
<1>2. CASE NotifyConnections
  <2>1. sock' = sock
    BY <1>2 DEF TypeOK, NotifyConnections, ServerClosed, Live, EndWith,
                CanWrite, Destroy, Open
  <2> QED
    BY <1>1, <1>2, <2>1 DEF NotifyConnections
<1>3. ASSUME NEW s \in Socket, Quiet(s) PROVE RegistryInv'
  <2>1. PICK k \in SocketStates, t \in 0 .. Off : Tracked(k) /\ SocketStep(s, k, t)
    BY <1>3 DEF Quiet
  <2>2. sock'[s] = k /\ \A r \in Socket \ {s} : sock'[r] = sock[r]
    BY <2>1, OneSocketMoves
  <2>3. Tracked(sock[s])
    BY <1>3 DEF Quiet, Tracked
  <2>4. \A r \in Socket : Tracked(sock'[r]) <=> Tracked(sock[r])
    BY <2>1, <2>2, <2>3
  <2>5. \A r \in Socket : sock'[r].phase # "idle" <=> sock[r].phase # "idle"
    BY <2>1, <2>2, <2>3 DEF Tracked, Open, Destroyed
  <2>6. Admitted' = Admitted
    BY <2>5 DEF Admitted
  <2>7. UNCHANGED registryVars
    BY <1>3 DEF Quiet
  <2> QED
    BY <2>4, <2>6, <2>7 DEF registryVars
<1>4. ASSUME NEW s \in Socket, Close(s) PROVE RegistryInv'
  <2> DEFINE k == EmitClose(sock[s])
  <2>1. k \in SocketStates /\ k.phase = "closed"
    BY DEF TypeOK, EmitClose, SocketStates, Phases
  <2>2. sock'[s] = k /\ \A r \in Socket \ {s} : sock'[r] = sock[r]
    BY <1>4, <2>1, OneSocketMoves DEF Close
  <2>3. Destroyed(sock[s]) /\ ~Tracked(sock'[s])
    BY <1>4, <2>1, <2>2 DEF Close, Tracked, Open, Destroyed
  <2>4. \A r \in Socket : sock'[r].phase # "idle" <=> sock[r].phase # "idle"
    BY <2>1, <2>2, <2>3 DEF Destroyed
  <2>5. Admitted' = Admitted
    BY <2>4 DEF Admitted
  <2>6. /\ activeConnections' = activeConnections \ {s}
        /\ connections' = connections \ {connectionId[s]}
        /\ UNCHANGED <<connectionCounter, connectionId, totalConnectionsServed>>
    BY <1>4 DEF Close, RemoveConnection
  <2>7. activeConnections' = {r \in Socket : Tracked(sock[r])'}
    BY <2>2, <2>3, <2>6
  <2>8. activeConnections \subseteq Admitted /\ s \in Admitted
    BY <2>3 DEF Admitted, Tracked, Open, Destroyed
  <2>9. connections' = {connectionId'[r] : r \in activeConnections'}
    BY <2>6, <2>8
  <2> QED
    BY <2>5, <2>6, <2>7, <2>9
<1>5. ASSUME NEW s \in Socket, Connection(s) PROVE RegistryInv'
  <2> DEFINE k == Write(Accepted)
  <2>1. k = Accepted /\ k \in SocketStates /\ Open(k)
    BY DEF Write, CanWrite, Accepted, Idle, SocketStates, Phases, Open
  <2>2. s \notin Admitted /\ AdmitConnection(s)
    BY <1>5 DEF Connection, DrainInv
  <2>3. sock'[s] = k /\ \A r \in Socket \ {s} : sock'[r] = sock[r]
    BY <2>1, <2>2, OneSocketMoves DEF AdmitConnection
  <2>4. Tracked(sock'[s]) /\ sock'[s].phase # "idle"
    BY <2>1, <2>3 DEF Tracked, Open
  <2>5. Admitted' = Admitted \cup {s}
    BY <2>3, <2>4 DEF Admitted
  <2>6. /\ activeConnections' = activeConnections \cup {s}
        /\ connectionCounter' = connectionCounter + 1
        /\ connectionId' = [connectionId EXCEPT ![s] = connectionCounter']
        /\ connections' = connections \cup {connectionId'[s]}
        /\ totalConnectionsServed' = totalConnectionsServed + 1
    BY <2>2 DEF AdmitConnection, AddConnection
  <2>7. activeConnections' = {r \in Socket : Tracked(sock[r])'}
    BY <2>3, <2>4, <2>6
  <2>8. /\ connectionId'[s] = connectionCounter + 1
        /\ \A r \in Socket \ {s} : connectionId'[r] = connectionId[r]
    BY <2>6 DEF TypeOK
  <2>9. activeConnections \subseteq Socket \ {s}
    BY <2>2 DEF Admitted, Tracked, Open, Destroyed
  <2>10. connections' = {connectionId'[r] : r \in activeConnections'}
    <3>1. connections = {connectionId'[r] : r \in activeConnections}
      BY <2>8, <2>9
    <3> QED
      BY <2>6, <3>1
  <2>11. \A r \in Admitted' : connectionId'[r] \in 1 .. connectionCounter'
    BY <2>2, <2>5, <2>6, <2>8 DEF TypeOK, Admitted
  <2>12. \A r, q \in Admitted' : connectionId'[r] = connectionId'[q] => r = q
    BY <2>2, <2>5, <2>8 DEF TypeOK, Admitted
  <2>13. totalConnectionsServed' = Cardinality(Admitted')
    <3>1. IsFiniteSet(Admitted)
      BY FS_Subset DEF Admitted, ServerConstants
    <3> QED
      BY <2>2, <2>5, <2>6, <3>1, FS_AddElement
  <2> QED
    BY <2>7, <2>10, <2>11, <2>12, <2>13
<1>6. CASE Start \/ ServerError \/ Tick \/ Signal \/ ShutdownDone
  <2>1. UNCHANGED <<sock, registryVars>>
    BY <1>6 DEF Start, ServerError, Tick, Signal, ShutdownDone
  <2> QED
    BY <1>1, <2>1
<1>7. CASE UNCHANGED vars
  BY <1>1, <1>7 DEF vars
<1> QED
  BY <1>2, <1>3, <1>4, <1>5, <1>6, <1>7, NextCases

\* No step reopens the listener of a stopping server or brings a live socket
\* into step 2 of shutdown().
LEMMA DrainStep ==
    ASSUME ServerConstants, TypeOK, DrainInv, [Next]_vars PROVE DrainInv'
<1> USE DEF DrainInv, NoForceClose, CleanExit, Running
<1>1. CASE Start
  BY <1>1 DEF Start, shutdownVars, Live
<1>2. CASE ServerError
  BY <1>2 DEF ServerError, shutdownVars, Live
<1>3. CASE Tick
  BY <1>3 DEF Tick, shutdownVars, Live
<1>4. CASE Signal
  BY <1>4 DEF Signal, Live
<1>5. CASE NotifyConnections
  <2>1. sock' = sock /\ stragglers' = {} /\ Live' = {}
    BY <1>5 DEF TypeOK, NotifyConnections, ServerClosed, Live, EndWith,
                CanWrite, Destroy, Open
  <2> QED
    BY <1>5, <2>1 DEF NotifyConnections
<1>6. CASE ShutdownDone
  BY <1>6 DEF ShutdownDone, shutdownVars, Live
<1>7. ASSUME NEW s \in Socket, Connection(s) PROVE DrainInv'
  <2>1. ~isShuttingDown /\ step # "draining" /\ Running
    BY <1>7 DEF Connection
  <2> QED
    BY <1>7, <2>1 DEF Connection, shutdownVars
<1>8. ASSUME NEW s \in Socket, Close(s) PROVE DrainInv'
  <2>1. sock'[s] = EmitClose(sock[s]) /\ \A r \in Socket \ {s} : sock'[r] = sock[r]
    BY <1>8 DEF Close, SocketStep, TypeOK
  <2>2. ~Open(sock'[s])
    BY <2>1 DEF TypeOK, EmitClose, Open, SocketStates, Phases
  <2>3. Live' \subseteq Live
    BY <2>1, <2>2 DEF Live
  <2> QED
    BY <1>8, <2>3 DEF Close, shutdownVars
<1>9. ASSUME NEW s \in Socket, Quiet(s) PROVE DrainInv'
  <2>1. \A r \in Socket \ {s} : sock'[r] = sock[r]
    BY <1>9 DEF Quiet, SocketStep, TypeOK
  <2>2. s \in Live
    BY <1>9 DEF Quiet, Live
  <2>3. step # "draining"
    BY <2>2
  <2> QED
    BY <1>9, <2>3 DEF Quiet, shutdownVars
<1>10. CASE UNCHANGED vars
  BY <1>10 DEF vars, shutdownVars, Live
<1> HIDE DEF DrainInv
<1> QED
  BY <1>1, <1>2, <1>3, <1>4, <1>5, <1>6, <1>7, <1>8, <1>9, <1>10, NextCases

\* The inductive invariant holds of every reachable state.
LEMMA Inductive == Spec => []IInv
<1>1. Init => IInv
  <2> SUFFICES ASSUME Init PROVE IInv
    OBVIOUS
  <2>1. TypeOK
    BY InitType, ServerAssumption
  <2>2. Admitted = {} /\ Live = {}
    BY DEF Init, Idle, Admitted, Live, Open
  <2>3. {s \in Socket : Tracked(sock[s])} = {}
    BY DEF Init, Idle, Tracked, Open, Destroyed
  <2>4. RegistryInv
    BY <2>2, <2>3, FS_EmptySet DEF Init, RegistryInv, RegistriesAgree
  <2>5. DrainInv
    BY <2>2 DEF Init, DrainInv, NoForceClose, CleanExit
  <2> QED
    BY <2>1, <2>4, <2>5 DEF IInv
<1>2. IInv /\ [Next]_vars => IInv'
  BY TypeStep, RegistryStep, DrainStep, ServerAssumption DEF IInv
<1> QED
  BY <1>1, <1>2, PTL DEF Spec

\* TCPServer.activeConnections and MetricsTracker.connections describe the
\* same connections in every reachable state, ids are never reused and the
\* served total is exact.
THEOREM RegistriesCorrect == Spec => []RegistriesAgree
<1>1. IInv => RegistriesAgree
  BY DEF IInv, RegistryInv
<1> QED
  BY <1>1, Inductive, PTL

\* However clients and signals interleave, step 2 of shutdown() finds no
\* socket to notify or to force-close.
THEOREM ForceCloseUnreachable == Spec => []NoForceClose
<1>1. IInv => NoForceClose
  BY DEF IInv, DrainInv
<1> QED
  BY <1>1, Inductive, PTL

\* A process that exits because shutdown() came to its end leaves no open
\* connection behind.
THEOREM ExitIsClean == Spec => []CleanExit
<1>1. IInv => CleanExit
  BY DEF IInv, DrainInv
<1> QED
  BY <1>1, Inductive, PTL

\* Nobody is admitted once shutdown() has been called.
THEOREM DrainAdmitsNobody == Spec => NoAdmissionWhileDraining
<1>1. ASSUME TypeOK, DrainInv, isShuttingDown, [Next]_vars
      PROVE  activeConnections' \subseteq activeConnections
  <2>1. CASE Start \/ ServerError \/ Tick \/ Signal \/ NotifyConnections
              \/ ShutdownDone \/ UNCHANGED vars
    BY <2>1 DEF Start, ServerError, Tick, Signal, NotifyConnections,
                ShutdownDone, vars, registryVars
  <2>2. ASSUME NEW s \in Socket, Connection(s) \/ Close(s) \/ Quiet(s)
        PROVE  activeConnections' \subseteq activeConnections
    BY <1>1, <2>2 DEF DrainInv, Connection, Close, Quiet, registryVars
  <2> QED
    BY <1>1, <2>1, <2>2, NextCases, ServerAssumption
<1>2. IInv /\ [Next]_vars =>
        [isShuttingDown => activeConnections' \subseteq activeConnections]_vars
  BY <1>1 DEF IInv
<1> QED
  BY <1>2, Inductive, PTL DEF Spec, NoAdmissionWhileDraining

---------------------------------------------------------------------------
(* TCPServer implements DrainServer. *)

\* The mode at each stage of the process, in this state and the next.
LEMMA ModeOf ==
    /\ process = "starting" => Mode = "new"
    /\ process = "running"  => Mode = IF isShuttingDown THEN "draining" ELSE "up"
    /\ process = "drained"  => Mode = "drained"
    /\ process = "forced"   => Mode = "aborted"
    /\ process = "failed"   => Mode = "crashed"
BY DEF Mode

\* The same of the state after a step.
LEMMA ModeOfNext ==
    /\ process' = "starting" => Mode' = "new"
    /\ process' = "running"  => Mode' = IF isShuttingDown' THEN "draining" ELSE "up"
    /\ process' = "drained"  => Mode' = "drained"
    /\ process' = "forced"   => Mode' = "aborted"
    /\ process' = "failed"   => Mode' = "crashed"
BY DEF Mode

\* A connection that stays tracked is, for DrainServer, still there or gone.
LEMMA LiveMoves ==
    ASSUME ServerConstants, TypeOK, NEW s \in Socket, Quiet(s)
    PROVE  /\ Admitted' = Admitted
           /\ s \in Live
           /\ Live' = Live \/ Live' = Live \ {s}
<1>1. PICK k \in SocketStates, t \in 0 .. Off : Tracked(k) /\ SocketStep(s, k, t)
  BY DEF Quiet
<1>2. sock'[s] = k /\ \A r \in Socket \ {s} : sock'[r] = sock[r]
  BY <1>1, OneSocketMoves
<1>3. s \in Live /\ s \in Admitted
  BY DEF Quiet, Live, Admitted, Open
<1>4. sock'[s].phase # "idle"
  BY <1>1, <1>2 DEF Tracked, Open, Destroyed
<1>5. \A r \in Socket : sock'[r].phase # "idle" <=> sock[r].phase # "idle"
  BY <1>2, <1>3, <1>4 DEF Admitted
<1>6. CASE Open(k)
  <2>1. \A r \in Socket : Open(sock'[r]) <=> Open(sock[r])
    BY <1>2, <1>3, <1>6 DEF Live
  <2> QED
    BY <1>3, <1>5, <2>1 DEF Live, Admitted
<1>7. CASE ~Open(k)
  <2>1. \A r \in Socket : Open(sock'[r]) <=> Open(sock[r]) /\ r # s
    BY <1>2, <1>3, <1>7 DEF Live
  <2> QED
    BY <1>3, <1>5, <2>1 DEF Live, Admitted
<1> QED
  BY <1>6, <1>7

\* DrainServer counts connections as TCPServer does.
LEMMA SameCount == \A S : Drain!Cardinality(S) = Cardinality(S)
BY DEF Drain!Cardinality, Cardinality

\* Every step of the server is a step of DrainServer or leaves it as it is.
LEMMA Simulation ==
    ASSUME ServerConstants, TypeOK, DrainInv, [Next]_vars
    PROVE  [Drain!Next]_(Drain!vars)
<1> USE ModeOf, ModeOfNext DEF Mode
<1>1. CASE Start
  <2>1. UNCHANGED <<Admitted, Live>> /\ ~isShuttingDown'
    BY <1>1 DEF Start, shutdownVars, Admitted, Live, DrainInv
  <2> QED
    BY <1>1, <2>1 DEF Start, Drain!Next, Drain!Open
<1>2. CASE ServerError
  <2>1. UNCHANGED <<Admitted, Live>> /\ (Running => ~isShuttingDown)
    BY <1>2 DEF ServerError, shutdownVars, Admitted, Live, DrainInv, Running
  <2> QED
    BY <1>2, <2>1 DEF ServerError, Running, Drain!Next, Drain!Crash
<1>3. CASE Tick \/ NotifyConnections
  <2>1. sock' = sock
    BY <1>3 DEF TypeOK, Tick, NotifyConnections, ServerClosed, Live, EndWith,
                CanWrite, Destroy, Open
  <2>2. UNCHANGED <<Admitted, Live, process, isShuttingDown>>
    BY <1>3, <2>1 DEF Tick, NotifyConnections, shutdownVars, Admitted, Live
  <2> QED
    BY <2>2 DEF Drain!vars
<1>4. CASE Signal
  <2>1. UNCHANGED <<Admitted, Live>>
    BY <1>4 DEF Signal, Admitted, Live
  <2>2. CASE isShuttingDown
    BY <1>4, <2>1, <2>2 DEF Signal, Running, Drain!Next, Drain!Abort
  <2>3. CASE ~isShuttingDown
    BY <1>4, <2>1, <2>3 DEF Signal, Running, Drain!Next, Drain!Drain
  <2> QED
    BY <2>2, <2>3
<1>5. CASE ShutdownDone
  <2>1. UNCHANGED <<Admitted, Live>> /\ isShuttingDown /\ Live = {}
    BY <1>5 DEF ShutdownDone, Admitted, Live, DrainInv
  <2> QED
    BY <1>5, <2>1 DEF ShutdownDone, Running, Drain!Next, Drain!Drained
<1>6. ASSUME NEW s \in Socket, Connection(s) PROVE Drain!Next
  <2> DEFINE k == Write(Accepted)
  <2>1. k = Accepted /\ k \in SocketStates /\ Open(k)
    BY DEF Write, CanWrite, Accepted, Idle, SocketStates, Phases, Open
  <2>2. /\ s \notin Admitted /\ ~isShuttingDown /\ AdmitConnection(s)
        /\ Running /\ BelowLimit
        /\ UNCHANGED <<process, isShuttingDown>>
    BY <1>6 DEF Connection, DrainInv, shutdownVars
  <2>3. sock'[s] = k /\ \A r \in Socket \ {s} : sock'[r] = sock[r]
    BY <2>1, <2>2, OneSocketMoves DEF AdmitConnection
  <2>4. Open(sock'[s]) /\ sock'[s].phase # "idle"
    BY <2>1, <2>3 DEF Open
  <2>5. Admitted' = Admitted \cup {s} /\ Live' = Live \cup {s}
    BY <2>3, <2>4 DEF Admitted, Live
  <2>6. Cardinality(Live) < IF MaxConnections = 0 THEN Cardinality(Socket)
                                                  ELSE MaxConnections
    <3>1. Live \subseteq Socket /\ s \notin Live
      BY <2>2 DEF Live, Admitted, Open
    <3>2. /\ IsFiniteSet(Socket) /\ IsFiniteSet(Live)
          /\ Cardinality(Live) <= Cardinality(Socket)
          /\ Cardinality(Live) # Cardinality(Socket)
      BY <3>1, FS_Subset DEF ServerConstants
    <3>3. Cardinality(Live) \in Nat /\ Cardinality(Socket) \in Nat
      BY <3>2, FS_CardinalityType
    <3> QED
      BY <2>2, <3>2, <3>3 DEF BelowLimit
  <2>7. Drain!Admit(s)
    BY <2>2, <2>5, <2>6, SameCount DEF Running, Drain!Admit
  <2> QED
    BY <2>7 DEF Drain!Next
<1>7. ASSUME NEW s \in Socket, Close(s) PROVE UNCHANGED Drain!vars
  <2>1. sock'[s] = EmitClose(sock[s]) /\ \A r \in Socket \ {s} : sock'[r] = sock[r]
    BY <1>7 DEF Close, SocketStep, TypeOK
  <2>2. sock'[s].phase = "closed" /\ Destroyed(sock[s])
    BY <1>7, <2>1 DEF TypeOK, EmitClose, Close, SocketStates, Phases
  <2>3. UNCHANGED <<Admitted, Live>>
    BY <2>1, <2>2 DEF Live, Admitted, Destroyed, Open
  <2>4. UNCHANGED <<process, isShuttingDown>>
    BY <1>7 DEF Close, shutdownVars
  <2> QED
    BY <2>3, <2>4 DEF Drain!vars
<1>8. ASSUME NEW s \in Socket, Quiet(s) PROVE [Drain!Next]_(Drain!vars)
  <2>1. /\ Admitted' = Admitted
        /\ s \in Live
        /\ Live' = Live \/ Live' = Live \ {s}
    BY <1>8, LiveMoves
  <2>2. Running /\ UNCHANGED <<process, isShuttingDown>>
    BY <1>8 DEF Quiet, shutdownVars
  <2>3. CASE Live' = Live
    BY <2>1, <2>2, <2>3 DEF Drain!vars
  <2>4. CASE Live' = Live \ {s}
    <3>1. Drain!Leave(s)
      BY <2>1, <2>2, <2>4 DEF Running, Drain!Leave
    <3> QED
      BY <3>1 DEF Drain!Next
  <2> QED
    BY <2>1, <2>3, <2>4
<1>9. CASE UNCHANGED vars
  BY <1>9 DEF vars, registryVars, shutdownVars, Admitted, Live, Drain!vars
<1> QED
  BY <1>1, <1>2, <1>3, <1>4, <1>5, <1>6, <1>7, <1>8, <1>9, NextCases

\* The server process implements DrainServer: it admits connections only
\* while it is up and below its limit, and goes down in good order only when
\* nobody is connected.
THEOREM Refinement == Spec => ImplementsDrain
<1>1. Init => Drain!Init
  <2>1. Init => Admitted = {} /\ Live = {}
    BY DEF Init, Idle, Admitted, Live, Open
  <2> QED
    BY <2>1 DEF Init, Mode, Drain!Init
<1>2. IInv /\ [Next]_vars => [Drain!Next]_(Drain!vars)
  BY Simulation, ServerAssumption DEF IInv
<1> QED
  BY <1>1, <1>2, Inductive, PTL DEF Spec, ImplementsDrain, Drain!Spec
==========================================================================
