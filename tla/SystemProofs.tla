-------------------------- MODULE SystemProofs --------------------------
(***************************************************************************)
(* Proofs about System, for every server, every client and every number    *)
(* of lines typed ahead.  What a step does to one side is a step of that   *)
(* side, so the invariants of TCPServerProofs and TCPClientProofs hold     *)
(* here too and are taken from there.                                      *)
(***************************************************************************)
EXTENDS System, SequenceLemmas, TLAPS

ServerSide == INSTANCE TCPServerProofs

ClientSide == INSTANCE TCPClientProofs WITH
    sock <- clientSocket, process <- clientProcess

\* A line that the client took for QUIT is the only one that both sides take
\* for QUIT, and the client is quitting from the moment it is typed: before
\* that there is none on the way and none that was answered.
QuitKnown ==
    ~isQuitting =>
        /\ goodbye # "quit"
        /\ \A e \in End : \A i \in 1 .. Len(up[e]) : up[e][i] # "quit"

NetworkOK ==
    /\ peer \in End
    /\ up \in [End -> BoundedSeq(Kinds, Pipeline)]
    /\ cut \subseteq End
    /\ goodbye \in {"none", "quit", "quitArgs"}

IInv ==
    /\ Server!TypeOK
    /\ ClientSide!IInv
    /\ NetworkOK
    /\ QuitKnown

---------------------------------------------------------------------------
(* The steps of each side. *)

\* Both instances of TCPServer count alike.
LEMMA SameCount == \A S : Server!Cardinality(S) = ServerSide!Cardinality(S)
BY DEF Server!Cardinality, ServerSide!Cardinality

\* The server's steps in System are those TCPServerProofs speaks of.
LEMMA SameServer == Server!Next => ServerSide!Next
<1>1. /\ \A s \in Socket : Server!Connection(s) => ServerSide!Connection(s)
      /\ \A lines : \A s \in Socket : Server!Data(s, lines) => ServerSide!Data(s, lines)
      /\ \A s \in Socket : Server!End(s) => ServerSide!End(s)
      /\ \A s \in Socket : Server!Flushed(s) => ServerSide!Flushed(s)
      /\ \A s \in Socket : Server!SocketError(s) => ServerSide!SocketError(s)
      /\ \A s \in Socket : Server!Timeout(s) => ServerSide!Timeout(s)
      /\ \A s \in Socket : Server!Close(s) => ServerSide!Close(s)
      /\ Server!Start => ServerSide!Start
      /\ Server!ServerError => ServerSide!ServerError
      /\ Server!Tick => ServerSide!Tick
      /\ Server!Signal => ServerSide!Signal
      /\ Server!NotifyConnections => ServerSide!NotifyConnections
      /\ Server!ShutdownDone => ServerSide!ShutdownDone
  <2> USE DEF Server!Idle, ServerSide!Idle, Server!Accepted,
              ServerSide!Accepted, Server!Open, ServerSide!Open,
              Server!Destroyed, ServerSide!Destroyed, Server!CanWrite,
              ServerSide!CanWrite, Server!Destroy, ServerSide!Destroy,
              Server!Write, ServerSide!Write, Server!EndWith,
              ServerSide!EndWith, Server!Eof, ServerSide!Eof, Server!Finish,
              ServerSide!Finish, Server!EmitClose, ServerSide!EmitClose,
              Server!Running, ServerSide!Running, Server!Live, ServerSide!Live,
              Server!Admitted, ServerSide!Admitted, Server!Off, ServerSide!Off,
              Server!SocketStep, ServerSide!SocketStep, Server!registryVars,
              ServerSide!registryVars, Server!shutdownVars,
              ServerSide!shutdownVars, Server!Start, ServerSide!Start,
              Server!ServerError, ServerSide!ServerError, Server!BelowLimit,
              ServerSide!BelowLimit, Server!AddConnection,
              ServerSide!AddConnection, Server!RejectConnection,
              ServerSide!RejectConnection, Server!AdmitConnection,
              ServerSide!AdmitConnection, Server!Connection,
              ServerSide!Connection, Server!Lines, ServerSide!Lines,
              Server!AfterLines, ServerSide!AfterLines, Server!Receiving,
              ServerSide!Receiving, Server!Data, ServerSide!Data, Server!End,
              ServerSide!End, Server!Flushed, ServerSide!Flushed,
              Server!SocketError, ServerSide!SocketError, Server!Timeout,
              ServerSide!Timeout, Server!Tick, ServerSide!Tick,
              Server!RemoveConnection, ServerSide!RemoveConnection,
              Server!Close, ServerSide!Close, Server!Signal, ServerSide!Signal,
              Server!ServerClosed, ServerSide!ServerClosed,
              Server!NotifyConnections, ServerSide!NotifyConnections,
              Server!ShutdownDone, ServerSide!ShutdownDone
  <2>1. \A s \in Socket : Server!Connection(s) => ServerSide!Connection(s)
    BY SameCount
  <2>2. \A lines : \A s \in Socket : Server!Data(s, lines) => ServerSide!Data(s, lines)
    BY Zenon
  <2>3. \A s \in Socket : Server!End(s) => ServerSide!End(s)
    BY Zenon
  <2>4. \A s \in Socket : Server!Flushed(s) => ServerSide!Flushed(s)
    BY Zenon
  <2>5. \A s \in Socket : Server!SocketError(s) => ServerSide!SocketError(s)
    BY Zenon
  <2>6. \A s \in Socket : Server!Timeout(s) => ServerSide!Timeout(s)
    BY Zenon
  <2>7. \A s \in Socket : Server!Close(s) => ServerSide!Close(s)
    BY Zenon
  <2>8. Server!Start => ServerSide!Start
    BY Zenon
  <2>9. Server!ServerError => ServerSide!ServerError
    BY Zenon
  <2>10. Server!Tick => ServerSide!Tick
    BY Zenon
  <2>11. Server!Signal => ServerSide!Signal
    BY Zenon
  <2>12. Server!NotifyConnections => ServerSide!NotifyConnections
    BY Zenon
  <2>13. Server!ShutdownDone => ServerSide!ShutdownDone
    BY Zenon
  <2> QED
    BY Zenon, <2>1, <2>2, <2>3, <2>4, <2>5, <2>6, <2>7, <2>8, <2>9, <2>10, <2>11, <2>12, <2>13
<1> QED
  BY <1>1 DEF Server!Next, ServerSide!Next, Server!SocketNext,
     ServerSide!SocketNext, Server!Lines, ServerSide!Lines

\* The client's steps in System are those TCPClientProofs speaks of.
LEMMA SameClient == Client!Next => ClientSide!Next
<1>1. /\ Client!Connected => ClientSide!Connected
      /\ Client!ConnectFails => ClientSide!ConnectFails
      /\ Client!Data => ClientSide!Data
      /\ Client!End => ClientSide!End
      /\ Client!Flushed => ClientSide!Flushed
      /\ Client!SocketError => ClientSide!SocketError
      /\ Client!Close => ClientSide!Close
      /\ Client!Reconnect => ClientSide!Reconnect
      /\ \A quit : Client!Line(quit) => ClientSide!Line(quit)
      /\ Client!ClosePrompt => ClientSide!ClosePrompt
      /\ Client!Interrupt => ClientSide!Interrupt
      /\ Client!Exit => ClientSide!Exit
      /\ Client!NothingLeft => ClientSide!NothingLeft
  BY Zenon
   DEF Client!Idle, ClientSide!Idle, Client!Open, ClientSide!Open,
         Client!Destroyed, ClientSide!Destroyed, Client!CanWrite,
         ClientSide!CanWrite, Client!Destroy, ClientSide!Destroy, Client!Write,
         ClientSide!Write, Client!Eof, ClientSide!Eof, Client!Finish,
         ClientSide!Finish, Client!EmitClose, ClientSide!EmitClose,
         Client!Running, ClientSide!Running, Client!Connecting,
         ClientSide!Connecting, Client!LosesConnection,
         ClientSide!LosesConnection, Client!ResetParser,
         ClientSide!ResetParser, Client!WillRetry, ClientSide!WillRetry,
         Client!Ended, ClientSide!Ended, Client!Disconnect,
         ClientSide!Disconnect, Client!PromptCloses, ClientSide!PromptCloses,
         Client!Connected, ClientSide!Connected, Client!ConnectFails,
         ClientSide!ConnectFails, Client!Data, ClientSide!Data, Client!End,
         ClientSide!End, Client!Flushed, ClientSide!Flushed,
         Client!SocketError, ClientSide!SocketError, Client!Close,
         ClientSide!Close, Client!Reconnect, ClientSide!Reconnect,
         Client!NoticesQuit, ClientSide!NoticesQuit, Client!Line,
         ClientSide!Line, Client!ClosePrompt, ClientSide!ClosePrompt,
         Client!Interrupt, ClientSide!Interrupt, Client!Exit, ClientSide!Exit,
         Client!NothingLeft, ClientSide!NothingLeft, Client!reconnectVars,
         ClientSide!reconnectVars, Client!ReconnectInit,
         ClientSide!ReconnectInit, Client!Least, ClientSide!Least,
         Client!Backoff, ClientSide!Backoff, Client!GivesUp,
         ClientSide!GivesUp, Client!ScheduleReconnect,
         ClientSide!ScheduleReconnect, Client!ClearTimer,
         ClientSide!ClearTimer, Client!Cancel, ClientSide!Cancel,
         Client!ResetBackoff, ClientSide!ResetBackoff, Client!Fire,
         ClientSide!Fire
<1> QED
  BY <1>1 DEF Client!Next, ClientSide!Next

\* The server's variables stay in their ranges in whatever the server does.
LEMMA ServerKept ==
    ASSUME Server!ServerConstants, Server!TypeOK,
           Server!Next \/ UNCHANGED serverVars
    PROVE  Server!TypeOK'
<1>1. ServerSide!ServerConstants
  BY DEF Server!ServerConstants, ServerSide!ServerConstants,
         Server!IsFiniteSet, ServerSide!IsFiniteSet
<1>2. ServerSide!TypeOK
  BY Zenon DEF Server!TypeOK, ServerSide!TypeOK, Server!SocketStates,
     ServerSide!SocketStates, Server!Phases, ServerSide!Phases, Server!Off,
     ServerSide!Off, Server!Steps, ServerSide!Steps, Server!Processes,
     ServerSide!Processes
<1>3. [ServerSide!Next]_(ServerSide!vars)
  BY SameServer DEF serverVars, ServerSide!vars, ServerSide!registryVars,
     ServerSide!shutdownVars
<1>4. ServerSide!TypeOK'
  BY <1>1, <1>2, <1>3, ServerSide!TypeStep
<1> QED
  BY Zenon, <1>4 DEF Server!TypeOK, ServerSide!TypeOK, Server!SocketStates,
     ServerSide!SocketStates, Server!Phases, ServerSide!Phases, Server!Off,
     ServerSide!Off, Server!Steps, ServerSide!Steps, Server!Processes,
     ServerSide!Processes

\* The client's invariant survives whatever the client does.
LEMMA ClientKept ==
    ASSUME Client!ReconnectConstants, ClientSide!IInv,
           Client!Next \/ UNCHANGED clientVars
    PROVE  ClientSide!IInv'
<1>1. ClientSide!ReconnectConstants
  BY DEF Client!ReconnectConstants, ClientSide!ReconnectConstants
<1>2. [ClientSide!Next]_(ClientSide!vars)
  BY SameClient DEF clientVars, ClientSide!vars, ClientSide!reconnectVars
<1> QED
  BY <1>1, <1>2, ClientSide!StepIInv

\* A client that quits goes on quitting.
LEMMA QuitStays ==
    ASSUME Client!Next \/ UNCHANGED clientVars, isQuitting
    PROVE  isQuitting'
<1> USE DEF Client!Next
<1>1. CASE Client!Connected
  BY <1>1 DEF Client!Connected
<1>2. CASE \E quit \in BOOLEAN : Client!Line(quit)
  BY <1>2 DEF Client!Line, Client!NoticesQuit
<1>3. CASE Client!ClosePrompt \/ Client!Interrupt
  BY <1>3 DEF Client!ClosePrompt, Client!Interrupt, Client!PromptCloses,
              Client!Disconnect
<1> QED
  BY <1>1, <1>2, <1>3 DEF clientVars, Client!ConnectFails, Client!Data,
     Client!End, Client!Flushed, Client!SocketError, Client!Close,
     Client!Reconnect, Client!Exit, Client!NothingLeft

---------------------------------------------------------------------------
(* The steps of the system. *)

\* Every step is a step of each side, or leaves that side as it is, or puts a
\* new server in the place of the old one.
LEMMA Sides ==
    ASSUME [Next]_vars
    PROVE  /\ Server!Next \/ Anew \/ UNCHANGED serverVars
           /\ Client!Next \/ UNCHANGED clientVars
<1>1. CASE Connect
  <2>1. Client!Next
    BY <1>1 DEF Connect, Accepts, Drops, Refuses, Client!Next
  <2>2. CASE Accepts
    <3>1. PICK s \in Socket : Server!Connection(s)
      <4> DEFINE s == CHOOSE s \in Socket \ Server!Admitted : TRUE
      <4>1. Server!Connection(s) /\ Server!Admitted # Socket
        BY <2>2 DEF Accepts
      <4>2. \E r \in Socket \ Server!Admitted : TRUE
        BY <4>1 DEF Server!Admitted
      <4>3. s \in Socket
        BY <4>2
      <4> QED
        BY <4>1, <4>3
    <3> QED
      BY <2>1, <3>1 DEF Server!Next, Server!SocketNext
  <2> QED
    BY <1>1, <2>1, <2>2 DEF Connect, Drops, Refuses
<1>2. ASSUME NEW kind \in Kinds, Line(kind)
      PROVE  Client!Next /\ UNCHANGED serverVars
  BY <1>2 DEF Line, Client!Next
<1>3. ASSUME NEW s \in Socket, ServerDue(s)
      PROVE  Server!Next /\ UNCHANGED clientVars
  <2>1. ASSUME NEW n \in 1 .. Len(up[s]), ServerData(s, n)
        PROVE  Server!Next /\ UNCHANGED clientVars
    <3>1. PICK lines \in {"replies", "quit"} : Server!Data(s, lines)
      BY <2>1 DEF ServerData
    <3>2. lines \in Server!Lines
      BY DEF Server!Lines
    <3> QED
      BY <2>1, <3>1, <3>2 DEF ServerData, Server!Next, Server!SocketNext
  <2>2. ASSUME \/ Server!End(s) \/ Server!SocketError(s)
               \/ Server!Flushed(s) \/ Server!Close(s)
        PROVE  Server!Next
    BY <2>2 DEF Server!Next, Server!SocketNext
  <2> QED
    BY <1>3, <2>1, <2>2 DEF ServerDue, ServerEnd, ServerSocketError
<1>4. CASE ClientDue \/ ClientCrash \/ ClientStep
  BY <1>4 DEF ClientDue, ClientEnd, ClientSocketError, ClientCrash, ClientStep,
              Client!Next
<1>5. CASE Cut \/ UNCHANGED vars
  BY <1>5 DEF Cut, vars
<1>6. CASE Restart
  BY <1>6 DEF Restart
<1>7. CASE ServerStep
  BY <1>7 DEF ServerStep, Server!Next, Server!SocketNext
<1> QED
  BY <1>1, <1>2, <1>3, <1>4, <1>5, <1>6, <1>7 DEF Next

\* A server that is started again starts in range.
LEMMA AnewType ==
    ASSUME Server!ServerConstants, Anew
    PROVE  Server!TypeOK'
<1>1. Idle \in Server!SocketStates
  BY DEF Idle, Server!SocketStates, Server!Phases
<1>2. Server!Off \in 0 .. Server!Off
  BY DEF Server!Off, Server!ServerConstants
<1> QED
  BY <1>1, <1>2 DEF Anew, Server!TypeOK, Server!Steps, Server!Processes

\* BoundedSeq by the length of its members.
LEMMA BoundedSeqIs ==
    ASSUME NEW S, NEW n \in Nat, NEW q
    PROVE  q \in BoundedSeq(S, n) <=> q \in Seq(S) /\ Len(q) <= n
BY DEF BoundedSeq, SeqOf

\* The empty sequence is within every bound.
LEMMA EmptyBounded ==
    ASSUME NEW S, NEW n \in Nat
    PROVE  <<>> \in BoundedSeq(S, n)
<1>1. <<>> \in Seq(S) /\ Len(<<>>) = 0 /\ 0 <= n
  OBVIOUS
<1> QED
  BY <1>1, BoundedSeqIs

\* A chunk in which a line ends the connection ends it with its first line
\* that is not of the other kind.
LEMMA FirstQuit ==
    ASSUME NEW q \in Seq(Kinds), SelectInSeq(q, LAMBDA kind : kind # "other") # 0
    PROVE  LET i == SelectInSeq(q, LAMBDA kind : kind # "other")
           IN i \in 1 .. Len(q) /\ q[i] \in {"quit", "quitArgs"}
<1> DEFINE I == {i \in 1 .. Len(q) : q[i] # "other"}
           first == SelectInSeq(q, LAMBDA kind : kind # "other")
<1>1. first = IF I # {} THEN Min(I) ELSE 0
  BY Zenon DEF SelectInSeq
<1>2. I \in SUBSET Nat /\ I # {}
  BY <1>1
<1> HIDE DEF I, first
<1>3. first \in I
  BY <1>1, <1>2, MinOf
<1>4. first \in 1 .. Len(q) /\ q[first] # "other" /\ q[first] \in Kinds
  BY <1>3 DEF I
<1> QED
  BY <1>4 DEF first, Kinds

\* No step takes the network out of its range, or brings a QUIT on the way
\* or to the server that the client does not know of.
LEMMA NetworkKept ==
    ASSUME Pipeline \in Nat, NetworkOK, QuitKnown, [Next]_vars
    PROVE  NetworkOK' /\ QuitKnown'
<1>0. isQuitting => isQuitting'
  BY Sides, QuitStays
<1>1. \A e \in End : up[e] \in Seq(Kinds) /\ Len(up[e]) <= Pipeline
  BY BoundedSeqIs DEF NetworkOK
<1>2. peer \in End /\ None \in End /\ Socket \subseteq End
  BY DEF NetworkOK, End
<1>3. CASE UNCHANGED networkVars
  BY <1>0, <1>3 DEF networkVars, NetworkOK, QuitKnown
<1>4. CASE Connect
  <2>1. CASE Accepts
    <3>1. peer' \in Socket
      <4> DEFINE s == CHOOSE s \in Socket \ Server!Admitted : TRUE
      <4>1. peer' = s /\ Server!Admitted # Socket
        BY <2>1 DEF Accepts
      <4>2. \E r \in Socket \ Server!Admitted : TRUE
        BY <4>1 DEF Server!Admitted
      <4> QED
        BY <4>1, <4>2
    <3> QED
      BY <1>0, <1>2, <2>1, <3>1 DEF Accepts, NetworkOK, QuitKnown
  <2>2. CASE Drops
    <3>1. <<>> \in BoundedSeq(Kinds, Pipeline)
      BY EmptyBounded
    <3>2. up' \in [End -> BoundedSeq(Kinds, Pipeline)]
      BY <2>2, <3>1 DEF Drops, NetworkOK
    <3>3. \A e \in End : up'[e] = up[e] \/ up'[e] = <<>>
      BY <2>2 DEF Drops, NetworkOK
    <3> QED
      BY <1>0, <1>2, <2>2, <3>2, <3>3 DEF Drops, NetworkOK, QuitKnown
  <2>3. CASE Refuses
    BY <1>3, <2>3 DEF Refuses
  <2> QED
    BY <1>4, <2>1, <2>2, <2>3 DEF Connect
<1>5. ASSUME NEW kind \in Kinds, Line(kind) PROVE NetworkOK' /\ QuitKnown'
  <2>1. /\ Len(up[peer]) < Pipeline
        /\ up' \in {[up EXCEPT ![peer] = Append(up[peer], kind)], up}
        /\ UNCHANGED <<peer, cut, goodbye>>
        /\ kind = "quit" => isQuitting'
    BY <1>5 DEF Line, Client!Line, Client!NoticesQuit
  <2> DEFINE more == Append(up[peer], kind)
  <2>2. /\ more \in Seq(Kinds) /\ Len(more) = Len(up[peer]) + 1
        /\ \A i \in 1 .. Len(up[peer]) : more[i] = up[peer][i]
        /\ more[Len(up[peer]) + 1] = kind
        /\ Len(up[peer]) \in Nat
    BY <1>1, <1>2
  <2>3. up' \in {[up EXCEPT ![peer] = more], up}
    BY <2>1
  <2> HIDE DEF more
  <2>4. more \in BoundedSeq(Kinds, Pipeline)
    <3>1. Len(more) <= Pipeline
      BY <2>1, <2>2
    <3> QED
      BY <2>2, <3>1, BoundedSeqIs
  <2>5. NetworkOK'
    BY <2>1, <2>3, <2>4 DEF NetworkOK
  <2>6. ASSUME ~isQuitting'
        PROVE  \A e \in End : \A i \in 1 .. Len(up'[e]) : up'[e][i] # "quit"
    <3>1. kind # "quit" /\ \A e \in End : \A i \in 1 .. Len(up[e]) : up[e][i] # "quit"
      BY <1>0, <2>1, <2>6 DEF QuitKnown
    <3>2. \A i \in 1 .. Len(more) : more[i] # "quit"
      BY <1>2, <2>2, <3>1
    <3>3. \A e \in End : up'[e] \in {up[e], more}
      BY <2>3 DEF NetworkOK
    <3> QED
      BY <3>1, <3>2, <3>3
  <2> QED
    BY <1>0, <2>1, <2>5, <2>6 DEF QuitKnown
<1>6. ASSUME NEW s \in Socket, NEW n \in 1 .. Len(up[s]), ServerData(s, n)
      PROVE  NetworkOK' /\ QuitKnown'
  <2> DEFINE chunk == SubSeq(up[s], 1, n)
             rest == SubSeq(up[s], n + 1, Len(up[s]))
             quit == SelectInSeq(chunk, LAMBDA kind : kind # "other")
  <2>1. up[s] \in Seq(Kinds) /\ Len(up[s]) \in Nat /\ Len(up[s]) <= Pipeline
    BY <1>1, <1>2
  <2>2. /\ chunk \in Seq(Kinds) /\ Len(chunk) = n
        /\ \A i \in 1 .. n : chunk[i] = up[s][i]
    BY <2>1
  <2>3. /\ rest \in Seq(Kinds) /\ Len(rest) = Len(up[s]) - n
        /\ \A i \in 1 .. Len(rest) : rest[i] = up[s][n + i]
    BY <2>1
  <2>4. /\ up' = [up EXCEPT ![s] = rest]
        /\ UNCHANGED <<clientVars, peer, cut>>
        /\ goodbye' = goodbye \/ (quit # 0 /\ goodbye' = chunk[quit])
    BY <1>6 DEF ServerData
  <2>5. quit # 0 => quit \in 1 .. Len(chunk) /\ chunk[quit] \in {"quit", "quitArgs"}
    BY <2>2, FirstQuit
  <2> HIDE DEF chunk, rest, quit
  <2>6. rest \in BoundedSeq(Kinds, Pipeline)
    <3>1. Len(rest) <= Pipeline
      BY <2>1, <2>3
    <3> QED
      BY <2>3, <3>1, BoundedSeqIs
  <2>7. NetworkOK'
    BY <2>4, <2>5, <2>6 DEF NetworkOK
  <2>8. ASSUME ~isQuitting'
        PROVE  /\ goodbye' # "quit"
               /\ \A e \in End : \A i \in 1 .. Len(up'[e]) : up'[e][i] # "quit"
    <3>1. /\ goodbye # "quit"
          /\ \A e \in End : \A i \in 1 .. Len(up[e]) : up[e][i] # "quit"
      BY <1>0, <2>8 DEF QuitKnown
    <3>2. \A i \in 1 .. Len(up[s]) : up[s][i] # "quit"
      BY <1>2, <3>1
    <3>3. ASSUME NEW i \in 1 .. Len(rest) PROVE rest[i] # "quit"
      <4>1. n + i \in 1 .. Len(up[s])
        BY <2>1, <2>3
      <4> QED
        BY <2>3, <3>2, <4>1
    <3>4. ASSUME quit # 0 PROVE chunk[quit] # "quit"
      <4>1. quit \in 1 .. n /\ quit \in 1 .. Len(up[s])
        BY <2>1, <2>2, <2>5, <3>4
      <4> QED
        BY <2>2, <3>2, <4>1
    <3>5. \A e \in End : up'[e] \in {up[e], rest}
      BY <2>4 DEF NetworkOK
    <3> QED
      BY <2>4, <3>1, <3>3, <3>5, <3>4
  <2> QED
    BY <2>7, <2>8 DEF QuitKnown
<1>7. ASSUME NEW s \in Socket, ServerDue(s) PROVE NetworkOK' /\ QuitKnown'
  BY <1>3, <1>6, <1>7 DEF ServerDue, ServerEnd, ServerSocketError
<1>8. CASE Cut
  BY <1>0, <1>8 DEF Cut, NetworkOK, QuitKnown
<1>9. CASE Restart
  <2>1. <<>> \in BoundedSeq(Kinds, Pipeline)
    BY EmptyBounded
  <2>2. up' \in [End -> BoundedSeq(Kinds, Pipeline)]
    BY <1>2, <1>9, <2>1 DEF Restart, NetworkOK
  <2>3. \A e \in End : up'[e] \in {up[peer], <<>>}
    BY <1>9 DEF Restart
  <2>4. QuitKnown'
    BY <1>0, <1>2, <1>9, <2>3 DEF Restart, QuitKnown
  <2>5. cut' \subseteq End /\ peer' \in End /\ goodbye' = goodbye
    BY <1>2, <1>9 DEF Restart
  <2> QED
    BY <2>2, <2>4, <2>5 DEF NetworkOK
<1>10. CASE ClientDue \/ ClientCrash \/ ServerStep \/ ClientStep \/ UNCHANGED vars
  BY <1>3, <1>10 DEF ClientDue, ClientEnd, ClientSocketError, ClientCrash,
                     ServerStep, ClientStep, vars
<1> QED
  BY <1>4, <1>5, <1>7, <1>8, <1>9, <1>10 DEF Next

---------------------------------------------------------------------------

\* The two programs and the network start as IInv says.
LEMMA InitIInv ==
    ASSUME SystemAssumption, Init
    PROVE  IInv
<1> USE DEF SystemAssumption
<1>1. Server!TypeOK
  <2>1. Idle \in Server!SocketStates /\ Server!Idle = Idle
    BY DEF Idle, Server!Idle, Server!SocketStates, Server!Phases
  <2>2. Server!Off \in 0 .. Server!Off
    BY DEF Server!Off, Server!ServerConstants
  <2> QED
    BY <2>1, <2>2 DEF Init, Server!Init, Server!TypeOK, Server!Steps, Server!Processes
<1>2. ClientSide!IInv
  <2>1. ClientSide!ReconnectConstants
    BY DEF Client!ReconnectConstants, ClientSide!ReconnectConstants
  <2>2. ClientSide!Init
    BY DEF Init, Client!Init, ClientSide!Init, Client!ReconnectInit,
           ClientSide!ReconnectInit, Client!Idle, ClientSide!Idle
  <2> QED
    BY <2>1, <2>2, ClientSide!InitIInv
<1>3. NetworkOK
  <2>1. <<>> \in BoundedSeq(Kinds, Pipeline)
    BY EmptyBounded
  <2> QED
    BY <2>1 DEF Init, NetworkOK, End
<1>4. QuitKnown
  BY DEF Init, QuitKnown
<1> QED
  BY <1>1, <1>2, <1>3, <1>4 DEF IInv

\* Every step preserves IInv.
LEMMA StepIInv ==
    ASSUME SystemAssumption, IInv, [Next]_vars
    PROVE  IInv'
<1>1. /\ Server!ServerConstants /\ Client!ReconnectConstants /\ Pipeline \in Nat
      /\ Server!TypeOK /\ ClientSide!IInv /\ NetworkOK /\ QuitKnown
  BY DEF SystemAssumption, IInv
<1>2. Server!TypeOK'
  BY <1>1, Sides, ServerKept, AnewType
<1>3. ClientSide!IInv'
  BY <1>1, Sides, ClientKept
<1>4. NetworkOK' /\ QuitKnown'
  BY <1>1, NetworkKept
<1> QED
  BY <1>2, <1>3, <1>4 DEF IInv

\* IInv holds in every state of the system.
LEMMA Invariance == Spec => []IInv
<1>1. Init => IInv
  BY InitIInv, SystemAssumption
<1>2. IInv /\ [Next]_vars => IInv'
  BY StepIInv, SystemAssumption
<1> QED
  BY <1>1, <1>2, PTL DEF Spec

\* The invariant of TCPClientProofs has every type of the client in it.
LEMMA ClientTypes == ClientSide!IInv => Client!TypeOK
<1>1. ClientSide!IInv => ClientSide!TypeOK
  BY DEF ClientSide!IInv
<1>2. ClientSide!TypeOK => Client!TypeOK
  BY Zenon DEF Client!TypeOK, ClientSide!TypeOK, Client!SocketStates,
     ClientSide!SocketStates, Client!Phases, ClientSide!Phases
<1> QED
  BY <1>1, <1>2

\* Every variable of the two programs and of the network stays in its range,
\* through cuts of the network and restarts of the server.
THEOREM TypeCorrect == Spec => []TypeOK
<1>1. IInv => TypeOK
  <2> SUFFICES ASSUME IInv PROVE TypeOK
    OBVIOUS
  <2>1. Server!TypeOK /\ Client!TypeOK /\ NetworkOK
    BY ClientTypes DEF IInv
  <2>2. goodbye \in Kinds \cup {"none"}
    BY <2>1 DEF NetworkOK, Kinds
  <2> QED
    BY <2>1, <2>2 DEF TypeOK, NetworkOK
<1> QED
  BY <1>1, Invariance, PTL

\* A client that has an attempt pending was not told goodbye for a QUIT of
\* its own: only a QUIT with an argument makes it come back.
THEOREM NoRetryAfterQuit == Spec => []GoodbyeNotRetried
<1>1. IInv => GoodbyeNotRetried
  <2> SUFFICES ASSUME IInv, scheduled > 0 PROVE goodbye \in {"none", "quitArgs"}
    BY DEF GoodbyeNotRetried
  <2>1. ~isQuitting
    BY DEF IInv, ClientSide!IInv
  <2> QED
    BY <2>1 DEF IInv, QuitKnown, NetworkOK
<1> QED
  BY <1>1, Invariance, PTL
==========================================================================
