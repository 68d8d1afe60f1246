------------------------- MODULE TCPClientProofs -------------------------
(***************************************************************************)
(* Proofs about TCPClient, for every backoff and every number of attempts. *)
(***************************************************************************)
EXTENDS TCPClient, TLAPS, FiniteSetTheorems, FunctionTheorems

\* Only a live socket is connected.
ConnectedPhase == isConnected => sock.phase \in {"open", "destroyed"}

\* What the phase of the socket says about the rest: a parser is clean
\* before a connection starts and after one is closed, only a live socket is
\* connected, and a timeout is armed only between two sockets, where a client
\* that quits arms none.
IInv ==
    /\ TypeOK
    /\ SingleChain
    /\ sock.phase \in {"idle", "closed"} => ~partial
    /\ ConnectedPhase
    /\ isQuitting => scheduled = 0

\* The client tries to connect, or failed to, or waits to try again.
Retrying ==
    \/ Connecting
    \/ Destroyed(sock) /\ ~isConnected /\ ~sock.eof
    \/ scheduled > 0

\* A socket that was connected shows it until its 'close' event, and its
\* 'connect' event has reset the attempts; while the client is retrying, the
\* last delay is that of the last attempt.
BackoffInv ==
    /\ Connecting => ~sock.eof
    /\ Open(sock) => isConnected \/ sock.eof
    /\ Open(sock) \/ (Destroyed(sock) /\ (isConnected \/ sock.eof)) => attempt = 0
    /\ Retrying => backoff = IF attempt = 0 THEN 0 ELSE Backoff(attempt)

---------------------------------------------------------------------------

\* A power of two is a natural number: it counts the subsets of 1 .. n.
LEMMA PowerIsNat ==
    ASSUME NEW n \in Nat
    PROVE  2 ^ n \in Nat
<1>1. IsFiniteSet(1 .. n) /\ Cardinality(1 .. n) = n
  BY FS_Interval
<1>2. IsFiniteSet(SUBSET (1 .. n)) /\ Cardinality(SUBSET (1 .. n)) = 2 ^ n
  BY <1>1, FS_SUBSET
<1> QED
  BY <1>2, FS_CardinalityType

\* A power of two is not zero: the empty set is among the subsets.
LEMMA PowerIsPositive ==
    ASSUME NEW n \in Nat
    PROVE  2 ^ n # 0
<1>1. IsFiniteSet(1 .. n) /\ Cardinality(1 .. n) = n
  BY FS_Interval
<1>2. IsFiniteSet(SUBSET (1 .. n)) /\ Cardinality(SUBSET (1 .. n)) = 2 ^ n
  BY <1>1, FS_SUBSET
<1>3. {} \in SUBSET (1 .. n)
  OBVIOUS
<1> QED
  BY <1>2, <1>3, FS_EmptySet

\* One more element makes twice as many subsets: those with it and those
\* without it.
LEMMA PowerDoubles ==
    ASSUME NEW n \in Nat
    PROVE  2 ^ (n + 1) = 2 * 2 ^ n
<1> DEFINE Without == SUBSET (1 .. n)
           with[s \in Without] == s \cup {n + 1}
           With == {with[s] : s \in Without}
<1>1. IsFiniteSet(1 .. n) /\ Cardinality(1 .. n) = n
  BY FS_Interval
<1>2. IsFiniteSet(1 .. (n + 1)) /\ Cardinality(1 .. (n + 1)) = n + 1
  BY FS_Interval
<1>3. IsFiniteSet(Without) /\ Cardinality(Without) = 2 ^ n
  BY <1>1, FS_SUBSET
<1>4. Cardinality(SUBSET (1 .. (n + 1))) = 2 ^ (n + 1)
  BY <1>2, FS_SUBSET
<1>5. \A s \in Without : n + 1 \notin s
  OBVIOUS
<1>6. IsFiniteSet(With) /\ Cardinality(With) = Cardinality(Without)
  <2>1. with \in [Without -> With]
    OBVIOUS
  <2>2. \A s, t \in Without : with[s] = with[t] => s = t
    BY <1>5
  <2>3. \A t \in With : \E s \in Without : with[s] = t
    OBVIOUS
  <2>4. with \in Bijection(Without, With)
    BY <2>1, <2>2, <2>3, Fun_IsBij
  <2>5. ExistsBijection(Without, With)
    BY <2>4 DEF ExistsBijection
  <2> QED
    BY <1>3, <2>5, FS_Bijection
<1>7. Without \cap With = {}
  BY <1>5
<1>i. 1 .. (n + 1) = (1 .. n) \cup {n + 1}
  OBVIOUS
<1>8. SUBSET (1 .. (n + 1)) = Without \cup With
  <2>1. ASSUME NEW s \in SUBSET (1 .. (n + 1))
        PROVE  s \in Without \cup With
    <3> DEFINE t == s \ {n + 1}
    <3>1. t \in Without
      BY <1>i
    <3>2. CASE n + 1 \in s
      <4>1. with[t] = t \cup {n + 1}
        BY <3>1
      <4>2. t \cup {n + 1} = s
        BY <3>2
      <4>3. with[t] \in With
        BY <3>1
      <4> QED
        BY <4>1, <4>2, <4>3
    <3>3. CASE n + 1 \notin s
      <4>1. t = s
        BY <3>3
      <4> QED
        BY <3>1, <4>1
    <3> QED
      BY <3>2, <3>3
  <2>2. ASSUME NEW s \in Without
        PROVE  s \subseteq 1 .. (n + 1) /\ with[s] \subseteq 1 .. (n + 1)
    BY <1>i
  <2> HIDE DEF with
  <2>3. \A t \in Without \cup With : t \subseteq 1 .. (n + 1)
    BY <2>2
  <2> QED
    BY <2>1, <2>3
<1>9. Cardinality(Without \cup With)
        = Cardinality(Without) + Cardinality(With) - Cardinality({})
  <2> HIDE DEF Without, With
  <2> QED
    BY <1>3, <1>6, <1>7, FS_Union
<1> HIDE DEF Without, With
<1>10. Cardinality(Without \cup With) = 2 ^ n + 2 ^ n
  <2>1. Cardinality({}) = 0
    BY FS_EmptySet
  <2>2. Cardinality(Without) \in Nat
    BY <1>3, FS_CardinalityType
  <2>3. Cardinality(Without \cup With) = Cardinality(Without) + Cardinality(Without)
    BY <1>6, <1>9, <2>1, <2>2
  <2> QED
    BY <1>3, <2>3
<1>11. 2 ^ (n + 1) = 2 ^ n + 2 ^ n
  BY <1>4, <1>8, <1>10
<1>12. \A p \in Nat : p + p = 2 * p
  OBVIOUS
<1> QED
  BY <1>11, <1>12, PowerIsNat

\* Twice to the power of nothing is one.
LEMMA PowerOfZero == 2 ^ 0 = 1
<1>1. IsFiniteSet({}) /\ Cardinality({}) = 0
  BY FS_EmptySet
<1>2. Cardinality(SUBSET {}) = 2 ^ 0
  BY <1>1, FS_SUBSET
<1>3. SUBSET {} = {{}}
  OBVIOUS
<1> QED
  BY <1>2, <1>3, FS_Singleton

\* The first delay is the initial one, every other the double of the one
\* before it, and none is above the maximum; from AttemptBound on, the delay
\* is the maximum.
LEMMA BackoffDoubles ==
    ASSUME ReconnectConstants
    PROVE  /\ Backoff(1) = Least(MaxDelay, InitialDelay)
           /\ \A n \in 1 .. AttemptBound :
                 /\ Backoff(n) = 0 <=> MaxDelay = 0
                 /\ Backoff(Least(n + 1, AttemptBound))
                      = Least(MaxDelay, 2 * Backoff(n))
<1> USE DEF ReconnectConstants
<1>1. Backoff(1) = Least(MaxDelay, InitialDelay)
  <2>1. InitialDelay * 2 ^ (1 - 1) = InitialDelay
    BY PowerOfZero
  <2> QED
    BY <2>1 DEF Backoff
<1>2. ASSUME NEW n \in 1 .. AttemptBound
      PROVE  /\ Backoff(n) = 0 <=> MaxDelay = 0
             /\ Backoff(Least(n + 1, AttemptBound))
                  = Least(MaxDelay, 2 * Backoff(n))
  <2> DEFINE p == 2 ^ (n - 1)
             q == 2 ^ n
  <2>1. p \in Nat \ {0} /\ q = 2 * p
    <3>1. n - 1 \in Nat /\ (n - 1) + 1 = n
      OBVIOUS
    <3>2. p \in Nat /\ q = 2 * p
      BY <3>1, PowerIsNat, PowerDoubles
    <3>3. p # 0
      BY <3>1, PowerIsPositive
    <3> QED
      BY <3>2, <3>3
  <2>2. Backoff(n) = Least(MaxDelay, InitialDelay * p)
    BY DEF Backoff
  <2>3. Backoff(n + 1) = Least(MaxDelay, InitialDelay * q)
    <3>1. (n + 1) - 1 = n
      OBVIOUS
    <3> QED
      BY <3>1 DEF Backoff
  <2>4. n = AttemptBound => InitialDelay * q >= 2 * MaxDelay
    OBVIOUS
  <2> HIDE DEF p, q
  <2> DEFINE d == InitialDelay * p
  <2>5. d \in Nat \ {0} /\ InitialDelay * q = 2 * d
    BY <2>1
  <2> HIDE DEF d
  <2>6. Backoff(n) = Least(MaxDelay, d) /\ Backoff(n + 1) = Least(MaxDelay, 2 * d)
    BY <2>2, <2>3, <2>5 DEF d
  <2>7. Backoff(n) = 0 <=> MaxDelay = 0
    BY <2>5, <2>6 DEF Least
  <2>8. CASE n < AttemptBound
    <3>1. Least(n + 1, AttemptBound) = n + 1
      BY <2>8 DEF Least
    <3> QED
      BY <2>5, <2>6, <2>7, <3>1 DEF Least
  <2>9. CASE n = AttemptBound
    <3>1. Least(n + 1, AttemptBound) = n
      BY <2>9 DEF Least
    <3>2. d >= MaxDelay
      BY <2>4, <2>5, <2>9
    <3> QED
      BY <2>5, <2>6, <2>7, <3>1, <3>2 DEF Least
  <2> QED
    BY <2>7, <2>8, <2>9
<1> QED
  BY <1>1, <1>2

\* A delay is at most the maximum.
LEMMA BackoffBounded ==
    ASSUME ReconnectConstants, NEW n \in Nat \ {0}
    PROVE  Backoff(n) \in 0 .. MaxDelay
<1>1. n - 1 \in Nat
  OBVIOUS
<1>2. 2 ^ (n - 1) \in Nat
  BY <1>1, PowerIsNat
<1> DEFINE p == 2 ^ (n - 1)
<1>3. Backoff(n) = Least(MaxDelay, InitialDelay * p)
  BY DEF Backoff
<1>4. p \in Nat
  BY <1>2
<1> HIDE DEF p
<1>5. InitialDelay * p \in Nat
  BY <1>4 DEF ReconnectConstants
<1> QED
  BY <1>3, <1>5 DEF Least, ReconnectConstants

\* A call of the manager leaves its variables in range.
ManagerOK ==
    /\ attempt \in 0 .. AttemptBound
    /\ scheduled \in Nat
    /\ backoff \in 0 .. MaxDelay
    /\ handle \in {"null", "armed", "fired"}

\* The one timeout there can be is the one the manager knows of.
OneTimer == scheduled = (IF handle = "armed" THEN 1 ELSE 0)

\* Each call of the manager keeps to one timeout.
LEMMA ManagerCalls ==
    ASSUME ReconnectConstants, ManagerOK, OneTimer
    PROVE  /\ Cancel => ManagerOK' /\ OneTimer' /\ scheduled' = 0
           /\ ResetBackoff => ManagerOK' /\ OneTimer' /\ scheduled' = 0
           /\ Fire => ManagerOK' /\ OneTimer' /\ scheduled = 1 /\ scheduled' = 0
           /\ (ScheduleReconnect /\ scheduled = 0)
                 => ManagerOK' /\ OneTimer'
           /\ UNCHANGED reconnectVars => ManagerOK' /\ OneTimer'
<1>1. ASSUME Cancel \/ ResetBackoff
      PROVE  ManagerOK' /\ OneTimer' /\ scheduled' = 0
  BY <1>1 DEF Cancel, ResetBackoff, ClearTimer, ManagerOK, OneTimer, ReconnectConstants
<1>2. ASSUME Fire
      PROVE  ManagerOK' /\ OneTimer' /\ scheduled = 1 /\ scheduled' = 0
  BY <1>2 DEF Fire, ManagerOK, OneTimer
<1>3. ASSUME ScheduleReconnect, scheduled = 0
      PROVE  ManagerOK' /\ OneTimer'
  <2>1. attempt' \in 1 .. AttemptBound
    BY <1>3 DEF ScheduleReconnect, Least, ManagerOK, ReconnectConstants
  <2>2. Backoff(attempt') \in 0 .. MaxDelay
    BY <2>1, BackoffBounded
  <2>3. CASE GivesUp(attempt')
    BY <1>3, <2>1, <2>3 DEF ScheduleReconnect, ManagerOK, OneTimer
  <2>4. CASE ~GivesUp(attempt')
    BY <1>3, <2>1, <2>2, <2>4 DEF ScheduleReconnect, ManagerOK, OneTimer
  <2> QED
    BY <2>3, <2>4
<1>4. ASSUME UNCHANGED reconnectVars
      PROVE  ManagerOK' /\ OneTimer'
  BY <1>4 DEF reconnectVars, ManagerOK, OneTimer
<1> QED
  BY <1>1, <1>2, <1>3, <1>4

\* Ending the client's socket and reading or flushing on it never makes it
\* idle or closed.
LEMMA SocketResults ==
    ASSUME NEW k \in SocketStates
    PROVE  /\ Ended(k) \in SocketStates /\ Ended(k).phase = k.phase
           /\ \A r \in {Write(k), Destroy(k), Eof(k), Finish(k)} :
                 /\ r \in SocketStates
                 /\ r.phase \in {k.phase, "destroyed"}
                 /\ ~Open(k) /\ r \in {Write(k), Destroy(k)} => r = k
<1>1. Ended(k) \in SocketStates /\ Ended(k).phase = k.phase
  BY DEF Ended, SocketStates
<1>2. /\ Destroy(k) \in SocketStates
      /\ Destroy(k).phase \in {k.phase, "destroyed"}
      /\ ~Open(k) => Destroy(k) = k
  BY DEF Destroy, Open, SocketStates, Phases
<1>3. /\ Write(k) \in SocketStates
      /\ Write(k).phase \in {k.phase, "destroyed"}
      /\ ~Open(k) => Write(k) = k
  BY <1>2 DEF Write
<1>4. /\ Eof(k) \in SocketStates
      /\ Eof(k).phase \in {k.phase, "destroyed"}
  BY DEF Eof, Destroy, Open, SocketStates, Phases
<1>5. /\ Finish(k) \in SocketStates
      /\ Finish(k).phase \in {k.phase, "destroyed"}
  BY DEF Finish, Destroy, Open, SocketStates, Phases
<1> QED
  BY <1>1, <1>2, <1>3, <1>4, <1>5

\* Init establishes IInv.
LEMMA InitIInv ==
    ASSUME ReconnectConstants, Init
    PROVE  IInv
<1>1. sock = Idle /\ Idle \in SocketStates /\ Idle.phase = "idle"
  BY DEF Init, Idle, SocketStates, Phases
<1>2. ManagerOK /\ scheduled = 0 /\ handle = "null"
  BY DEF Init, ReconnectInit, ManagerOK, ReconnectConstants
<1>3. TypeOK
  BY <1>1, <1>2 DEF Init, TypeOK, ManagerOK
<1> QED
  BY <1>1, <1>2, <1>3 DEF Init, IInv, SingleChain, ConnectedPhase

\* Disconnect() ends the socket, if there is one to end, and leaves no
\* timeout behind.
LEMMA DisconnectResult ==
    ASSUME ReconnectConstants, IInv, Disconnect
    PROVE  /\ ManagerOK' /\ OneTimer' /\ scheduled' = 0
           /\ isQuitting' = TRUE /\ prompt' = "null"
           /\ sock' \in SocketStates /\ sock'.phase = sock.phase
<1>1. ManagerOK /\ OneTimer /\ sock \in SocketStates
  BY DEF IInv, TypeOK, ManagerOK, SingleChain, OneTimer
<1> QED
  BY <1>1, ManagerCalls, SocketResults DEF Disconnect

\* Every step preserves IInv.
LEMMA StepIInv ==
    ASSUME ReconnectConstants, IInv, [Next]_vars
    PROVE  IInv'
<1> USE DEF Running, Connecting
<1>0. ManagerOK /\ OneTimer /\ sock \in SocketStates
  BY DEF IInv, TypeOK, ManagerOK, SingleChain, OneTimer
<1>i. TypeOK /\ SingleChain /\ ConnectedPhase
      /\ (sock.phase \in {"idle", "closed"} => ~partial)
      /\ (isQuitting => scheduled = 0)
  BY DEF IInv
<1>m. SUFFICES
        /\ TypeOK'
        /\ scheduled' > 0 => sock'.phase = "closed"
        /\ OneTimer'
        /\ sock'.phase \in {"idle", "closed"} => ~partial'
        /\ ConnectedPhase'
        /\ isQuitting' => scheduled' = 0
  BY DEF IInv, SingleChain, OneTimer
<1>t. sock.phase # "closed" => scheduled = 0
  BY <1>0, <1>i DEF SingleChain, ManagerOK
<1>1. CASE Connected
  <2>1. ManagerOK' /\ OneTimer' /\ scheduled' = 0
    BY <1>0, <1>1, ManagerCalls DEF Connected
  <2> DEFINE established == [sock EXCEPT !.phase = "open"]
  <2>2. established \in SocketStates /\ established.phase = "open"
    BY <1>0 DEF SocketStates, Phases
  <2>3. Ended(established) \in SocketStates /\ Ended(established).phase = "open"
    BY <2>2, SocketResults
  <2>4. sock' \in {established, Ended(established)}
    BY <1>1 DEF Connected
  <2>5. sock' \in SocketStates /\ sock'.phase = "open"
    BY <2>2, <2>3, <2>4
  <2>6. isQuitting' \in BOOLEAN
    BY <1>1, <1>i DEF Connected, TypeOK
  <2>7. TypeOK'
    BY <1>1, <1>i, <2>1, <2>5, <2>6 DEF Connected, TypeOK, ManagerOK
  <2> QED
    BY <1>1, <2>1, <2>5, <2>7 DEF Connected, ConnectedPhase
<1>2. CASE ConnectFails
  <2>1. sock' \in SocketStates /\ sock'.phase = "destroyed"
    BY <1>0, <1>2 DEF ConnectFails, SocketStates, Phases
  <2>2. ManagerOK' /\ OneTimer' /\ scheduled' = 0
    BY <1>0, <1>2, <1>t, ManagerCalls DEF ConnectFails, reconnectVars
  <2>3. TypeOK'
    BY <1>2, <1>i, <2>1, <2>2 DEF ConnectFails, TypeOK, ManagerOK
  <2> QED
    BY <1>2, <1>i, <2>1, <2>2, <2>3 DEF ConnectFails, ConnectedPhase
<1>3. CASE Data
  <2>1. ManagerOK' /\ OneTimer' /\ scheduled' = scheduled
    BY <1>0, <1>3, ManagerCalls DEF Data, reconnectVars
  <2>2. TypeOK'
    BY <1>3, <1>i, <2>1 DEF Data, TypeOK, ManagerOK
  <2> QED
    BY <1>3, <1>i, <1>t, <2>1, <2>2 DEF Data, Open, ConnectedPhase
<1>4. CASE End \/ Flushed \/ SocketError
  <2>1. /\ sock' \in SocketStates /\ sock'.phase \in {"open", "destroyed"}
        /\ sock.phase = "open"
    BY <1>0, <1>4, SocketResults DEF End, Flushed, SocketError, Open
  <2>2. /\ UNCHANGED <<autoReconnect, isQuitting, prompt, partial,
                       reconnectVars, initial, exiting, process>>
        /\ isConnected' \in {isConnected, FALSE}
    BY <1>4 DEF End, Flushed, SocketError, LosesConnection
  <2>3. ManagerOK' /\ OneTimer' /\ scheduled' = 0
    BY <1>0, <1>t, <2>1, <2>2, ManagerCalls DEF reconnectVars
  <2>4. TypeOK'
    BY <1>i, <2>1, <2>2, <2>3 DEF TypeOK, ManagerOK
  <2> QED
    BY <1>i, <2>1, <2>2, <2>3, <2>4 DEF ConnectedPhase
<1>5. CASE Close
  <2>1. sock' \in SocketStates /\ sock'.phase = "closed"
    BY <1>0, <1>5 DEF Close, EmitClose, SocketStates, Phases
  <2>2. scheduled = 0
    BY <1>5, <1>t DEF Close, Destroyed
  <2>3. ManagerOK' /\ OneTimer' /\ (isQuitting => scheduled' = 0)
    BY <1>0, <1>5, <2>2, ManagerCalls DEF Close, WillRetry, reconnectVars
  <2>4. TypeOK'
    BY <1>5, <1>i, <2>1, <2>3
    DEF Close, LosesConnection, ResetParser, TypeOK, ManagerOK
  <2> QED
    BY <1>5, <2>1, <2>3, <2>4 DEF Close, LosesConnection, ResetParser, ConnectedPhase
<1>6. CASE Reconnect
  <2>1. ManagerOK' /\ OneTimer' /\ scheduled = 1 /\ scheduled' = 0
    BY <1>0, <1>6, ManagerCalls DEF Reconnect
  <2>2. sock.phase = "closed"
    BY <1>i, <2>1 DEF SingleChain
  <2>3. sock' \in SocketStates /\ sock'.phase = "idle"
    BY <1>6 DEF Reconnect, Idle, SocketStates, Phases
  <2>4. TypeOK'
    BY <1>6, <1>i, <2>1, <2>3 DEF Reconnect, TypeOK, ManagerOK
  <2> QED
    BY <1>6, <1>i, <2>1, <2>2, <2>3, <2>4 DEF Reconnect, ConnectedPhase
<1>7. CASE \E quit \in BOOLEAN : Line(quit)
  <2> PICK quit \in BOOLEAN : Line(quit)
    BY <1>7
  <2>1. sock.phase \in {"open", "destroyed"}
    BY <1>i DEF Line, ConnectedPhase
  <2>2. sock' \in SocketStates /\ sock'.phase \in {"open", "destroyed"}
    BY <1>0, <2>1, SocketResults DEF Line
  <2>3. ManagerOK' /\ OneTimer' /\ scheduled' = 0
    BY <1>0, <1>t, <2>1, ManagerCalls DEF Line, reconnectVars
  <2>4. TypeOK'
    BY <1>i, <2>2, <2>3 DEF Line, NoticesQuit, TypeOK, ManagerOK
  <2> QED
    BY <2>2, <2>3, <2>4 DEF Line, ConnectedPhase
<1>8. CASE ClosePrompt
  <2>1. CASE isQuitting
    <3>1. prompt' = "closed" /\ UNCHANGED <<sock, isQuitting, reconnectVars>>
      BY <1>8, <2>1 DEF ClosePrompt, PromptCloses
    <3>2. ManagerOK' /\ OneTimer' /\ scheduled' = scheduled
      BY <1>0, <3>1, ManagerCalls DEF reconnectVars
    <3>3. TypeOK'
      BY <1>8, <1>i, <3>1, <3>2 DEF ClosePrompt, TypeOK, ManagerOK
    <3> QED
      BY <1>8, <1>i, <3>1, <3>2, <3>3 DEF ClosePrompt, SingleChain, ConnectedPhase
  <2>2. CASE ~isQuitting
    <3>1. Disconnect
      BY <1>8, <2>2 DEF ClosePrompt, PromptCloses
    <3>2. TypeOK'
      BY <1>8, <1>i, <3>1, DisconnectResult DEF ClosePrompt, TypeOK, ManagerOK
    <3> QED
      BY <1>8, <1>i, <3>1, <3>2, DisconnectResult DEF ClosePrompt, ConnectedPhase
  <2> QED
    BY <2>1, <2>2
<1>9. CASE Interrupt
  <2>1. Disconnect
    BY <1>9 DEF Interrupt
  <2>2. TypeOK'
    BY <1>9, <1>i, <2>1, DisconnectResult DEF Interrupt, TypeOK, ManagerOK
  <2> QED
    BY <1>9, <1>i, <2>1, <2>2, DisconnectResult DEF Interrupt, ConnectedPhase
<1>10. CASE Exit \/ NothingLeft
  <2>1. /\ UNCHANGED <<autoReconnect, sock, isConnected, isQuitting, prompt,
                       partial, reconnectVars, initial, exiting>>
        /\ process' = "exited"
    BY <1>10 DEF Exit, NothingLeft
  <2> QED
    BY <1>i, <2>1 DEF TypeOK, SingleChain, OneTimer, ConnectedPhase, reconnectVars
<1>11. CASE UNCHANGED vars
  BY <1>11, <1>i DEF vars, TypeOK, SingleChain, OneTimer, ConnectedPhase, reconnectVars
<1> QED
  BY <1>1, <1>2, <1>3, <1>4, <1>5, <1>6, <1>7, <1>8, <1>9, <1>10, <1>11 DEF Next

---------------------------------------------------------------------------

\* IInv holds in every state of the client.
LEMMA Invariance == Spec => []IInv
<1>1. Init => IInv
  BY InitIInv, ReconnectAssumption
<1>2. IInv /\ [Next]_vars => IInv'
  BY StepIInv, ReconnectAssumption
<1> QED
  BY <1>1, <1>2, PTL DEF Spec

\* Every variable of the client stays in its range.
THEOREM TypeCorrect == Spec => []TypeOK
<1>1. IInv => TypeOK
  BY DEF IInv
<1> QED
  BY <1>1, Invariance, PTL

\* There is never more than one chain of attempts: at most one timeout is
\* armed, the one cancel() would find, and only between two sockets.
THEOREM OneChainOfAttempts == Spec => []SingleChain
<1>1. IInv => SingleChain
  BY DEF IInv
<1> QED
  BY <1>1, Invariance, PTL

\* No connection starts with what the last one left in the parser.
THEOREM BufferIsFresh == Spec => []FreshBuffer
<1>1. IInv => FreshBuffer
  BY DEF IInv, FreshBuffer, Connecting
<1> QED
  BY <1>1, Invariance, PTL

\* The FIN either side has sent is on record: the server's clears
\* isConnected, and the client's own is that of a client that quits or has
\* read the server's.
EndingInv ==
    /\ Connecting => ~sock.eof
    /\ isConnected => ~sock.eof
    /\ sock.ending => isQuitting \/ sock.eof

\* What the socket's operations make of its ends.
LEMMA SocketEnds ==
    ASSUME NEW k \in SocketStates
    PROVE  /\ Ended(k).eof = k.eof /\ Eof(k).eof
           /\ \A r \in {Write(k), Destroy(k), Finish(k)} :
                 r.eof = k.eof /\ r.ending = k.ending
<1>1. Destroy(k).eof = k.eof /\ Destroy(k).ending = k.ending
  BY DEF Destroy, SocketStates
<1>2. Write(k).eof = k.eof /\ Write(k).ending = k.ending
  BY <1>1 DEF Write
<1>3. Finish(k).eof = k.eof /\ Finish(k).ending = k.ending
  BY DEF Finish, Destroy, Open, SocketStates
<1>4. Ended(k).eof = k.eof /\ Eof(k).eof
  BY DEF Ended, Eof, Destroy, Open, SocketStates
<1> QED
  BY <1>1, <1>2, <1>3, <1>4

\* Every step preserves EndingInv.
LEMMA StepEnding ==
    ASSUME IInv, EndingInv, [Next]_vars
    PROVE  EndingInv'
<1> USE DEF Connecting
<1>0. sock \in SocketStates /\ isQuitting \in BOOLEAN
  BY DEF IInv, TypeOK
<1>d. ASSUME Disconnect, UNCHANGED isConnected PROVE EndingInv'
  <2>1. isQuitting' /\ sock'.eof = sock.eof /\ sock'.phase = sock.phase
    BY <1>0, <1>d, SocketEnds, SocketResults DEF Disconnect
  <2> QED
    BY <1>d, <2>1 DEF EndingInv
<1>1. CASE Connected
  <2> DEFINE established == [sock EXCEPT !.phase = "open"]
  <2>1. /\ established \in SocketStates /\ established.phase = "open"
        /\ established.eof = sock.eof /\ established.ending = sock.ending
    BY <1>0 DEF SocketStates, Phases
  <2>2. CASE prompt = "open" /\ ~isQuitting
    <3>1. sock' = Ended(established) /\ isQuitting'
      BY <1>1, <2>2 DEF Connected
    <3> HIDE DEF established
    <3>2. sock'.eof = sock.eof /\ sock'.phase = "open"
      BY <2>1, <3>1, SocketEnds, SocketResults
    <3> QED
      BY <1>1, <3>1, <3>2 DEF Connected, EndingInv
  <2>3. CASE ~(prompt = "open" /\ ~isQuitting)
    <3>1. sock' = established /\ isQuitting' = isQuitting
      BY <1>0, <1>1, <2>3 DEF Connected
    <3> HIDE DEF established
    <3> QED
      BY <1>1, <2>1, <3>1 DEF Connected, EndingInv
  <2> QED
    BY <2>2, <2>3
<1>2. CASE ConnectFails
  <2>1. /\ sock'.phase = "destroyed" /\ sock'.eof = sock.eof
        /\ sock'.ending = sock.ending /\ UNCHANGED <<isConnected, isQuitting>>
    BY <1>0, <1>2 DEF ConnectFails, SocketStates
  <2> QED
    BY <2>1 DEF EndingInv
<1>3. CASE Data \/ Exit \/ NothingLeft \/ UNCHANGED vars
  <2>1. UNCHANGED <<sock, isConnected, isQuitting>>
    BY <1>3 DEF Data, Exit, NothingLeft, vars
  <2> QED
    BY <2>1 DEF EndingInv
<1>4. CASE End
  <2>1. /\ sock'.eof /\ sock'.phase \in {"open", "destroyed"} /\ ~isConnected'
    BY <1>0, <1>4, SocketEnds, SocketResults DEF End, LosesConnection, Open
  <2> QED
    BY <2>1 DEF EndingInv
<1>5. CASE Flushed \/ SocketError
  <2>1. /\ Open(sock) /\ sock' \in {Finish(sock), Destroy(sock)}
        /\ UNCHANGED <<isConnected, isQuitting>>
    BY <1>5 DEF Flushed, SocketError
  <2>2. sock'.eof = sock.eof /\ sock'.ending = sock.ending
    BY <1>0, <2>1, SocketEnds
  <2>3. sock'.phase # "idle"
    BY <1>0, <2>1, SocketResults DEF Open
  <2> QED
    BY <2>1, <2>2, <2>3 DEF EndingInv
<1>6. CASE Close
  <2>1. /\ sock'.phase = "closed" /\ sock'.eof = sock.eof
        /\ sock'.ending = sock.ending /\ ~isConnected' /\ UNCHANGED isQuitting
    BY <1>0, <1>6 DEF Close, EmitClose, LosesConnection, SocketStates
  <2> QED
    BY <2>1 DEF EndingInv
<1>7. CASE Reconnect
  <2>1. ~sock'.eof /\ ~sock'.ending
    BY <1>7 DEF Reconnect, Idle
  <2> QED
    BY <2>1 DEF EndingInv
<1>8. CASE \E quit \in BOOLEAN : Line(quit)
  <2> PICK quit \in BOOLEAN : Line(quit)
    BY <1>8
  <2>1. /\ sock' = Write(sock) /\ isConnected /\ UNCHANGED isConnected
        /\ isQuitting => isQuitting'
    BY <1>0 DEF Line, NoticesQuit
  <2>2. sock'.eof = sock.eof /\ sock'.ending = sock.ending
    BY <1>0, <2>1, SocketEnds
  <2> QED
    BY <2>1, <2>2 DEF EndingInv
<1>9. CASE ClosePrompt /\ isQuitting
  <2>1. UNCHANGED <<sock, isConnected, isQuitting>>
    BY <1>9 DEF ClosePrompt, PromptCloses
  <2> QED
    BY <2>1 DEF EndingInv
<1>10. CASE (ClosePrompt /\ ~isQuitting) \/ Interrupt
  <2>1. Disconnect /\ UNCHANGED isConnected
    BY <1>10 DEF ClosePrompt, PromptCloses, Interrupt
  <2> QED
    BY <1>d, <2>1
<1> QED
  BY <1>1, <1>2, <1>3, <1>4, <1>5, <1>6, <1>7, <1>8, <1>9, <1>10 DEF Next

\* isConnected outlives neither the socket it speaks of nor the server's end
\* of it, and the client's own only in a client that quits.
THEOREM ConnectedMeansSocket == Spec => []ConnectedSocket
<1>1. Init => EndingInv
  BY DEF Init, Idle, EndingInv
<1>2. IInv /\ EndingInv /\ [Next]_vars => EndingInv'
  BY StepEnding
<1>3. IInv /\ EndingInv => ConnectedSocket
  BY DEF IInv, ConnectedPhase, EndingInv, ConnectedSocket
<1> QED
  BY <1>1, <1>2, <1>3, Invariance, PTL DEF Spec

\* The step form of QuitIsFinal: once quitting, and not just connecting, the
\* client never connects again.
LEMMA QuitStep ==
    ASSUME ReconnectConstants, IInv, [Next]_vars, isQuitting, ~Connecting
    PROVE  ~Connecting'
<1>0. sock \in SocketStates /\ sock.phase # "idle" /\ scheduled = 0
  BY DEF IInv, TypeOK, Connecting
<1>1. CASE Connected \/ ConnectFails
  BY <1>0, <1>1 DEF Connected, ConnectFails, Connecting
<1>2. CASE Data \/ Exit \/ NothingLeft \/ UNCHANGED vars
  BY <1>0, <1>2 DEF Data, Exit, NothingLeft, vars, Connecting
<1>3. CASE End \/ Flushed \/ SocketError
  BY <1>0, <1>3, SocketResults DEF End, Flushed, SocketError, Connecting
<1>4. CASE Close
  BY <1>0, <1>4 DEF Close, EmitClose, SocketStates, Connecting
<1>5. CASE Reconnect
  BY <1>0, <1>5 DEF Reconnect, Fire
<1>6. CASE \E quit \in BOOLEAN : Line(quit)
  BY <1>0, <1>6, SocketResults DEF Line, Connecting
<1>7. CASE ClosePrompt \/ Interrupt
  BY <1>0, <1>7, DisconnectResult DEF ClosePrompt, Interrupt, PromptCloses, Connecting
<1> QED
  BY <1>1, <1>2, <1>3, <1>4, <1>5, <1>6, <1>7 DEF Next

\* Quitting is final, whichever of the user, the server and the timer came
\* first: no attempt is pending and no connection is tried again.
THEOREM QuittingIsFinal == Spec => QuitIsFinal
<1>1. IInv => (isQuitting => scheduled = 0)
  BY DEF IInv
<1>2. IInv /\ [Next]_vars => (isQuitting /\ ~Connecting => ~Connecting')
  BY QuitStep, ReconnectAssumption
<1>3. Spec => [](isQuitting => scheduled = 0)
  BY <1>1, Invariance, PTL
<1>4. Spec => [][isQuitting /\ ~Connecting => ~Connecting']_vars
  BY <1>2, Invariance, PTL DEF Spec
<1> QED
  BY <1>3, <1>4 DEF QuitIsFinal

\* A timeout is armed by 'close' alone, and its delay is the initial one
\* after a connection and the double of the last after a failed attempt.
RetryDelay ==
    scheduled' > scheduled =>
        backoff' = IF isConnected \/ sock.eof
                     THEN Least(MaxDelay, InitialDelay)
                     ELSE Least(MaxDelay, IF backoff = 0 THEN InitialDelay
                                                         ELSE 2 * backoff)

\* What 'close' makes of the backoff when the manager schedules an attempt.
LEMMA ScheduledDelay ==
    ASSUME ReconnectConstants, IInv, BackoffInv, Close, ScheduleReconnect
    PROVE  RetryDelay /\ (scheduled' > 0 => backoff' = Backoff(attempt') /\ attempt' # 0)
<1>0. attempt \in 0 .. AttemptBound /\ scheduled = 0 /\ Destroyed(sock)
  BY DEF IInv, TypeOK, SingleChain, Close, Destroyed
<1>1. attempt' = Least(attempt + 1, AttemptBound) /\ attempt' \in 1 .. AttemptBound
  BY <1>0 DEF ScheduleReconnect, Least, ReconnectConstants
<1>2. CASE GivesUp(attempt')
  BY <1>0, <1>2 DEF ScheduleReconnect, RetryDelay
<1>3. CASE ~GivesUp(attempt')
  <2>1. backoff' = Backoff(attempt')
    BY <1>3 DEF ScheduleReconnect
  <2>2. CASE attempt = 0
    <3>1. attempt' = 1
      BY <1>1, <2>2 DEF Least, ReconnectConstants
    <3>2. ~(isConnected \/ sock.eof) => backoff = 0
      BY <1>0, <2>2 DEF BackoffInv, Retrying
    <3>3. backoff' = Least(MaxDelay, InitialDelay)
      BY <2>1, <3>1, BackoffDoubles
    <3> QED
      BY <1>1, <2>1, <3>2, <3>3 DEF RetryDelay
  <2>3. CASE attempt # 0
    <3>1. ~(isConnected \/ sock.eof) /\ backoff = Backoff(attempt)
      BY <1>0, <2>3 DEF BackoffInv, Retrying
    <3>2. attempt \in 1 .. AttemptBound
      BY <1>0, <2>3
    <3>3. backoff' = Least(MaxDelay, 2 * backoff)
      BY <1>1, <2>1, <3>1, <3>2, BackoffDoubles
    <3>4. backoff = 0 => MaxDelay = 0
      BY <3>1, <3>2, BackoffDoubles
    <3>5. backoff = 0 => Least(MaxDelay, 2 * backoff) = Least(MaxDelay, InitialDelay)
      BY <3>4 DEF Least, ReconnectConstants
    <3> QED
      BY <1>1, <2>1, <3>1, <3>3, <3>5 DEF RetryDelay
  <2> QED
    BY <2>2, <2>3
<1> QED
  BY <1>2, <1>3

\* Disconnect() neither arms a timeout nor touches the backoff.
LEMMA DisconnectBackoff ==
    ASSUME ReconnectConstants, IInv, BackoffInv, Disconnect, UNCHANGED isConnected
    PROVE  BackoffInv' /\ RetryDelay
<1>0. sock \in SocketStates /\ scheduled \in Nat
  BY DEF IInv, TypeOK
<1>1. /\ scheduled' = 0 /\ UNCHANGED <<attempt, backoff>>
      /\ sock'.phase = sock.phase /\ sock'.eof = sock.eof
  BY <1>0, DisconnectResult, SocketEnds DEF Disconnect, Cancel
<1> QED
  BY <1>0, <1>1 DEF BackoffInv, RetryDelay, Retrying, Connecting, Open, Destroyed

\* Every step preserves BackoffInv, and arms a timeout as RetryDelay says.
LEMMA StepBackoff ==
    ASSUME ReconnectConstants, IInv, BackoffInv, [Next]_vars
    PROVE  BackoffInv' /\ RetryDelay
<1> USE DEF Connecting, Open, Destroyed
<1>0. /\ sock \in SocketStates /\ scheduled \in Nat
      /\ attempt \in 0 .. AttemptBound /\ ConnectedPhase
      /\ sock.phase # "closed" => scheduled = 0
  BY DEF IInv, TypeOK, SingleChain
<1>1. CASE Connected
  <2>1. scheduled' = 0 /\ attempt' = 0
    <3>1. ManagerOK /\ OneTimer
      BY DEF IInv, TypeOK, SingleChain, ManagerOK, OneTimer
    <3> QED
      BY <1>1, <3>1, ManagerCalls DEF Connected, ResetBackoff
  <2> DEFINE established == [sock EXCEPT !.phase = "open"]
  <2>2. established \in SocketStates /\ established.phase = "open"
    BY <1>0 DEF SocketStates, Phases
  <2>3. sock' \in {established, Ended(established)}
    BY <1>1 DEF Connected
  <2>4. sock'.phase = "open"
    <3>1. Ended(established).phase = established.phase
      BY <2>2, SocketResults
    <3> HIDE DEF established
    <3> QED
      BY <2>2, <2>3, <3>1
  <2> QED
    BY <1>0, <1>1, <2>1, <2>4 DEF Connected, BackoffInv, RetryDelay, Retrying
<1>2. CASE ConnectFails
  <2>1. sock'.phase = "destroyed" /\ sock'.eof = sock.eof
    BY <1>0, <1>2 DEF ConnectFails, SocketStates
  <2> QED
    BY <1>0, <1>2, <2>1
    DEF ConnectFails, reconnectVars, BackoffInv, RetryDelay, Retrying, ConnectedPhase
<1>3. CASE Data \/ Exit \/ NothingLeft \/ UNCHANGED vars
  <2>1. UNCHANGED <<sock, isConnected, reconnectVars>>
    BY <1>3 DEF Data, Exit, NothingLeft, vars
  <2> QED
    BY <1>0, <2>1 DEF reconnectVars, BackoffInv, RetryDelay, Retrying
<1>4. CASE End
  <2>1. sock.phase = "open" /\ sock'.phase \in {"open", "destroyed"} /\ sock'.eof
    BY <1>0, <1>4, SocketResults, SocketEnds DEF End
  <2> QED
    BY <1>0, <1>4, <2>1 DEF End, reconnectVars, BackoffInv, RetryDelay, Retrying
<1>5. CASE Flushed \/ SocketError
  <2>1. /\ sock.phase = "open" /\ sock'.phase \in {"open", "destroyed"}
        /\ sock'.eof = sock.eof
    <3>1. sock.phase = "open" /\ sock' \in {Finish(sock), Destroy(sock)}
      BY <1>5 DEF Flushed, SocketError
    <3>2. /\ Finish(sock).phase \in {"open", "destroyed"}
          /\ Destroy(sock).phase \in {"open", "destroyed"}
      BY <1>0, <3>1, SocketResults
    <3>3. Finish(sock).eof = sock.eof /\ Destroy(sock).eof = sock.eof
      BY <1>0, SocketEnds
    <3> QED
      BY <3>1, <3>2, <3>3
  <2> QED
    BY <1>0, <1>5, <2>1
    DEF Flushed, SocketError, reconnectVars, BackoffInv, RetryDelay, Retrying
<1>6. CASE Close
  <2>1. sock'.phase = "closed"
    BY <1>0, <1>6 DEF Close, EmitClose, SocketStates
  <2>2. CASE WillRetry
    <3>1. ScheduleReconnect
      BY <1>6, <2>2 DEF Close
    <3> QED
      BY <1>6, <2>1, <3>1, ScheduledDelay DEF BackoffInv, Retrying
  <2>3. CASE ~WillRetry
    BY <1>0, <1>6, <2>1, <2>3
    DEF Close, reconnectVars, BackoffInv, RetryDelay, Retrying
  <2> QED
    BY <2>2, <2>3
<1>7. CASE Reconnect
  <2>1. sock'.phase = "idle" /\ ~sock'.eof
    BY <1>7 DEF Reconnect, Idle
  <2> QED
    BY <1>0, <1>7, <2>1 DEF Reconnect, Fire, BackoffInv, RetryDelay, Retrying
<1>8. CASE \E quit \in BOOLEAN : Line(quit)
  <2> PICK quit \in BOOLEAN : Line(quit)
    BY <1>8
  <2>1. /\ sock.phase \in {"open", "destroyed"}
        /\ sock'.phase \in {sock.phase, "destroyed"}
        /\ sock'.eof = sock.eof
    <3>1. sock' = Write(sock) /\ sock.phase \in {"open", "destroyed"}
      BY <1>0 DEF Line, ConnectedPhase
    <3>2. Write(sock).phase \in {sock.phase, "destroyed"}
      BY <1>0, SocketResults
    <3>3. Write(sock).eof = sock.eof
      BY <1>0, SocketEnds
    <3> QED
      BY <3>1, <3>2, <3>3
  <2> QED
    BY <1>0, <2>1 DEF Line, reconnectVars, BackoffInv, RetryDelay, Retrying
<1>9. CASE ClosePrompt /\ isQuitting
  <2>1. UNCHANGED <<sock, isConnected, reconnectVars>>
    BY <1>9 DEF ClosePrompt, PromptCloses
  <2> QED
    BY <1>0, <2>1 DEF reconnectVars, BackoffInv, RetryDelay, Retrying
<1>10. CASE (ClosePrompt /\ ~isQuitting) \/ Interrupt
  <2>1. Disconnect /\ UNCHANGED isConnected
    BY <1>10 DEF ClosePrompt, PromptCloses, Interrupt
  <2> QED
    BY <2>1, DisconnectBackoff
<1> QED
  BY <1>1, <1>2, <1>3, <1>4, <1>5, <1>6, <1>7, <1>8, <1>9, <1>10 DEF Next

\* The backoff starts over after a connection and doubles with each failed
\* attempt, up to the maximum, for every initial delay and maximum.
THEOREM BackoffDoublesOnFailure == Spec => BackoffGrows
<1>1. Init => BackoffInv
  BY DEF Init, ReconnectInit, Idle, BackoffInv, Retrying, Connecting, Open, Destroyed
<1>2. IInv /\ BackoffInv /\ [Next]_vars => BackoffInv'
  BY StepBackoff, ReconnectAssumption
<1>3. Spec => []BackoffInv
  BY <1>1, <1>2, Invariance, PTL DEF Spec
<1>4. IInv /\ BackoffInv /\ [Next]_vars => RetryDelay
  BY StepBackoff, ReconnectAssumption
<1>5. Spec => [][RetryDelay]_vars
  BY <1>3, <1>4, Invariance, PTL DEF Spec
<1> QED
  BY <1>5 DEF BackoffGrows, RetryDelay
==========================================================================
