--------------------- MODULE ConnectionHandlerProofs ---------------------
(***************************************************************************)
(* Proofs about ConnectionHandler, for every alphabet of one-byte          *)
(* characters, every length limit, texts of any length and any cut into    *)
(* chunks, with timeouts, resets and a peer that does not read.            *)
(***************************************************************************)
EXTENDS ConnectionHandler, FramingProofs

Farewells == {"goodbye", "timedOut"}

\* While the server still writes it has said no farewell.
NoFarewell == CanWrite(sock) => \A i \in 1 .. Len(out) : out[i] \notin Farewells

\* The buffer of an open connection is the end of the unfinished line, and
\* all of it for a client that keeps to the limit.
BufferIsEnd ==
    Open(sock) => /\ buffer \in Suffixes(Partial(Delivered))
                  /\ WithinLimit(Delivered) => buffer = Partial(Delivered)

\* A request is counted once, if at all.
ReceivedBounded == metrics.received <= Len(Messages(Delivered))

\* A write after end leaves no open socket.
BrokenIsDestroyed == error = "writeAfterEnd" => ~Open(sock)

\* AnswersFollowRequests and FarewellIsLast are not inductive without
\* NoFarewell and BufferIsEnd, nor is InfoIsConsistent without CountersMatch,
\* which INFO reports, and ReceivedBounded, nor CountersMatch without
\* BrokenIsDestroyed: a write after end is the last one.
IInv ==
    /\ TypeOK
    /\ NoFarewell /\ FarewellIsLast
    /\ BufferIsEnd /\ AnswersFollowRequests
    /\ BrokenIsDestroyed /\ CountersMatch /\ ReceivedBounded /\ InfoIsConsistent

---------------------------------------------------------------------------
(* The answers due to some messages. *)

\* Only QUIT is answered by a goodbye.
LEMMA AnswerFacts ==
    ASSUME NEW m
    PROVE  Answer(m) \in Answers /\ (Answer(m) = "goodbye" <=> IsQuit(m))
BY DEF Answer, Answers, IsQuit

\* One answer to each message, up to and including a goodbye.
IsDue(d, ms) ==
    /\ d \in Seq(Answers) /\ Len(d) <= Len(ms)
    /\ \A k \in 1 .. Len(d) : d[k] = Answer(ms[k])
    /\ \A k \in 1 .. Len(d) - 1 : d[k] # "goodbye"
    /\ Len(d) # Len(ms) => Len(d) # 0 /\ d[Len(d)] = "goodbye"

\* What Due picks is due.
LEMMA DueIsDue ==
    ASSUME NEW T, NEW ms \in Seq(T)
    PROVE  IsDue(Due(ms), ms)
<1> DEFINE n == Len(ms)
           due == {i \in 1 .. n : \A j \in 1 .. i - 1 : ~IsQuit(ms[j])}
           m == Max(due \cup {0})
           d == [i \in 1 .. m |-> Answer(ms[i])]
<1>1. n \in Nat /\ due \cup {0} \in SUBSET (0 .. n) /\ due \cup {0} # {}
  OBVIOUS
<1>2. m \in due \cup {0} /\ \A i \in due : m >= i
  <2> HIDE DEF n, due
  <2> QED
    BY <1>1, MaxOf
<1>3. Due(ms) = d
  BY Zenon DEF Due
<1> HIDE DEF m
<1>4. m \in 0 .. n /\ \A j \in 1 .. m - 1 : ~IsQuit(ms[j])
  BY <1>1, <1>2
<1>5. m # n => m # 0 /\ IsQuit(ms[m])
  <2> SUFFICES ASSUME m # n PROVE m # 0 /\ IsQuit(ms[m])
    OBVIOUS
  <2> HIDE DEF d, n
  <2>0. m \in Nat /\ m + 1 \in 1 .. n
    BY <1>1, <1>4
  <2>1. m + 1 \notin due
    <3> HIDE DEF due
    <3> QED
      BY <1>2, <2>0
  <2>2. PICK j \in 1 .. m + 1 - 1 : IsQuit(ms[j])
    BY <2>0, <2>1
  <2>3. j \in 1 .. m /\ j \notin 1 .. m - 1
    BY <1>4, <2>2
  <2>4. j = m
    BY <1>4, <2>3
  <2> QED
    BY <2>2, <2>3, <2>4
<1>6. d \in Seq(Answers) /\ Len(d) = m /\ \A i \in 1 .. m : d[i] = Answer(ms[i])
  <2>1. m \in Nat
    BY <1>4
  <2>2. \A i \in 1 .. m : Answer(ms[i]) \in Answers
    BY AnswerFacts
  <2> QED
    BY <2>1, <2>2
<1> HIDE DEF d, due
<1>7. \A i \in 1 .. m : d[i] = "goodbye" <=> IsQuit(ms[i])
  BY <1>6, AnswerFacts
<1>8. IsDue(d, ms)
  BY <1>4, <1>5, <1>6, <1>7 DEF IsDue
<1> QED
  BY <1>3, <1>8

\* So is what the loop of the listener sends.
LEMMA AnswersAreDue ==
    ASSUME NEW T, NEW ms \in Seq(T)
    PROVE  IsDue(AnswersTo(ms), ms)
<1> DEFINE n == Len(ms)
           answers == [i \in 1 .. n |-> Answer(ms[i])]
           I == {i \in 1 .. Len(answers) : answers[i] = "goodbye"}
           quit == IF I # {} THEN Min(I) ELSE 0
<1>1. AnswersTo(ms) = IF quit = 0 THEN answers ELSE SubSeq(answers, 1, quit)
  BY Zenon DEF AnswersTo, SelectInSeq
<1>2. /\ n \in Nat /\ answers \in Seq(Answers) /\ Len(answers) = n
      /\ \A i \in 1 .. n : answers[i] = Answer(ms[i])
  <2>1. \A i \in 1 .. n : Answer(ms[i]) \in Answers
    BY AnswerFacts
  <2> QED
    BY <2>1
<1> HIDE DEF answers, n
<1>3. I \in SUBSET Nat /\ I \subseteq 1 .. n /\ 0 \notin I
  BY <1>2
<1>4. CASE I = {}
  <2>1. AnswersTo(ms) = answers
    BY <1>1, <1>4
  <2>2. \A i \in 1 .. n : answers[i] # "goodbye"
    BY <1>2, <1>4
  <2>3. IsDue(answers, ms)
    BY <1>2, <2>2 DEF IsDue, n
  <2> QED
    BY <2>1, <2>3
<1>5. CASE I # {}
  <2> DEFINE q == Min(I)
  <2>1. AnswersTo(ms) = IF q = 0 THEN answers ELSE SubSeq(answers, 1, q)
    BY <1>1, <1>5
  <2> HIDE DEF I
  <2>2. q \in I /\ \A j \in I : q <= j
    BY <1>3, <1>5, MinOf
  <2> HIDE DEF q
  <2>3. q \in 1 .. n /\ q # 0 /\ q \in Nat
    BY <1>2, <1>3, <2>2
  <2>4. answers[q] = "goodbye" /\ \A j \in 1 .. q - 1 : answers[j] # "goodbye"
    BY <1>2, <2>2, <2>3 DEF I
  <2> DEFINE d == SubSeq(answers, 1, q)
  <2>5. d \in Seq(Answers) /\ Len(d) = q /\ \A i \in 1 .. q : d[i] = answers[i]
    BY <1>2, <2>3
  <2>6. AnswersTo(ms) = d
    BY <2>1, <2>3
  <2> HIDE DEF d
  <2>7. IsDue(d, ms)
    BY <1>2, <2>3, <2>4, <2>5 DEF IsDue, n
  <2> QED
    BY <2>6, <2>7
<1> QED
  BY <1>4, <1>5

\* There is one sequence of answers due.
LEMMA DueUnique ==
    ASSUME NEW T, NEW ms \in Seq(T), NEW d, NEW e, IsDue(d, ms), IsDue(e, ms)
    PROVE  d = e
<1>1. d \in Seq(Answers) /\ e \in Seq(Answers)
  BY DEF IsDue
<1>2. Len(d) = Len(e)
  BY DEF IsDue
<1> QED
  BY <1>1, <1>2, SameElements DEF IsDue

\* More messages add answers, unless the goodbye is said.
LEMMA DueConcat ==
    ASSUME NEW T, NEW ms \in Seq(T), NEW more \in Seq(T),
           NEW d, NEW e, IsDue(d, ms), IsDue(e, more)
    PROVE  /\ (\A i \in 1 .. Len(d) : d[i] # "goodbye") =>
                IsDue(d \o e, ms \o more)
           /\ (\E i \in 1 .. Len(d) : d[i] = "goodbye") => IsDue(d, ms \o more)
<1> DEFINE n == Len(ms)
           all == ms \o more
<1>1. /\ n \in Nat /\ Len(more) \in Nat /\ Len(all) = n + Len(more)
      /\ \A i \in 1 .. n : all[i] = ms[i]
      /\ \A i \in 1 .. Len(more) : all[n + i] = more[i]
  BY ConcatFacts
<1>2. d \in Seq(Answers) /\ e \in Seq(Answers) /\ Len(d) \in Nat /\ Len(e) \in Nat
  BY DEF IsDue
<1> HIDE DEF all
<1>3. ASSUME \A i \in 1 .. Len(d) : d[i] # "goodbye"
      PROVE  IsDue(d \o e, all)
  <2>1. Len(d) = n
    BY <1>1, <1>2, <1>3 DEF IsDue
  <2> DEFINE de == d \o e
  <2>2. /\ de \in Seq(Answers) /\ Len(de) = Len(d) + Len(e)
        /\ \A i \in 1 .. Len(d) : de[i] = d[i]
        /\ \A i \in 1 .. Len(e) : de[Len(d) + i] = e[i]
    BY <1>2, ConcatFacts
  <2> HIDE DEF de, n
  <2>3. ASSUME NEW k \in 1 .. Len(de)
        PROVE  /\ de[k] = Answer(all[k])
               /\ k # Len(de) => de[k] # "goodbye"
    <3>1. CASE k \in 1 .. n
      <4>1. de[k] = d[k] /\ all[k] = ms[k]
        BY <1>1, <2>1, <2>2, <3>1
      <4>2. d[k] = Answer(ms[k])
        BY <2>1, <3>1 DEF IsDue
      <4> QED
        BY <1>3, <2>1, <3>1, <4>1, <4>2
    <3>2. CASE k \notin 1 .. n
      <4> DEFINE j == k - n
      <4>1. j \in 1 .. Len(e) /\ k = n + j
        BY <1>1, <1>2, <2>1, <2>2, <3>2
      <4> HIDE DEF j
      <4>2. j \in 1 .. Len(more)
        BY <1>1, <1>2, <4>1 DEF IsDue
      <4>3. de[k] = e[j] /\ all[k] = more[j]
        BY <1>1, <2>1, <2>2, <4>1, <4>2
      <4>4. e[j] = Answer(more[j]) /\ (j # Len(e) => e[j] # "goodbye")
        BY <1>2, <4>1 DEF IsDue
      <4>5. k # Len(de) => j # Len(e)
        BY <1>1, <1>2, <2>1, <2>2, <4>1
      <4> QED
        BY <4>3, <4>4, <4>5
    <3> QED
      BY <3>1, <3>2
  <2>4. Len(de) # Len(all) => Len(de) # 0 /\ de[Len(de)] = "goodbye"
    <3> SUFFICES ASSUME Len(de) # Len(all)
                 PROVE  Len(de) # 0 /\ de[Len(de)] = "goodbye"
      OBVIOUS
    <3>1. Len(e) # 0 /\ e[Len(e)] = "goodbye"
      BY <1>1, <1>2, <2>1, <2>2 DEF IsDue
    <3>2. Len(e) \in 1 .. Len(e)
      BY <1>2, <3>1
    <3> QED
      BY <1>2, <2>2, <3>1, <3>2
  <2>5. Len(de) \in Nat /\ Len(de) <= Len(all)
    BY <1>1, <1>2, <2>1, <2>2 DEF IsDue
  <2>6. \A k \in 1 .. Len(de) - 1 : k \in 1 .. Len(de) /\ k # Len(de)
    BY <2>5
  <2>7. IsDue(de, all)
    BY <2>2, <2>3, <2>4, <2>5, <2>6 DEF IsDue
  <2> QED
    BY <2>7 DEF de
<1>4. ASSUME NEW i \in 1 .. Len(d), d[i] = "goodbye"
      PROVE  IsDue(d, all)
  <2>1. i = Len(d)
    BY <1>2, <1>4 DEF IsDue
  <2>2. Len(d) <= n /\ \A k \in 1 .. Len(d) : k \in 1 .. n
    BY <1>1, <1>2 DEF IsDue
  <2>3. Len(d) <= Len(all)
    BY <1>1, <1>2, <2>2
  <2>4. \A k \in 1 .. Len(d) : d[k] = Answer(all[k])
    BY <1>1, <2>2 DEF IsDue
  <2> QED
    BY <1>2, <1>4, <2>1, <2>3, <2>4 DEF IsDue
<1> QED
  BY <1>3, <1>4 DEF all

\* More messages never change the answers that are due already.
LEMMA DueGrows ==
    ASSUME NEW T, NEW ms \in Seq(T), NEW more \in Seq(T)
    PROVE  IsPrefix(Due(ms), Due(ms \o more))
<1> DEFINE d == Due(ms)
           e == Due(more)
           all == ms \o more
<1>1. IsDue(d, ms) /\ IsDue(e, more) /\ all \in Seq(T) /\ IsDue(Due(all), all)
  <2>1. all \in Seq(T)
    OBVIOUS
  <2> HIDE DEF all
  <2> QED
    BY <2>1, DueIsDue
<1> HIDE DEF d, e
<1>2. d \in Seq(Answers) /\ e \in Seq(Answers)
  BY <1>1 DEF IsDue
<1>3. IsDue(d \o e, all) \/ IsDue(d, all)
  BY <1>1, DueConcat
<1> HIDE DEF all
<1>4. Due(all) = d \o e \/ Due(all) = d
  BY <1>1, <1>3, DueUnique
<1>5. IsPrefix(d, d \o e) /\ IsPrefix(d, d)
  BY <1>2 DEF IsPrefix
<1> QED
  BY <1>4, <1>5 DEF d, all

---------------------------------------------------------------------------
(* The socket. *)

\* What an operation makes of an open socket, and whether it can be written
\* to afterwards.
LEMMA SocketMoves ==
    ASSUME NEW k \in SocketStates, Open(k)
    PROVE  /\ \A r \in {k, Write(k), EndWith(k), Destroy(k), Eof(k), Finish(k)} :
                r \in SocketStates /\ (CanWrite(r) => CanWrite(k))
           /\ CanWrite(k) => /\ Write(k) = k
                             /\ EndWith(k).ending /\ EndWith(k).eof = k.eof
           /\ ~CanWrite(k) => Write(k) = Destroy(k) /\ EndWith(k) = Destroy(k)
           /\ ~Open(Destroy(k))
           /\ Destroy(k).ending = k.ending /\ Destroy(k).eof = k.eof
           /\ Eof(k).eof
           /\ Finish(k).ending = k.ending /\ Finish(k).eof = k.eof
<1> USE DEF SocketStates, Phases, Open, CanWrite
<1>1. /\ Destroy(k) \in SocketStates /\ ~Open(Destroy(k))
      /\ Destroy(k).ending = k.ending /\ Destroy(k).eof = k.eof
  BY DEF Destroy
<1>2. /\ CanWrite(k) => Write(k) = k /\ EndWith(k) = [k EXCEPT !.ending = TRUE]
      /\ ~CanWrite(k) => Write(k) = Destroy(k) /\ EndWith(k) = Destroy(k)
  BY DEF Write, EndWith
<1>3. LET r == [k EXCEPT !.ending = TRUE]
      IN r \in SocketStates /\ r.ending /\ r.eof = k.eof
  OBVIOUS
<1>4. Eof(k) \in SocketStates /\ Eof(k).eof /\ ~CanWrite(Eof(k))
  BY DEF Eof, Destroy
<1>5. /\ Finish(k) \in SocketStates /\ (Open(Finish(k)) => Open(k))
      /\ Finish(k).ending = k.ending /\ Finish(k).eof = k.eof
  BY DEF Finish, Destroy
<1> HIDE DEF SocketStates, Phases
<1>6. CASE CanWrite(k)
  <2>1. EndWith(k) \in SocketStates /\ EndWith(k).ending /\ EndWith(k).eof = k.eof
    BY <1>2, <1>3, <1>6
  <2> QED
    BY <1>1, <1>2, <1>4, <1>5, <1>6, <2>1
<1>7. CASE ~CanWrite(k)
  BY <1>1, <1>2, <1>4, <1>5, <1>7
<1> QED
  BY <1>6, <1>7

---------------------------------------------------------------------------
(* One step. *)

\* What the proofs use of the constants.
LEMMA Constants ==
    ASSUME HandlerAssumption, ParserAssumption
    PROVE  /\ Character \subseteq Char /\ Lead \notin Character /\ Cont \notin Character
           /\ MaxText \in Nat /\ MaxMessageLength \in Nat /\ Window \in Nat
           /\ Off \in Nat /\ IdleTicks \in 0 .. Off /\ Off \in 0 .. Off
           /\ 1 .. IdleTicks \subseteq 1 .. Off
<1>1. Character \subseteq Char /\ Lead \notin Character /\ Cont \notin Character
  BY DEF HandlerAssumption, Char
<1>2. MaxText \in Nat /\ MaxMessageLength \in Nat /\ Window \in Nat
  BY DEF HandlerAssumption, ParserAssumption
<1>3. Off \in Nat /\ IdleTicks \in 0 .. Off /\ Off \in 0 .. Off
      /\ 1 .. IdleTicks \subseteq 1 .. Off
  BY DEF HandlerAssumption, Off
<1> QED
  BY <1>1, <1>2, <1>3

\* What has been delivered, and what one chunk adds to it.
LEMMA ChunkIs ==
    ASSUME HandlerAssumption, ParserAssumption, TypeOK
    PROVE  /\ Delivered \in Seq(Character) /\ Delivered \in Seq(Char)
           /\ Len(text) \in Nat
           /\ \A n \in position + 1 .. Len(text) :
                LET data == SubSeq(text, position + 1, n)
                IN /\ n \in 0 .. Len(text) /\ n - position \in Nat
                   /\ data \in Seq(Character) /\ Decode(data) = data
                   /\ SubSeq(text, 1, n) = Delivered \o data
<1>1. text \in Seq(Character) /\ position \in 0 .. Len(text) /\ Len(text) \in Nat
  BY DEF TypeOK
<1>2. Delivered \in Seq(Character)
  BY <1>1 DEF Delivered
<1>3. Seq(Character) \subseteq Seq(Char)
  BY Constants, SeqSubset
<1>4. ASSUME NEW n \in position + 1 .. Len(text)
      PROVE  LET data == SubSeq(text, position + 1, n)
             IN /\ n \in 0 .. Len(text) /\ n - position \in Nat
                /\ data \in Seq(Character) /\ Decode(data) = data
                /\ SubSeq(text, 1, n) = Delivered \o data
  <2> DEFINE data == SubSeq(text, position + 1, n)
  <2>1. n \in 0 .. Len(text) /\ position \in 0 .. n /\ n - position \in Nat
    BY <1>1
  <2>2. data \in Seq(Character) /\ SubSeq(text, 1, n) = Delivered \o data
    BY <1>1, <2>1, SubSeqFacts, SubSeqSplit DEF Delivered
  <2> HIDE DEF data
  <2>3. Decode(data) = data
    BY <2>2, Constants, DecodePlain
  <2> QED
    BY <2>1, <2>2, <2>3 DEF data
<1> QED
  BY <1>1, <1>2, <1>3, <1>4

\* What a data event does, in the terms of Framing.
LEMMA DataIs ==
    ASSUME HandlerAssumption, ParserAssumption, TypeOK,
           NEW n \in position + 1 .. Len(text), Data(n),
           NEW data, data = SubSeq(text, position + 1, n),
           NEW whole, whole = buffer \o data,
           NEW ms, ms = Messages(whole)
    PROVE  /\ data \in Seq(Character) /\ whole \in Seq(Character)
           /\ ms \in Seq(Seq(Character)) /\ ms \in Seq(Seq(Char))
           /\ Partial(whole) \in Seq(Character)
           /\ Open(sock) /\ Delivered' = Delivered \o data
           /\ position' = n /\ UNCHANGED <<text, taken>>
           /\ TooLong(Partial(whole)) =>
                buffer' = <<>> /\ Send(<<"tooLong">>) /\ UNCHANGED <<metrics, reports>>
           /\ ~TooLong(Partial(whole)) =>
                /\ buffer' = Partial(whole)
                /\ Send(AnswersTo(ms))
                /\ Record(n - position, Len(ms), Len(AnswersTo(ms)))
                /\ CanWrite(sock) => reports' = reports \o Report(Len(ms), AnswersTo(ms))
                /\ ~CanWrite(sock) => reports' = reports \o <<>>
<1>1. /\ data \in Seq(Character) /\ Decode(data) = data
      /\ SubSeq(text, 1, n) = Delivered \o data
  BY ChunkIs
<1>2. buffer \in Seq(Character)
  BY DEF TypeOK
<1>3. whole \in Seq(Character)
  BY <1>1, <1>2, ConcatFacts
<1>4. /\ ms \in Seq(Seq(Character)) /\ Partial(whole) \in Seq(Character)
  BY <1>3, FramingTypes
<1>5. Seq(Character) \subseteq Seq(Char)
  BY Constants, SeqSubset
<1>6. ms \in Seq(Seq(Char))
  BY <1>4, <1>5, SeqSubset
<1>7. buffer \in Seq(STRING) /\ data \in Seq(STRING)
  BY <1>1, <1>2, <1>5 DEF Char
<1> DEFINE result == Feed(buffer, data)
           answers == AnswersTo(result.messages)
<1>8. /\ Open(sock) /\ position' = n /\ UNCHANGED <<text, taken>>
      /\ buffer' = result.buffer
      /\ result.thrown =>
           Send(<<"tooLong">>) /\ UNCHANGED <<metrics, reports>>
      /\ ~result.thrown =>
           /\ Send(answers)
           /\ Record(n - position, Len(result.messages), Len(answers))
           /\ reports' = reports \o
                (IF CanWrite(sock) THEN Report(Len(result.messages), answers) ELSE <<>>)
  BY <1>1 DEF Data, Receiving
<1>9. Delivered' = Delivered \o data
  <2>1. Delivered' = SubSeq(text, 1, n)
    BY <1>8 DEF Delivered
  <2> QED
    BY <1>1, <2>1
<1>10. CASE TooLong(Partial(whole))
  <2>1. result = [messages |-> <<>>, buffer |-> <<>>, thrown |-> TRUE]
    BY <1>7, <1>10, FeedIs
  <2>2. result.thrown /\ result.buffer = <<>>
    BY <2>1
  <2> HIDE DEF result
  <2> QED
    BY <1>1, <1>3, <1>4, <1>6, <1>8, <1>9, <1>10, <2>2
<1>11. CASE ~TooLong(Partial(whole))
  <2>1. result = [messages |-> ms, buffer |-> Partial(whole), thrown |-> FALSE]
    BY <1>7, <1>11, FeedIs
  <2>2. ~result.thrown /\ result.buffer = Partial(whole) /\ result.messages = ms
    BY <2>1
  <2> HIDE DEF result
  <2> QED
    BY <1>1, <1>3, <1>4, <1>6, <1>8, <1>9, <1>11, <2>2
<1> QED
  BY <1>10, <1>11

\* What the server can send.
Sent == Answers \cup Notices

\* The types the steps use most.
LEMMA Types ==
    ASSUME TypeOK
    PROVE  /\ sock \in SocketStates /\ error \in Errors /\ timer \in 0 .. Off
           /\ out \in Seq(Sent) /\ Len(out) \in Nat
           /\ metrics \in [bytes : Nat, received : Nat, sent : Nat]
           /\ reports \in Seq([received : Nat, sent : Nat])
<1>1. /\ sock \in SocketStates /\ error \in Errors /\ timer \in 0 .. Off
      /\ out \in Seq(Sent)
      /\ metrics \in [bytes : Nat, received : Nat, sent : Nat]
      /\ reports \in Seq([received : Nat, sent : Nat])
  BY Zenon DEF TypeOK, Sent
<1>2. Len(out) \in Nat
  BY <1>1
<1> QED
  BY <1>1, <1>2

\* What write() and end() make of some messages without a farewell but,
\* perhaps, for a goodbye at the end.
LEMMA SendIs ==
    ASSUME HandlerAssumption, ParserAssumption, TypeOK, Open(sock),
           NEW msgs \in Seq(Sent), Send(msgs),
           \A i \in 1 .. Len(msgs) : msgs[i] # "timedOut",
           \A i \in 1 .. Len(msgs) - 1 : msgs[i] # "goodbye"
    PROVE  /\ sock' \in SocketStates /\ timer' \in 0 .. Off /\ error' \in Errors
           /\ CanWrite(sock') =>
                CanWrite(sock) /\ \A i \in 1 .. Len(msgs) : msgs[i] \notin Farewells
           /\ CanWrite(sock) => out' = out \o msgs
           /\ ~CanWrite(sock) => out' = out
           /\ out' \in Seq(Sent) /\ Len(out) <= Len(out')
           /\ error' = "writeAfterEnd" => error = "writeAfterEnd" \/ ~Open(sock')
           /\ error' # "writeAfterEnd" => CanWrite(sock) \/ msgs = <<>>
           /\ NoFarewell /\ FarewellIsLast => NoFarewell' /\ FarewellIsLast'
<1> DEFINE n == Len(msgs)
<1>0. n \in Nat
  OBVIOUS
<1>1. /\ sock \in SocketStates /\ out \in Seq(Sent) /\ Len(out) \in Nat /\ n \in Nat
      /\ error \in Errors
  BY <1>0, Types
<1>2. /\ \A r \in {sock, Write(sock), EndWith(sock), Destroy(sock)} :
            r \in SocketStates /\ (CanWrite(r) => CanWrite(sock))
      /\ CanWrite(sock) => /\ Write(sock) = sock
                           /\ EndWith(sock).ending /\ EndWith(sock).eof = sock.eof
      /\ ~CanWrite(sock) => Write(sock) = Destroy(sock)
      /\ ~Open(Destroy(sock))
      /\ Destroy(sock).ending = sock.ending /\ Destroy(sock).eof = sock.eof
  <2> HIDE DEF n
  <2> QED
    BY <1>1, SocketMoves
<1>3. IdleTicks \in 0 .. Off /\ Off \in 0 .. Off
  BY Constants
<1>4. CASE msgs = <<>>
  <2>1. sock' = sock /\ timer' = IdleTicks /\ out' = out /\ error' = error
    BY <1>4 DEF Send, Becomes
  <2>2. out \o msgs = out /\ n = 0
    BY <1>1, <1>4
  <2> QED
    BY <1>1, <1>3, <2>1, <2>2 DEF NoFarewell, FarewellIsLast
<1>5. CASE msgs # <<>> /\ ~CanWrite(sock)
  <2>1. sock' = Destroy(sock) /\ timer' = Off /\ out' = out /\ error' = "writeAfterEnd"
    BY <1>2, <1>5 DEF Send, Becomes
  <2>2. ~CanWrite(sock') /\ ~Open(sock')
    BY <1>2, <2>1 DEF CanWrite
  <2>3. FarewellIsLast => FarewellIsLast'
    BY <1>2, <2>1 DEF FarewellIsLast
  <2> QED
    BY <1>1, <1>2, <1>3, <1>5, <2>1, <2>2, <2>3 DEF NoFarewell, Errors
<1>6. CASE msgs # <<>> /\ CanWrite(sock)
  <2> DEFINE more == out \o msgs
  <2>1. /\ Last(msgs) = "goodbye" => sock' = EndWith(sock)
        /\ Last(msgs) # "goodbye" => sock' = sock
        /\ timer' \in {IdleTicks, Off} /\ out' = more /\ error' = error
    BY <1>2, <1>6 DEF Send, Becomes
  <2>2. n \in 1 .. n /\ Last(msgs) = msgs[n]
    BY <1>1, <1>6 DEF Last
  <2>3. /\ more \in Seq(Sent) /\ Len(more) = Len(out) + n
        /\ \A i \in 1 .. Len(out) : more[i] = out[i]
        /\ \A i \in 1 .. n : more[Len(out) + i] = msgs[i]
    BY <1>1, ConcatFacts
  <2> HIDE DEF more, n
  <2>4. CanWrite(sock') => \A i \in 1 .. n : msgs[i] \notin Farewells
    <3>1. CanWrite(sock') => Last(msgs) # "goodbye"
      BY <1>2, <2>1 DEF CanWrite
    <3>2. \A i \in 1 .. n : i = n \/ i \in 1 .. n - 1
      BY <1>1
    <3> QED
      BY <2>2, <3>1, <3>2 DEF Farewells, n
  <2>5. ASSUME NoFarewell, NEW i \in 1 .. Len(more), more[i] \in Farewells
        PROVE  i = Len(more) /\ Last(msgs) = "goodbye"
    <3>1. i \notin 1 .. Len(out)
      BY <1>6, <2>3, <2>5 DEF NoFarewell
    <3> DEFINE j == i - Len(out)
    <3>2. j \in 1 .. n /\ i = Len(out) + j
      BY <1>1, <2>3, <3>1
    <3> HIDE DEF j
    <3>3. msgs[j] = "goodbye"
      BY <2>3, <2>5, <3>2 DEF Farewells, n
    <3>4. j = n
      BY <1>1, <3>2, <3>3 DEF n
    <3> QED
      BY <2>2, <2>3, <3>2, <3>3, <3>4
  <2>6. NoFarewell => NoFarewell'
    <3>1. CanWrite(sock') => Last(msgs) # "goodbye"
      BY <1>2, <2>1 DEF CanWrite
    <3> QED
      BY <2>1, <2>5, <3>1 DEF NoFarewell
  <2>7. NoFarewell /\ FarewellIsLast => FarewellIsLast'
    <3> SUFFICES ASSUME NoFarewell, FarewellIsLast PROVE FarewellIsLast'
      OBVIOUS
    <3>1. Len(more) \in Nat
      BY <1>1, <2>3
    <3>2. \A i \in 1 .. Len(more) - 1 : more[i] \notin Farewells
      BY <2>5, <3>1
    <3>3. (sock'.ending /\ ~sock'.eof) => Last(more) \in Farewells
      <4>1. CASE Last(msgs) = "goodbye"
        <5>1. Last(more) = msgs[n]
          BY <2>2, <2>3 DEF Last
        <5> QED
          BY <2>2, <4>1, <5>1 DEF Farewells
      <4>2. CASE Last(msgs) # "goodbye"
        BY <1>6, <2>1, <4>2 DEF CanWrite
      <4> QED
        BY <4>1, <4>2
    <3> QED
      BY <2>1, <3>2, <3>3 DEF FarewellIsLast, Farewells
  <2>8. sock' \in SocketStates /\ timer' \in 0 .. Off /\ error' \in Errors
    BY <1>1, <1>2, <1>3, <2>1
  <2>9. Len(out) <= Len(out')
    BY <1>1, <2>1, <2>3
  <2> QED
    BY <1>6, <2>1, <2>3, <2>4, <2>6, <2>7, <2>8, <2>9 DEF more, n
<1> QED
  BY <1>4, <1>5, <1>6

\* The answers to the messages of a chunk are what SendIs asks for.
LEMMA AnswersSent ==
    ASSUME NEW T, NEW ms \in Seq(T), NEW answers, answers = AnswersTo(ms)
    PROVE  /\ IsDue(answers, ms) /\ answers \in Seq(Answers) /\ answers \in Seq(Sent)
           /\ Len(answers) \in Nat /\ Len(ms) \in Nat /\ Len(answers) <= Len(ms)
           /\ \A i \in 1 .. Len(answers) : answers[i] # "timedOut"
           /\ \A i \in 1 .. Len(answers) - 1 : answers[i] # "goodbye"
<1>1. IsDue(answers, ms)
  BY AnswersAreDue
<1>2. answers \in Seq(Answers) /\ Len(answers) <= Len(ms)
  BY <1>1 DEF IsDue
<1>3. Len(answers) \in Nat /\ Len(ms) \in Nat
  BY <1>2
<1>4. answers \in Seq(Sent)
  <2>1. Answers \subseteq Sent
    BY DEF Sent
  <2> QED
    BY <1>2, <2>1, SeqSubset
<1>5. \A i \in 1 .. Len(answers) : answers[i] # "timedOut"
  BY <1>2 DEF Answers
<1>6. \A i \in 1 .. Len(answers) - 1 : answers[i] # "goodbye"
  BY <1>1 DEF IsDue
<1> QED
  BY <1>1, <1>2, <1>3, <1>4, <1>5, <1>6

\* What a chunk means behind what has been delivered.
LEMMA DataFraming ==
    ASSUME HandlerAssumption, ParserAssumption, TypeOK, BufferIsEnd, Open(sock),
           NEW data \in Seq(Character),
           NEW whole, whole = buffer \o data,
           NEW all, all = Delivered \o data
    PROVE  /\ Partial(whole) \in Suffixes(Partial(all))
           /\ Len(Messages(Delivered)) \in Nat /\ Len(Messages(whole)) \in Nat
           /\ Len(Messages(all)) \in Nat
           /\ Len(Messages(Delivered)) + Len(Messages(whole)) <= Len(Messages(all))
           /\ WithinLimit(all) =>
                /\ WithinLimit(Delivered)
                /\ ~TooLong(Partial(whole))
                /\ Partial(whole) = Partial(all)
                /\ Messages(all) = Messages(Delivered) \o Messages(whole)
<1> DEFINE D == Delivered
<1>1. D \in Seq(Char) /\ data \in Seq(Char)
  <2>1. data \in Seq(Char)
    BY Constants, SeqSubset
  <2> QED
    BY <2>1, ChunkIs
<1>2. buffer \in Suffixes(Partial(D)) /\ (WithinLimit(D) => buffer = Partial(D))
  BY DEF BufferIsEnd
<1> HIDE DEF D
<1>3. Partial(whole) \in Suffixes(Partial(all))
  BY <1>1, <1>2, MoreMessages DEF D
<1>4. /\ Len(Messages(D)) \in Nat /\ Len(Messages(whole)) \in Nat
      /\ Len(Messages(all)) \in Nat
      /\ Len(Messages(D)) + Len(Messages(whole)) <= Len(Messages(all))
  BY <1>1, <1>2, MoreMessages DEF D
<1>5. ASSUME WithinLimit(all)
      PROVE  /\ WithinLimit(D)
             /\ ~TooLong(Partial(whole))
             /\ Partial(whole) = Partial(all)
             /\ Messages(all) = Messages(D) \o Messages(whole)
  <2>1. WithinLimit(D)
    BY <1>1, <1>5, Constants, LimitPrefix DEF D
  <2>2. whole = Partial(D) \o data
    BY <1>2, <2>1
  <2>3. Partial(whole) = Partial(all) /\ Messages(all) = Messages(D) \o Messages(whole)
    BY <1>1, <2>2, FramingConcat DEF D
  <2>4. all \in Seq(Char)
    BY <1>1, ConcatFacts DEF D
  <2>5. ~TooLong(Partial(all))
    BY <1>5, <2>4, Constants, LimitOfPartial
  <2> QED
    BY <2>1, <2>3, <2>5
<1> QED
  BY <1>3, <1>4, <1>5 DEF D

\* What INFO reports.
LEMMA ReportIs ==
    ASSUME metrics \in [bytes : Nat, received : Nat, sent : Nat],
           NEW received \in Nat, NEW answers \in Seq(Answers),
           NEW infos, infos = Infos(answers)
    PROVE  LET report == Report(received, answers)
           IN /\ report \in Seq([received : Nat, sent : Nat])
              /\ Len(report) = Cardinality(infos) /\ Cardinality(infos) \in Nat
              /\ infos \in SUBSET (1 .. Len(answers))
              /\ \A k \in 1 .. Cardinality(infos) :
                   /\ Nth(infos, k) \in 1 .. Len(answers)
                   /\ report[k].received = metrics.received + received
                   /\ report[k].sent = metrics.sent + Nth(infos, k) - 1
<1> DEFINE n == Len(answers)
           c == Cardinality(infos)
           R == [received : Nat, sent : Nat]
           at(k) == [received |-> metrics.received + received,
                     sent |-> metrics.sent + Nth(infos, k) - 1]
           report == [k \in 1 .. c |-> at(k)]
<1>1. Report(received, answers) = report
  BY DEF Report
<1>2. n \in Nat /\ infos \in SUBSET (1 .. n)
  BY DEF Infos
<1> HIDE DEF n
<1>3. c \in Nat /\ \A k \in 1 .. c : Nth(infos, k) \in 1 .. n
  BY <1>2, UpTo, NthProperties
<1>4. \A k \in 1 .. c : at(k) \in R
  <2> SUFFICES ASSUME NEW k \in 1 .. c PROVE at(k) \in R
    OBVIOUS
  <2>1. Nth(infos, k) \in Nat /\ Nth(infos, k) >= 1
    BY <1>2, <1>3
  <2>2. metrics.received \in Nat /\ metrics.sent \in Nat
    OBVIOUS
  <2>3. metrics.received + received \in Nat /\ metrics.sent + Nth(infos, k) - 1 \in Nat
    BY <2>1, <2>2
  <2> QED
    BY <2>3
<1> HIDE DEF R, c
<1>5. report \in Seq(R) /\ Len(report) = c /\ \A k \in 1 .. c : report[k] = at(k)
  <2> HIDE DEF at
  <2> QED
    BY <1>3, <1>4
<1>6. \A k \in 1 .. c : /\ at(k).received = metrics.received + received
                        /\ at(k).sent = metrics.sent + Nth(infos, k) - 1
  OBVIOUS
<1> HIDE DEF report, at
<1> QED
  BY <1>1, <1>2, <1>3, <1>5, <1>6 DEF n, c, R

\* What is sent besides answers does not count as one.
LEMMA AnsweredIs ==
    ASSUME TypeOK
    PROVE  /\ Answered \in Seq(Answers) /\ Len(Answered) \in Nat
           /\ \A i \in 1 .. Len(Answered) : \E j \in 1 .. Len(out) : Answered[i] = out[j]
           /\ \A answers \in Seq(Answers) :
                Among(out \o answers, Answers) = Answered \o answers
           /\ \A m \in Notices : Among(out \o <<m>>, Answers) = Answered
           /\ \A m \in Notices : Among(Append(out, m), Answers) = Answered
<1> DEFINE S == {i \in 1 .. Len(out) : out[i] \in Answers}
<1>1. out \in Seq(Sent) /\ Len(out) \in Nat
  BY Types
<1>2. Answered = Picked(out, S) /\ S \in SUBSET (1 .. Len(out))
  BY DEF Answered, Among
<1>3. \A i \in S : out[i] \in Answers
  OBVIOUS
<1> HIDE DEF S
<1>4. /\ Answered \in Seq(Sent) /\ Len(Answered) = Cardinality(S)
      /\ Cardinality(S) \in Nat
      /\ \A k \in 1 .. Cardinality(S) : Nth(S, k) \in S /\ Answered[k] = out[Nth(S, k)]
  BY <1>1, <1>2, PickedType
<1>5. \A k \in 1 .. Len(Answered) : Answered[k] \in Answers
  BY <1>3, <1>4
<1>6. Answered \in Seq(Answers) /\ Len(Answered) \in Nat
  BY <1>4, <1>5
<1>7. \A i \in 1 .. Len(Answered) : \E j \in 1 .. Len(out) : Answered[i] = out[j]
  BY <1>2, <1>4
<1>8. ASSUME NEW answers \in Seq(Answers)
      PROVE  Among(out \o answers, Answers) = Answered \o answers
  <2>1. answers \in Seq(Sent) /\ \A i \in 1 .. Len(answers) : answers[i] \in Answers
    <3>1. Answers \subseteq Sent
      BY DEF Sent
    <3> QED
      BY <3>1, SeqSubset
  <2>2. Among(answers, Answers) = answers
    BY <2>1, AmongAll
  <2>3. Among(out \o answers, Answers) = Among(out, Answers) \o Among(answers, Answers)
    BY <1>1, <2>1, AmongConcat
  <2> QED
    BY <2>2, <2>3 DEF Answered
<1>9. ASSUME NEW m \in Notices
      PROVE  /\ Among(Append(out, m), Answers) = Answered
             /\ Among(out \o <<m>>, Answers) = Answered
  <2>1. m \in Sent /\ m \notin Answers
    BY DEF Sent, Notices, Answers
  <2>2. Among(Append(out, m), Answers) = Among(out, Answers)
    BY <1>1, <2>1, AmongAppend
  <2>3. out \o <<m>> = Append(out, m)
    BY <1>1, <2>1
  <2> QED
    BY <2>2, <2>3 DEF Answered
<1> QED
  BY <1>6, <1>7, <1>8, <1>9

\* A prefix of a prefix is a prefix.
LEMMA PrefixTransitive ==
    ASSUME NEW T, NEW a \in Seq(T), NEW b \in Seq(T), NEW c \in Seq(T),
           IsPrefix(a, b), IsPrefix(b, c)
    PROVE  IsPrefix(a, c)
<1>1. Len(a) \in Nat /\ Len(b) \in Nat /\ Len(c) \in Nat
  OBVIOUS
<1>2. Len(a) <= Len(b) /\ Len(b) <= Len(c)
  BY DEF IsPrefix
<1>3. \A i \in 1 .. Len(a) : a[i] = b[i]
  <2> SUFFICES ASSUME NEW i \in 1 .. Len(a) PROVE a[i] = b[i]
    OBVIOUS
  <2>1. SubSeq(a, 1, Len(a))[i] = a[i] /\ SubSeq(b, 1, Len(a))[i] = b[i]
    BY <1>1, <1>2
  <2> QED
    BY <2>1 DEF IsPrefix
<1>4. \A i \in 1 .. Len(b) : b[i] = c[i]
  <2> SUFFICES ASSUME NEW i \in 1 .. Len(b) PROVE b[i] = c[i]
    OBVIOUS
  <2>1. SubSeq(b, 1, Len(b))[i] = b[i] /\ SubSeq(c, 1, Len(b))[i] = c[i]
    BY <1>1, <1>2
  <2> QED
    BY <2>1 DEF IsPrefix
<1>5. \A i \in 1 .. Len(a) : a[i] = c[i]
  BY <1>1, <1>2, <1>3, <1>4
<1>6. /\ SubSeq(a, 1, Len(a)) \in Seq(T) /\ Len(SubSeq(a, 1, Len(a))) = Len(a)
      /\ SubSeq(c, 1, Len(a)) \in Seq(T) /\ Len(SubSeq(c, 1, Len(a))) = Len(a)
      /\ \A i \in 1 .. Len(a) : SubSeq(a, 1, Len(a))[i] = SubSeq(c, 1, Len(a))[i]
  BY <1>1, <1>2, <1>5
<1>7. SubSeq(a, 1, Len(a)) = SubSeq(c, 1, Len(a))
  BY <1>6, SameElements
<1> QED
  BY <1>1, <1>2, <1>7 DEF IsPrefix

---------------------------------------------------------------------------
(* Induction. *)

\* A new connection satisfies IInv.
LEMMA InitIInv == ASSUME HandlerAssumption, ParserAssumption, Init PROVE IInv
<1>1. text \in Seq(Character)
  <2>1. \A m \in 0 .. MaxText : m \in Nat
    BY Constants
  <2>2. \A m \in Nat : \A f \in [1 .. m -> Character] : f \in Seq(Character)
    OBVIOUS
  <2> QED
    BY <2>1, <2>2 DEF Init, BoundedSeq, SeqOf
<1>2. Len(text) \in Nat /\ SubSeq(text, 1, 0) = <<>>
  BY <1>1
<1>3. TypeOK
  <2>1. position \in 0 .. Len(text)
    BY <1>2 DEF Init
  <2>2. sock \in SocketStates
    BY DEF Init, Accepted, Idle, SocketStates, Phases
  <2>3. timer \in 0 .. Off
    BY Constants DEF Init
  <2>4. \A S : <<>> \in Seq(S)
    OBVIOUS
  <2>5. out \in Seq(Answers \cup Notices) /\ taken \in 0 .. Len(out)
    BY DEF Init, Notices
  <2>6. metrics \in [bytes : Nat, received : Nat, sent : Nat]
    BY DEF Init, Fresh
  <2>7. error \in Errors
    BY DEF Init, Errors
  <2> QED
    BY <1>1, <2>1, <2>2, <2>3, <2>4, <2>5, <2>6, <2>7 DEF Init, TypeOK
<1>4. Delivered = <<>>
  BY <1>2 DEF Delivered, Init
<1>5. Messages(<<>>) = <<>> /\ Partial(<<>>) = <<>>
  <2>1. DelimitersIn(<<>>) = {} /\ <<>> \in Seq(Char)
    BY DEF DelimitersIn
  <2> QED
    BY <2>1, Unfinished
<1>6. Answered = <<>>
  <2>1. "welcome" \in Notices /\ <<>> \in Seq(Sent) /\ "welcome" \in Sent
    BY DEF Notices, Sent
  <2>2. "welcome" \notin Answers
    BY DEF Answers
  <2>3. out = Append(<<>>, "welcome")
    BY DEF Init
  <2>4. Among(Append(<<>>, "welcome"), Answers) = Among(<<>>, Answers)
    BY <2>1, <2>2, AmongAppend
  <2> QED
    BY <2>3, <2>4, AmongEmpty DEF Answered
<1>7. NoFarewell /\ FarewellIsLast
  <2>1. /\ Len(out) = 1 /\ out[1] = "welcome" /\ ~sock.ending
        /\ \A i \in 1 .. 1 : i = 1
    BY DEF Init, Accepted, Idle
  <2>2. \A i \in 1 .. Len(out) : out[i] = "welcome"
    BY <2>1
  <2>3. \A i \in 1 .. Len(out) - 1 : FALSE
    BY <2>1
  <2> QED
    BY <2>1, <2>2, <2>3 DEF NoFarewell, FarewellIsLast, Farewells
<1>8. BufferIsEnd
  <2>1. \A s : <<>> \in Suffixes(s)
    BY DEF Suffixes
  <2>2. buffer = <<>>
    BY DEF Init
  <2> QED
    BY <1>4, <1>5, <2>1, <2>2 DEF BufferIsEnd
<1>9. Due(<<>>) = <<>>
  <2>0. <<>> \in Seq(Char) /\ Len(<<>>) = 0
    OBVIOUS
  <2>1. IsDue(Due(<<>>), <<>>)
    BY <2>0, DueIsDue
  <2>2. Due(<<>>) \in Seq(Answers) /\ Len(Due(<<>>)) <= 0
    BY <2>0, <2>1 DEF IsDue
  <2> QED
    BY <2>2
<1>10. AnswersFollowRequests
  <2>1. IsPrefix(<<>>, <<>>)
    BY DEF IsPrefix
  <2> QED
    BY <1>4, <1>5, <1>6, <1>9, <2>1 DEF AnswersFollowRequests
<1>11. CountersMatch /\ BrokenIsDestroyed
  <2>1. Len(Answered) = 0 /\ metrics.sent = 0 /\ metrics.received = 0 /\ 0 \in 0 .. 0
    BY <1>6 DEF Init, Fresh
  <2> QED
    BY <2>1 DEF Init, CountersMatch, BrokenIsDestroyed, Fresh
<1>12. ReceivedBounded
  BY <1>4, <1>5 DEF Init, ReceivedBounded, Fresh
<1>13. InfoIsConsistent
  <2>1. Infos(<<>>) = {}
    BY DEF Infos
  <2>2. reports = <<>> /\ Len(reports) = 0 /\ Cardinality({}) = 0
    BY FS_EmptySet DEF Init
  <2>3. Infos(Answered) = {} /\ \A k \in 1 .. 0 : FALSE
    BY <1>6, <2>1
  <2> QED
    BY <2>2, <2>3 DEF InfoIsConsistent
<1> QED
  BY <1>3, <1>7, <1>8, <1>10, <1>11, <1>12, <1>13 DEF IInv

\* Whatever leaves the text, what is sent and the counters alone, and does
\* not bring the socket back.
LEMMA SilentStep ==
    ASSUME IInv, UNCHANGED <<text, position, buffer, out, metrics, reports>>,
           CanWrite(sock') => CanWrite(sock), Open(sock') => Open(sock),
           Tracked(sock') => Tracked(sock),
           error' = "writeAfterEnd" => error = "writeAfterEnd" \/ ~Open(sock'),
           error' # "writeAfterEnd" => error # "writeAfterEnd",
           (sock'.ending /\ ~sock'.eof) => (sock.ending /\ ~sock.eof),
           TypeOK'
    PROVE  IInv'
<1>1. Delivered' = Delivered /\ Answered' = Answered
  BY DEF Delivered, Answered
<1>2. NoFarewell' /\ FarewellIsLast'
  BY DEF IInv, NoFarewell, FarewellIsLast
<1>3. BufferIsEnd' /\ AnswersFollowRequests'
  BY <1>1 DEF IInv, BufferIsEnd, AnswersFollowRequests
<1>4. CountersMatch' /\ ReceivedBounded'
  BY <1>1 DEF IInv, CountersMatch, ReceivedBounded, Said
<1>6. BrokenIsDestroyed'
  BY DEF IInv, BrokenIsDestroyed
<1>5. InfoIsConsistent'
  BY <1>1 DEF IInv, InfoIsConsistent
<1> QED
  BY <1>2, <1>3, <1>4, <1>5, <1>6 DEF IInv

\* The step of a data event, property by property.
LEMMA DataStep ==
    ASSUME HandlerAssumption, ParserAssumption, IInv,
           NEW n \in position + 1 .. Len(text), Data(n)
    PROVE  IInv'
<1> DEFINE data == SubSeq(text, position + 1, n)
           whole == buffer \o data
           ms == Messages(whole)
           answers == AnswersTo(ms)
           refused == TooLong(Partial(whole))
           all == Delivered \o data
           N == Len(Messages(Delivered))
<1>1. /\ TypeOK /\ NoFarewell /\ FarewellIsLast /\ BufferIsEnd
      /\ AnswersFollowRequests /\ BrokenIsDestroyed
      /\ CountersMatch /\ ReceivedBounded /\ InfoIsConsistent
  BY DEF IInv
<1>2. /\ data \in Seq(Character) /\ whole \in Seq(Character)
      /\ ms \in Seq(Seq(Character)) /\ ms \in Seq(Seq(Char))
      /\ Partial(whole) \in Seq(Character)
      /\ Open(sock) /\ Delivered' = all
      /\ position' = n /\ UNCHANGED <<text, taken>>
      /\ refused =>
           buffer' = <<>> /\ Send(<<"tooLong">>) /\ UNCHANGED <<metrics, reports>>
      /\ ~refused =>
           /\ buffer' = Partial(whole)
           /\ Send(answers)
           /\ Record(n - position, Len(ms), Len(answers))
           /\ CanWrite(sock) => reports' = reports \o Report(Len(ms), answers)
           /\ ~CanWrite(sock) => reports' = reports \o <<>>
  BY <1>1, DataIs
<1>3. n \in 0 .. Len(text) /\ n - position \in Nat /\ position \in Nat
  BY <1>1, ChunkIs DEF TypeOK
<1>4. /\ sock \in SocketStates /\ out \in Seq(Sent) /\ Len(out) \in Nat
      /\ metrics \in [bytes : Nat, received : Nat, sent : Nat]
      /\ reports \in Seq([received : Nat, sent : Nat])
  BY <1>1, Types
<1> HIDE DEF data
<1>5. /\ Partial(whole) \in Suffixes(Partial(all))
      /\ N \in Nat /\ Len(ms) \in Nat /\ Len(Messages(all)) \in Nat
      /\ N + Len(ms) <= Len(Messages(all))
      /\ WithinLimit(all) =>
           /\ WithinLimit(Delivered) /\ ~refused
           /\ Partial(whole) = Partial(all)
           /\ Messages(all) = Messages(Delivered) \o ms
  BY <1>1, <1>2, DataFraming
<1> HIDE DEF whole, all, ms, N
<1>6. /\ IsDue(answers, ms) /\ answers \in Seq(Answers) /\ answers \in Seq(Sent)
      /\ Len(answers) \in Nat /\ Len(answers) <= Len(ms)
      /\ \A i \in 1 .. Len(answers) : answers[i] # "timedOut"
      /\ \A i \in 1 .. Len(answers) - 1 : answers[i] # "goodbye"
  BY <1>2, AnswersSent
<1> HIDE DEF answers, refused
<1> DEFINE msgs == IF refused THEN <<"tooLong">> ELSE answers
<1>7. /\ msgs \in Seq(Sent) /\ Send(msgs)
      /\ \A i \in 1 .. Len(msgs) : msgs[i] # "timedOut"
      /\ \A i \in 1 .. Len(msgs) - 1 : msgs[i] # "goodbye"
  <2>1. CASE refused
    <3>1. "tooLong" \in Sent
      BY DEF Sent, Notices
    <3>2. /\ <<"tooLong">> \in Seq(Sent) /\ Len(<<"tooLong">>) = 1
          /\ \A i \in 1 .. 1 : <<"tooLong">>[i] # "timedOut"
          /\ \A i \in 1 .. 0 : <<"tooLong">>[i] # "goodbye"
      BY <3>1
    <3>3. msgs = <<"tooLong">>
      BY <2>1
    <3> QED
      BY <1>2, <2>1, <3>2, <3>3
  <2>2. CASE ~refused
    BY <1>2, <1>6, <2>2
  <2> QED
    BY <2>1, <2>2
<1>8. refused => msgs = <<"tooLong">>
  OBVIOUS
<1>9. ~refused => msgs = answers
  OBVIOUS
<1> HIDE DEF msgs
<1>10. /\ sock' \in SocketStates /\ timer' \in 0 .. Off /\ error' \in Errors
       /\ CanWrite(sock') =>
            CanWrite(sock) /\ \A i \in 1 .. Len(msgs) : msgs[i] \notin Farewells
       /\ CanWrite(sock) => out' = out \o msgs
       /\ ~CanWrite(sock) => out' = out
       /\ out' \in Seq(Sent) /\ Len(out) <= Len(out')
       /\ NoFarewell' /\ FarewellIsLast'
       /\ error' = "writeAfterEnd" => error = "writeAfterEnd" \/ ~Open(sock')
       /\ error' # "writeAfterEnd" => CanWrite(sock) \/ msgs = <<>>
  BY <1>1, <1>2, <1>7, SendIs DEF Sent
<1>11. /\ Answered \in Seq(Answers) /\ Len(Answered) \in Nat
       /\ \A i \in 1 .. Len(Answered) : \E j \in 1 .. Len(out) : Answered[i] = out[j]
       /\ Answered' = IF CanWrite(sock) /\ ~refused THEN Answered \o answers ELSE Answered
  <2>1. /\ Answered \in Seq(Answers) /\ Len(Answered) \in Nat
        /\ \A i \in 1 .. Len(Answered) : \E j \in 1 .. Len(out) : Answered[i] = out[j]
        /\ Among(out \o answers, Answers) = Answered \o answers
        /\ Among(out \o <<"tooLong">>, Answers) = Answered
    <3>1. "tooLong" \in Notices
      BY DEF Notices
    <3> QED
      BY <1>1, <1>6, <3>1, AnsweredIs
  <2>2. Answered' = Among(out', Answers)
    BY DEF Answered
  <2>3. ~CanWrite(sock) => Answered' = Answered
    BY <1>10, <2>2 DEF Answered
  <2> QED
    BY <1>8, <1>9, <1>10, <2>1, <2>2, <2>3
<1>12. ~refused => metrics' = [metrics EXCEPT !.bytes = @ + (n - position),
                                              !.received = @ + Len(ms),
                                              !.sent = @ + Len(answers)]
  BY <1>2 DEF Record
<1>13. metrics' \in [bytes : Nat, received : Nat, sent : Nat]
  <2>1. CASE refused
    BY <1>2, <1>4, <2>1
  <2>2. CASE ~refused
    <3>1. /\ metrics.bytes + (n - position) \in Nat /\ metrics.received + Len(ms) \in Nat
          /\ metrics.sent + Len(answers) \in Nat
      BY <1>3, <1>4, <1>5, <1>6
    <3> QED
      BY <1>4, <1>12, <2>2, <3>1
  <2> QED
    BY <2>1, <2>2
<1>14. ~refused => /\ metrics'.bytes = metrics.bytes + (n - position)
                   /\ metrics'.received = metrics.received + Len(ms)
                   /\ metrics'.sent = metrics.sent + Len(answers)
  BY <1>4, <1>12
<1> DEFINE R == [received : Nat, sent : Nat]
           report == Report(Len(ms), answers)
           new == Infos(answers)
<1>15. /\ report \in Seq(R)
       /\ Len(report) = Cardinality(new) /\ Cardinality(new) \in Nat
       /\ new \in SUBSET (1 .. Len(answers))
       /\ \A k \in 1 .. Cardinality(new) :
            /\ Nth(new, k) \in 1 .. Len(answers)
            /\ report[k].received = metrics.received + Len(ms)
            /\ report[k].sent = metrics.sent + Nth(new, k) - 1
  BY <1>4, <1>5, <1>6, ReportIs
<1> HIDE DEF report, new, R
<1>16. /\ reports' = IF CanWrite(sock) /\ ~refused THEN reports \o report ELSE reports
       /\ reports' \in Seq(R)
  <2>1. reports \in Seq(R)
    BY <1>4 DEF R
  <2>2. reports \o <<>> = reports /\ reports \o report \in Seq(R)
    BY <1>15, <2>1, ConcatFacts
  <2>3. reports' = IF CanWrite(sock) /\ ~refused THEN reports \o report ELSE reports
    BY <1>2, <2>2 DEF report
  <2> QED
    BY <2>1, <2>2, <2>3
<1>17. TypeOK'
  <2>1. position' \in 0 .. Len(text')
    BY <1>2, <1>3
  <2>2. buffer' \in Seq(Character)
    <3>1. <<>> \in Seq(Character)
      OBVIOUS
    <3> QED
      BY <1>2, <3>1
  <2>3. taken' \in 0 .. Len(out')
    <3>1. Len(out') \in Nat /\ taken \in 0 .. Len(out)
      BY <1>1, <1>10 DEF TypeOK
    <3> QED
      BY <1>2, <1>4, <1>10, <3>1
  <2>4. text' \in Seq(Character)
    BY <1>1, <1>2 DEF TypeOK
  <2> QED
    BY <1>10, <1>13, <1>16, <2>1, <2>2, <2>3, <2>4, Zenon DEF TypeOK, Sent, R
<1>18. BufferIsEnd'
  <2>1. buffer' \in Suffixes(Partial(all))
    <3>1. <<>> \in Suffixes(Partial(all))
      BY DEF Suffixes
    <3> QED
      BY <1>2, <1>5, <3>1
  <2>2. WithinLimit(all) => buffer' = Partial(all)
    BY <1>2, <1>5
  <2> QED
    BY <1>2, <2>1, <2>2 DEF BufferIsEnd
<1>19. AnswersFollowRequests'
  <2> SUFFICES ASSUME WithinLimit(all)
               PROVE  /\ IsPrefix(Answered', Due(Messages(all)))
                      /\ CanWrite(sock') => Answered' = Due(Messages(all))
    BY <1>2 DEF AnswersFollowRequests
  <2> DEFINE old == Messages(Delivered)
  <2>1. /\ IsPrefix(Answered, Due(old)) /\ (CanWrite(sock) => Answered = Due(old))
        /\ ~refused /\ Messages(all) = old \o ms
    BY <1>1, <1>5 DEF AnswersFollowRequests
  <2>2. old \in Seq(Seq(Char))
    BY <1>1, ChunkIs, FramingTypes
  <2> DEFINE T == Seq(Char)
  <2> HIDE DEF old, T
  <2>3. old \in Seq(T) /\ ms \in Seq(T) /\ old \o ms \in Seq(T)
    <3>1. old \in Seq(T) /\ ms \in Seq(T)
      BY <1>2, <2>2 DEF T
    <3> QED
      BY <3>1, ConcatFacts
  <2>4. IsDue(Due(old), old) /\ IsDue(Due(old \o ms), old \o ms)
    BY <2>3, DueIsDue
  <2>5. Due(old) \in Seq(Answers) /\ Due(old \o ms) \in Seq(Answers)
    BY <2>4 DEF IsDue
  <2>6. CASE CanWrite(sock)
    <3>1. \A i \in 1 .. Len(Answered) : Answered[i] # "goodbye"
      BY <1>1, <1>11, <2>6 DEF NoFarewell, Farewells
    <3>2. IsDue(Answered, old)
      BY <2>1, <2>4, <2>6
    <3>3. IsDue(Answered \o answers, old \o ms)
      BY <1>6, <2>3, <3>1, <3>2, DueConcat
    <3>4. Answered \o answers = Due(old \o ms)
      BY <2>3, <2>4, <3>3, DueUnique
    <3>5. Answered' = Due(old \o ms)
      BY <1>11, <2>1, <2>6, <3>4
    <3>6. IsPrefix(Due(old \o ms), Due(old \o ms))
      BY <2>5 DEF IsPrefix
    <3> QED
      BY <2>1, <3>5, <3>6
  <2>7. CASE ~CanWrite(sock)
    <3>1. Answered' = Answered /\ ~CanWrite(sock')
      BY <1>10, <1>11, <2>7
    <3>2. IsPrefix(Due(old), Due(old \o ms))
      BY <2>3, DueGrows
    <3>3. IsPrefix(Answered, Due(old \o ms))
      BY <1>11, <2>1, <2>5, <3>2, PrefixTransitive
    <3> QED
      BY <2>1, <3>1, <3>3
  <2> QED
    BY <2>6, <2>7
<1>20. CountersMatch'
  <2> DEFINE a == Len(Answered)
             a2 == Len(Answered')
  <2>1. /\ error # "writeAfterEnd" /\ Tracked(sock)
        /\ metrics.sent = a /\ metrics.sent \in a .. metrics.received /\ a \in Nat
    BY <1>1, <1>2, <1>11 DEF CountersMatch, BrokenIsDestroyed, Tracked
  <2>2. /\ a2 = IF CanWrite(sock) /\ ~refused THEN a + Len(answers) ELSE a
        /\ a2 \in Nat
    <3>1. Len(Answered \o answers) = a + Len(answers)
      BY <1>6, <1>11, ConcatFacts
    <3> QED
      BY <1>6, <1>11, <2>1, <3>1
  <2> HIDE DEF a, a2
  <2>3. metrics'.sent \in a2 .. metrics'.received
    <3>0. /\ metrics.sent \in Nat /\ metrics.received \in Nat
          /\ a <= metrics.sent /\ metrics.sent <= metrics.received
      BY <1>4, <2>1
    <3>1. CASE refused
      BY <1>2, <2>1, <2>2, <3>1
    <3>2. CASE ~refused
      <4>1. /\ metrics'.received = metrics.received + Len(ms)
            /\ metrics'.sent = metrics.sent + Len(answers)
        BY <1>14, <3>2
      <4>2. /\ metrics'.sent \in Nat /\ metrics'.received \in Nat
            /\ a2 <= metrics'.sent /\ metrics'.sent <= metrics'.received
        BY <1>5, <1>6, <2>1, <2>2, <3>0, <4>1
      <4> QED
        BY <2>2, <4>2
    <3> QED
      BY <3>1, <3>2
  <2>4. error' # "writeAfterEnd" => metrics'.sent = a2
    <3> SUFFICES ASSUME error' # "writeAfterEnd" PROVE metrics'.sent = a2
      OBVIOUS
    <3>1. CASE refused
      BY <1>2, <2>1, <2>2, <3>1
    <3>2. CASE ~refused /\ CanWrite(sock)
      BY <1>14, <2>1, <2>2, <3>2
    <3>3. CASE ~refused /\ ~CanWrite(sock)
      <4>1. answers = <<>> /\ Len(answers) = 0
        BY <1>9, <1>10, <3>3
      <4> QED
        BY <1>14, <2>1, <2>2, <3>3, <4>1
    <3> QED
      BY <3>1, <3>2, <3>3
  <2>5. ASSUME CanWrite(sock')
        PROVE  /\ metrics'.received = a2
               /\ ~Said("tooLong")' => metrics'.bytes = n
    <3>1. /\ CanWrite(sock) /\ out' = out \o msgs
          /\ \A i \in 1 .. Len(msgs) : msgs[i] \notin Farewells
      BY <1>10, <2>5
    <3>2. metrics.received = a /\ (~Said("tooLong") => metrics.bytes = position)
      BY <1>1, <3>1 DEF CountersMatch, a
    <3>3. /\ Len(msgs) \in Nat /\ Len(out') = Len(out) + Len(msgs)
          /\ \A i \in 1 .. Len(out) : out'[i] = out[i]
          /\ \A i \in 1 .. Len(msgs) : out'[Len(out) + i] = msgs[i]
      BY <1>4, <1>7, <3>1, ConcatFacts
    <3>4. CASE refused
      <4>1. Said("tooLong")'
        <5>1. msgs[1] = "tooLong" /\ 1 \in 1 .. Len(msgs)
          BY <1>8, <3>4
        <5>2. /\ Len(out) + 1 \in 1 .. Len(out') /\ out'[Len(out) + 1] = "tooLong"
              /\ DOMAIN out' = 1 .. Len(out')
          BY <1>4, <1>10, <3>3, <5>1
        <5> QED
          BY <5>2 DEF Said, ToSet
      <4> QED
        BY <1>2, <2>2, <3>2, <3>4, <4>1
    <3>5. CASE ~refused
      <4>1. \A i \in 1 .. Len(answers) : answers[i] # "goodbye"
        BY <1>9, <3>1, <3>5 DEF Farewells
      <4>2. Len(answers) = Len(ms)
        <5>1. Len(answers) # 0 => Len(answers) \in 1 .. Len(answers)
          BY <1>6
        <5> QED
          BY <1>6, <4>1, <5>1 DEF IsDue
      <4>3. Said("tooLong") => Said("tooLong")'
        <5>1. DOMAIN out = 1 .. Len(out) /\ DOMAIN out' = 1 .. Len(out')
          BY <1>4, <1>10
        <5>2. \A i \in 1 .. Len(out) : i \in 1 .. Len(out') /\ out'[i] = out[i]
          BY <1>4, <3>3
        <5> QED
          BY <5>1, <5>2 DEF Said, ToSet
      <4>4. metrics'.received = a2
        BY <1>14, <2>2, <3>1, <3>2, <3>5, <4>2
      <4>5. ~Said("tooLong")' => metrics'.bytes = n
        <5> SUFFICES ASSUME ~Said("tooLong")' PROVE metrics'.bytes = n
          OBVIOUS
        <5>1. metrics.bytes = position
          BY <3>2, <4>3
        <5> QED
          BY <1>3, <1>14, <3>5, <5>1
      <4> QED
        BY <4>4, <4>5
    <3> QED
      BY <3>4, <3>5
  <2> QED
    BY <1>2, <2>3, <2>4, <2>5 DEF CountersMatch, a2
<1>23. BrokenIsDestroyed'
  BY <1>1, <1>2, <1>10 DEF BrokenIsDestroyed
<1>21. ReceivedBounded'
  <2>1. metrics.received \in Nat /\ metrics.received <= N
    BY <1>1, <1>4 DEF ReceivedBounded, N
  <2>2. refused => metrics'.received = metrics.received
    BY <1>2
  <2>3. metrics'.received <= Len(Messages(all))
    BY <1>5, <1>14, <2>1, <2>2
  <2> QED
    BY <1>2, <2>3 DEF ReceivedBounded
<1>22. InfoIsConsistent'
  <2> DEFINE infos == Infos(Answered)
             c == Cardinality(infos)
             d == Cardinality(new)
             a == Len(Answered)
  <2>1. a \in Nat /\ infos \in SUBSET (1 .. a)
    BY <1>11 DEF Infos
  <2>2. /\ Len(reports) = c
        /\ \A k \in 1 .. c : /\ reports[k].sent = Nth(infos, k) - 1
                             /\ reports[k].received \in Nth(infos, k) .. N
    BY <1>1 DEF InfoIsConsistent, N
  <2> HIDE DEF infos
  <2>3. c \in Nat /\ \A k \in 1 .. c : Nth(infos, k) \in infos
    BY <2>1, UpTo, NthProperties
  <2> DEFINE M == Len(Messages(all))
  <2>4. \A k \in 1 .. c : reports[k].received \in Nth(infos, k) .. M
    <3>1. \A k \in 1 .. c : Nth(infos, k) \in Int
      <4> HIDE DEF a, c, M
      <4>1. \A i \in infos : i \in Int
        BY <2>1
      <4> QED
        BY <2>3, <4>1
    <3>2. N \in Nat /\ M \in Nat /\ N <= M
      BY <1>5
    <3> HIDE DEF M, c
    <3> QED
      BY <2>2, <3>1, <3>2
  <2>5. CASE ~(CanWrite(sock) /\ ~refused)
    <3>1. Answered' = Answered /\ reports' = reports
      BY <1>11, <1>16, <2>5
    <3> QED
      BY <1>2, <2>2, <2>4, <3>1 DEF InfoIsConsistent, infos
  <2>6. CASE CanWrite(sock) /\ ~refused
    <3> DEFINE U == Infos(Answered')
               moved == infos \cup {a + j : j \in new}
    <3>1. Answered' = Answered \o answers /\ reports' = reports \o report
      BY <1>11, <1>16, <2>6
    <3>2. U = moved
      <4>1. /\ Len(Answered \o answers) = a + Len(answers)
            /\ \A i \in 1 .. a : (Answered \o answers)[i] = Answered[i]
            /\ \A i \in 1 .. Len(answers) : (Answered \o answers)[a + i] = answers[i]
        BY <1>6, <1>11, ConcatFacts
      <4>2. ASSUME NEW i \in U PROVE i \in moved
        <5>1. i \in 1 .. a + Len(answers) /\ (Answered \o answers)[i] = "info"
          BY <3>1, <4>1 DEF Infos
        <5>2. CASE i \in 1 .. a
          BY <4>1, <5>1, <5>2 DEF infos, Infos
        <5>3. CASE i \notin 1 .. a
          <6> DEFINE j == i - a
          <6>1. j \in 1 .. Len(answers) /\ i = a + j
            BY <1>6, <2>1, <5>1, <5>3
          <6> HIDE DEF j
          <6>2. j \in new
            BY <4>1, <5>1, <6>1 DEF new, Infos
          <6> QED
            BY <6>1, <6>2
        <5> QED
          BY <5>2, <5>3
      <4>3. ASSUME NEW i \in infos PROVE i \in U
        <5>1. i \in 1 .. a /\ Answered[i] = "info"
          BY DEF infos, Infos
        <5>2. i \in 1 .. a + Len(answers)
          BY <1>6, <2>1, <5>1
        <5> QED
          BY <3>1, <4>1, <5>1, <5>2 DEF Infos
      <4>4. ASSUME NEW j \in new PROVE a + j \in U
        <5>1. j \in 1 .. Len(answers) /\ answers[j] = "info"
          BY DEF new, Infos
        <5>2. a + j \in 1 .. a + Len(answers)
          BY <1>6, <2>1, <5>1
        <5> QED
          BY <3>1, <4>1, <5>1, <5>2 DEF Infos
      <4> HIDE DEF U
      <4> QED
        BY <4>2, <4>3, <4>4
    <3> HIDE DEF U
    <3>3. /\ Cardinality(U) = c + d
          /\ \A k \in 1 .. c : Nth(U, k) = Nth(infos, k)
          /\ \A k \in 1 .. d : Nth(U, c + k) = a + Nth(new, k)
      <4> DEFINE m == Len(answers)
      <4>1. a \in Nat /\ m \in Nat
        BY <1>6, <2>1
      <4>2. infos \in SUBSET (1 .. a) /\ new \in SUBSET (1 .. m)
        BY <1>15, <2>1
      <4> HIDE DEF a, m
      <4>3. Joined(U, infos, a, new, m)
        BY <3>2, <4>1, <4>2 DEF Joined
      <4> HIDE DEF moved
      <4> QED
        BY <4>3, NthShift
    <3>4. /\ Len(reports') = c + d
          /\ \A k \in 1 .. c : reports'[k] = reports[k]
          /\ \A k \in 1 .. d : reports'[c + k] = report[k]
      <4>1. reports \in Seq(R) /\ report \in Seq(R)
        BY <1>4, <1>15 DEF R
      <4>2. /\ Len(reports \o report) = Len(reports) + Len(report)
            /\ \A k \in 1 .. Len(reports) : (reports \o report)[k] = reports[k]
            /\ \A k \in 1 .. Len(report) :
                 (reports \o report)[Len(reports) + k] = report[k]
        BY <4>1, ConcatFacts
      <4>3. Len(reports) = c /\ Len(report) = d
        BY <1>15, <2>2
      <4> QED
        BY <3>1, <4>2, <4>3
    <3>5. metrics.sent = a /\ metrics.received = a /\ metrics.received <= N
      BY <1>1, <1>2, <2>6 DEF CountersMatch, BrokenIsDestroyed, ReceivedBounded, Tracked, N
    <3> HIDE DEF a, M, c, d
    <3>6. ASSUME NEW k \in 1 .. c + d
          PROVE  /\ reports'[k].sent = Nth(U, k) - 1
                 /\ reports'[k].received \in Nth(U, k) .. M
      <4>0. d \in Nat
        BY <1>15 DEF d
      <4>1. CASE k \in 1 .. c
        BY <2>2, <2>4, <3>3, <3>4, <4>1
      <4>2. CASE k \notin 1 .. c
        <5> DEFINE j == k - c
        <5>1. j \in 1 .. d /\ k = c + j
          BY <2>3, <4>0, <4>2
        <5> HIDE DEF j
        <5>2. /\ Nth(new, j) \in 1 .. Len(answers)
              /\ report[j].received = a + Len(ms)
              /\ report[j].sent = a + Nth(new, j) - 1
          BY <1>15, <3>5, <5>1 DEF d
        <5>3. reports'[k] = report[j] /\ Nth(U, k) = a + Nth(new, j)
          BY <3>3, <3>4, <5>1
        <5>4. a + Len(ms) <= M /\ Len(ms) \in Nat /\ M \in Nat
          BY <1>5, <2>1, <3>5 DEF M
        <5>5. a + Len(ms) \in (a + Nth(new, j)) .. M
          BY <1>6, <2>1, <5>2, <5>4
        <5> QED
          BY <2>1, <5>2, <5>3, <5>5
      <4> QED
        BY <4>1, <4>2
    <3> QED
      BY <1>2, <3>3, <3>4, <3>6 DEF InfoIsConsistent, U, M
  <2> QED
    BY <2>5, <2>6
<1> QED
  BY <1>10, <1>17, <1>18, <1>19, <1>20, <1>21, <1>22, <1>23 DEF IInv

\* FIN, flush, reset and a timeout behind end() move the socket on and are
\* otherwise silent.
LEMMA SocketStep ==
    ASSUME HandlerAssumption, ParserAssumption, IInv, Open(sock),
           UNCHANGED <<text, position, buffer, out, taken, metrics, reports>>,
           \/ sock' = Eof(sock)
           \/ sock' = Finish(sock)
           \/ sock' = Destroy(sock),
           timer' \in 0 .. Off, error' \in Errors,
           error' = error \/ sock' = Destroy(sock)
    PROVE  IInv'
<1>1. /\ sock \in SocketStates /\ TypeOK
      /\ error # "writeAfterEnd" /\ Tracked(sock)
  BY DEF IInv, TypeOK, BrokenIsDestroyed, Tracked
<1>2. /\ sock' \in SocketStates /\ (CanWrite(sock') => CanWrite(sock))
      /\ (sock'.ending /\ ~sock'.eof) => (sock.ending /\ ~sock.eof)
  BY <1>1, SocketMoves
<1>3. TypeOK'
  BY <1>1, <1>2 DEF TypeOK
<1>4. error' = "writeAfterEnd" => ~Open(sock')
  BY <1>1, SocketMoves
<1> QED
  BY <1>1, <1>2, <1>3, <1>4, SilentStep

\* The timeout's farewell is the last message, and no answer.
LEMMA TimeoutStep ==
    ASSUME HandlerAssumption, ParserAssumption, IInv, Timeout
    PROVE  IInv'
<1>1. /\ TypeOK /\ Open(sock) /\ sock \in SocketStates /\ error \in Errors
      /\ out \in Seq(Sent) /\ Len(out) \in Nat
  BY Types DEF IInv, Timeout
<1>2. IdleTicks \in 0 .. Off /\ Off \in 0 .. Off
  BY Constants
<1>3. CASE ~CanWrite(sock)
  <2>1. sock' = Destroy(sock) /\ out' = out /\ error' = "writeAfterEnd"
    BY <1>1, <1>3, SocketMoves DEF Timeout, Becomes
  <2>2. timer' = Off
    BY <1>3 DEF Timeout, Becomes
  <2>3. error' \in Errors
    BY <2>1 DEF Errors
  <2>4. UNCHANGED <<text, position, buffer, taken, metrics, reports>>
    BY DEF Timeout
  <2> QED
    BY <1>1, <1>2, <2>1, <2>2, <2>3, <2>4, SocketStep
<1>4. CASE CanWrite(sock)
  <2> DEFINE more == Append(out, "timedOut")
  <2>1. /\ sock' = EndWith(sock) /\ out' = more /\ error' = error
        /\ timer' \in 0 .. Off
        /\ UNCHANGED <<text, position, buffer, taken, metrics, reports>>
    BY <1>2, <1>4 DEF Timeout, Becomes
  <2>2. /\ sock' \in SocketStates /\ sock'.ending /\ ~CanWrite(sock')
    BY <1>1, <1>4, <2>1, SocketMoves DEF CanWrite
  <2>3. "timedOut" \in Notices /\ "timedOut" \in Sent
    BY DEF Notices, Sent
  <2>4. /\ more \in Seq(Sent) /\ Len(more) = Len(out) + 1
        /\ more[Len(out) + 1] = "timedOut"
        /\ \A i \in 1 .. Len(out) : more[i] = out[i]
    BY <1>1, <2>3, AppendFacts
  <2>5. Answered' = Answered
    <3>1. Answered' = Among(out', Answers)
      BY DEF Answered
    <3> QED
      BY <1>1, <2>1, <2>3, <3>1, AnsweredIs
  <2>6. Delivered' = Delivered
    BY <2>1 DEF Delivered
  <2> HIDE DEF more
  <2>7. TypeOK'
    <3>1. taken' \in 0 .. Len(out')
      BY <1>1, <2>1, <2>4 DEF TypeOK
    <3> QED
      BY <1>1, <2>1, <2>2, <2>4, <3>1, Zenon DEF TypeOK, Sent
  <2>8. NoFarewell' /\ CountersMatch' /\ BrokenIsDestroyed'
    <3>1. /\ error # "writeAfterEnd" /\ Tracked(sock)
          /\ metrics.sent \in Len(Answered) .. metrics.received
          /\ metrics.sent = Len(Answered)
      BY <1>1 DEF IInv, CountersMatch, BrokenIsDestroyed, Tracked
    <3> QED
      BY <2>1, <2>2, <2>5, <3>1 DEF NoFarewell, CountersMatch, BrokenIsDestroyed
  <2>9. FarewellIsLast'
    <3>1. \A i \in 1 .. Len(out) : out[i] \notin Farewells
      BY <1>4 DEF IInv, NoFarewell
    <3>2. \A i \in 1 .. Len(more) - 1 : more[i] \notin Farewells
      BY <1>1, <2>4, <3>1
    <3>3. Last(more) \in Farewells
      BY <2>4 DEF Last, Farewells
    <3> QED
      BY <2>1, <3>2, <3>3 DEF FarewellIsLast, Farewells
  <2>10. BufferIsEnd'
    BY <1>1, <2>1, <2>6 DEF IInv, BufferIsEnd
  <2>11. AnswersFollowRequests'
    BY <2>2, <2>5, <2>6 DEF IInv, AnswersFollowRequests
  <2>12. ReceivedBounded' /\ InfoIsConsistent'
    BY <2>1, <2>5, <2>6 DEF IInv, ReceivedBounded, InfoIsConsistent
  <2> QED
    BY <2>7, <2>8, <2>9, <2>10, <2>11, <2>12 DEF IInv
<1> QED
  BY <1>3, <1>4

\* The 'close' listener forgets the counters.
LEMMA CloseStep ==
    ASSUME HandlerAssumption, ParserAssumption, IInv, Close
    PROVE  IInv'
<1>1. TypeOK /\ sock \in SocketStates
  BY Types DEF IInv
<1>2. /\ sock' = EmitClose(sock) /\ timer' = Off
      /\ metrics' = Fresh /\ buffer' = <<>>
      /\ UNCHANGED <<text, position, error, out, taken, reports>>
  BY DEF Close, Becomes, Reset
<1>3. /\ sock' \in SocketStates /\ ~Open(sock') /\ ~CanWrite(sock')
      /\ ~Tracked(sock')
      /\ sock'.ending = sock.ending /\ sock'.eof = sock.eof
  BY <1>1, <1>2 DEF EmitClose, SocketStates, Phases, Open, CanWrite, Tracked, Destroyed
<1>4. Delivered' = Delivered /\ Answered' = Answered
  BY <1>2 DEF Delivered, Answered
<1>5. /\ metrics' \in [bytes : Nat, received : Nat, sent : Nat]
      /\ metrics'.received = 0
  BY <1>2 DEF Fresh
<1>6. TypeOK'
  <2>1. timer' \in 0 .. Off /\ buffer' \in Seq(Character)
    <3>1. <<>> \in Seq(Character)
      OBVIOUS
    <3> QED
      BY <1>2, <3>1, Constants
  <2> QED
    BY <1>1, <1>2, <1>3, <1>5, <2>1 DEF TypeOK
<1>7. NoFarewell' /\ FarewellIsLast'
  BY <1>2, <1>3 DEF IInv, NoFarewell, FarewellIsLast
<1>8. BufferIsEnd' /\ CountersMatch' /\ BrokenIsDestroyed'
  BY <1>3 DEF BufferIsEnd, CountersMatch, BrokenIsDestroyed
<1>9. AnswersFollowRequests' /\ InfoIsConsistent'
  BY <1>2, <1>3, <1>4 DEF IInv, AnswersFollowRequests, InfoIsConsistent
<1>10. ReceivedBounded'
  <2>1. Len(Messages(Delivered)) \in Nat
    <3>1. Messages(Delivered) \in Seq(Seq(Character))
      BY <1>1, ChunkIs, FramingTypes
    <3> QED
      BY <3>1
  <2> QED
    BY <1>4, <1>5, <2>1 DEF ReceivedBounded
<1> QED
  BY <1>6, <1>7, <1>8, <1>9, <1>10 DEF IInv

\* Every step preserves IInv.
LEMMA StepIInv ==
    ASSUME HandlerAssumption, ParserAssumption, IInv, [Next]_vars
    PROVE  IInv'
<1>1. TypeOK /\ sock \in SocketStates /\ error \in Errors /\ timer \in 0 .. Off
  BY Types DEF IInv
<1>2. IdleTicks \in 0 .. Off /\ Off \in 0 .. Off /\ Off \in Nat
  BY Constants
<1>3. CASE \E n \in position + 1 .. Len(text) : Data(n)
  BY <1>3, DataStep
<1>4. CASE End
  <2>1. /\ Open(sock) /\ sock' = Eof(sock) /\ timer' \in 0 .. Off /\ error' = error
        /\ UNCHANGED <<text, position, buffer, out, taken, metrics, reports>>
    BY <1>2, <1>4 DEF End, Receiving, Becomes
  <2> QED
    BY <1>1, <2>1, SocketStep
<1>5. CASE Finished
  <2>1. /\ Open(sock) /\ sock' = Finish(sock) /\ timer' \in 0 .. Off /\ error' = error
        /\ UNCHANGED <<text, position, buffer, out, taken, metrics, reports>>
    BY <1>1, <1>2, <1>5 DEF Finished, Becomes
  <2> QED
    BY <1>1, <2>1, SocketStep
<1>6. CASE Take
  <2>1. /\ taken' = taken + 1 /\ taken < Handed /\ timer' \in 0 .. Off
        /\ UNCHANGED <<text, position, sock, error, buffer, out, metrics, reports>>
    BY <1>1, <1>2, <1>6 DEF Take
  <2>2. Len(out) \in Nat /\ taken \in 0 .. Len(out)
    BY <1>1, Types DEF TypeOK
  <2>3. Handed <= Len(out)
    <3> DEFINE S == {Len(out), taken + Window}
    <3>1. S \in SUBSET Nat /\ S # {} /\ Len(out) \in S
      BY <2>2, Constants
    <3>2. Handed = Min(S)
      BY DEF Handed
    <3> HIDE DEF S
    <3> QED
      BY <3>1, <3>2, MinOf
  <2>4. taken + 1 \in 0 .. Len(out)
    <3>1. Handed \in Nat
      <4> DEFINE S == {Len(out), taken + Window}
      <4>1. S \in SUBSET Nat /\ S # {}
        BY <2>2, Constants
      <4>2. Handed = Min(S)
        BY DEF Handed
      <4> HIDE DEF S
      <4> QED
        BY <4>1, <4>2, MinOf
    <3> QED
      BY <2>1, <2>2, <2>3, <3>1
  <2>5. TypeOK'
    BY <1>1, <2>1, <2>4 DEF TypeOK
  <2> QED
    BY <2>1, <2>5, SilentStep
<1>7. CASE SocketError
  <2>1. /\ Open(sock) /\ sock' = Destroy(sock) /\ timer' \in 0 .. Off
        /\ error' \in Errors
        /\ UNCHANGED <<text, position, buffer, out, taken, metrics, reports>>
    BY <1>2, <1>7 DEF SocketError, Becomes, Errors
  <2> QED
    BY <2>1, SocketStep
<1>8. CASE Timeout
  BY <1>8, TimeoutStep
<1>9. CASE Tick
  <2>1. timer' \in 0 .. Off
    BY <1>1, <1>2, <1>9 DEF Tick
  <2>2. UNCHANGED <<text, position, sock, error, buffer, out, taken, metrics, reports>>
    BY <1>9 DEF Tick
  <2>3. TypeOK'
    BY <1>1, <2>1, <2>2 DEF TypeOK
  <2> QED
    BY <2>2, <2>3, SilentStep
<1>10. CASE Close
  BY <1>10, CloseStep
<1>11. CASE UNCHANGED vars
  <2>1. TypeOK'
    BY <1>1, <1>11 DEF TypeOK, vars
  <2> QED
    BY <1>11, <2>1, SilentStep DEF vars
<1> QED
  BY <1>3, <1>4, <1>5, <1>6, <1>7, <1>8, <1>9, <1>10, <1>11 DEF Next

\* IInv holds in every state of a connection.
LEMMA Inductive == ASSUME HandlerAssumption, ParserAssumption PROVE Spec => []IInv
<1>1. Init => IInv
  BY InitIInv
<1>2. IInv /\ [Next]_vars => IInv'
  BY StepIInv
<1> QED
  BY <1>1, <1>2, PTL DEF Spec

---------------------------------------------------------------------------

\* Every variable of a connection stays in its range, whatever is sent.
THEOREM TypeCorrect ==
    ASSUME HandlerAssumption, ParserAssumption PROVE Spec => []TypeOK
<1>1. IInv => TypeOK
  BY DEF IInv
<1> QED
  BY <1>1, Inductive, PTL

\* However the requests are cut and pipelined, their answers come one by one
\* and in order, up to and including QUIT's.
THEOREM AnswersInOrder ==
    ASSUME HandlerAssumption, ParserAssumption PROVE Spec => []AnswersFollowRequests
<1>1. IInv => AnswersFollowRequests
  BY DEF IInv
<1> QED
  BY <1>1, Inductive, PTL

\* Nothing is said behind a farewell, and no connection ends without one.
THEOREM FarewellComesLast ==
    ASSUME HandlerAssumption, ParserAssumption PROVE Spec => []FarewellIsLast
<1>1. IInv => FarewellIsLast
  BY DEF IInv
<1> QED
  BY <1>1, Inductive, PTL

\* The counters agree with what was received and sent.
THEOREM CountersCorrect ==
    ASSUME HandlerAssumption, ParserAssumption PROVE Spec => []CountersMatch
<1>1. IInv => CountersMatch
  BY DEF IInv
<1> QED
  BY <1>1, Inductive, PTL

\* What INFO reports fits its place among the answers.
THEOREM InfoCorrect ==
    ASSUME HandlerAssumption, ParserAssumption PROVE Spec => []InfoIsConsistent
<1>1. IInv => InfoIsConsistent
  BY DEF IInv
<1> QED
  BY <1>1, Inductive, PTL
==========================================================================
