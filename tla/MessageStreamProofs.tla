----------------------- MODULE MessageStreamProofs -----------------------
(***************************************************************************)
(* Proofs about MessageStream, for every alphabet, every length limit,     *)
(* texts of any length and any cut into chunks.                            *)
(***************************************************************************)
EXTENDS MessageStream, FramingProofs

\* While no chunk has ended inside a character, what comes next does not
\* begin inside one.
CutClean == ~torn => position = 0 \/ Bytes[position] # Lead

\* The buffer is the unfinished line, or an end of it if it is beyond the
\* limit.
BufferIsEnd == ~torn => Remains(buffer, Partial(Delivered))

\* FramingExact is not inductive without CutClean, which lets the chunks be
\* decoded one by one, nor is OverflowContained without BufferIsEnd.
IInv ==
    /\ TypeOK /\ BufferBounded /\ CutClean /\ BufferIsEnd
    /\ FramingExact /\ OverflowContained

---------------------------------------------------------------------------

\* The characters decoding may produce.
Decoded == Character \cup {Replacement}

\* What the proofs use of the constants.
LEMMA Constants ==
    ASSUME StreamAssumption, ParserAssumption
    PROVE  /\ Decoded \subseteq Char
           /\ Lead \notin Decoded /\ Cont \notin Decoded
           /\ MaxMessageLength \in Nat
BY DEF StreamAssumption, ParserAssumption, Decoded, Char

\* The wire carries whole characters and the bytes of Wide.
LEMMA BytesType ==
    ASSUME StreamAssumption, text \in Seq(Character)
    PROVE  /\ Bytes \in Seq(Character \cup {Lead, Cont})
           /\ \A i \in 1 .. Len(Bytes) : Bytes[i] = Lead => Wide \in Character
<1> DEFINE B == Character \cup {Lead, Cont}
           pieces == [i \in 1 .. Len(text) |->
                        IF text[i] = Wide THEN <<Lead, Cont>> ELSE <<text[i]>>]
<1>1. Len(text) \in Nat /\ \A i \in 1 .. Len(text) : text[i] \in Character
  OBVIOUS
<1>2. Bytes = FlattenSeq(pieces)
  BY DEF Bytes
<1>3. Bytes \in Seq(B)
  <2> DEFINE T == Seq(B)
  <2>1. \A i \in 1 .. Len(text) :
          (IF text[i] = Wide THEN <<Lead, Cont>> ELSE <<text[i]>>) \in T
    <3>1. <<Lead, Cont>> \in T
      BY DEF Lead, Cont
    <3>2. \A c \in Character : <<c>> \in T
      OBVIOUS
    <3> HIDE DEF T, B
    <3> QED
      BY <1>1, <3>1, <3>2
  <2> HIDE DEF T
  <2>2. pieces \in Seq(T)
    BY <1>1, <2>1
  <2> HIDE DEF pieces, B
  <2> QED
    BY <1>2, <2>2, FlattenType DEF T
<1>4. Wide \notin Character => Bytes \in Seq(Character)
  <2> SUFFICES ASSUME Wide \notin Character PROVE Bytes \in Seq(Character)
    OBVIOUS
  <2> DEFINE T == Seq(Character)
  <2>1. \A c \in Character : <<c>> \in T
    OBVIOUS
  <2> HIDE DEF T
  <2>2. \A i \in 1 .. Len(text) :
          (IF text[i] = Wide THEN <<Lead, Cont>> ELSE <<text[i]>>) \in T
    BY <1>1, <2>1
  <2>3. pieces \in Seq(T)
    BY <1>1, <2>2
  <2> HIDE DEF pieces
  <2> QED
    BY <1>2, <2>3, FlattenType DEF T
<1>5. Lead \notin Character
  BY DEF StreamAssumption
<1>6. \A i \in 1 .. Len(Bytes) : Bytes[i] = Lead => Wide \in Character
  <2> HIDE DEF B, pieces
  <2> SUFFICES ASSUME Wide \notin Character, NEW i \in 1 .. Len(Bytes)
               PROVE  Bytes[i] # Lead
    OBVIOUS
  <2>1. Bytes[i] \in Character
    BY <1>4
  <2> QED
    BY <1>5, <2>1
<1> QED
  BY <1>3, <1>6

\* What a part of the wire decodes to.
LEMMA PartDecoded ==
    ASSUME StreamAssumption, text \in Seq(Character),
           NEW n \in 0 .. Len(Bytes), NEW m \in 0 .. n
    PROVE  LET part == SubSeq(Bytes, m + 1, n)
           IN /\ part \in Seq(Character \cup {Lead, Cont})
              /\ Len(part) = n - m
              /\ \A i \in 1 .. n - m : part[i] = Bytes[m + i]
              /\ \A i \in 1 .. Len(part) : part[i] = Lead => Wide \in Character
              /\ Decode(part) \in Seq(Decoded)
<1> DEFINE part == SubSeq(Bytes, m + 1, n)
           B == Character \cup {Lead, Cont}
<1>1. Bytes \in Seq(B) /\ \A i \in 1 .. Len(Bytes) : Bytes[i] = Lead => Wide \in Character
  BY BytesType
<1> HIDE DEF B
<1>2. /\ part \in Seq(B) /\ Len(part) = n - m
      /\ \A i \in 1 .. n - m : part[i] = Bytes[m + i]
  BY <1>1, SubSeqFacts
<1>3. Len(Bytes) \in Nat /\ \A i \in 1 .. n - m : m + i \in 1 .. Len(Bytes)
  BY <1>1
<1>4. \A i \in 1 .. Len(part) : part[i] = Lead => Wide \in Character
  <2> HIDE DEF part
  <2> QED
    BY <1>1, <1>2, <1>3
<1> HIDE DEF part
<1>5. Decode(part) \in Seq(Decoded)
  BY <1>2, <1>4, DecodeType DEF B, Decoded
<1> QED
  BY <1>2, <1>4, <1>5 DEF part, B

\* What one chunk adds to what has been delivered.
LEMMA ChunkDecoded ==
    ASSUME StreamAssumption, text \in Seq(Character), CutClean, ~torn,
           NEW n \in 0 .. Len(Bytes), position \in 0 .. n
    PROVE  Decode(SubSeq(Bytes, 1, n))
             = Delivered \o Decode(SubSeq(Bytes, position + 1, n))
<1> DEFINE before == SubSeq(Bytes, 1, position)
           chunk == SubSeq(Bytes, position + 1, n)
           B == Character \cup {Lead, Cont}
<1>1. Bytes \in Seq(B)
  BY BytesType
<1>2. Len(Bytes) \in Nat /\ position \in 0 .. Len(Bytes) /\ 0 \in 0 .. position
  BY <1>1
<1>3. SubSeq(Bytes, 1, n) = before \o chunk
  <2> HIDE DEF B
  <2> QED
    BY <1>1, SubSeqSplit
<1>4. /\ chunk \in Seq(B)
      /\ \A i \in 1 .. Len(chunk) : chunk[i] = Lead => Wide \in Character
  BY PartDecoded
<1>5. /\ before \in Seq(B) /\ Len(before) = position
      /\ \A i \in 1 .. position : before[i] = Bytes[i]
      /\ \A i \in 1 .. Len(before) : before[i] = Lead => Wide \in Character
  <2>1. LET part == SubSeq(Bytes, 0 + 1, position)
        IN /\ part \in Seq(B)
           /\ Len(part) = position - 0
           /\ \A i \in 1 .. position - 0 : part[i] = Bytes[0 + i]
           /\ \A i \in 1 .. Len(part) : part[i] = Lead => Wide \in Character
    BY <1>2, PartDecoded
  <2>2. 0 + 1 = 1 /\ position - 0 = position /\ \A i \in 1 .. position : 0 + i = i
    BY <1>2
  <2> HIDE DEF B
  <2> QED
    BY <2>1, <2>2
<1>6. before = <<>> \/ before[Len(before)] # Lead
  <2>1. CASE position = 0
    BY <1>5, <2>1
  <2>2. CASE position # 0
    <3>1. position \in 1 .. position /\ Bytes[position] # Lead
      BY <1>2, <2>2 DEF CutClean
    <3> HIDE DEF before
    <3> QED
      BY <1>5, <3>1
  <2> QED
    BY <2>1, <2>2
<1> HIDE DEF before, chunk
<1>7. Decode(before \o chunk) = Decode(before) \o Decode(chunk)
  BY <1>4, <1>5, <1>6, DecodeConcat
<1> QED
  BY <1>3, <1>7 DEF Delivered, before, chunk

\* Before anything has arrived IInv holds.
LEMMA InitIInv == ASSUME StreamAssumption, ParserAssumption, Init PROVE IInv
<1>1. text \in Seq(Character)
  <2>1. \A m \in 0 .. MaxText : m \in Nat
    BY DEF StreamAssumption
  <2>2. \A m \in Nat : \A f \in [1 .. m -> Character] : f \in Seq(Character)
    OBVIOUS
  <2> QED
    BY <2>1, <2>2 DEF Init, BoundedSeq, SeqOf
<1>2. Bytes \in Seq(Character \cup {Lead, Cont})
  BY <1>1, BytesType
<1>3. Delivered = <<>>
  <2>1. SubSeq(Bytes, 1, 0) = <<>>
    BY <1>2
  <2>2. Decode(<<>>) = <<>>
    <3>1. [i \in 1 .. Len(<<>>) |-> DecodeAt(<<>>, i)] = <<>>
      OBVIOUS
    <3> QED
      BY <3>1, FlattenEmpty DEF Decode
  <2> QED
    BY <2>1, <2>2 DEF Delivered, Init
<1>4. DelimitersIn(<<>>) = {} /\ <<>> \in Seq(Char)
  BY DEF DelimitersIn
<1>5. Messages(<<>>) = <<>> /\ Partial(<<>>) = <<>>
  BY <1>4, Unfinished
<1>6. TypeOK
  <2>1. Len(Bytes) \in Nat
    BY <1>2
  <2>2. position \in 0 .. Len(Bytes)
    BY <2>1 DEF Init
  <2>3. \A S : <<>> \in Seq(S)
    OBVIOUS
  <2>4. buffer \in Seq(Decoded) /\ messages \in Seq(Seq(Decoded))
    BY <2>3 DEF Init
  <2> QED
    BY <1>1, <2>2, <2>4 DEF Init, TypeOK, Decoded
<1>7. BufferBounded
  BY <1>4, Constants DEF Init, BufferBounded
<1>8. CutClean /\ BufferIsEnd
  BY <1>3, <1>5 DEF Init, CutClean, BufferIsEnd, Remains, Suffixes
<1>9. FramingExact
  BY <1>3, <1>5 DEF Init, FramingExact
<1>10. OverflowContained
  <2> DEFINE line == [k \in 1 .. 0 |-> 0]
  <2>1. Len(<<>>) = 0 /\ 1 .. 0 = {}
    OBVIOUS
  <2>2. Placed(<<>>, <<>>, line)
    BY <2>1 DEF Placed
  <2> HIDE DEF line
  <2>3. Salvaged(<<>>, <<>>)
    BY <1>4, <2>2, SalvagedIs
  <2> QED
    BY <1>3, <2>3 DEF Init, OverflowContained
<1> QED
  BY <1>6, <1>7, <1>8, <1>9, <1>10 DEF IInv

\* What a data event does, in the terms of Framing.
LEMMA ReceiveIs ==
    ASSUME StreamAssumption, ParserAssumption, TypeOK,
           NEW n \in position + 1 .. Len(Bytes), Receive(n),
           NEW data, data = Decode(SubSeq(Bytes, position + 1, n)),
           NEW whole, whole = buffer \o data
    PROVE  /\ data \in Seq(Decoded) /\ whole \in Seq(Decoded)
           /\ Messages(whole) \in Seq(Seq(Decoded)) /\ Partial(whole) \in Seq(Decoded)
           /\ DelimitersIn(Partial(whole)) = {}
           /\ TooLong(Partial(whole)) =>
                buffer' = <<>> /\ messages' = messages /\ thrown'
           /\ ~TooLong(Partial(whole)) =>
                /\ buffer' = Partial(whole)
                /\ messages' = messages \o Messages(whole)
                /\ thrown' = thrown
<1>1. n \in 0 .. Len(Bytes) /\ position \in 0 .. n
  <2>1. Len(Bytes) \in Nat
    BY BytesType DEF TypeOK
  <2> QED
    BY <2>1 DEF TypeOK
<1>2. data \in Seq(Decoded)
  BY <1>1, PartDecoded DEF TypeOK
<1>3. buffer \in Seq(Decoded) /\ messages \in Seq(Seq(Decoded)) /\ thrown \in BOOLEAN
  BY DEF TypeOK, Decoded
<1>4. whole \in Seq(Decoded)
  BY <1>2, <1>3, ConcatFacts
<1>5. /\ Messages(whole) \in Seq(Seq(Decoded)) /\ Partial(whole) \in Seq(Decoded)
      /\ DelimitersIn(Partial(whole)) = {}
  BY <1>4, FramingTypes
<1>6. buffer \in Seq(STRING) /\ data \in Seq(STRING)
  BY <1>2, <1>3, Constants, SeqSubset DEF Char
<1> DEFINE result == Feed(buffer, data)
<1>7. /\ buffer' = result.buffer /\ messages' = messages \o result.messages
      /\ thrown' = (thrown \/ result.thrown)
  BY DEF Receive
<1>8. CASE TooLong(Partial(whole))
  <2>1. result = [messages |-> <<>>, buffer |-> <<>>, thrown |-> TRUE]
    BY <1>6, <1>8, FeedIs
  <2> HIDE DEF result
  <2>2. result.messages = <<>> /\ result.buffer = <<>> /\ result.thrown
    BY <2>1
  <2>3. messages \o <<>> = messages
    BY <1>3
  <2> QED
    BY <1>2, <1>4, <1>5, <1>7, <1>8, <2>2, <2>3
<1>9. CASE ~TooLong(Partial(whole))
  <2>1. result = [messages |-> Messages(whole), buffer |-> Partial(whole), thrown |-> FALSE]
    BY <1>6, <1>9, FeedIs
  <2> HIDE DEF result
  <2>2. /\ result.messages = Messages(whole) /\ result.buffer = Partial(whole)
        /\ ~result.thrown
    BY <2>1
  <2> QED
    BY <1>2, <1>3, <1>4, <1>5, <1>7, <1>9, <2>2
<1> QED
  BY <1>8, <1>9

\* A data event preserves IInv.
LEMMA ReceiveStep ==
    ASSUME StreamAssumption, ParserAssumption, IInv,
           NEW n \in position + 1 .. Len(Bytes), Receive(n)
    PROVE  IInv'
<1> DEFINE data == Decode(SubSeq(Bytes, position + 1, n))
           whole == buffer \o data
<1>1. /\ TypeOK /\ BufferBounded /\ CutClean /\ BufferIsEnd
      /\ FramingExact /\ OverflowContained
  BY DEF IInv
<1>2. /\ data \in Seq(Decoded) /\ whole \in Seq(Decoded)
      /\ Messages(whole) \in Seq(Seq(Decoded)) /\ Partial(whole) \in Seq(Decoded)
      /\ DelimitersIn(Partial(whole)) = {}
      /\ TooLong(Partial(whole)) => buffer' = <<>> /\ messages' = messages /\ thrown'
      /\ ~TooLong(Partial(whole)) =>
           /\ buffer' = Partial(whole)
           /\ messages' = messages \o Messages(whole)
           /\ thrown' = thrown
  BY <1>1, ReceiveIs
<1>3. /\ text' = text /\ position' = n /\ Bytes' = Bytes
      /\ torn' = (torn \/ Bytes[n] = Lead)
  BY DEF Receive, Bytes
<1>4. Len(Bytes) \in Nat /\ n \in 0 .. Len(Bytes) /\ position \in 0 .. n
  <2>1. Len(Bytes) \in Nat
    BY <1>1, BytesType DEF TypeOK
  <2> QED
    BY <1>1, <2>1 DEF TypeOK
<1>5. <<>> \in Seq(Decoded) /\ DelimitersIn(<<>>) = {} /\ Len(<<>>) = 0
  BY DEF DelimitersIn
<1>6. /\ buffer \in Seq(Decoded) /\ messages \in Seq(Seq(Decoded))
      /\ thrown \in BOOLEAN /\ torn \in BOOLEAN
  BY <1>1 DEF TypeOK, Decoded
<1> HIDE DEF whole, data
<1>7. /\ buffer' \in Seq(Decoded) /\ DelimitersIn(buffer') = {} /\ ~TooLong(buffer')
      /\ messages' \in Seq(Seq(Decoded)) /\ thrown' \in BOOLEAN
  <2> DEFINE T == Seq(Decoded)
  <2>1. messages \in Seq(T) /\ Messages(whole) \in Seq(T)
    BY <1>2, <1>6
  <2>2. ~TooLong(<<>>)
    BY <1>5, Constants DEF TooLong
  <2> HIDE DEF T
  <2>3. messages \o Messages(whole) \in Seq(T)
    BY <2>1, ConcatFacts
  <2> QED
    BY <1>2, <1>5, <1>6, <2>1, <2>2, <2>3 DEF T
<1>8. TypeOK'
  BY <1>1, <1>3, <1>4, <1>6, <1>7 DEF TypeOK, Decoded
<1>9. BufferBounded'
  <2>1. Len(buffer') \in Nat
    BY <1>7
  <2> QED
    BY <1>7, <2>1, Constants DEF BufferBounded, TooLong, DelimitersIn
<1>10. CutClean'
  BY <1>3, <1>6 DEF CutClean
<1>11. CASE torn'
  BY <1>8, <1>9, <1>10, <1>11 DEF IInv, BufferIsEnd, FramingExact, OverflowContained
<1>12. CASE ~torn'
  <2>1. ~torn
    BY <1>3, <1>6, <1>12
  <2>2. Delivered' = Delivered \o data
    <3>1. Delivered' = Decode(SubSeq(Bytes, 1, n))
      BY <1>3 DEF Delivered
    <3> QED
      BY <1>1, <1>4, <2>1, <3>1, ChunkDecoded DEF TypeOK, data
  <2> DEFINE t == Delivered
  <2>3. /\ t \in Seq(Char) /\ data \in Seq(Char)
        /\ messages \in Seq(Seq(Char)) /\ messages \in Seq(Seq(Decoded))
    <3>1. t \in Seq(Decoded)
      <4>1. Decode(SubSeq(Bytes, 0 + 1, position)) \in Seq(Decoded)
        <5>1. position \in 0 .. Len(Bytes) /\ 0 \in 0 .. position
          BY <1>4
        <5> QED
          BY <1>1, <5>1, PartDecoded DEF TypeOK
      <4>2. 0 + 1 = 1
        OBVIOUS
      <4> QED
        BY <4>1, <4>2 DEF Delivered
    <3>2. Seq(Decoded) \subseteq Seq(Char)
      BY Constants, SeqSubset
    <3> HIDE DEF t
    <3> QED
      BY <1>2, <1>6, <3>1, <3>2, SeqSubset
  <2>4. Remains(buffer, Partial(t)) /\ Salvaged(messages, t)
    BY <1>1, <2>1 DEF BufferIsEnd, OverflowContained
  <2> HIDE DEF t
  <2>5. /\ Remains(Partial(whole), Partial(t \o data))
        /\ Salvaged(messages \o Messages(whole), t \o data)
        /\ TooLong(Partial(whole)) => Salvaged(messages, t \o data)
    BY <2>3, <2>4, Constants, SalvagedConcat DEF whole
  <2>6. BufferIsEnd'
    <3>1. Partial(t \o data) \in Seq(Char)
      <4>1. t \o data \in Seq(Char)
        BY <2>3, ConcatFacts
      <4> QED
        BY <4>1, FramingTypes
    <3>2. TooLong(Partial(whole)) => TooLong(Partial(t \o data))
      BY <2>5, <3>1, Constants, NoLongerEnd DEF Remains
    <3>3. TooLong(Partial(whole)) => Remains(<<>>, Partial(t \o data))
      BY <3>2 DEF Suffixes, Remains
    <3> QED
      BY <1>2, <2>2, <2>5, <3>3 DEF BufferIsEnd, t
  <2>7. OverflowContained'
    BY <1>2, <2>2, <2>5 DEF OverflowContained, t
  <2>8. FramingExact'
    <3> SUFFICES ASSUME WithinLimit(t \o data)
                 PROVE  /\ messages' = Messages(t \o data)
                        /\ buffer' = Partial(t \o data)
                        /\ ~thrown'
      BY <2>2 DEF FramingExact, t
    <3>1. WithinLimit(t)
      BY <2>3, Constants, LimitPrefix
    <3>2. messages = Messages(t) /\ buffer = Partial(t) /\ ~thrown
      BY <1>1, <2>1, <3>1 DEF FramingExact, t
    <3>3. /\ Messages(t \o data) = messages \o Messages(whole)
          /\ Partial(t \o data) = Partial(whole)
      BY <2>3, <3>2, FramingConcat DEF whole
    <3>4. ~TooLong(Partial(t \o data))
      <4>1. t \o data \in Seq(Char)
        BY <2>3, ConcatFacts
      <4> QED
        BY <4>1, Constants, LimitOfPartial
    <3> QED
      BY <1>2, <3>2, <3>3, <3>4
  <2> QED
    BY <1>8, <1>9, <1>10, <2>6, <2>7, <2>8 DEF IInv
<1> QED
  BY <1>11, <1>12

\* IInv holds in every state of the stream.
LEMMA Inductive == ASSUME StreamAssumption, ParserAssumption PROVE Spec => []IInv
<1>1. Init => IInv
  BY InitIInv
<1>2. IInv /\ [Next]_vars => IInv'
  <2> SUFFICES ASSUME IInv, [Next]_vars PROVE IInv'
    OBVIOUS
  <2>1. CASE Next
    BY <2>1, ReceiveStep DEF Next
  <2>2. CASE UNCHANGED vars
    BY <2>2 DEF vars, IInv, TypeOK, BufferBounded, CutClean, BufferIsEnd,
                FramingExact, OverflowContained, Bytes, Delivered
  <2> QED
    BY <2>1, <2>2
<1> QED
  BY <1>1, <1>2, PTL DEF Spec

---------------------------------------------------------------------------

\* Every variable of the stream stays in its range, whatever is sent.
THEOREM TypeCorrect ==
    ASSUME StreamAssumption, ParserAssumption PROVE Spec => []TypeOK
<1>1. IInv => TypeOK
  BY DEF IInv
<1> QED
  BY <1>1, Inductive, PTL

\* However the peer's bytes are cut and whatever they are, the parser keeps
\* no complete line and no more than the limit from one data event to the
\* next.
THEOREM BufferStaysBounded ==
    ASSUME StreamAssumption, ParserAssumption PROVE Spec => []BufferBounded
<1>1. IInv => BufferBounded
  BY DEF IInv
<1> QED
  BY <1>1, Inductive, PTL

\* For texts of any length and any cut into chunks that leaves characters
\* whole, what feed() returns is what the text as a whole consists of.
THEOREM ChunkingExact ==
    ASSUME StreamAssumption, ParserAssumption PROVE Spec => []FramingExact
<1>1. IInv => FramingExact
  BY DEF IInv
<1> QED
  BY <1>1, Inductive, PTL

\* For texts of any length and any cut into chunks that leaves characters
\* whole, an overflow costs the overlong line its beginning and at most the
\* messages in front of it: every message is left of a line of its own, in
\* the order of the lines, and no other line is missing.
THEOREM OverflowDamageContained ==
    ASSUME StreamAssumption, ParserAssumption PROVE Spec => []OverflowContained
<1>1. IInv => OverflowContained
  BY DEF IInv
<1> QED
  BY <1>1, Inductive, PTL
==========================================================================
