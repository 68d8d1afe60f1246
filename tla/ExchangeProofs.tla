-------------------------- MODULE ExchangeProofs --------------------------
(***************************************************************************)
(* Proofs about Exchange, for every set of lines a user may type, every    *)
(* number of them, every length limit, and any cut of both directions into *)
(* chunks.                                                                 *)
(***************************************************************************)
EXTENDS Exchange, FramingProofs

\* Messages that come out of a parser as they went onto the wire.
Neat == {m \in Seq(Char) :
            /\ Len(m) > 0
            /\ m[1] \notin White /\ m[Len(m)] \notin White
            /\ DelimitersIn(m) = {}}

---------------------------------------------------------------------------
(* Messages on the wire. *)

\* The delimiter is a character.
LEMMA NewLine == Delimiter \in Char
BY TextAssumption DEF Char

\* No message takes no characters.
LEMMA WireEmpty == Wire(<<>>) = <<>>
<1>1. [i \in 1 .. Len(<<>>) |-> Append(<<>>[i], Delimiter)] = <<>>
  OBVIOUS
<1> QED
  BY <1>1, FlattenEmpty DEF Wire

\* The lines of some messages.
Ended(ms) == [i \in 1 .. Len(ms) |-> Append(ms[i], Delimiter)]

\* A line is its message and a delimiter.
LEMMA EndedType ==
    ASSUME NEW ms \in Seq(Seq(Char))
    PROVE  /\ Ended(ms) \in Seq(Seq(Char))
           /\ Len(Ended(ms)) = Len(ms)
           /\ \A i \in 1 .. Len(ms) : Ended(ms)[i] = Append(ms[i], Delimiter)
<1>1. \A i \in 1 .. Len(ms) : Append(ms[i], Delimiter) \in Seq(Char)
  BY NewLine, AppendFacts
<1> QED
  BY <1>1 DEF Ended

\* Messages are written one behind the other.
LEMMA WireConcat ==
    ASSUME NEW ms \in Seq(Seq(Char)), NEW more \in Seq(Seq(Char))
    PROVE  /\ Wire(ms) \in Seq(Char)
           /\ Wire(ms \o more) = Wire(ms) \o Wire(more)
<1> DEFINE T == Seq(Char)
           all == ms \o more
           e == Ended(ms)
           f == Ended(more)
<1>1. /\ all \in Seq(T) /\ Len(all) = Len(ms) + Len(more)
      /\ Len(ms) \in Nat /\ Len(more) \in Nat
      /\ \A i \in 1 .. Len(ms) : all[i] = ms[i]
      /\ \A i \in 1 .. Len(more) : all[Len(ms) + i] = more[i]
  <2>1. ms \in Seq(T) /\ more \in Seq(T)
    OBVIOUS
  <2> HIDE DEF T
  <2> QED
    BY <2>1, ConcatFacts
<1> HIDE DEF all
<1>2. /\ e \in Seq(T) /\ f \in Seq(T) /\ Ended(all) \in Seq(T)
      /\ Len(e) = Len(ms) /\ Len(f) = Len(more) /\ Len(Ended(all)) = Len(all)
      /\ \A i \in 1 .. Len(ms) : e[i] = Append(ms[i], Delimiter)
      /\ \A i \in 1 .. Len(more) : f[i] = Append(more[i], Delimiter)
      /\ \A i \in 1 .. Len(all) : Ended(all)[i] = Append(all[i], Delimiter)
  BY <1>1, EndedType
<1> HIDE DEF e, f, T
<1>3. /\ e \o f \in Seq(T) /\ Len(e \o f) = Len(ms) + Len(more)
      /\ \A i \in 1 .. Len(ms) : (e \o f)[i] = e[i]
      /\ \A i \in 1 .. Len(more) : (e \o f)[Len(ms) + i] = f[i]
  <2>1. e \in Seq(T) /\ f \in Seq(T)
    BY <1>2
  <2>2. /\ e \o f \in Seq(T) /\ Len(e \o f) = Len(e) + Len(f)
        /\ \A i \in 1 .. Len(e) : (e \o f)[i] = e[i]
        /\ \A i \in 1 .. Len(f) : (e \o f)[Len(e) + i] = f[i]
    BY <2>1, ConcatFacts
  <2> QED
    BY <1>2, <2>2
<1>4. Ended(all) = e \o f
  <2> DEFINE g == e \o f
             h == Ended(all)
  <2>1. /\ g \in Seq(T) /\ h \in Seq(T) /\ Len(g) = Len(h)
        /\ Len(h) = Len(ms) + Len(more)
    BY <1>1, <1>2, <1>3
  <2>2. ASSUME NEW i \in 1 .. Len(h) PROVE h[i] = g[i]
    <3>1. CASE i \in 1 .. Len(ms)
      <4>1. i \in 1 .. Len(all)
        BY <1>1, <3>1
      <4> QED
        BY <1>1, <1>2, <1>3, <3>1, <4>1
    <3>2. CASE i \notin 1 .. Len(ms)
      <4> DEFINE j == i - Len(ms)
      <4>1. j \in 1 .. Len(more) /\ i = Len(ms) + j /\ i \in 1 .. Len(all)
        BY <1>1, <1>2, <2>1, <3>2
      <4> HIDE DEF j
      <4>2. g[i] = f[j] /\ all[i] = more[j]
        BY <1>1, <1>3, <4>1
      <4>3. h[i] = Append(all[i], Delimiter) /\ f[j] = Append(more[j], Delimiter)
        BY <1>2, <4>1
      <4> QED
        BY <4>2, <4>3
    <3> QED
      BY <3>1, <3>2
  <2> HIDE DEF g, h
  <2>3. h = g
    BY <2>1, <2>2, SameElements
  <2> QED
    BY <2>3 DEF g, h
<1>5. FlattenSeq(e \o f) = FlattenSeq(e) \o FlattenSeq(f) /\ FlattenSeq(e) \in Seq(Char)
  BY <1>2, FlattenConcat, FlattenType DEF T
<1>6. Wire(ms) = FlattenSeq(e) /\ Wire(more) = FlattenSeq(f) /\ Wire(all) = FlattenSeq(Ended(all))
  BY Zenon DEF Wire, Ended, e, f
<1> QED
  BY <1>4, <1>5, <1>6 DEF all

\* Messages are written in characters.
LEMMA WireType ==
    ASSUME NEW ms \in Seq(Seq(Char))
    PROVE  Wire(ms) \in Seq(Char)
BY WireConcat

\* A single message is written as one line.
LEMMA WireSingle ==
    ASSUME NEW m \in Seq(Char)
    PROVE  Wire(<<m>>) = Append(m, Delimiter) /\ Append(m, Delimiter) \in Seq(Char)
<1>1. Append(m, Delimiter) \in Seq(Char)
  BY NewLine, AppendFacts
<1>2. [i \in 1 .. Len(<<m>>) |-> Append(<<m>>[i], Delimiter)] = <<Append(m, Delimiter)>>
  OBVIOUS
<1> QED
  BY <1>1, <1>2, FlattenSingle DEF Wire

---------------------------------------------------------------------------
(* Trimming. *)

\* trim() leaves a text that begins and ends with ink as it is, and makes
\* such a text of any other that has ink.
LEMMA TrimNeat ==
    ASSUME NEW s \in Seq(Char), DelimitersIn(s) = {}
    PROVE  /\ s \in Neat => Trim(s) = s
           /\ Trim(s) # <<>> => Trim(s) \in Neat
<1> DEFINE ink == {i \in 1 .. Len(s) : s[i] \notin White}
           n == Len(s)
           a == Min(ink)
           b == Max(ink)
<1>1. n \in Nat /\ ink \in SUBSET (0 .. n) /\ ink \in SUBSET Nat
  OBVIOUS
<1>2. ink = {} => Trim(s) = <<>>
  BY DEF Trim
<1>3. ink # {} => Trim(s) = SubSeq(s, a, b)
  BY DEF Trim
<1>4. ink # {} => /\ a \in ink /\ \A i \in ink : a <= i
                  /\ b \in ink /\ \A i \in ink : b >= i
  <2> HIDE DEF ink
  <2> QED
    BY <1>1, MinOf, MaxOf
<1>5. ASSUME s \in Neat PROVE Trim(s) = s
  <2>1. n > 0 /\ 1 \in ink /\ n \in ink
    BY <1>1, <1>5 DEF Neat
  <2> HIDE DEF a, b
  <2>2. a = 1 /\ b = n
    BY <1>1, <1>4, <2>1
  <2>3. SubSeq(s, 1, n) = s
    OBVIOUS
  <2> QED
    BY <1>3, <2>1, <2>2, <2>3
<1>6. ASSUME Trim(s) # <<>> PROVE Trim(s) \in Neat
  <2> DEFINE t == SubSeq(s, a, b)
  <2>1. ink # {}
    BY <1>2, <1>6
  <2>2. a \in ink /\ b \in ink /\ a <= b
    BY <1>4, <2>1
  <2>3. a \in 1 .. n /\ b \in a .. n /\ s[a] \notin White /\ s[b] \notin White
    <3> HIDE DEF a, b
    <3> QED
      BY <1>1, <2>2
  <2> HIDE DEF a, b, ink
  <2>4. t \in Seq(Char) /\ Len(t) = b - a + 1 /\ \A i \in 1 .. Len(t) : t[i] = s[a - 1 + i]
    <3>1. b \in 0 .. Len(s) /\ a - 1 \in 0 .. b
      BY <2>3
    <3>2. /\ SubSeq(s, a - 1 + 1, b) \in Seq(Char)
          /\ Len(SubSeq(s, a - 1 + 1, b)) = b - (a - 1)
          /\ \A i \in 1 .. b - (a - 1) : SubSeq(s, a - 1 + 1, b)[i] = s[a - 1 + i]
      BY <3>1, SubSeqFacts
    <3>3. a - 1 + 1 = a /\ b - (a - 1) = b - a + 1
      BY <2>3
    <3> QED
      BY <3>2, <3>3
  <2> HIDE DEF t
  <2>5. 1 \in 1 .. Len(t) /\ Len(t) \in 1 .. Len(t) /\ a - 1 + 1 = a /\ a - 1 + Len(t) = b
    BY <2>3, <2>4
  <2>6. t[1] = s[a] /\ t[Len(t)] = s[b]
    BY <2>4, <2>5
  <2>7. \A i \in 1 .. Len(t) : a - 1 + i \in 1 .. n
    BY <1>1, <2>3, <2>4
  <2>8. DelimitersIn(t) = {}
    BY <2>4, <2>7 DEF DelimitersIn
  <2>9. t \in Neat
    BY <2>3, <2>4, <2>5, <2>6, <2>8 DEF Neat
  <2> QED
    BY <1>3, <2>1, <2>9 DEF t
<1> QED
  BY <1>5, <1>6

---------------------------------------------------------------------------
(* Messages off the wire. *)

\* One line.
LEMMA NeatLine ==
    ASSUME NEW m \in Neat
    PROVE  /\ Messages(Append(m, Delimiter)) = <<m>>
           /\ Partial(Append(m, Delimiter)) = <<>>
<1>1. m \in Seq(Char) /\ DelimitersIn(m) = {} /\ Len(m) > 0
  BY DEF Neat
<1>2. Messages(m) = <<>> /\ Partial(m) = m
  BY <1>1, Unfinished
<1>3. Trim(m) = m /\ m # <<>>
  BY <1>1, TrimNeat
<1>4. MessageOf(m) = <<m>>
  BY <1>3 DEF MessageOf, Push
<1>5. Messages(Append(m, Delimiter)) = <<>> \o <<m>>
  BY <1>1, <1>2, <1>4, NewLine, MessagesAppend
<1>6. <<>> \o <<m>> = <<m>>
  BY <1>1
<1> QED
  BY <1>1, <1>5, <1>6, NewLine, PartialAppend

\* Any number of lines: what is written is what is read.
LEMMA WireMessages ==
    ASSUME NEW ms \in Seq(Neat)
    PROVE  Messages(Wire(ms)) = ms /\ Partial(Wire(ms)) = <<>>
<1> DEFINE S == {s \in Seq(Neat) : Messages(Wire(s)) = s /\ Partial(Wire(s)) = <<>>}
<1>0. Neat \subseteq Seq(Char)
  BY DEF Neat
<1>1. <<>> \in S
  <2>1. <<>> \in Seq(Neat) /\ <<>> \in Seq(Char)
    OBVIOUS
  <2>2. DelimitersIn(<<>>) = {}
    BY DEF DelimitersIn
  <2> QED
    BY <2>1, <2>2, Unfinished, WireEmpty
<1>2. ASSUME NEW s \in Seq(Neat), NEW m \in Neat, s \in S
      PROVE  Append(s, m) \in S
  <2>1. Append(s, m) \in Seq(Neat) /\ Append(s, m) = s \o <<m>>
    OBVIOUS
  <2>2. s \in Seq(Seq(Char)) /\ m \in Seq(Char)
    BY <1>0, SeqSubset
  <2>3. <<m>> \in Seq(Seq(Char))
    BY <2>2
  <2> DEFINE w == Wire(s)
             l == Append(m, Delimiter)
  <2>4. Wire(Append(s, m)) = w \o l /\ w \in Seq(Char) /\ l \in Seq(Char)
    BY <2>1, <2>2, <2>3, WireConcat, WireSingle
  <2>5. Messages(w) = s /\ Partial(w) = <<>>
    BY <1>2
  <2>6. Messages(l) = <<m>> /\ Partial(l) = <<>>
    BY NeatLine
  <2> HIDE DEF w, l
  <2>7. <<>> \o l = l
    BY <2>4
  <2>8. /\ Messages(w \o l) = Messages(w) \o Messages(Partial(w) \o l)
        /\ Partial(w \o l) = Partial(Partial(w) \o l)
    BY <2>4, FramingConcat
  <2>9. Messages(w \o l) = s \o <<m>> /\ Partial(w \o l) = <<>>
    BY <2>5, <2>6, <2>7, <2>8
  <2> QED
    BY <2>1, <2>4, <2>9 DEF w, l
<1> HIDE DEF S
<1>3. \A s \in Seq(Neat) : s \in S
  BY <1>1, <1>2, SeqInduction
<1> QED
  BY <1>3 DEF S

---------------------------------------------------------------------------
(* The length limit. *)

\* A text is within the limit if it was before its last character and its
\* unfinished line is.
LEMMA LimitGrows ==
    ASSUME NEW t \in Seq(Char), NEW c \in Char, WithinLimit(t),
           ~TooLong(Partial(Append(t, c)))
    PROVE  WithinLimit(Append(t, c))
<1> DEFINE n == Len(t)
           t2 == Append(t, c)
<1>1. n \in Nat /\ Len(t2) = n + 1
  BY AppendFacts
<1>2. /\ DelimitersIn(t) \in SUBSET (1 .. n)
      /\ DelimitersIn(t2) \subseteq DelimitersIn(t) \cup {n + 1}
  BY DelimitersAppend
<1>3. \A i \in 1 .. n + 1 : LineBefore(t2, i) = LineBefore(t, i)
  BY LineBeforeAppend
<1>4. \A i \in DelimitersIn(t) \cup {n + 1} : ~TooLong(LineBefore(t, i))
  BY DEF WithinLimit, LineEnds
<1>5. ~TooLong(LineBefore(t2, Len(t2) + 1))
  BY DEF Partial
<1> HIDE DEF t2
<1>6. \A i \in DelimitersIn(t2) : i \in 1 .. n + 1 /\ i \in DelimitersIn(t) \cup {n + 1}
  BY <1>1, <1>2
<1>7. \A i \in DelimitersIn(t2) : ~TooLong(LineBefore(t2, i))
  BY <1>3, <1>4, <1>6
<1>8. WithinLimit(t2)
  BY <1>5, <1>7 DEF WithinLimit, LineEnds
<1> QED
  BY <1>8 DEF t2

\* One more line, as far as it has come.
LEMMA LimitLine ==
    ASSUME NEW t \in Seq(Char), WithinLimit(t), Partial(t) = <<>>,
           NEW m \in Seq(Char), DelimitersIn(m) = {}, ~TooLong(m)
    PROVE  WithinLimit(t \o m) /\ Partial(t \o m) = m
<1> DEFINE Fits(v) == ~TooLong(v) /\ DelimitersIn(v) = {}
           Holds(v) == WithinLimit(t \o v) /\ Partial(t \o v) = v
           S == {v \in Seq(Char) : Fits(v) => Holds(v)}
<1>1. <<>> \in S
  <2>1. t \o <<>> = t /\ <<>> \in Seq(Char)
    OBVIOUS
  <2> QED
    BY <2>1
<1>2. ASSUME NEW v \in Seq(Char), NEW c \in Char, v \in S
      PROVE  Append(v, c) \in S
  <2>1. /\ t \o Append(v, c) = Append(t \o v, c) /\ t \o v \in Seq(Char)
        /\ Append(v, c) \in Seq(Char) /\ Len(Append(v, c)) = Len(v) + 1 /\ Len(v) \in Nat
    BY ConcatAppend, ConcatFacts, AppendFacts
  <2>2. ASSUME Fits(Append(v, c)) PROVE Holds(Append(v, c))
    <3>1. c # Delimiter /\ DelimitersIn(v) = {}
      BY <2>2, DelimitersAppend
    <3>2. ~TooLong(v)
      BY <2>1, <2>2, ParserAssumption DEF TooLong
    <3>3. Holds(v)
      BY <1>2, <3>1, <3>2
    <3>4. Partial(Append(t \o v, c)) = Append(v, c)
      BY <2>1, <3>1, <3>3, PartialAppend
    <3>5. WithinLimit(Append(t \o v, c))
      BY <2>1, <2>2, <3>3, <3>4, LimitGrows
    <3> QED
      BY <2>1, <3>4, <3>5
  <2> QED
    BY <2>1, <2>2
<1> HIDE DEF S
<1>3. \A v \in Seq(Char) : v \in S
  BY <1>1, <1>2, SeqInduction
<1> QED
  BY <1>3 DEF S

\* Messages within the limit make a text within the limit.
LEMMA WireLimit ==
    ASSUME NEW ms \in Seq(Neat), \A i \in 1 .. Len(ms) : ~Overlong(ms[i])
    PROVE  WithinLimit(Wire(ms))
<1> DEFINE Fits(s) == \A i \in 1 .. Len(s) : ~Overlong(s[i])
           S == {s \in Seq(Neat) : Fits(s) => WithinLimit(Wire(s))}
<1>0. Neat \subseteq Seq(Char) /\ \A m \in Neat : DelimitersIn(m) = {}
  BY DEF Neat
<1>1. <<>> \in S
  <2>1. <<>> \in Seq(Neat) /\ <<>> \in Seq(Char) /\ Len(<<>>) = 0
    OBVIOUS
  <2>2. DelimitersIn(<<>>) = {}
    BY DEF DelimitersIn
  <2>3. Partial(<<>>) = <<>>
    BY <2>1, <2>2, Unfinished
  <2>4. ~TooLong(LineBefore(<<>>, Len(<<>>) + 1))
    BY <2>1, <2>3, ParserAssumption DEF Partial, TooLong
  <2> QED
    BY <2>1, <2>2, <2>4, WireEmpty DEF WithinLimit, LineEnds
<1>2. ASSUME NEW s \in Seq(Neat), NEW m \in Neat, s \in S
      PROVE  Append(s, m) \in S
  <2> DEFINE w == Wire(s)
             wm == w \o m
  <2>1. /\ Append(s, m) \in Seq(Neat) /\ Append(s, m) = s \o <<m>>
        /\ Len(Append(s, m)) = Len(s) + 1 /\ Len(s) \in Nat
        /\ Append(s, m)[Len(s) + 1] = m
        /\ \A i \in 1 .. Len(s) : Append(s, m)[i] = s[i]
    OBVIOUS
  <2>2. s \in Seq(Seq(Char)) /\ m \in Seq(Char)
    BY <1>0, SeqSubset
  <2>3. <<m>> \in Seq(Seq(Char))
    BY <2>2
  <2>4. Wire(Append(s, m)) = w \o Append(m, Delimiter) /\ w \in Seq(Char)
    BY <2>1, <2>2, <2>3, WireConcat, WireSingle
  <2>5. Partial(w) = <<>>
    BY WireMessages
  <2> HIDE DEF w
  <2>6. w \o Append(m, Delimiter) = Append(wm, Delimiter) /\ wm \in Seq(Char)
    BY <2>2, <2>4, NewLine, ConcatAppend, ConcatFacts
  <2>7. ASSUME Fits(Append(s, m)) PROVE WithinLimit(Wire(Append(s, m)))
    <3>1. Fits(s) /\ ~Overlong(m)
      BY <2>1, <2>7
    <3>2. WithinLimit(w)
      BY <1>2, <3>1 DEF w
    <3>3. ~TooLong(m)
      BY <3>1 DEF Overlong, TooLong
    <3>4. WithinLimit(wm)
      BY <1>0, <2>2, <2>4, <2>5, <3>2, <3>3, LimitLine
    <3>5. Partial(Append(wm, Delimiter)) = <<>>
      BY <2>6, NewLine, PartialAppend
    <3>6. ~TooLong(<<>>)
      BY ParserAssumption DEF TooLong
    <3>7. WithinLimit(Append(wm, Delimiter))
      BY <2>6, <3>4, <3>5, <3>6, NewLine, LimitGrows
    <3> QED
      BY <2>4, <2>6, <3>7
  <2> QED
    BY <2>1, <2>7
<1> HIDE DEF S
<1>3. \A s \in Seq(Neat) : s \in S
  BY <1>1, <1>2, SeqInduction
<1> QED
  BY <1>3 DEF S

\* The parser at the other end refuses what has arrived of some messages only
\* for an overlong one.
LEMMA RefusedForLength ==
    ASSUME NEW ms \in Seq(Neat), NEW t \in Seq(Char), NEW u \in Seq(Char),
           Wire(ms) = t \o u, TooLong(Partial(t))
    PROVE  \E i \in 1 .. Len(ms) : Overlong(ms[i])
<1>1. ~WithinLimit(t)
  BY ParserAssumption, LimitOfPartial
<1>2. ~WithinLimit(Wire(ms))
  BY <1>1, ParserAssumption, LimitPrefix
<1> QED
  BY <1>2, WireLimit

---------------------------------------------------------------------------
(* The messages that are answered. *)

\* A QUIT is among the messages.
HasQuit(ms) == \E i \in 1 .. Len(ms) : IsQuit(ms[i])

\* u are the messages up to and including the first QUIT.
IsCut(u, ms) ==
    /\ Len(u) <= Len(ms)
    /\ \A k \in 1 .. Len(u) : u[k] = ms[k]
    /\ \A k \in 1 .. Len(u) - 1 : ~IsQuit(u[k])
    /\ Len(u) # Len(ms) => Len(u) # 0 /\ IsQuit(u[Len(u)])

\* UpToQuit cuts behind the first QUIT.
LEMMA CutIs ==
    ASSUME NEW T, NEW ms \in Seq(T)
    PROVE  UpToQuit(ms) \in Seq(T) /\ IsCut(UpToQuit(ms), ms)
<1> DEFINE I == {i \in 1 .. Len(ms) : IsQuit(ms[i])}
           quit == IF I # {} THEN Min(I) ELSE 0
           n == Len(ms)
<1>1. UpToQuit(ms) = IF quit = 0 THEN ms ELSE SubSeq(ms, 1, quit)
  BY Zenon DEF UpToQuit, SelectInSeq
<1>2. n \in Nat /\ I \in SUBSET Nat /\ I \subseteq 1 .. n
  OBVIOUS
<1>3. CASE I = {}
  <2>1. UpToQuit(ms) = ms
    BY <1>1, <1>3
  <2>2. \A i \in 1 .. n : ~IsQuit(ms[i])
    BY <1>3
  <2>3. IsCut(ms, ms)
    BY <1>2, <2>2 DEF IsCut
  <2> QED
    BY <2>1, <2>3
<1>4. CASE I # {}
  <2> DEFINE q == Min(I)
             u == SubSeq(ms, 1, q)
  <2>1. UpToQuit(ms) = IF q = 0 THEN ms ELSE u
    BY <1>1, <1>4
  <2>2. q \in I /\ \A j \in I : q <= j
    <3> HIDE DEF I
    <3> QED
      BY <1>2, <1>4, MinOf
  <2> HIDE DEF q
  <2>3. q \in 1 .. n /\ q # 0 /\ IsQuit(ms[q])
    BY <1>2, <2>2
  <2>4. \A j \in 1 .. q - 1 : ~IsQuit(ms[j])
    BY <1>2, <2>2, <2>3
  <2>5. u \in Seq(T) /\ Len(u) = q /\ \A i \in 1 .. q : u[i] = ms[i]
    BY <2>3
  <2>6. UpToQuit(ms) = u
    BY <2>1, <2>3
  <2> HIDE DEF u, I, quit
  <2>7. IsCut(u, ms)
    BY <1>2, <2>3, <2>4, <2>5 DEF IsCut
  <2> QED
    BY <2>5, <2>6, <2>7
<1> QED
  BY <1>3, <1>4

\* There is one such cut.
LEMMA CutUnique ==
    ASSUME NEW T, NEW ms \in Seq(T), NEW u \in Seq(T), NEW v \in Seq(T),
           IsCut(u, ms), IsCut(v, ms)
    PROVE  u = v
<1>1. ASSUME NEW a \in Seq(T), NEW b \in Seq(T), IsCut(a, ms), IsCut(b, ms),
             Len(a) < Len(b)
      PROVE  FALSE
  <2>1. Len(a) # Len(ms) /\ Len(a) \in 1 .. Len(b) - 1
    BY <1>1 DEF IsCut
  <2>2. a[Len(a)] = ms[Len(a)] /\ b[Len(a)] = ms[Len(a)]
    BY <1>1, <2>1 DEF IsCut
  <2>3. IsQuit(a[Len(a)]) /\ ~IsQuit(b[Len(a)])
    BY <1>1, <2>1 DEF IsCut
  <2> QED
    BY <2>2, <2>3
<1>2. Len(u) = Len(v)
  <2>1. ~(Len(u) < Len(v)) /\ ~(Len(v) < Len(u))
    BY <1>1
  <2>2. Len(u) \in Nat /\ Len(v) \in Nat
    OBVIOUS
  <2> QED
    BY <2>1, <2>2
<1> QED
  BY <1>2, SameElements DEF IsCut

\* The last message answered is a QUIT if there is one at all.
LEMMA CutQuits ==
    ASSUME NEW T, NEW ms \in Seq(T)
    PROVE  LET u == UpToQuit(ms)
           IN (u # <<>> /\ IsQuit(Last(u))) <=> HasQuit(ms)
<1> DEFINE u == UpToQuit(ms)
<1>1. u \in Seq(T) /\ IsCut(u, ms)
  BY CutIs
<1> HIDE DEF u
<1>2. ASSUME u # <<>>, IsQuit(Last(u)) PROVE HasQuit(ms)
  <2>1. Len(u) \in 1 .. Len(u) /\ Len(u) \in 1 .. Len(ms)
    BY <1>1, <1>2 DEF IsCut
  <2>2. Last(u) = ms[Len(u)]
    BY <1>1, <2>1 DEF IsCut, Last
  <2> QED
    BY <1>2, <2>1, <2>2 DEF HasQuit
<1>3. ASSUME HasQuit(ms) PROVE u # <<>> /\ IsQuit(Last(u))
  <2>1. PICK i \in 1 .. Len(ms) : IsQuit(ms[i])
    BY <1>3 DEF HasQuit
  <2>2. CASE Len(u) # Len(ms)
    BY <1>1, <2>2 DEF IsCut, Last
  <2>3. CASE Len(u) = Len(ms)
    <3>1. i \in 1 .. Len(u) /\ u[i] = ms[i] /\ IsQuit(u[i])
      BY <1>1, <2>1, <2>3 DEF IsCut
    <3>2. i \notin 1 .. Len(u) - 1
      BY <1>1, <3>1 DEF IsCut
    <3>3. i = Len(u) /\ u # <<>>
      BY <1>1, <3>1, <3>2
    <3> QED
      BY <3>1, <3>3 DEF Last
  <2> QED
    BY <2>2, <2>3
<1> QED
  BY <1>2, <1>3 DEF u

\* More messages add to those answered, unless a QUIT was there.
LEMMA CutConcat ==
    ASSUME NEW T, NEW ms \in Seq(T), NEW more \in Seq(T)
    PROVE  /\ ~HasQuit(ms) => /\ UpToQuit(ms) = ms
                              /\ UpToQuit(ms \o more) = ms \o UpToQuit(more)
           /\ HasQuit(ms) => UpToQuit(ms \o more) = UpToQuit(ms)
           /\ HasQuit(ms \o more) <=> HasQuit(ms) \/ HasQuit(more)
<1> DEFINE n == Len(ms)
           all == ms \o more
           u == UpToQuit(ms)
           v == UpToQuit(more)
<1>1. /\ n \in Nat /\ Len(more) \in Nat
      /\ all \in Seq(T) /\ Len(all) = n + Len(more)
      /\ \A i \in 1 .. n : all[i] = ms[i]
      /\ \A i \in 1 .. Len(more) : all[n + i] = more[i]
  BY ConcatFacts
<1>2. u \in Seq(T) /\ IsCut(u, ms) /\ v \in Seq(T) /\ IsCut(v, more)
  BY CutIs
<1> HIDE DEF all
<1>3. UpToQuit(all) \in Seq(T) /\ IsCut(UpToQuit(all), all)
  BY <1>1, CutIs
<1> HIDE DEF u, v, n
<1>4. Len(u) \in Nat /\ Len(v) \in Nat
  BY <1>2
<1>5. ASSUME ~HasQuit(ms)
      PROVE  u = ms /\ UpToQuit(all) = ms \o v
  <2>1. Len(u) = n
    <3> SUFFICES ASSUME Len(u) # n PROVE FALSE
      OBVIOUS
    <3>1. Len(u) \in 1 .. Len(ms) /\ Len(u) \in 1 .. Len(u) /\ IsQuit(u[Len(u)])
      BY <1>2, <1>4 DEF IsCut, n
    <3>2. IsQuit(ms[Len(u)])
      BY <1>2, <3>1 DEF IsCut
    <3> QED
      BY <1>5, <3>1, <3>2 DEF HasQuit
  <2>2. u = ms
    BY <1>2, <2>1, SameElements DEF IsCut, n
  <2> DEFINE w == ms \o v
  <2>3. /\ w \in Seq(T) /\ Len(w) = n + Len(v)
        /\ \A i \in 1 .. n : w[i] = ms[i]
        /\ \A i \in 1 .. Len(v) : w[n + i] = v[i]
    BY <1>2, ConcatFacts DEF n
  <2> HIDE DEF w
  <2>4. ASSUME NEW k \in 1 .. Len(w)
        PROVE  w[k] = all[k] /\ (k # Len(w) => ~IsQuit(w[k]))
    <3>1. CASE k \in 1 .. n
      <4>1. ~IsQuit(ms[k])
        BY <1>5, <3>1 DEF HasQuit, n
      <4> QED
        BY <1>1, <2>3, <3>1, <4>1
    <3>2. CASE k \notin 1 .. n
      <4> DEFINE j == k - n
      <4>1. j \in 1 .. Len(v) /\ k = n + j /\ (k # Len(w) => j \in 1 .. Len(v) - 1)
        BY <1>1, <1>4, <2>3, <3>2
      <4> HIDE DEF j
      <4>2. j \in 1 .. Len(more)
        BY <1>1, <1>2, <1>4, <4>1 DEF IsCut
      <4>3. w[k] = v[j] /\ all[k] = more[j] /\ v[j] = more[j]
        BY <1>1, <1>2, <2>3, <4>1, <4>2 DEF IsCut
      <4> QED
        BY <1>2, <4>1, <4>3 DEF IsCut
    <3> QED
      BY <3>1, <3>2
  <2>5. Len(w) # Len(all) => Len(w) # 0 /\ IsQuit(w[Len(w)])
    <3> SUFFICES ASSUME Len(w) # Len(all) PROVE Len(w) # 0 /\ IsQuit(w[Len(w)])
      OBVIOUS
    <3>1. Len(v) # 0 /\ IsQuit(v[Len(v)])
      BY <1>1, <1>2, <1>4, <2>3 DEF IsCut
    <3>2. Len(v) \in 1 .. Len(v)
      BY <1>4, <3>1
    <3> QED
      BY <1>1, <1>4, <2>3, <3>1, <3>2
  <2>6. Len(w) <= Len(all) /\ Len(w) \in Nat
    BY <1>1, <1>2, <1>4, <2>3 DEF IsCut
  <2>7. \A k \in 1 .. Len(w) - 1 : k \in 1 .. Len(w) /\ k # Len(w)
    BY <2>6
  <2>8. IsCut(w, all)
    BY <2>4, <2>5, <2>6, <2>7 DEF IsCut
  <2>9. UpToQuit(all) = w
    BY <1>1, <1>3, <2>3, <2>8, CutUnique
  <2> QED
    BY <2>2, <2>9 DEF w
<1>6. ASSUME HasQuit(ms)
      PROVE  UpToQuit(all) = u
  <2>1. u # <<>> /\ IsQuit(Last(u))
    BY <1>6, CutQuits DEF u
  <2>2. Len(u) # 0 /\ IsQuit(u[Len(u)])
    BY <1>2, <2>1 DEF Last
  <2>3. Len(u) <= n /\ \A k \in 1 .. Len(u) : k \in 1 .. n
    BY <1>1, <1>2, <1>4 DEF IsCut, n
  <2>4. \A k \in 1 .. Len(u) : u[k] = all[k]
    BY <1>1, <1>2, <2>3 DEF IsCut
  <2>5. Len(u) <= Len(all)
    BY <1>1, <1>4, <2>3
  <2>6. IsCut(u, all)
    BY <1>2, <2>2, <2>4, <2>5 DEF IsCut
  <2> QED
    BY <1>1, <1>2, <1>3, <2>6, CutUnique
<1>7. HasQuit(all) <=> HasQuit(ms) \/ HasQuit(more)
  <2>1. ASSUME HasQuit(all) PROVE HasQuit(ms) \/ HasQuit(more)
    <3>1. PICK i \in 1 .. Len(all) : IsQuit(all[i])
      BY <2>1 DEF HasQuit
    <3>2. CASE i \in 1 .. n
      <4>1. all[i] = ms[i]
        BY <1>1, <3>2
      <4> QED
        BY <3>1, <3>2, <4>1 DEF HasQuit, n
    <3>3. CASE i \notin 1 .. n
      <4>1. i - n \in 1 .. Len(more) /\ n + (i - n) = i
        BY <1>1, <3>3
      <4>2. all[i] = more[i - n]
        BY <1>1, <4>1
      <4> QED
        BY <3>1, <4>1, <4>2 DEF HasQuit
    <3> QED
      BY <3>2, <3>3
  <2>2. ASSUME HasQuit(ms) PROVE HasQuit(all)
    <3>1. PICK i \in 1 .. n : IsQuit(ms[i])
      BY <2>2 DEF HasQuit, n
    <3>2. i \in 1 .. Len(all) /\ all[i] = ms[i]
      BY <1>1
    <3> QED
      BY <3>1, <3>2 DEF HasQuit
  <2>3. ASSUME HasQuit(more) PROVE HasQuit(all)
    <3>1. PICK i \in 1 .. Len(more) : IsQuit(more[i])
      BY <2>3 DEF HasQuit
    <3>2. n + i \in 1 .. Len(all) /\ all[n + i] = more[i]
      BY <1>1
    <3> QED
      BY <3>1, <3>2 DEF HasQuit
  <2> QED
    BY <2>1, <2>2, <2>3
<1> QED
  BY <1>5, <1>6, <1>7 DEF all, u, v

---------------------------------------------------------------------------
(* Requests and their answers. *)

\* What parseRequest() makes of a message without white space around it.
LEMMA RequestIs ==
    ASSUME NEW m \in Neat
    PROVE  LET spaces == {i \in 1 .. Len(m) : m[i] = "sp"}
               space == IF spaces # {} THEN Min(spaces) ELSE 0
               name == IF space = 0 THEN m ELSE SubSeq(m, 1, space - 1)
               args == IF space = 0 THEN <<>> ELSE SubSeq(m, space + 1, Len(m))
           IN ParseRequest(m) = IF Len(name) = 1 /\ UpperCase(Head(name)) \in Command
                                  THEN [command |-> UpperCase(Head(name)), args |-> args]
                                  ELSE NoRequest
<1>1. Trim(m) = m
  BY TrimNeat DEF Neat
<1> QED
  BY Zenon, <1>1 DEF ParseRequest, SelectInSeq

\* A request is a command and the end of the message behind its first space.
LEMMA RequestFacts ==
    ASSUME NEW m \in Neat, ParseRequest(m) # NoRequest
    PROVE  \E c \in Command, args \in Seq(Char) :
              /\ ParseRequest(m) = [command |-> c, args |-> args]
              /\ args = <<>> \/ \E k \in 2 .. Len(m) - 1 : args = SubSeq(m, k + 1, Len(m))
<1> DEFINE spaces == {i \in 1 .. Len(m) : m[i] = "sp"}
           space == IF spaces # {} THEN Min(spaces) ELSE 0
           name == IF space = 0 THEN m ELSE SubSeq(m, 1, space - 1)
           args == IF space = 0 THEN <<>> ELSE SubSeq(m, space + 1, Len(m))
           c == UpperCase(Head(name))
<1>1. m \in Seq(Char) /\ Len(m) \in Nat /\ Len(m) > 0 /\ m[1] # "sp" /\ m[Len(m)] # "sp"
  BY DEF Neat, White
<1>2. ParseRequest(m) = IF Len(name) = 1 /\ c \in Command
                          THEN [command |-> c, args |-> args] ELSE NoRequest
  BY Zenon, RequestIs
<1>3. c \in Command /\ ParseRequest(m) = [command |-> c, args |-> args]
  <2> HIDE DEF c, args, name
  <2> QED
    BY <1>2
<1>4. args \in Seq(Char) /\ (args = <<>> \/ \E k \in 2 .. Len(m) - 1 : args = SubSeq(m, k + 1, Len(m)))
  <2>1. CASE spaces = {}
    <3>1. args = <<>> /\ <<>> \in Seq(Char)
      BY <2>1
    <3> HIDE DEF args
    <3> QED
      BY <3>1
  <2>2. CASE spaces # {}
    <3>1. spaces \in SUBSET Nat
      BY <1>1
    <3>2. Min(spaces) \in spaces
      BY <2>2, <3>1, MinOf
    <3> DEFINE k == Min(spaces)
    <3>3. k \in 1 .. Len(m) /\ m[k] = "sp"
      BY <3>2
    <3>4. space = k
      BY <2>2
    <3> HIDE DEF k, space, spaces
    <3>5. k # 1 /\ k # Len(m)
      BY <1>1, <3>3
    <3>6. k \in 2 .. Len(m) - 1 /\ k # 0
      BY <1>1, <3>3, <3>5
    <3>7. args = SubSeq(m, k + 1, Len(m))
      BY <3>4, <3>6
    <3>8. SubSeq(m, k + 1, Len(m)) \in Seq(Char)
      BY <1>1, <3>6
    <3> HIDE DEF args
    <3> QED
      BY <3>6, <3>7, <3>8
  <2> QED
    BY <2>1, <2>2
<1> HIDE DEF c, args
<1> QED
  BY <1>3, <1>4

\* Some fixed text in front of a text that begins and ends anyhow.
LEMMA NeatAnswer ==
    ASSUME NEW a \in Char, a \notin White, NEW s \in Seq(Char),
           s # <<>>, s[Len(s)] \notin White, DelimitersIn(s) = {}
    PROVE  /\ <<a>> \o s \in Neat
           /\ Head(<<a>> \o s) = a /\ Tail(<<a>> \o s) = s
           /\ Len(<<a>> \o s) = Len(s) + 1
<1> DEFINE t == <<a>> \o s
<1>1. Len(s) \in Nat /\ Len(s) > 0
  OBVIOUS
<1>2. /\ t \in Seq(Char) /\ Len(t) = Len(s) + 1 /\ t[1] = a
      /\ \A i \in 1 .. Len(s) : t[i + 1] = s[i]
      /\ Head(t) = a /\ Tail(t) = s
  OBVIOUS
<1> HIDE DEF t
<1>3. t[Len(t)] = s[Len(s)]
  BY <1>1, <1>2
<1>4. DelimitersIn(t) = {}
  <2> SUFFICES ASSUME NEW i \in 1 .. Len(t), t[i] = Delimiter PROVE FALSE
    BY DEF DelimitersIn
  <2>1. CASE i = 1
    BY <1>2, <2>1 DEF White, Delimiter
  <2>2. CASE i # 1
    <3>1. i - 1 \in 1 .. Len(s) /\ (i - 1) + 1 = i
      BY <1>1, <1>2, <2>2
    <3>2. s[i - 1] = Delimiter
      BY <1>2, <3>1
    <3> QED
      BY <3>1, <3>2 DEF DelimitersIn
  <2> QED
    BY <2>1, <2>2
<1>5. t \in Neat
  BY <1>1, <1>2, <1>3, <1>4 DEF Neat
<1> QED
  BY <1>2, <1>5 DEF t

\* A fixed answer.
LEMMA FixedAnswer ==
    ASSUME NEW a \in Char, a \notin White, NEW b \in Char, b \notin White
    PROVE  <<a>> \o <<b>> \in Neat /\ Head(<<a>> \o <<b>>) = a /\ Len(<<a>> \o <<b>>) = 2
<1>1. <<b>> \in Seq(Char) /\ <<b>> # <<>> /\ <<b>>[Len(<<b>>)] = b /\ Len(<<b>>) = 1
  OBVIOUS
<1>2. DelimitersIn(<<b>>) = {}
  BY DEF DelimitersIn, White, Delimiter
<1> QED
  BY <1>1, <1>2, NeatAnswer

\* The part of a message behind a space is the end of an answer.
LEMMA EchoedText ==
    ASSUME NEW m \in Neat, NEW k \in 2 .. Len(m) - 1
    PROVE  LET args == SubSeq(m, k + 1, Len(m))
           IN /\ args \in Seq(Char) /\ args # <<>> /\ Len(args) = Len(m) - k
              /\ args[Len(args)] \notin White /\ DelimitersIn(args) = {}
<1> DEFINE args == SubSeq(m, k + 1, Len(m))
<1>1. /\ m \in Seq(Char) /\ Len(m) \in Nat /\ m[Len(m)] \notin White
      /\ \A i \in 1 .. Len(m) : m[i] # Delimiter
  BY DEF Neat, DelimitersIn
<1>2. /\ args \in Seq(Char) /\ Len(args) = Len(m) - k
      /\ \A i \in 1 .. Len(args) : args[i] = m[k + i]
  BY <1>1
<1> HIDE DEF args
<1>3. Len(args) \in 1 .. Len(args) /\ k + Len(args) = Len(m)
  BY <1>1, <1>2
<1>4. args[Len(args)] = m[Len(m)]
  BY <1>2, <1>3
<1>5. \A i \in 1 .. Len(args) : k + i \in 1 .. Len(m)
  BY <1>1, <1>2
<1>6. DelimitersIn(args) = {}
  BY <1>1, <1>2, <1>5 DEF DelimitersIn
<1>7. args # <<>> /\ args[Len(args)] \notin White /\ DelimitersIn(args) = {}
  BY <1>1, <1>3, <1>4, <1>6
<1> QED
  BY Zenon, <1>2, <1>7 DEF args

\* The fixed texts are characters with ink.
LEMMA Texts ==
    /\ \A a \in {"EVENT:", "WELCOME", "OK:", "ERROR:", "PONG", "usage", "now",
                 "info", "Goodbye!", "Unknown", "Available", "TooLarge"} :
          a \in Char /\ a \notin White
    /\ MaxMessageLength \in Nat /\ MaxMessageLength > 1
BY TextAssumption, ExchangeAssumption, ParserAssumption DEF Char, White

\* Every answer is one message, and none is taken for a server event; if it is
\* longer than the limit its request is, or is none.
LEMMA RespondFacts ==
    ASSUME NEW m \in Neat
    PROVE  /\ Respond(m) \in Neat
           /\ ~IsEvent(Respond(m))
           /\ ParseRequest(m) # NoRequest /\ Overlong(Respond(m)) => Overlong(m)
<1>0. m \in Seq(Char) /\ Len(m) \in Nat
  BY DEF Neat
<1>1. CASE ParseRequest(m) = NoRequest
  <2> DEFINE s == <<"Unknown">> \o m \o <<"Available">>
  <2>1. Respond(m) = <<"ERROR:">> \o s
    BY <1>1 DEF Respond, FormatResponse
  <2>2. "Unknown" \in Char /\ "Available" \in Char /\ "Available" \notin White
    BY Texts
  <2>3. /\ s \in Seq(Char) /\ Len(s) = Len(m) + 2
        /\ s[1] = "Unknown" /\ s[Len(m) + 2] = "Available"
        /\ \A i \in 1 .. Len(m) : s[i + 1] = m[i]
    BY <1>0, <2>2
  <2> HIDE DEF s
  <2>4. DelimitersIn(s) = {}
    <3> SUFFICES ASSUME NEW i \in 1 .. Len(s), s[i] = Delimiter PROVE FALSE
      BY DEF DelimitersIn
    <3>1. i # 1 /\ i # Len(m) + 2
      BY <2>3 DEF Delimiter
    <3>2. i - 1 \in 1 .. Len(m) /\ (i - 1) + 1 = i
      BY <1>0, <2>3, <3>1
    <3>3. m[i - 1] = Delimiter
      BY <2>3, <3>2
    <3> QED
      BY <3>2, <3>3 DEF Neat, DelimitersIn
  <2>5. s # <<>> /\ s[Len(s)] \notin White
    BY <1>0, <2>2, <2>3
  <2>6. "ERROR:" \in Char /\ "ERROR:" \notin White
    BY Texts
  <2>7. <<"ERROR:">> \o s \in Neat /\ Head(<<"ERROR:">> \o s) = "ERROR:"
    BY <2>3, <2>4, <2>5, <2>6, NeatAnswer
  <2>8. ~IsEvent(Respond(m))
    BY <2>1, <2>7 DEF IsEvent
  <2> QED
    BY <1>1, <2>1, <2>7, <2>8
<1>2. CASE ParseRequest(m) # NoRequest
  <2>1. PICK c \in Command, args \in Seq(Char) :
           /\ ParseRequest(m) = [command |-> c, args |-> args]
           /\ args = <<>> \/ \E k \in 2 .. Len(m) - 1 : args = SubSeq(m, k + 1, Len(m))
    BY <1>2, RequestFacts
  <2> DEFINE r == [command |-> c, args |-> args]
             Good(t) == t \in Neat /\ ~IsEvent(t) /\ (Overlong(t) => Overlong(m))
  <2>2. Respond(m) = ExecuteCommand(r)
    BY <1>2, <2>1 DEF Respond
  <2>3. ASSUME NEW a \in Char, a \in {"OK:", "ERROR:"}, NEW b \in Char, b \notin White
        PROVE  Good(<<a>> \o <<b>>)
    <3>1. a \notin White
      BY <2>3, Texts
    <3>2. <<a>> \o <<b>> \in Neat /\ Head(<<a>> \o <<b>>) = a /\ Len(<<a>> \o <<b>>) = 2
      BY <2>3, <3>1, FixedAnswer
    <3>3. ~Overlong(<<a>> \o <<b>>)
      BY <3>2, Texts DEF Overlong
    <3>4. ~IsEvent(<<a>> \o <<b>>)
      BY <2>3, <3>2 DEF IsEvent
    <3> QED
      BY <3>2, <3>3, <3>4
  <2>4. ASSUME args # <<>> PROVE Good(<<"OK:">> \o args)
    <3>1. PICK k \in 2 .. Len(m) - 1 : args = SubSeq(m, k + 1, Len(m))
      BY <2>1, <2>4
    <3>2. /\ args # <<>> /\ Len(args) = Len(m) - k
          /\ args[Len(args)] \notin White /\ DelimitersIn(args) = {}
      BY <3>1, EchoedText
    <3>3. "OK:" \in Char /\ "OK:" \notin White
      BY Texts
    <3> DEFINE t == <<"OK:">> \o args
    <3>4. t \in Neat /\ Head(t) = "OK:" /\ Len(t) = Len(args) + 1
      BY <3>2, <3>3, NeatAnswer
    <3> HIDE DEF t
    <3>5. Overlong(t) => Overlong(m)
      BY <1>0, <3>2, <3>4, Texts DEF Overlong
    <3>6. ~IsEvent(t)
      BY <3>4 DEF IsEvent
    <3> QED
      BY <3>4, <3>5, <3>6 DEF t
  <2> HIDE DEF Good
  <2>5. /\ "OK:" \in Char /\ "ERROR:" \in Char
        /\ \A b \in {"PONG", "usage", "now", "info", "Goodbye!"} : b \in Char /\ b \notin White
    BY Texts
  <2>6. /\ Good(<<"OK:">> \o <<"PONG">>) /\ Good(<<"OK:">> \o <<"now">>)
        /\ Good(<<"OK:">> \o <<"info">>) /\ Good(<<"OK:">> \o <<"Goodbye!">>)
        /\ Good(<<"ERROR:">> \o <<"usage">>)
    BY <2>3, <2>5
  <2>7. r.command = c /\ r.args = args
    OBVIOUS
  <2> HIDE DEF r
  <2>8. Good(ExecuteCommand(r))
    <3>1. CASE c = "PING"
      BY <2>6, <2>7, <3>1 DEF ExecuteCommand, FormatResponse
    <3>2. CASE c = "ECHO"
      BY <2>4, <2>6, <2>7, <3>2 DEF ExecuteCommand, FormatResponse, EchoText
    <3>3. CASE c = "TIME"
      BY <2>6, <2>7, <3>3 DEF ExecuteCommand, FormatResponse
    <3>4. CASE c = "INFO"
      BY <2>6, <2>7, <3>4 DEF ExecuteCommand, FormatResponse
    <3>5. CASE c = "QUIT"
      BY <2>6, <2>7, <3>5 DEF ExecuteCommand, FormatResponse
    <3> QED
      BY <3>1, <3>2, <3>3, <3>4, <3>5 DEF Command
  <2> QED
    BY <2>2, <2>8 DEF Good
<1> QED
  BY <1>1, <1>2

\* The answer to ECHO is the text behind the first space.
LEMMA EchoAnswer ==
    ASSUME NEW m \in Neat, IsPrefix(<<"ECHO", "sp">>, m)
    PROVE  Tail(Respond(m)) = SubSeq(m, 3, Len(m))
<1> DEFINE spaces == {i \in 1 .. Len(m) : m[i] = "sp"}
           space == IF spaces # {} THEN Min(spaces) ELSE 0
           name == IF space = 0 THEN m ELSE SubSeq(m, 1, space - 1)
           args == IF space = 0 THEN <<>> ELSE SubSeq(m, space + 1, Len(m))
           c == UpperCase(Head(name))
<1>1. m \in Seq(Char) /\ Len(m) \in Nat /\ m[Len(m)] # "sp"
  BY DEF Neat, White
<1>2. Len(m) >= 2 /\ m[1] = "ECHO" /\ m[2] = "sp"
  <2>1. Len(<<"ECHO", "sp">>) <= Len(m) /\ <<"ECHO", "sp">> = SubSeq(m, 1, Len(<<"ECHO", "sp">>))
    BY DEF IsPrefix
  <2>2. Len(m) >= 2 /\ <<"ECHO", "sp">> = SubSeq(m, 1, 2)
    BY <2>1
  <2>3. SubSeq(m, 1, 2)[1] = m[1] /\ SubSeq(m, 1, 2)[2] = m[2]
    BY <1>1, <2>2
  <2> QED
    BY <2>2, <2>3
<1>3. 2 \in 2 .. Len(m) - 1
  BY <1>1, <1>2
<1>4. space = 2
  <2>1. spaces \in SUBSET Nat /\ 2 \in spaces /\ 1 \notin spaces /\ 0 \notin spaces
    BY <1>1, <1>2
  <2> HIDE DEF spaces
  <2> DEFINE k == Min(spaces)
  <2>2. k \in spaces /\ k <= 2
    BY <2>1, MinOf
  <2>3. space = k
    BY <2>1 DEF spaces
  <2> HIDE DEF k, space
  <2>4. k \in Nat /\ k # 0 /\ k # 1
    BY <2>1, <2>2
  <2> QED
    BY <2>2, <2>3, <2>4
<1>5. ParseRequest(m) = IF Len(name) = 1 /\ c \in Command
                          THEN [command |-> c, args |-> args] ELSE NoRequest
  BY Zenon, RequestIs
<1> HIDE DEF space
<1>6. args = SubSeq(m, 3, Len(m)) /\ args # <<>>
      /\ args \in Seq(Char) /\ args[Len(args)] \notin White /\ DelimitersIn(args) = {}
  <2> DEFINE tail == SubSeq(m, 2 + 1, Len(m))
  <2>1. /\ tail \in Seq(Char) /\ tail # <<>>
        /\ tail[Len(tail)] \notin White /\ DelimitersIn(tail) = {}
    BY <1>3, EchoedText
  <2>2. args = tail
    BY <1>4
  <2>3. tail = SubSeq(m, 3, Len(m))
    OBVIOUS
  <2> HIDE DEF tail, args
  <2> QED
    BY <2>1, <2>2, <2>3
<1>7. name = SubSeq(m, 1, 1)
  BY <1>4
<1>8. Len(name) = 1 /\ c = "ECHO"
  <2> HIDE DEF name
  <2>1. Len(name) = 1 /\ name[1] = "ECHO" /\ name \in Seq(Char)
    BY <1>1, <1>2, <1>7
  <2>2. Head(name) = "ECHO"
    BY <2>1
  <2> QED
    BY <2>1, <2>2 DEF UpperCase
<1> HIDE DEF name, args, c
<1> DEFINE r == [command |-> "ECHO", args |-> args]
<1>9. ParseRequest(m) = r /\ r # NoRequest /\ r.command = "ECHO" /\ r.args = args
  BY <1>5, <1>8 DEF Command, NoRequest
<1> HIDE DEF r
<1>10. Respond(m) = <<"OK:">> \o args
  BY <1>6, <1>9 DEF Respond, ExecuteCommand, FormatResponse, EchoText
<1>11. Tail(<<"OK:">> \o args) = args
  BY <1>6
<1> QED
  BY <1>6, <1>10, <1>11

\* What the client takes for QUIT the server takes for QUIT.
LEMMA QuitIsQuit ==
    ASSUME NEW m \in Neat, Quits(m)
    PROVE  IsQuit(m)
<1> DEFINE spaces == {i \in 1 .. Len(m) : m[i] = "sp"}
           space == IF spaces # {} THEN Min(spaces) ELSE 0
           name == IF space = 0 THEN m ELSE SubSeq(m, 1, space - 1)
           args == IF space = 0 THEN <<>> ELSE SubSeq(m, space + 1, Len(m))
           c == UpperCase(Head(name))
<1>1. Len(m) = 1 /\ m[1] # "sp" /\ UpperCase(Head(m)) = "QUIT"
  BY DEF Neat, White, Quits
<1>2. ParseRequest(m) = IF Len(name) = 1 /\ c \in Command
                          THEN [command |-> c, args |-> args] ELSE NoRequest
  BY Zenon, RequestIs
<1>3. spaces = {}
  BY <1>1
<1>4. name = m /\ args = <<>>
  BY <1>3
<1> HIDE DEF name, args
<1>5. ParseRequest(m) = [command |-> "QUIT", args |-> <<>>]
  BY <1>1, <1>2, <1>4 DEF Command
<1> QED
  BY <1>5 DEF IsQuit

---------------------------------------------------------------------------
(* feed() and the answers to what it returns. *)

\* Every message a text holds begins and ends with ink.
LEMMA MessagesNeat ==
    ASSUME NEW t \in Seq(Char)
    PROVE  Messages(t) \in Seq(Neat)
<1> DEFINE S == {s \in Seq(Char) : Messages(s) \in Seq(Neat)}
<1>1. <<>> \in S
  <2>1. <<>> \in Seq(Char) /\ <<>> \in Seq(Neat)
    OBVIOUS
  <2>2. DelimitersIn(<<>>) = {}
    BY DEF DelimitersIn
  <2> QED
    BY <2>1, <2>2, Unfinished
<1>2. ASSUME NEW s \in Seq(Char), NEW c \in Char, s \in S
      PROVE  Append(s, c) \in S
  <2> DEFINE p == Partial(s)
  <2>1. p \in Seq(Char) /\ DelimitersIn(p) = {}
    BY FramingTypes
  <2>2. Trim(p) # <<>> => Trim(p) \in Neat
    BY <2>1, TrimNeat
  <2>3. MessageOf(p) = IF Trim(p) = <<>> THEN <<>> ELSE <<Trim(p)>> \o <<>>
    BY Zenon DEF MessageOf, Push
  <2> DEFINE e == MessageOf(p)
             m == Messages(s)
  <2>4. e \in Seq(Neat)
    <3> HIDE DEF p
    <3>1. CASE Trim(p) = <<>>
      BY <2>3, <3>1
    <3>2. CASE Trim(p) # <<>>
      <4>1. <<Trim(p)>> \o <<>> \in Seq(Neat)
        BY <2>2, <3>2
      <4> QED
        BY <2>3, <3>2, <4>1
    <3> QED
      BY <3>1, <3>2
  <2>5. m \in Seq(Neat)
    BY <1>2
  <2>6. Messages(Append(s, c)) = m \/ Messages(Append(s, c)) = m \o e
    BY MessagesAppend
  <2> HIDE DEF m, e
  <2>7. m \o e \in Seq(Neat)
    BY <2>4, <2>5, ConcatFacts
  <2>8. Append(s, c) \in Seq(Char)
    BY AppendFacts
  <2> QED
    BY <2>5, <2>6, <2>7, <2>8
<1> HIDE DEF S
<1>3. \A s \in Seq(Char) : s \in S
  BY <1>1, <1>2, SeqInduction
<1> QED
  BY <1>3 DEF S

\* What feed() returns.
LEMMA FeedFacts ==
    ASSUME NEW b \in Seq(Char), NEW u \in Seq(Char)
    PROVE  LET result == Feed(b, u)
               rest == Partial(b \o u)
           IN /\ result.messages \in Seq(Neat)
              /\ result.buffer \in Seq(Char) /\ Len(result.buffer) <= MaxMessageLength
              /\ result.thrown \in BOOLEAN
              /\ result.thrown <=> TooLong(rest)
              /\ result.thrown => result.messages = <<>> /\ result.buffer = <<>>
              /\ ~result.thrown => /\ result.messages = Messages(b \o u)
                                   /\ result.buffer = rest
<1> DEFINE result == Feed(b, u)
           t == b \o u
           rest == Partial(t)
<1>1. t \in Seq(Char)
  BY ConcatFacts
<1>2. b \in Seq(STRING) /\ u \in Seq(STRING)
  BY Zenon DEF Char
<1>3. /\ TooLong(rest) => result = [messages |-> <<>>, buffer |-> <<>>, thrown |-> TRUE]
      /\ ~TooLong(rest) => result = [messages |-> Messages(t), buffer |-> rest,
                                     thrown |-> FALSE]
  BY <1>2, FeedIs
<1> HIDE DEF result, t
<1>4. rest \in Seq(Char) /\ Messages(t) \in Seq(Neat)
  BY <1>1, MessagesNeat, FramingTypes
<1> HIDE DEF rest
<1>5. CASE TooLong(rest)
  <2>1. result.messages = <<>> /\ result.buffer = <<>> /\ result.thrown = TRUE
    BY <1>3, <1>5
  <2>2. <<>> \in Seq(Neat) /\ <<>> \in Seq(Char) /\ Len(<<>>) <= MaxMessageLength
    BY Texts
  <2> QED
    BY <1>5, <2>1, <2>2 DEF result, rest, t
<1>6. CASE ~TooLong(rest)
  <2>1. result.messages = Messages(t) /\ result.buffer = rest /\ result.thrown = FALSE
    BY <1>3, <1>6
  <2>2. Len(rest) <= MaxMessageLength
    BY <1>4, <1>6, Texts DEF TooLong
  <2> QED
    BY <1>4, <1>6, <2>1, <2>2 DEF result, rest, t
<1> QED
  BY <1>5, <1>6

\* The answers to some messages, and to those among them up to a QUIT.
Answers(ms) == [i \in 1 .. Len(ms) |-> Respond(ms[i])]
Responses(ms) == Answers(UpToQuit(ms))

\* Every message has an answer fit for the wire.
LEMMA AnswersFacts ==
    ASSUME NEW ms \in Seq(Neat)
    PROVE  /\ Answers(ms) \in Seq(Neat) /\ Len(Answers(ms)) = Len(ms)
           /\ \A i \in 1 .. Len(ms) : Answers(ms)[i] = Respond(ms[i])
<1>1. \A i \in 1 .. Len(ms) : Respond(ms[i]) \in Neat
  BY RespondFacts
<1> QED
  BY <1>1 DEF Answers

\* Answers follow the order of the messages.
LEMMA AnswersConcat ==
    ASSUME NEW ms \in Seq(Neat), NEW more \in Seq(Neat)
    PROVE  Answers(ms \o more) = Answers(ms) \o Answers(more)
<1> DEFINE n == Len(ms)
           all == ms \o more
           a == Answers(ms)
           b == Answers(more)
           ab == a \o b
<1>1. /\ all \in Seq(Neat) /\ Len(all) = n + Len(more) /\ n \in Nat /\ Len(more) \in Nat
      /\ \A i \in 1 .. n : all[i] = ms[i]
      /\ \A i \in 1 .. Len(more) : all[n + i] = more[i]
  BY ConcatFacts
<1> HIDE DEF all
<1>2. /\ a \in Seq(Neat) /\ Len(a) = n /\ \A i \in 1 .. n : a[i] = Respond(ms[i])
      /\ b \in Seq(Neat) /\ Len(b) = Len(more)
      /\ \A i \in 1 .. Len(more) : b[i] = Respond(more[i])
      /\ Answers(all) \in Seq(Neat) /\ Len(Answers(all)) = Len(all)
      /\ \A i \in 1 .. Len(all) : Answers(all)[i] = Respond(all[i])
  BY <1>1, AnswersFacts
<1> HIDE DEF a, b
<1>3. a \in Seq(Neat) /\ b \in Seq(Neat)
  BY <1>2
<1>4. /\ ab \in Seq(Neat) /\ Len(ab) = Len(a) + Len(b)
      /\ \A i \in 1 .. Len(a) : ab[i] = a[i]
      /\ \A i \in 1 .. Len(b) : ab[Len(a) + i] = b[i]
  BY <1>3, ConcatFacts
<1> HIDE DEF ab, n
<1>5. ASSUME NEW i \in 1 .. Len(all) PROVE Answers(all)[i] = ab[i]
  <2>1. CASE i \in 1 .. n
    BY <1>1, <1>2, <1>4, <2>1
  <2>2. CASE i \notin 1 .. n
    <3> DEFINE j == i - n
    <3>1. j \in 1 .. Len(more) /\ i = n + j
      BY <1>1, <2>2
    <3> HIDE DEF j
    <3> QED
      BY <1>1, <1>2, <1>4, <3>1
  <2> QED
    BY <2>1, <2>2
<1>6. Len(ab) = Len(Answers(all))
  BY <1>1, <1>2, <1>4
<1>7. Answers(all) = ab
  BY <1>1, <1>2, <1>4, <1>5, <1>6, SameElements
<1> QED
  BY <1>7 DEF ab, all, a, b

\* The responses are the answers up to the first QUIT.
LEMMA ResponsesFacts ==
    ASSUME NEW ms \in Seq(Neat)
    PROVE  /\ Responses(ms) \in Seq(Neat) /\ Len(Responses(ms)) <= Len(ms)
           /\ \A i \in 1 .. Len(Responses(ms)) : Responses(ms)[i] = Respond(ms[i])
           /\ Answers(UpToQuit(ms)) \in Seq(Neat)
<1> DEFINE u == UpToQuit(ms)
<1>1. u \in Seq(Neat) /\ IsCut(u, ms)
  BY CutIs
<1> HIDE DEF u
<1>2. /\ Answers(u) \in Seq(Neat) /\ Len(Answers(u)) = Len(u)
      /\ \A i \in 1 .. Len(u) : Answers(u)[i] = Respond(u[i])
  BY <1>1, AnswersFacts
<1>3. Responses(ms) = Answers(u)
  BY DEF Responses, u
<1> QED
  BY <1>1, <1>2, <1>3 DEF IsCut, u

\* More messages add answers behind those there are, unless a QUIT was there.
LEMMA ResponsesConcat ==
    ASSUME NEW ms \in Seq(Neat), NEW more \in Seq(Neat)
    PROVE  /\ ~HasQuit(ms) => Responses(ms \o more) = Responses(ms) \o Responses(more)
           /\ HasQuit(ms) => Responses(ms \o more) = Responses(ms)
<1> DEFINE v == UpToQuit(more)
<1>1. v \in Seq(Neat)
  BY CutIs
<1>2. /\ ~HasQuit(ms) => UpToQuit(ms) = ms /\ UpToQuit(ms \o more) = ms \o v
      /\ HasQuit(ms) => UpToQuit(ms \o more) = UpToQuit(ms)
  BY CutConcat
<1> HIDE DEF v
<1>3. Answers(ms \o v) = Answers(ms) \o Answers(v)
  BY <1>1, AnswersConcat
<1> QED
  BY <1>2, <1>3 DEF Responses, v

\* A chunk of what is in flight, and the rest.
LEMMA Chunk ==
    ASSUME NEW T, NEW s \in Seq(T), NEW n \in 0 .. Len(s)
    PROVE  /\ SubSeq(s, 1, n) \in Seq(T) /\ SubSeq(s, n + 1, Len(s)) \in Seq(T)
           /\ s = SubSeq(s, 1, n) \o SubSeq(s, n + 1, Len(s))
<1>1. Len(s) \in 0 .. Len(s) /\ n \in 0 .. Len(s) /\ SubSeq(s, 1, Len(s)) = s
  OBVIOUS
<1>2. SubSeq(s, 1, Len(s)) = SubSeq(s, 1, n) \o SubSeq(s, n + 1, Len(s))
  BY <1>1, SubSeqSplit
<1>3. SubSeq(s, 1, n) \in Seq(T) /\ SubSeq(s, n + 1, Len(s)) \in Seq(T)
  OBVIOUS
<1> QED
  BY <1>1, <1>2, <1>3

---------------------------------------------------------------------------
(* The inductive invariant. *)

\* A message the client displays as a response.
Reply == {m \in Seq(Char) : ~IsEvent(m)}

\* What is on its way to the client is rest, or the beginning of it that was
\* out when the server's socket was destroyed.
ToCome(rest) ==
    \E lost \in Seq(Char) : rest = toClient \o lost /\ (broken \/ lost = <<>>)

\* d has reached the server and c the client's parser, which the client
\* displays the responses of; rest is still to come, unless the client is
\* dead.  A broken server had ended the connection for a QUIT that something
\* came behind.
Conversation(d, c, rest) ==
    /\ d \in Seq(Char) /\ c \in Seq(Char) /\ rest \in Seq(Char)
    /\ Wire(typed) = d \o toServer
    /\ serverBuffer = Partial(d)
    /\ ended <=> HasQuit(Messages(d))
    /\ Wire(<<Welcome>> \o Responses(Messages(d))) = c \o rest
    /\ ~crashed => ToCome(rest) /\ clientBuffer = Partial(c)
    /\ broken => ended /\ Len(UpToQuit(Messages(d))) < Len(Messages(d))
    /\ replies = Among(Messages(c), Reply)

\* A line was typed that is beyond the limit.
TypedOverlong == \E i \in 1 .. Len(typed) : Overlong(typed[i])

\* None of the properties but TypeOK is inductive: the bytes in flight and in
\* the two buffers have to be what is left of the lines typed and of the
\* answers to the lines that have arrived.  A line that is refused ends that.
IInv ==
    /\ TypeOK
    /\ typed \in Seq(Neat)
    /\ isQuitting => \E i \in 1 .. Len(typed) : Quits(typed[i])
    /\ refused => TypedOverlong
    /\ ~refused => \E d, c, rest : Conversation(d, c, rest)
    /\ OnlyLongRepliesKill

\* TypeOK with a name for the characters.
TypeInv ==
    /\ typed \in Seq(Seq(Char)) /\ Len(typed) <= MaxLines
    /\ toServer \in Seq(Char) /\ toClient \in Seq(Char)
    /\ serverBuffer \in Seq(Char) /\ Len(serverBuffer) <= MaxMessageLength
    /\ clientBuffer \in Seq(Char) /\ Len(clientBuffer) <= MaxMessageLength
    /\ events \in Seq(Seq(Char)) /\ replies \in Seq(Seq(Char))
    /\ isQuitting \in BOOLEAN /\ ended \in BOOLEAN /\ broken \in BOOLEAN
    /\ refused \in BOOLEAN /\ crashed \in BOOLEAN

\* TypeOK with the characters as an opaque set.
LEMMA Types == TypeOK <=> TypeInv
<1>1. TypeOK => TypeInv
  BY Zenon DEF TypeOK, TypeInv, Char
<1>2. TypeInv => TypeOK
  BY Zenon DEF TypeOK, TypeInv, Char
<1> QED
  BY <1>1, <1>2

\* The welcome is a short event.
LEMMA WelcomeFacts ==
    /\ Welcome \in Neat /\ IsEvent(Welcome) /\ ~Overlong(Welcome)
    /\ <<Welcome>> \in Seq(Neat)
    /\ Wire(<<Welcome>>) \in Seq(Char)
<1>1. "EVENT:" \in Char /\ "EVENT:" \notin White /\ "WELCOME" \in Char /\ "WELCOME" \notin White
  BY Texts
<1>2. Welcome = <<"EVENT:">> \o <<"WELCOME">>
  BY DEF Welcome
<1>3. Welcome \in Neat /\ Head(Welcome) = "EVENT:" /\ Len(Welcome) = 2
  BY <1>1, <1>2, FixedAnswer
<1>4. Welcome \in Seq(Char)
  BY <1>3 DEF Neat
<1>5. <<Welcome>> \in Seq(Neat) /\ <<Welcome>> \in Seq(Seq(Char))
  BY <1>3, <1>4
<1> QED
  BY <1>3, <1>5, Texts, WireType DEF IsEvent, Overlong

\* Neat messages are sequences of characters.
LEMMA NeatTypes ==
    ASSUME NEW ms \in Seq(Neat)
    PROVE  ms \in Seq(Seq(Char)) /\ Wire(ms) \in Seq(Char)
<1>1. Neat \subseteq Seq(Char)
  BY DEF Neat
<1>2. ms \in Seq(Seq(Char))
  BY <1>1, SeqSubset
<1> QED
  BY <1>2, WireType

\* A new connection satisfies IInv: the welcome is all there is to come.
LEMMA InitIInv == Init => IInv
<1> SUFFICES ASSUME Init PROVE IInv
  OBVIOUS
<1>1. <<>> \in Seq(Char) /\ <<>> \in Seq(Seq(Char)) /\ <<>> \in Seq(Neat) /\ Len(<<>>) = 0
  OBVIOUS
<1>2. TypeInv
  <2>1. toClient \in Seq(Char)
    BY WelcomeFacts DEF Init
  <2>2. 0 <= MaxLines /\ 0 <= MaxMessageLength
    BY Texts, ExchangeAssumption
  <2>3. /\ typed = <<>> /\ toServer = <<>> /\ serverBuffer = <<>> /\ clientBuffer = <<>>
        /\ events = <<>> /\ replies = <<>>
        /\ ~isQuitting /\ ~ended /\ ~broken /\ ~refused /\ ~crashed
        /\ {isQuitting, ended, broken, refused, crashed} \subseteq BOOLEAN
    BY DEF Init
  <2> QED
    BY <1>1, <2>1, <2>2, <2>3 DEF TypeInv
<1>3. TypeOK
  BY <1>2, Types
<1>4. Messages(<<>>) = <<>> /\ Partial(<<>>) = <<>>
  <2>1. DelimitersIn(<<>>) = {}
    BY DEF DelimitersIn
  <2> QED
    BY <1>1, <2>1, Unfinished
<1>5. Responses(<<>>) = <<>>
  <2>1. Responses(<<>>) \in Seq(Neat) /\ Len(Responses(<<>>)) <= 0
    BY <1>1, ResponsesFacts
  <2> HIDE DEF Neat
  <2> QED
    BY <2>1
<1>6. Conversation(<<>>, <<>>, toClient)
  <2> DEFINE w == Wire(<<Welcome>>)
  <2>1. w \in Seq(Char) /\ toClient = w
    BY WelcomeFacts DEF Init
  <2>2. <<>> \o w = w /\ <<>> \o <<>> = <<>> /\ <<Welcome>> \o <<>> = <<Welcome>>
    <3> HIDE DEF w
    <3>1. <<>> \o w = w
      BY <2>1
    <3>2. <<Welcome>> \o <<>> = <<Welcome>>
      BY WelcomeFacts
    <3> QED
      BY <3>1, <3>2
  <2>6. ToCome(toClient)
    <3> HIDE DEF w
    <3>1. toClient = toClient \o <<>> /\ <<>> \in Seq(Char)
      BY <2>1
    <3> QED
      BY <3>1 DEF ToCome
  <2>3. ~HasQuit(<<>>)
    BY <1>1 DEF HasQuit
  <2>4. /\ Wire(typed) = <<>> \o toServer
        /\ Wire(<<Welcome>> \o Responses(Messages(<<>>))) = <<>> \o toClient
    BY <1>4, <1>5, <2>1, <2>2, WireEmpty DEF Init
  <2>5. replies = Among(Messages(<<>>), Reply)
    BY <1>4, AmongEmpty DEF Init
  <2> HIDE DEF w
  <2> QED
    BY <1>1, <1>4, <2>1, <2>3, <2>4, <2>5, <2>6 DEF Conversation, Init
<1> QED
  BY <1>1, <1>3, <1>6 DEF IInv, Init, OnlyLongRepliesKill

---------------------------------------------------------------------------
(* The steps. *)

\* Typing a line lengthens what is on its way to the server.
LEMMA TypeLineIInv ==
    ASSUME IInv, NEW line \in Line, TypeLine(line)
    PROVE  IInv'
<1> DEFINE m == Trim(line)
           w == Wire(<<m>>)
<1>0. TypeInv /\ typed \in Seq(Neat)
  BY Types DEF IInv
<1>1. m \in Neat
  <2>1. line \in Seq(STRING) /\ DelimitersIn(line) = {}
    BY ExchangeAssumption DEF DelimitersIn
  <2>2. line \in Seq(Char)
    BY Zenon, <2>1 DEF Char
  <2>3. m # <<>>
    BY DEF TypeLine
  <2> QED
    BY <2>1, <2>2, <2>3, TrimNeat
<1>2. m \in Seq(Char) /\ <<m>> \in Seq(Neat)
  BY <1>1 DEF Neat
<1>3. w \in Seq(Char) /\ <<m>> \in Seq(Seq(Char))
  BY <1>2, NeatTypes
<1>4. /\ ~crashed /\ Len(typed) < MaxLines
      /\ typed' = Append(typed, m)
      /\ isQuitting' = (isQuitting \/ Quits(m))
      /\ toServer' = toServer \o w
      /\ toClient' = toClient /\ serverBuffer' = serverBuffer /\ ended' = ended
      /\ broken' = broken /\ refused' = refused /\ clientBuffer' = clientBuffer
      /\ events' = events /\ replies' = replies /\ crashed' = crashed
  BY DEF TypeLine, serverVars, clientVars
<1> HIDE DEF m, w
<1>5. /\ typed' \in Seq(Neat) /\ typed' = typed \o <<m>> /\ Len(typed) \in Nat
      /\ Len(typed') = Len(typed) + 1 /\ typed'[Len(typed) + 1] = m
      /\ \A i \in 1 .. Len(typed) : typed'[i] = typed[i]
  BY <1>0, <1>1, <1>4
<1>6. typed' \in Seq(Seq(Char))
  BY <1>5, NeatTypes
<1>7. toServer' \in Seq(Char)
  BY <1>0, <1>3, <1>4, ConcatFacts DEF TypeInv
<1>8. TypeInv'
  <2>1. isQuitting' \in BOOLEAN
    BY <1>0, <1>4 DEF TypeInv, Quits
  <2>2. Len(typed') <= MaxLines
    BY <1>4, <1>5, ExchangeAssumption
  <2> QED
    BY <1>0, <1>4, <1>6, <1>7, <2>1, <2>2 DEF TypeInv
<1>9. TypeOK'
  BY Zenon, <1>8 DEF TypeOK, TypeInv, Char
<1>10. isQuitting' => \E i \in 1 .. Len(typed') : Quits(typed'[i])
  <2>1. \A i \in 1 .. Len(typed) : i \in 1 .. Len(typed')
    BY <1>5
  <2>2. CASE isQuitting
    BY <1>5, <2>1, <2>2 DEF IInv
  <2>3. CASE Quits(m)
    <3>1. Len(typed) + 1 \in 1 .. Len(typed')
      BY <1>5
    <3> QED
      BY <1>5, <2>3, <3>1
  <2> QED
    BY <1>4, <2>2, <2>3
<1>11. refused' => TypedOverlong'
  <2> SUFFICES ASSUME refused PROVE TypedOverlong'
    BY <1>4
  <2>1. PICK i \in 1 .. Len(typed) : Overlong(typed[i])
    BY DEF IInv, TypedOverlong
  <2>2. i \in 1 .. Len(typed') /\ typed'[i] = typed[i]
    BY <1>5
  <2> QED
    BY <2>1, <2>2 DEF TypedOverlong
<1>12. ASSUME ~refused'
       PROVE  \E d, c, rest : Conversation(d, c, rest)'
  <2>1. PICK d, c, rest : Conversation(d, c, rest)
    BY <1>4, <1>12 DEF IInv
  <2>2. Wire(typed') = Wire(typed) \o w
    <3>1. typed \in Seq(Seq(Char))
      BY <1>0, NeatTypes
    <3> QED
      BY <1>3, <1>5, <3>1, WireConcat DEF w
  <2>3. d \in Seq(Char) /\ toServer \in Seq(Char) /\ Wire(typed) = d \o toServer
    BY <1>0, <2>1 DEF Conversation, TypeInv
  <2>4. (d \o toServer) \o w = d \o (toServer \o w)
    BY <1>3, <2>3, ConcatRegroups
  <2>5. Wire(typed') = d \o toServer'
    BY <1>4, <2>2, <2>3, <2>4
  <2>6. Conversation(d, c, rest)'
    BY <1>4, <2>1, <2>5 DEF Conversation, ToCome
  <2> QED
    BY <2>6
<1>13. OnlyLongRepliesKill'
  BY <1>4 DEF OnlyLongRepliesKill
<1> QED
  BY <1>5, <1>9, <1>10, <1>11, <1>12, <1>13 DEF IInv

\* What an ended socket still has queued stays so, or is lost from some point
\* on when a write destroys the socket.
Dropped ==
    \E lost \in Seq(Char) : toClient = toClient' \o lost /\ (broken' \/ lost = <<>>)

\* What the server does with its next chunk: data is the chunk, nms what
\* feed() returns, and sent what is written in answer, unless the socket is
\* past its end().
ServerOutcome(data, nms, sent) ==
    LET whole == serverBuffer \o data
    IN /\ data \in Seq(Char) /\ nms \in Seq(Neat) /\ sent \in Seq(Neat)
       /\ toServer' \in Seq(Char) /\ toServer = data \o toServer'
       /\ serverBuffer' \in Seq(Char) /\ Len(serverBuffer') <= MaxMessageLength
       /\ refused' = (refused \/ TooLong(Partial(whole)))
       /\ ~TooLong(Partial(whole)) =>
              /\ nms = Messages(whole) /\ serverBuffer' = Partial(whole)
              /\ sent = Responses(nms)
              /\ ~ended => (ended' <=> HasQuit(nms))
       /\ ~ended => toClient' = toClient \o Wire(sent) /\ ~broken'
       /\ ended => Dropped
       /\ broken' => sent # <<>>
       /\ ended => ended' = ended
       /\ toClient' \in Seq(Char)
       /\ ended' \in BOOLEAN /\ broken' \in BOOLEAN /\ refused' \in BOOLEAN

\* A data event at the server has an outcome.
LEMMA ServerDataIs ==
    ASSUME TypeInv, NEW n \in 1 .. Len(toServer), ServerData(n)
    PROVE  \E data, nms, sent : ServerOutcome(data, nms, sent)
<1> DEFINE data == SubSeq(toServer, 1, n)
           result == Feed(serverBuffer, data)
           asked == UpToQuit(result.messages)
           refusal == <<FormatResponse("ERROR:", <<"TooLarge">>)>>
           sent == IF result.thrown THEN refusal ELSE Answers(asked)
           quit == IF result.thrown THEN FALSE ELSE asked # <<>> /\ IsQuit(Last(asked))
           whole == serverBuffer \o data
<1>1. /\ data \in Seq(Char) /\ SubSeq(toServer, n + 1, Len(toServer)) \in Seq(Char)
      /\ toServer = data \o SubSeq(toServer, n + 1, Len(toServer))
  BY Chunk DEF TypeInv
<1>2. toServer' = SubSeq(toServer, n + 1, Len(toServer))
  BY DEF ServerData
<1>3. serverBuffer' = result.buffer /\ refused' = (refused \/ result.thrown)
  BY DEF ServerData
<1>4. /\ result.thrown => Answer(refusal, FALSE)
      /\ ~result.thrown => Answer(Answers(asked), asked # <<>> /\ IsQuit(Last(asked)))
  BY Zenon DEF ServerData, Answers
<1> HIDE DEF data, asked, result
<1>5. data \in Seq(Char) /\ serverBuffer \in Seq(Char)
  BY <1>1 DEF TypeInv
<1>6. /\ result.messages \in Seq(Neat)
      /\ result.buffer \in Seq(Char) /\ Len(result.buffer) <= MaxMessageLength
      /\ result.thrown \in BOOLEAN
      /\ result.thrown <=> TooLong(Partial(whole))
      /\ ~result.thrown => /\ result.messages = Messages(whole)
                           /\ result.buffer = Partial(whole)
  BY <1>5, FeedFacts DEF result
<1>7. asked \in Seq(Neat)
  BY <1>6, CutIs DEF asked
<1>8. Answers(asked) \in Seq(Neat)
  BY <1>7, AnswersFacts
<1>9. refusal \in Seq(Neat)
  <2> DEFINE r == FormatResponse("ERROR:", <<"TooLarge">>)
  <2>1. r \in Neat
    BY Texts, FixedAnswer DEF FormatResponse
  <2> HIDE DEF r
  <2>2. <<r>> \in Seq(Neat)
    BY <2>1
  <2> QED
    BY <2>2 DEF r
<1>10. Answer(sent, quit) /\ sent \in Seq(Neat)
  <2> HIDE DEF refusal
  <2> QED
    BY <1>4, <1>6, <1>8, <1>9
<1>11. ~result.thrown => (quit <=> HasQuit(result.messages)) /\ sent = Responses(result.messages)
  <2>1. (asked # <<>> /\ IsQuit(Last(asked))) <=> HasQuit(result.messages)
    BY <1>6, CutQuits DEF asked
  <2>2. Answers(asked) = Responses(result.messages)
    BY DEF asked, Responses
  <2> QED
    BY <2>1, <2>2
<1>12. quit \in BOOLEAN
  BY DEF IsQuit
<1> HIDE DEF sent, quit, whole
<1>18. Wire(sent) \in Seq(Char)
  BY <1>10, NeatTypes
<1>19. ~broken
  BY DEF ServerData
<1>13. /\ ~ended => toClient' = toClient \o Wire(sent) /\ ~broken'
       /\ ended' = (IF ended THEN ended ELSE quit)
       /\ broken' \in BOOLEAN
       /\ broken' => sent # <<>>
  <2>1. broken \in BOOLEAN
    BY DEF TypeInv
  <2>2. CASE ~ended
    <3>1. toClient' = toClient \o Wire(sent) /\ ended' = quit /\ broken' = broken
      BY <1>10, <2>2 DEF Answer
    <3> QED
      BY Zenon, <1>19, <2>1, <2>2, <3>1
  <2>3. CASE ended
    <3>1. ended' = ended /\ (sent = <<>> => broken' = broken) /\ (sent # <<>> => broken' = TRUE)
      BY <1>10, <2>3 DEF Answer
    <3>2. CASE sent = <<>>
      <4>1. broken' = broken
        BY <3>1, <3>2
      <4> QED
        BY Zenon, <1>19, <2>1, <2>3, <3>1, <4>1
    <3>4. CASE sent # <<>>
      <4>1. broken' = TRUE
        BY <3>1, <3>4
      <4> QED
        BY Zenon, <2>3, <3>1, <3>4, <4>1
    <3> QED
      BY <3>2, <3>4
  <2> QED
    BY <2>2, <2>3
<1>20. toClient \in Seq(Char)
  BY DEF TypeInv
<1>21. ASSUME ended
       PROVE  /\ toClient' \in Seq(Char)
              /\ Dropped
  <2>1. CASE sent = <<>>
    <3>1. toClient' = toClient
      BY <1>10, <1>21, <2>1 DEF Answer
    <3>2. toClient = toClient \o <<>> /\ <<>> \in Seq(Char)
      BY <1>20
    <3> QED
      BY <1>20, <3>1, <3>2 DEF Dropped
  <2>2. CASE sent # <<>>
    <3>1. /\ broken'
          /\ \E k \in 0 .. Len(toClient) : toClient' = SubSeq(toClient, 1, k)
      BY <1>10, <1>21, <2>2 DEF Answer
    <3>2. PICK k \in 0 .. Len(toClient) : toClient' = SubSeq(toClient, 1, k)
      BY <3>1
    <3> DEFINE lost == SubSeq(toClient, k + 1, Len(toClient))
    <3>3. toClient' \in Seq(Char) /\ lost \in Seq(Char) /\ toClient = toClient' \o lost
      BY <1>20, <3>2, Chunk
    <3> HIDE DEF lost
    <3> QED
      BY <3>1, <3>3 DEF Dropped
  <2> QED
    BY <2>1, <2>2
<1>22. toClient' \in Seq(Char)
  <2>1. toClient \o Wire(sent) \in Seq(Char)
    BY <1>18, <1>20, ConcatFacts
  <2> QED
    BY <1>13, <1>21, <2>1
<1>14. ended' \in BOOLEAN /\ broken' \in BOOLEAN /\ refused' \in BOOLEAN
  BY <1>3, <1>6, <1>12, <1>13 DEF TypeInv
<1> DEFINE nms == result.messages
<1>15. nms \in Seq(Neat)
  BY <1>6
<1>16. /\ data \in Seq(Char) /\ toServer' \in Seq(Char)
       /\ toServer = data \o toServer'
       /\ serverBuffer' \in Seq(Char) /\ Len(serverBuffer') <= MaxMessageLength
       /\ refused' = (refused \/ TooLong(Partial(whole)))
       /\ ~TooLong(Partial(whole)) =>
              /\ nms = Messages(whole) /\ serverBuffer' = Partial(whole)
              /\ sent = Responses(nms)
              /\ ~ended => (ended' <=> HasQuit(nms))
       /\ ended => ended' = ended
  <2>1. /\ data \in Seq(Char) /\ toServer' \in Seq(Char)
        /\ toServer = data \o toServer'
    BY <1>1, <1>2
  <2>2. serverBuffer' \in Seq(Char) /\ Len(serverBuffer') <= MaxMessageLength
    BY <1>3, <1>6
  <2>3. refused' = (refused \/ TooLong(Partial(whole)))
    BY Zenon, <1>3, <1>6
  <2>4. ASSUME ~TooLong(Partial(whole))
        PROVE  /\ nms = Messages(whole) /\ serverBuffer' = Partial(whole)
               /\ sent = Responses(nms)
               /\ ~ended => (ended' <=> HasQuit(nms))
    BY <1>3, <1>6, <1>11, <1>13, <2>4
  <2>5. ended => ended' = ended
    BY <1>13
  <2> QED
    BY <2>1, <2>2, <2>3, <2>4, <2>5
<1> HIDE DEF nms
<1>17. ServerOutcome(data, nms, sent)
  BY Zenon, <1>10, <1>13, <1>14, <1>15, <1>16, <1>21, <1>22 DEF ServerOutcome, whole
<1> QED
  BY <1>17

\* A data event at the server moves characters over to what it has read, and
\* adds the answers they complete.
LEMMA ServerDataIInv ==
    ASSUME IInv, NEW n \in 1 .. Len(toServer), ServerData(n)
    PROVE  IInv'
<1>0. TypeInv /\ typed \in Seq(Neat)
  BY Types DEF IInv
<1>01. PICK data, nms, sent : ServerOutcome(data, nms, sent)
  BY <1>0, ServerDataIs
<1>1. /\ data \in Seq(Char) /\ nms \in Seq(Neat) /\ sent \in Seq(Neat)
      /\ toServer' \in Seq(Char) /\ toServer = data \o toServer'
      /\ serverBuffer' \in Seq(Char) /\ Len(serverBuffer') <= MaxMessageLength
      /\ refused' = (refused \/ TooLong(Partial(serverBuffer \o data)))
      /\ ~TooLong(Partial(serverBuffer \o data)) =>
             /\ nms = Messages(serverBuffer \o data)
             /\ serverBuffer' = Partial(serverBuffer \o data)
             /\ sent = Responses(nms)
             /\ ~ended => (ended' <=> HasQuit(nms))
      /\ ~ended => toClient' = toClient \o Wire(sent) /\ ~broken'
      /\ ended => Dropped
      /\ broken' => sent # <<>>
      /\ ended => ended' = ended
      /\ toClient' \in Seq(Char)
      /\ ended' \in BOOLEAN /\ broken' \in BOOLEAN /\ refused' \in BOOLEAN
  BY <1>01 DEF ServerOutcome
<1> DEFINE whole == serverBuffer \o data
<1>2. /\ typed' = typed /\ isQuitting' = isQuitting /\ clientBuffer' = clientBuffer
      /\ events' = events /\ replies' = replies /\ crashed' = crashed
      /\ ~broken
  BY DEF ServerData, clientVars
<1>11. nms \in Seq(Neat) /\ sent \in Seq(Neat)
  BY <1>1
<1>3. Wire(sent) \in Seq(Char)
  BY <1>11, NeatTypes
<1>4. toClient' \in Seq(Char)
  BY <1>1
<1>5. TypeInv'
  <2>1. ended' \in BOOLEAN /\ broken' \in BOOLEAN /\ refused' \in BOOLEAN
    BY <1>1
  <2>2. toServer' \in Seq(Char) /\ serverBuffer' \in Seq(Char) /\ Len(serverBuffer') <= MaxMessageLength
    BY <1>1
  <2> QED
    BY Zenon, <1>0, <1>2, <1>4, <2>1, <2>2 DEF TypeInv
<1>6. TypeOK'
  BY Zenon, <1>5 DEF TypeOK, TypeInv, Char
<1>7. isQuitting' => \E i \in 1 .. Len(typed') : Quits(typed'[i])
  BY <1>2 DEF IInv
<1>8. OnlyLongRepliesKill'
  BY <1>2 DEF IInv, OnlyLongRepliesKill
<1>9. CASE refused
  <2>1. TypedOverlong' /\ refused'
    BY <1>1, <1>2, <1>9 DEF IInv, TypedOverlong
  <2> QED
    BY <1>0, <1>2, <1>6, <1>7, <1>8, <2>1 DEF IInv
<1>10. CASE ~refused
  <2>1. PICK d, c, rest : Conversation(d, c, rest)
    BY <1>10 DEF IInv
  <2>2. /\ d \in Seq(Char) /\ c \in Seq(Char) /\ rest \in Seq(Char)
        /\ Wire(typed) = d \o toServer /\ serverBuffer = Partial(d)
        /\ ended <=> HasQuit(Messages(d))
        /\ Wire(<<Welcome>> \o Responses(Messages(d))) = c \o rest
        /\ ~crashed => rest = toClient /\ clientBuffer = Partial(c)
        /\ replies = Among(Messages(c), Reply)
    <3>1. /\ d \in Seq(Char) /\ c \in Seq(Char) /\ rest \in Seq(Char)
          /\ Wire(typed) = d \o toServer /\ serverBuffer = Partial(d)
          /\ ended <=> HasQuit(Messages(d))
          /\ Wire(<<Welcome>> \o Responses(Messages(d))) = c \o rest
          /\ ~crashed => ToCome(rest) /\ clientBuffer = Partial(c)
          /\ replies = Among(Messages(c), Reply)
      BY <2>1 DEF Conversation
    <3>2. toClient \in Seq(Char) /\ toClient \o <<>> = toClient
      BY <1>0 DEF TypeInv
    <3>3. ToCome(rest) => rest = toClient
      BY <1>2, <3>2 DEF ToCome
    <3> QED
      BY <3>1, <3>3
  <2> DEFINE more == d \o data
  <2>3. data \in Seq(Char) /\ toServer' \in Seq(Char) /\ toServer = data \o toServer'
    BY <1>1
  <2>4. more \in Seq(Char) /\ Wire(typed) = more \o toServer'
    <3>1. more \in Seq(Char)
      BY <2>2, <2>3, ConcatFacts
    <3>2. d \in Seq(Char) /\ data \in Seq(Char) /\ toServer' \in Seq(Char)
      BY <2>2, <2>3
    <3>3. (d \o data) \o toServer' = d \o (data \o toServer')
      BY <3>2, ConcatRegroups
    <3> QED
      BY <2>2, <2>3, <3>1, <3>3
  <2>5. Messages(more) = Messages(d) \o Messages(whole) /\ Partial(more) = Partial(whole)
    BY <2>2, <2>3, FramingConcat
  <2>6. Messages(d) \in Seq(Neat)
    BY <2>2, MessagesNeat
  <2> HIDE DEF more, whole
  <2>7. CASE TooLong(Partial(whole))
    <3>1. TypedOverlong
      BY <1>0, <2>3, <2>4, <2>5, <2>7, RefusedForLength DEF TypedOverlong
    <3>2. TypedOverlong' /\ refused'
      BY <1>1, <1>2, <2>7, <3>1 DEF TypedOverlong, whole
    <3> QED
      BY <1>0, <1>2, <1>6, <1>7, <1>8, <3>2 DEF IInv
  <2>8. CASE ~TooLong(Partial(whole))
    <3>1. /\ ~refused' /\ nms = Messages(whole) /\ serverBuffer' = Partial(whole)
          /\ sent = Responses(nms) /\ (~ended => (ended' <=> HasQuit(nms)))
      BY <1>1, <1>10, <2>8 DEF whole
    <3> DEFINE ms == Messages(d)
    <3>2. Messages(more) = ms \o nms /\ ms \in Seq(Neat)
      BY <2>5, <2>6, <3>1
    <3> HIDE DEF ms
    <3>3. HasQuit(ms \o nms) <=> HasQuit(ms) \/ HasQuit(nms)
      BY <1>11, <3>2, CutConcat
    <3>4. ended' <=> HasQuit(Messages(more))
      BY <1>1, <2>2, <3>1, <3>2, <3>3 DEF ms
    <3>5. CASE ended
      <4>1. HasQuit(ms)
        BY <2>2, <3>5 DEF ms
      <4>2. Responses(Messages(more)) = Responses(ms)
        BY <1>11, <3>2, <4>1, ResponsesConcat
      <4>3. Wire(<<Welcome>> \o Responses(Messages(more))) = c \o rest
        BY <2>2, <4>2 DEF ms
      <4>5. ~crashed => ToCome(rest)'
        <5>3. Dropped
          BY <1>1, <3>5
        <5>1. PICK lost \in Seq(Char) : toClient = toClient' \o lost /\ (broken' \/ lost = <<>>)
          BY <5>3 DEF Dropped
        <5>2. ~crashed => rest = toClient' \o lost
          BY <2>2, <5>1
        <5> QED
          BY <5>1, <5>2 DEF ToCome
      <4>6. broken' => Len(UpToQuit(Messages(more))) < Len(Messages(more))
        <5>1. UpToQuit(ms) \in Seq(Neat) /\ Len(UpToQuit(ms)) <= Len(ms)
          BY <3>2, CutIs DEF IsCut
        <5>2. UpToQuit(ms \o nms) = UpToQuit(ms)
          BY <1>11, <3>2, <4>1, CutConcat
        <5>3. /\ Len(ms \o nms) = Len(ms) + Len(nms)
              /\ Len(ms) \in Nat /\ Len(nms) \in Nat
          BY <1>11, <3>2, ConcatFacts
        <5>4. broken' => Len(nms) # 0
          <6>1. sent \in Seq(Neat) /\ Len(sent) <= Len(nms)
            BY <1>11, <3>1, ResponsesFacts
          <6>2. broken' => Len(sent) # 0
            BY <1>1, <6>1
          <6> QED
            BY <5>3, <6>1, <6>2
        <5>5. Len(UpToQuit(ms)) \in Nat
          BY <5>1
        <5> QED
          BY <3>2, <5>1, <5>2, <5>3, <5>4, <5>5
      <4>7. ended'
        BY <1>1, <3>5
      <4>4. Conversation(more, c, rest)'
        BY <1>2, <2>2, <2>4, <2>5, <3>1, <3>4, <4>3, <4>5, <4>6, <4>7 DEF Conversation
      <4> QED
        BY <1>0, <1>2, <1>6, <1>7, <1>8, <3>1, <4>4 DEF IInv
    <3>6. CASE ~ended
      <4> DEFINE w == Wire(sent)
                 before == <<Welcome>> \o Responses(ms)
                 after == <<Welcome>> \o Responses(Messages(more))
                 left == rest \o w
      <4>1. ~HasQuit(ms) /\ toClient' = toClient \o w
        BY <1>1, <2>2, <3>6 DEF ms
      <4>2. Responses(Messages(more)) = Responses(ms) \o sent
        <5>1. nms \in Seq(Neat) /\ ms \in Seq(Neat) /\ ~HasQuit(ms)
          BY <1>1, <3>2, <4>1
        <5>2. Responses(ms \o nms) = Responses(ms) \o Responses(nms)
          BY <5>1, ResponsesConcat
        <5> QED
          BY <3>1, <3>2, <5>2
      <4>3. Responses(ms) \in Seq(Neat) /\ <<Welcome>> \in Seq(Neat)
        BY <3>2, ResponsesFacts, WelcomeFacts
      <4>4. after = before \o sent /\ before \in Seq(Neat)
        <5>1. (<<Welcome>> \o Responses(ms)) \o sent = <<Welcome>> \o (Responses(ms) \o sent)
          BY <4>3, ConcatRegroups
        <5>2. before \in Seq(Neat)
          BY <4>3, ConcatFacts
        <5> QED
          BY <4>2, <5>1, <5>2
      <4>5. Wire(before) = c \o rest
        BY <2>2 DEF ms
      <4> HIDE DEF before, after
      <4>6. before \in Seq(Seq(Char)) /\ sent \in Seq(Seq(Char))
        BY <1>11, <4>4, NeatTypes
      <4>7. Wire(after) = (c \o rest) \o w
        BY <4>4, <4>5, <4>6, WireConcat
      <4>8. w \in Seq(Char)
        BY <1>3
      <4> HIDE DEF w
      <4>9. (c \o rest) \o w = c \o left /\ left \in Seq(Char)
        <5>1. c \in Seq(Char) /\ rest \in Seq(Char)
          BY <2>2
        <5>2. (c \o rest) \o w = c \o (rest \o w)
          BY <4>8, <5>1, ConcatRegroups
        <5>3. rest \o w \in Seq(Char)
          BY <4>8, <5>1, ConcatFacts
        <5> QED
          BY <5>2, <5>3
      <4>10. Wire(<<Welcome>> \o Responses(Messages(more))) = c \o left
        BY <4>7, <4>9 DEF after
      <4>11. ~crashed => ToCome(left)' /\ clientBuffer = Partial(c)
        <5>1. ~crashed => left = toClient' /\ clientBuffer = Partial(c)
          BY <2>2, <4>1
        <5>2. toClient' = toClient' \o <<>> /\ <<>> \in Seq(Char)
          BY <1>4
        <5> HIDE DEF left
        <5> QED
          BY <5>1, <5>2 DEF ToCome
      <4>13. ~broken'
        BY <1>1, <3>6
      <4> HIDE DEF left
      <4>12. Conversation(more, c, left)'
        BY <1>2, <2>2, <2>4, <2>5, <3>1, <3>4, <4>9, <4>10, <4>11, <4>13 DEF Conversation
      <4> QED
        BY <1>0, <1>2, <1>6, <1>7, <1>8, <3>1, <4>12 DEF IInv
    <3> QED
      BY <3>5, <3>6
  <2> QED
    BY <2>7, <2>8
<1> QED
  BY <1>9, <1>10

\* Picking from some messages depends only on the messages among them.
LEMMA AmongAgree ==
    ASSUME NEW T, NEW s \in Seq(T), NEW A, NEW B,
           \A i \in 1 .. Len(s) : s[i] \in A <=> s[i] \in B
    PROVE  Among(s, A) = Among(s, B)
<1>1. {i \in 1 .. Len(s) : s[i] \in A} = {i \in 1 .. Len(s) : s[i] \in B}
  OBVIOUS
<1> QED
  BY Zenon, <1>1 DEF Among

\* The messages that have arrived are the first of the lines typed.
LEMMA ArrivedAreTyped ==
    ASSUME typed \in Seq(Neat), NEW d, NEW c, NEW rest, Conversation(d, c, rest),
           toServer \in Seq(Char)
    PROVE  LET ms == Messages(d)
           IN /\ ms \in Seq(Neat) /\ Len(ms) <= Len(typed)
              /\ \A i \in 1 .. Len(ms) : ms[i] = typed[i]
              /\ \E more \in Seq(Neat) : typed = ms \o more
              /\ toServer = <<>> => ms = typed
<1> DEFINE ms == Messages(d)
           more == Messages(Partial(d) \o toServer)
<1>1. d \in Seq(Char) /\ Wire(typed) = d \o toServer
  BY DEF Conversation
<1>2. Messages(Wire(typed)) = typed
  BY WireMessages
<1>3. Messages(d \o toServer) = ms \o more
  BY <1>1, FramingConcat
<1>4. ms \in Seq(Neat) /\ more \in Seq(Neat)
  <2>1. Partial(d) \in Seq(Char)
    BY <1>1, FramingTypes
  <2>2. Partial(d) \o toServer \in Seq(Char)
    BY <2>1, ConcatFacts
  <2> QED
    BY <1>1, <2>2, MessagesNeat
<1>5. toServer = <<>> => ms = typed
  <2> SUFFICES ASSUME toServer = <<>> PROVE ms = typed
    OBVIOUS
  <2>1. d \o <<>> = d
    BY <1>1
  <2> QED
    BY <1>1, <1>2, <2>1
<1> HIDE DEF ms, more
<1>6. typed = ms \o more
  BY <1>1, <1>2, <1>3
<1>7. /\ Len(typed) = Len(ms) + Len(more) /\ Len(more) \in Nat /\ Len(ms) \in Nat
      /\ \A i \in 1 .. Len(ms) : typed[i] = ms[i]
  BY <1>4, <1>6, ConcatFacts
<1>8. Len(ms) <= Len(typed)
  BY <1>7
<1>9. \A i \in 1 .. Len(ms) : ms[i] = typed[i]
  BY <1>7
<1> QED
  BY <1>4, <1>5, <1>6, <1>8, <1>9 DEF ms

\* Only a long line, or one that is quoted beyond the limit, has an answer
\* beyond the limit.
Deadly ==
    \E i \in 1 .. Len(typed) :
        \/ Overlong(typed[i])
        \/ ParseRequest(typed[i]) = NoRequest /\ Overlong(Respond(typed[i]))

\* An answer beyond the limit was asked for by a line the user typed.
LEMMA LongAnswer ==
    ASSUME typed \in Seq(Neat), NEW d, NEW c, NEW rest, Conversation(d, c, rest),
           toServer \in Seq(Char),
           NEW j \in 1 .. Len(<<Welcome>> \o Responses(Messages(d))),
           Overlong((<<Welcome>> \o Responses(Messages(d)))[j])
    PROVE  Deadly
<1> DEFINE ms == Messages(d)
           r == Responses(ms)
           all == <<Welcome>> \o r
<1>1. ms \in Seq(Neat) /\ Len(ms) <= Len(typed) /\ \A i \in 1 .. Len(ms) : ms[i] = typed[i]
  BY ArrivedAreTyped
<1> HIDE DEF ms
<1>2. /\ r \in Seq(Neat) /\ Len(r) <= Len(ms)
      /\ \A i \in 1 .. Len(r) : r[i] = Respond(ms[i])
  BY <1>1, ResponsesFacts
<1> HIDE DEF r
<1>3. /\ all \in Seq(Neat) /\ Len(all) = Len(r) + 1 /\ Len(r) \in Nat
      /\ all[1] = Welcome /\ \A i \in 1 .. Len(r) : all[i + 1] = r[i]
  BY <1>2, WelcomeFacts
<1>4. j \in 1 .. Len(all) /\ Overlong(all[j])
  BY DEF ms, r
<1> HIDE DEF all
<1>5. j # 1
  BY <1>3, <1>4, WelcomeFacts
<1> DEFINE i == j - 1
<1>6. i \in 1 .. Len(r) /\ i + 1 = j
  BY <1>3, <1>4, <1>5
<1> HIDE DEF i
<1>7. i \in 1 .. Len(ms) /\ i \in 1 .. Len(typed)
  BY <1>1, <1>2, <1>6
<1>8. Overlong(Respond(typed[i])) /\ typed[i] \in Neat
  BY <1>1, <1>2, <1>3, <1>4, <1>6, <1>7
<1>9. Overlong(typed[i]) \/ ParseRequest(typed[i]) = NoRequest
  BY <1>8, RespondFacts
<1> QED
  BY <1>7, <1>8, <1>9 DEF Deadly

\* What the client does with its next chunk.
ClientOutcome(data, nms) ==
    LET whole == clientBuffer \o data
    IN /\ data \in Seq(Char) /\ nms \in Seq(Neat)
       /\ toClient' \in Seq(Char) /\ toClient = data \o toClient'
       /\ clientBuffer' \in Seq(Char) /\ Len(clientBuffer') <= MaxMessageLength
       /\ crashed' \in BOOLEAN /\ (crashed' <=> TooLong(Partial(whole)))
       /\ crashed' => nms = <<>>
       /\ ~crashed' => nms = Messages(whole) /\ clientBuffer' = Partial(whole)
       /\ replies' = replies \o Among(nms, Reply)
       /\ events' \in Seq(Seq(Char))

\* A data event at the client has an outcome.
LEMMA ClientDataIs ==
    ASSUME TypeInv, NEW n \in 1 .. Len(toClient), ClientData(n)
    PROVE  \E data, nms : ClientOutcome(data, nms)
<1> DEFINE data == SubSeq(toClient, 1, n)
           result == Feed(clientBuffer, data)
           nms == result.messages
           server == {m \in ToSet(nms) : IsEvent(m)}
           whole == clientBuffer \o data
<1>1. /\ data \in Seq(Char) /\ SubSeq(toClient, n + 1, Len(toClient)) \in Seq(Char)
      /\ toClient = data \o SubSeq(toClient, n + 1, Len(toClient))
  BY Chunk DEF TypeInv
<1>2. toClient' = SubSeq(toClient, n + 1, Len(toClient))
  BY DEF ClientData
<1>3. clientBuffer' = result.buffer /\ crashed' = result.thrown
  BY DEF ClientData
<1>4. /\ events' = events \o Among(nms, server)
      /\ replies' = replies \o Among(nms, ToSet(nms) \ server)
  BY Zenon DEF ClientData, Show
<1> HIDE DEF data
<1>5. data \in Seq(Char) /\ clientBuffer \in Seq(Char)
  BY <1>1 DEF TypeInv
<1>6. /\ nms \in Seq(Neat)
      /\ result.buffer \in Seq(Char) /\ Len(result.buffer) <= MaxMessageLength
      /\ result.thrown \in BOOLEAN
      /\ result.thrown <=> TooLong(Partial(whole))
      /\ result.thrown => nms = <<>>
      /\ ~result.thrown => nms = Messages(whole) /\ result.buffer = Partial(whole)
  <2> HIDE DEF result
  <2> QED
    BY <1>5, FeedFacts DEF result
<1> HIDE DEF nms, result
<1>7. Among(nms, ToSet(nms) \ server) = Among(nms, Reply)
  <2>1. ASSUME NEW i \in 1 .. Len(nms)
        PROVE  nms[i] \in ToSet(nms) \ server <=> nms[i] \in Reply
    <3>1. nms[i] \in Seq(Char) /\ nms[i] \in ToSet(nms)
      BY <1>6 DEF Neat, ToSet
    <3> QED
      BY <3>1 DEF Reply
  <2> HIDE DEF server
  <2> QED
    BY <1>6, <2>1, AmongAgree
<1>8. Among(nms, server) \in Seq(Seq(Char))
  <2> HIDE DEF server
  <2>1. Among(nms, server) \in Seq(Neat)
    BY <1>6, AmongType
  <2> QED
    BY <2>1, NeatTypes
<1>9. events' \in Seq(Seq(Char))
  <2> DEFINE T == Seq(Char)
             a == Among(nms, server)
  <2>1. events \in Seq(T) /\ a \in Seq(T)
    BY <1>8 DEF TypeInv
  <2>2. events' = events \o a
    BY <1>4
  <2> HIDE DEF T, a
  <2>3. events' \in Seq(T)
    BY <2>1, <2>2, ConcatFacts
  <2> QED
    BY <2>3 DEF T
<1> HIDE DEF server, whole
<1>10. toClient' \in Seq(Char) /\ toClient = data \o toClient'
  BY <1>1, <1>2
<1>11. ClientOutcome(data, nms)
  <2>1. clientBuffer' \in Seq(Char) /\ Len(clientBuffer') <= MaxMessageLength
    BY <1>3, <1>6
  <2>2. crashed' \in BOOLEAN /\ (crashed' <=> TooLong(Partial(whole)))
    BY <1>3, <1>6
  <2>3. crashed' => nms = <<>>
    BY <1>3, <1>6
  <2>4. ~crashed' => nms = Messages(whole) /\ clientBuffer' = Partial(whole)
    BY <1>3, <1>6
  <2>5. replies' = replies \o Among(nms, Reply)
    BY <1>4, <1>7
  <2> QED
    BY Zenon, <1>5, <1>6, <1>9, <1>10, <2>1, <2>2, <2>3, <2>4, <2>5 DEF ClientOutcome, whole
<1> QED
  BY <1>11

\* A data event at the client moves characters over to what it has read, and
\* kills it only for a long answer.
LEMMA ClientDataIInv ==
    ASSUME IInv, NEW n \in 1 .. Len(toClient), ClientData(n)
    PROVE  IInv'
<1>1. TypeInv /\ typed \in Seq(Neat) /\ toServer \in Seq(Char)
  BY Types DEF IInv, TypeInv
<1>2. PICK data, nms : ClientOutcome(data, nms)
  BY <1>1, ClientDataIs
<1> DEFINE whole == clientBuffer \o data
<1>3. /\ data \in Seq(Char) /\ nms \in Seq(Neat)
      /\ toClient' \in Seq(Char) /\ toClient = data \o toClient'
      /\ clientBuffer' \in Seq(Char) /\ Len(clientBuffer') <= MaxMessageLength
      /\ crashed' \in BOOLEAN /\ (crashed' <=> TooLong(Partial(whole)))
      /\ crashed' => nms = <<>>
      /\ ~crashed' => nms = Messages(whole) /\ clientBuffer' = Partial(whole)
      /\ replies' = replies \o Among(nms, Reply)
      /\ events' \in Seq(Seq(Char))
  BY <1>2 DEF ClientOutcome
<1>4. /\ ~crashed
      /\ typed' = typed /\ isQuitting' = isQuitting /\ toServer' = toServer
      /\ serverBuffer' = serverBuffer /\ ended' = ended /\ broken' = broken
      /\ refused' = refused
  BY DEF ClientData, serverVars
<1>5. nms \in Seq(Neat) /\ data \in Seq(Char) /\ toClient' \in Seq(Char)
  BY <1>3
<1>6. replies' \in Seq(Seq(Char))
  <2> DEFINE a == Among(nms, Reply)
             T == Seq(Char)
  <2>1. a \in Seq(T)
    <3>1. a \in Seq(Neat)
      <4> HIDE DEF Reply
      <4> QED
        BY <1>5, AmongType
    <3> QED
      BY <3>1, NeatTypes
  <2>2. replies \in Seq(T) /\ replies' = replies \o a
    BY <1>1, <1>3 DEF TypeInv
  <2> HIDE DEF a, T
  <2>3. replies' \in Seq(T)
    BY <2>1, <2>2, ConcatFacts
  <2> QED
    BY <2>3 DEF T
<1>7. TypeInv'
  <2> HIDE DEF whole
  <2> QED
    BY Zenon, <1>1, <1>3, <1>4, <1>6 DEF TypeInv
<1>8. TypeOK'
  BY Zenon, <1>7 DEF TypeOK, TypeInv, Char
<1>9. /\ typed' \in Seq(Neat)
      /\ isQuitting' => \E i \in 1 .. Len(typed') : Quits(typed'[i])
      /\ refused' => TypedOverlong'
  BY <1>1, <1>4 DEF IInv, TypedOverlong
<1>10. Deadly => OnlyLongRepliesKill'
  BY <1>4 DEF OnlyLongRepliesKill, Deadly
<1>11. CASE refused
  <2>1. Deadly
    BY <1>11 DEF IInv, TypedOverlong, Deadly
  <2> QED
    BY <1>4, <1>8, <1>9, <1>10, <1>11, <2>1 DEF IInv
<1>12. CASE ~refused
  <2>1. PICK d, c, rest : Conversation(d, c, rest)
    BY <1>12 DEF IInv
  <2> DEFINE before == <<Welcome>> \o Responses(Messages(d))
             more == c \o data
  <2>2. /\ d \in Seq(Char) /\ c \in Seq(Char)
        /\ Wire(typed) = d \o toServer /\ serverBuffer = Partial(d)
        /\ ended <=> HasQuit(Messages(d))
        /\ Wire(before) = c \o rest /\ rest \in Seq(Char)
        /\ ToCome(rest) /\ clientBuffer = Partial(c)
        /\ broken => ended /\ Len(UpToQuit(Messages(d))) < Len(Messages(d))
        /\ replies = Among(Messages(c), Reply)
    BY <1>4, <2>1 DEF Conversation
  <2>10. PICK lost \in Seq(Char) : rest = toClient \o lost /\ (broken \/ lost = <<>>)
    BY <2>2 DEF ToCome
  <2>13. PICK left : left = toClient' \o lost
    OBVIOUS
  <2>11. left \in Seq(Char) /\ rest = data \o left
    <3>1. (data \o toClient') \o lost = data \o (toClient' \o lost)
      BY <1>5, <2>10, ConcatRegroups
    <3>2. toClient' \o lost \in Seq(Char)
      BY <1>5, <2>10, ConcatFacts
    <3> QED
      BY <1>3, <2>10, <2>13, <3>1, <3>2
  <2>12. ToCome(left)'
    BY <1>4, <2>10, <2>13 DEF ToCome
  <2>3. c \in Seq(Char)
    BY <2>2
  <2>4. (c \o data) \o left = c \o (data \o left) /\ more \in Seq(Char)
    <3>1. c \in Seq(Char) /\ data \in Seq(Char) /\ left \in Seq(Char)
      BY <1>5, <2>3, <2>11
    <3>2. (c \o data) \o left = c \o (data \o left)
      BY <3>1, ConcatRegroups
    <3> QED
      BY <3>1, <3>2, ConcatFacts
  <2>5. Messages(more) = Messages(c) \o Messages(whole) /\ Partial(more) = Partial(whole)
    <3>1. /\ Messages(c \o data) = Messages(c) \o Messages(Partial(c) \o data)
          /\ Partial(c \o data) = Partial(Partial(c) \o data)
      BY <1>5, <2>3, FramingConcat
    <3> QED
      BY <2>2, <3>1
  <2>6. before \in Seq(Neat)
    <3>1. Messages(d) \in Seq(Neat)
      BY <2>2, MessagesNeat
    <3>2. Responses(Messages(d)) \in Seq(Neat) /\ <<Welcome>> \in Seq(Neat)
      BY <3>1, ResponsesFacts, WelcomeFacts
    <3> QED
      BY <3>2, ConcatFacts
  <2>7. Wire(before) = more \o left
    BY <2>2, <2>4, <2>11
  <2> HIDE DEF more, whole
  <2>8. CASE crashed'
    <3>1. TooLong(Partial(more))
      BY <1>3, <2>5, <2>8
    <3>2. PICK j \in 1 .. Len(before) : Overlong(before[j])
      <4> HIDE DEF before
      <4> QED
        BY <2>4, <2>6, <2>7, <2>11, <3>1, RefusedForLength
    <3>3. Deadly
      BY <1>1, <2>1, <3>2, LongAnswer
    <3>4. replies' = replies
      <4>1. Among(nms, Reply) = <<>>
        BY <1>3, <2>8, AmongEmpty
      <4>2. replies \in Seq(Seq(Char))
        BY <1>1 DEF TypeInv
      <4>3. replies \o <<>> = replies
        BY <4>2
      <4> QED
        BY <1>3, <4>1, <4>3
    <3>5. Conversation(d, c, rest)'
      BY <1>4, <2>2, <2>8, <3>4 DEF Conversation
    <3> QED
      BY <1>4, <1>8, <1>9, <1>10, <3>3, <3>5 DEF IInv
  <2>9. CASE ~crashed'
    <3>1. nms = Messages(whole) /\ clientBuffer' = Partial(more)
      BY <1>3, <2>5, <2>9
    <3>2. replies' = Among(Messages(more), Reply)
      <4> HIDE DEF Reply
      <4>1. Messages(c) \in Seq(Neat)
        BY <2>3, MessagesNeat
      <4>2. Among(Messages(c) \o nms, Reply) = Among(Messages(c), Reply) \o Among(nms, Reply)
        BY <1>5, <4>1, AmongConcat
      <4> QED
        BY <1>3, <2>2, <2>5, <3>1, <4>2
    <3>3. Conversation(d, more, left)'
      BY <1>4, <2>2, <2>4, <2>7, <2>11, <2>12, <3>1, <3>2 DEF Conversation
    <3>4. OnlyLongRepliesKill'
      BY <2>9 DEF OnlyLongRepliesKill
    <3> QED
      BY <1>4, <1>8, <1>9, <3>3, <3>4 DEF IInv
  <2> QED
    BY <2>8, <2>9
<1> QED
  BY <1>11, <1>12

\* Every step preserves IInv.
LEMMA StepIInv == IInv /\ [Next]_vars => IInv'
<1> SUFFICES ASSUME IInv, [Next]_vars PROVE IInv'
  OBVIOUS
<1>1. ASSUME NEW line \in Line, TypeLine(line) PROVE IInv'
  BY <1>1, TypeLineIInv
<1>2. ASSUME NEW n \in 1 .. Len(toServer), ServerData(n) PROVE IInv'
  BY <1>2, ServerDataIInv
<1>3. ASSUME NEW n \in 1 .. Len(toClient), ClientData(n) PROVE IInv'
  BY <1>3, ClientDataIInv
<1>4. CASE UNCHANGED vars
  <2>1. /\ typed' = typed /\ isQuitting' = isQuitting /\ toServer' = toServer
        /\ serverBuffer' = serverBuffer /\ ended' = ended /\ broken' = broken
        /\ refused' = refused /\ toClient' = toClient /\ clientBuffer' = clientBuffer
        /\ events' = events /\ replies' = replies /\ crashed' = crashed
    BY <1>4 DEF vars, serverVars, clientVars
  <2>2. TypeOK'
    BY Zenon, <2>1 DEF TypeOK, IInv
  <2>3. OnlyLongRepliesKill' /\ (refused' => TypedOverlong')
    BY <2>1 DEF IInv, OnlyLongRepliesKill, TypedOverlong
  <2>4. ASSUME ~refused' PROVE \E d, c, rest : Conversation(d, c, rest)'
    <3>1. PICK d, c, rest : Conversation(d, c, rest)
      BY <2>1, <2>4 DEF IInv
    <3>2. Conversation(d, c, rest)'
      BY <2>1, <3>1 DEF Conversation, ToCome
    <3> QED
      BY <3>2
  <2> QED
    BY <2>1, <2>2, <2>3, <2>4 DEF IInv
<1> QED
  BY <1>1, <1>2, <1>3, <1>4 DEF Next

\* IInv holds in every state of a conversation.
LEMMA Inductive == Spec => []IInv
BY InitIInv, StepIInv, PTL DEF Spec

\* Every variable stays in its range, and both parsers keep to the limit.
THEOREM TypeCorrect == Spec => []TypeOK
<1>1. IInv => TypeOK
  BY DEF IInv
<1> QED
  BY <1>1, Inductive, PTL

\* A client dies of nothing but what its user typed: a line beyond the limit,
\* or an unknown command whose answer quotes it beyond the limit.
THEOREM OnlyOwnLinesKill == Spec => []OnlyLongRepliesKill
<1>1. IInv => OnlyLongRepliesKill
  BY DEF IInv
<1> QED
  BY <1>1, Inductive, PTL

---------------------------------------------------------------------------
(* What the client displays. *)

\* None of the answers of the server is an event, so all are displayed.
LEMMA AllDisplayed ==
    ASSUME NEW ms \in Seq(Neat)
    PROVE  Among(<<Welcome>> \o Responses(ms), Reply) = Responses(ms)
<1> DEFINE r == Responses(ms)
<1>1. /\ r \in Seq(Neat) /\ Len(r) <= Len(ms)
      /\ \A i \in 1 .. Len(r) : r[i] = Respond(ms[i])
  BY ResponsesFacts
<1> HIDE DEF r
<1>2. Len(ms) \in Nat /\ Len(r) \in Nat
  BY <1>1
<1>3. ASSUME NEW i \in 1 .. Len(r) PROVE r[i] \in Reply
  <2>1. i \in 1 .. Len(ms)
    BY <1>1, <1>2
  <2>2. ms[i] \in Neat
    BY <2>1
  <2>3. Respond(ms[i]) \in Neat /\ ~IsEvent(Respond(ms[i]))
    BY <2>2, RespondFacts
  <2> QED
    BY <1>1, <2>3 DEF Reply, Neat
<1>4. Welcome \notin Reply
  BY WelcomeFacts DEF Reply
<1>5. <<Welcome>> \in Seq(Neat) /\ \A i \in 1 .. Len(<<Welcome>>) : <<Welcome>>[i] = Welcome
  BY WelcomeFacts
<1> DEFINE w == <<Welcome>>
<1> HIDE DEF Reply, w
<1>6. w \in Seq(Neat) /\ \A i \in 1 .. Len(w) : w[i] \notin Reply
  BY <1>4, <1>5 DEF w
<1>7. Among(w, Reply) = <<>> /\ Among(r, Reply) = r
  BY <1>1, <1>3, <1>6, AmongAll
<1>8. Among(w \o r, Reply) = <<>> \o r
  <2>1. w \in Seq(Neat) /\ r \in Seq(Neat)
    BY <1>1, <1>6
  <2>2. Among(w \o r, Reply) = Among(w, Reply) \o Among(r, Reply)
    BY <2>1, AmongConcat
  <2> QED
    BY <1>7, <2>2
<1>9. <<>> \o r = r
  BY <1>1
<1> QED
  BY <1>8, <1>9 DEF w, r

\* The replies displayed are the first of the answers to what has arrived at
\* the server, and all of them if nothing is on its way to the client.
LEMMA Displayed ==
    ASSUME NEW d, NEW c, NEW rest, Conversation(d, c, rest)
    PROVE  LET answers == Responses(Messages(d))
           IN /\ answers \in Seq(Neat)
              /\ \E more \in Seq(Neat) : answers = replies \o more
              /\ replies \in Seq(Neat)
              /\ rest = <<>> => replies = answers
<1> DEFINE answers == Responses(Messages(d))
           all == <<Welcome>> \o answers
           shown == Messages(c)
           left == Messages(Partial(c) \o rest)
<1>1. /\ d \in Seq(Char) /\ c \in Seq(Char) /\ rest \in Seq(Char)
      /\ Wire(all) = c \o rest /\ replies = Among(shown, Reply)
  BY DEF Conversation
<1>2. Messages(d) \in Seq(Neat)
  BY <1>1, MessagesNeat
<1>3. Among(all, Reply) = answers /\ answers \in Seq(Neat)
  BY <1>2, AllDisplayed, ResponsesFacts
<1>4. all \in Seq(Neat)
  <2> HIDE DEF answers
  <2> QED
    BY <1>3, WelcomeFacts, ConcatFacts
<1> HIDE DEF all, answers
<1>5. Messages(Wire(all)) = all
  BY <1>4, WireMessages
<1>6. Messages(c \o rest) = shown \o left
  BY <1>1, FramingConcat
<1>7. shown \in Seq(Neat) /\ left \in Seq(Neat)
  <2>1. Partial(c) \in Seq(Char)
    BY <1>1, FramingTypes
  <2>2. Partial(c) \o rest \in Seq(Char)
    BY <1>1, <2>1, ConcatFacts
  <2> QED
    BY <1>1, <2>2, MessagesNeat
<1>8. rest = <<>> => shown = all
  <2>1. c \o <<>> = c
    BY <1>1
  <2> QED
    BY <1>1, <1>5, <2>1
<1> HIDE DEF shown, left, Reply
<1>9. all = shown \o left
  BY <1>1, <1>5, <1>6
<1>10. Among(all, Reply) = Among(shown, Reply) \o Among(left, Reply)
  BY <1>7, <1>9, AmongConcat
<1>11. Among(left, Reply) \in Seq(Neat) /\ Among(shown, Reply) \in Seq(Neat)
  BY <1>7, AmongType
<1>12. rest = <<>> => replies = answers
  BY <1>1, <1>3, <1>8
<1> QED
  BY <1>1, <1>3, <1>10, <1>11, <1>12 DEF answers

\* A sequence is a prefix of whatever continues it.
LEMMA PrefixOfConcat ==
    ASSUME NEW T, NEW s \in Seq(T), NEW t \in Seq(T)
    PROVE  IsPrefix(s, s \o t)
<1> DEFINE st == s \o t
<1>1. /\ st \in Seq(T) /\ Len(st) = Len(s) + Len(t) /\ Len(s) \in Nat /\ Len(t) \in Nat
      /\ \A i \in 1 .. Len(s) : st[i] = s[i]
  BY ConcatFacts
<1> HIDE DEF st
<1>2. SubSeq(st, 1, Len(s)) = s
  <2>1. /\ SubSeq(st, 1, Len(s)) \in Seq(T) /\ Len(SubSeq(st, 1, Len(s))) = Len(s)
        /\ \A i \in 1 .. Len(s) : SubSeq(st, 1, Len(s))[i] = s[i]
    BY <1>1
  <2> QED
    BY <2>1, SameElements
<1> QED
  BY <1>1, <1>2 DEF IsPrefix, st

\* IInv implies RepliesFollowRequests: what has arrived is what was typed.
LEMMA RepliesAreAnswers == IInv => RepliesFollowRequests
<1> SUFFICES ASSUME IInv, \A i \in 1 .. Len(typed) : ~Overlong(typed[i])
             PROVE  LET expected == [i \in 1 .. Len(Due) |-> Respond(Due[i])]
                    IN /\ IsPrefix(replies, expected)
                       /\ (toServer = <<>> /\ toClient = <<>> /\ ~crashed)
                             => replies = expected \/ (broken /\ Len(Due) < Len(typed))
  BY DEF RepliesFollowRequests
<1> DEFINE expected == Responses(typed)
<1>1. expected = [i \in 1 .. Len(Due) |-> Respond(Due[i])]
  BY Zenon DEF Responses, Answers, Due
<1>2. ~refused
  BY DEF IInv, TypedOverlong
<1>3. PICK d, c, rest : Conversation(d, c, rest)
  BY <1>2 DEF IInv
<1>4. typed \in Seq(Neat) /\ toServer \in Seq(Char)
  BY Types DEF IInv, TypeInv
<1> DEFINE ms == Messages(d)
           answers == Responses(ms)
<1>5. ms \in Seq(Neat)
  BY <1>3, <1>4, ArrivedAreTyped
<1>6. PICK more \in Seq(Neat) : typed = ms \o more
  BY <1>3, <1>4, ArrivedAreTyped
<1>7. toServer = <<>> => ms = typed
  BY <1>3, <1>4, ArrivedAreTyped
<1>8. /\ answers \in Seq(Neat) /\ replies \in Seq(Neat)
      /\ rest = <<>> => replies = answers
  BY <1>3, Displayed
<1>9. PICK left \in Seq(Neat) : answers = replies \o left
  BY <1>3, Displayed
<1> HIDE DEF ms
<1>10. expected = answers \o Responses(more) \/ expected = answers
  BY <1>5, <1>6, ResponsesConcat
<1>11. Responses(more) \in Seq(Neat)
  BY ResponsesFacts
<1>12. toServer = <<>> => expected = answers
  BY <1>7
<1>13. ~crashed /\ ~broken /\ toClient = <<>> => rest = <<>>
  BY <1>3 DEF Conversation, ToCome
<1>16. toServer = <<>> /\ broken => Len(Due) < Len(typed)
  BY <1>3, <1>7 DEF Conversation, Due, ms
<1> HIDE DEF expected, answers
<1>14. IsPrefix(replies, expected)
  <2> DEFINE extra == Responses(more)
             both == left \o extra
  <2>1. CASE expected = answers
    BY <1>8, <1>9, <2>1, PrefixOfConcat
  <2>2. CASE expected = answers \o extra
    <3> HIDE DEF extra
    <3>1. replies \in Seq(Neat) /\ left \in Seq(Neat) /\ extra \in Seq(Neat)
      BY <1>8, <1>11 DEF extra
    <3>2. (replies \o left) \o extra = replies \o (left \o extra)
      BY <3>1, ConcatRegroups
    <3>3. both \in Seq(Neat)
      BY <3>1, ConcatFacts
    <3>4. expected = replies \o both
      BY <1>9, <2>2, <3>2
    <3> HIDE DEF both
    <3> QED
      BY <3>1, <3>3, <3>4, PrefixOfConcat
  <2> QED
    BY <1>10, <2>1, <2>2
<1>15. toServer = <<>> /\ toClient = <<>> /\ ~crashed
          => replies = expected \/ (broken /\ Len(Due) < Len(typed))
  BY <1>8, <1>12, <1>13, <1>16
<1> QED
  BY <1>1, <1>14, <1>15

\* What the client displays as responses are the answers to the lines typed,
\* one each and in order, up to the first QUIT, as long as no line is beyond
\* the limit.  Once everything has arrived none is missing, unless a line
\* typed behind QUIT has made the server break the connection.
THEOREM RepliesInOrder == Spec => []RepliesFollowRequests
BY RepliesAreAnswers, Inductive, PTL

\* IInv implies EchoIntact.
LEMMA EchoIsIntact == IInv => EchoIntact
<1> SUFFICES ASSUME IInv, NEW i \in 1 .. Len(replies),
                    ~refused, i <= Len(typed), IsPrefix(<<"ECHO", "sp">>, typed[i])
             PROVE  Tail(replies[i]) = SubSeq(typed[i], 3, Len(typed[i]))
  BY DEF EchoIntact
<1>1. PICK d, c, rest : Conversation(d, c, rest)
  BY DEF IInv
<1>2. typed \in Seq(Neat) /\ toServer \in Seq(Char)
  BY Types DEF IInv, TypeInv
<1> DEFINE ms == Messages(d)
           answers == Responses(ms)
<1>3. ms \in Seq(Neat) /\ Len(ms) <= Len(typed) /\ \A k \in 1 .. Len(ms) : ms[k] = typed[k]
  BY <1>1, <1>2, ArrivedAreTyped
<1>4. answers \in Seq(Neat) /\ replies \in Seq(Neat)
  BY <1>1, Displayed
<1>5. PICK left \in Seq(Neat) : answers = replies \o left
  BY <1>1, Displayed
<1> HIDE DEF ms
<1>6. Len(answers) <= Len(ms) /\ \A k \in 1 .. Len(answers) : answers[k] = Respond(ms[k])
  BY <1>3, ResponsesFacts
<1> HIDE DEF answers
<1>7. /\ Len(answers) = Len(replies) + Len(left) /\ Len(left) \in Nat
      /\ \A k \in 1 .. Len(replies) : answers[k] = replies[k]
  BY <1>4, <1>5, ConcatFacts
<1>8. i \in 1 .. Len(answers) /\ i \in 1 .. Len(ms) /\ i \in 1 .. Len(typed)
  BY <1>2, <1>3, <1>4, <1>6, <1>7
<1>9. replies[i] = Respond(typed[i])
  BY <1>3, <1>6, <1>7, <1>8
<1>10. typed[i] \in Neat
  BY <1>2, <1>8
<1> QED
  BY <1>9, <1>10, EchoAnswer

\* ECHO sends back what stands behind its first space, whatever else was typed
\* and however the bytes were cut.
THEOREM EchoFaithful == Spec => []EchoIntact
BY EchoIsIntact, Inductive, PTL

\* IInv implies QuitUnderstood.
LEMMA QuitEnds == IInv => QuitUnderstood
<1> SUFFICES ASSUME IInv, isQuitting, toServer = <<>>, ~refused PROVE ended
  BY DEF QuitUnderstood
<1>1. PICK d, c, rest : Conversation(d, c, rest)
  BY DEF IInv
<1>2. typed \in Seq(Neat) /\ toServer \in Seq(Char)
  BY Types DEF IInv, TypeInv
<1>3. Messages(d) = typed
  BY <1>1, <1>2, ArrivedAreTyped
<1>4. PICK i \in 1 .. Len(typed) : Quits(typed[i])
  BY DEF IInv
<1>5. IsQuit(typed[i])
  <2>1. typed[i] \in Neat
    BY <1>2
  <2> QED
    BY <1>4, <2>1, QuitIsQuit
<1>6. HasQuit(typed)
  BY <1>4, <1>5 DEF HasQuit
<1> QED
  BY <1>1, <1>3, <1>6 DEF Conversation

\* Whatever the client takes for QUIT ends the connection at the server too.
THEOREM QuitIsUnderstood == Spec => []QuitUnderstood
BY QuitEnds, Inductive, PTL
==========================================================================
