-------------------------- MODULE FramingProofs --------------------------
(***************************************************************************)
(* What the loop of feed() computes, for every text: Extract, which cuts   *)
(* off one line after the other, agrees with Framing, which looks at the   *)
(* text as a whole; and framing does not care where a text is cut in two.  *)
(***************************************************************************)
EXTENDS Framing, SequenceLemmas

\* A name for the set of all characters that no prover looks behind.
Char == STRING

---------------------------------------------------------------------------
(* One character more. *)

\* One more character is one more delimiter, or none.
LEMMA DelimitersAppend ==
    ASSUME NEW t \in Seq(Char), NEW c \in Char
    PROVE  /\ DelimitersIn(t) \in SUBSET (1 .. Len(t))
           /\ c = Delimiter
                => DelimitersIn(Append(t, c)) = DelimitersIn(t) \cup {Len(t) + 1}
           /\ c # Delimiter => DelimitersIn(Append(t, c)) = DelimitersIn(t)
<1>1. /\ Len(Append(t, c)) = Len(t) + 1 /\ Len(t) \in Nat
      /\ Append(t, c)[Len(t) + 1] = c
      /\ \A i \in 1 .. Len(t) : Append(t, c)[i] = t[i]
  OBVIOUS
<1>2. 1 .. Len(t) + 1 = (1 .. Len(t)) \cup {Len(t) + 1}
  BY <1>1
<1> QED
  BY <1>1, <1>2 DEF DelimitersIn

\* Where the line in front of a position begins.
LEMMA LineStart ==
    ASSUME NEW C, NEW t \in Seq(C), NEW i \in 1 .. Len(t) + 1
    PROVE  LET ends == {j \in DelimitersIn(t) : j < i} \cup {0}
           IN /\ Max(ends) \in ends
              /\ Max(ends) \in 0 .. i - 1
              /\ \A j \in ends : j <= Max(ends)
<1> DEFINE ends == {j \in DelimitersIn(t) : j < i} \cup {0}
<1>1. Len(t) \in Nat /\ i - 1 \in Nat
  OBVIOUS
<1>2. ends \in SUBSET (0 .. i - 1) /\ ends # {}
  BY <1>1 DEF DelimitersIn
<1> HIDE DEF ends
<1>3. Max(ends) \in ends /\ \A j \in ends : Max(ends) >= j
  BY <1>1, <1>2, MaxOf
<1>4. \A j \in ends : j \in Int
  BY <1>2
<1> QED
  BY <1>2, <1>3, <1>4 DEF ends

\* No line holds a delimiter.
LEMMA LineBeforeFacts ==
    ASSUME NEW C, NEW t \in Seq(C), NEW i \in 1 .. Len(t) + 1
    PROVE  LineBefore(t, i) \in Seq(C) /\ DelimitersIn(LineBefore(t, i)) = {}
<1> DEFINE ends == {j \in DelimitersIn(t) : j < i} \cup {0}
           m == Max(ends)
           line == SubSeq(t, m + 1, i - 1)
<1>1. /\ m \in 0 .. i - 1
      /\ \A j \in ends : j <= m
  BY LineStart
<1>2. \A j \in DelimitersIn(t) : j < i => j <= m
  BY <1>1
<1> HIDE DEF m, ends
<1>3. /\ line \in Seq(C) /\ Len(line) = i - 1 - m
      /\ \A k \in 1 .. Len(line) : line[k] = t[m + k]
  BY <1>1
<1>4. \A k \in 1 .. i - 1 - m : t[m + k] # Delimiter
  BY <1>1, <1>2 DEF DelimitersIn
<1>5. LineBefore(t, i) = line
  BY DEF LineBefore, m, ends
<1> QED
  BY <1>3, <1>4, <1>5 DEF DelimitersIn

\* What is appended leaves the lines before it alone.
LEMMA LineBeforeAppend ==
    ASSUME NEW t \in Seq(Char), NEW c \in Char, NEW i \in 1 .. Len(t) + 1
    PROVE  LineBefore(Append(t, c), i) = LineBefore(t, i)
<1> DEFINE ends(x) == {j \in DelimitersIn(x) : j < i} \cup {0}
           m == Max(ends(t))
<1>1. ends(Append(t, c)) = ends(t)
  <2>1. Len(t) \in Nat /\ \A j \in Int : j < i => j # Len(t) + 1
    OBVIOUS
  <2>2. \A j \in Int : j < i => (j \in DelimitersIn(Append(t, c)) <=> j \in DelimitersIn(t))
    BY <2>1, DelimitersAppend
  <2>3. DelimitersIn(Append(t, c)) \subseteq Int /\ DelimitersIn(t) \subseteq Int
    <3>1. DelimitersIn(t) \subseteq Int
      BY DEF DelimitersIn
    <3> QED
      BY <2>1, <3>1, DelimitersAppend
  <2> QED
    BY <2>2, <2>3
<1>2. m \in 0 .. i - 1
  BY LineStart
<1>3. LineBefore(Append(t, c), i) = SubSeq(Append(t, c), m + 1, i - 1)
  BY <1>1 DEF LineBefore
<1>4. LineBefore(t, i) = SubSeq(t, m + 1, i - 1)
  BY DEF LineBefore
<1>5. m \in 0 .. Len(t) /\ i - 1 \in m .. Len(t)
  BY <1>2
<1> HIDE DEF m
<1> QED
  BY <1>3, <1>4, <1>5, SubSeqAppend

\* The unfinished line begins behind the last delimiter.
LEMMA PartialIs ==
    ASSUME NEW t \in Seq(Char)
    PROVE  LET ends == DelimitersIn(t) \cup {0}
           IN /\ Partial(t) = SubSeq(t, Max(ends) + 1, Len(t))
              /\ Max(ends) \in ends
              /\ Max(ends) \in 0 .. Len(t)
              /\ \A j \in ends : j <= Max(ends)
<1> DEFINE n == Len(t)
           i == n + 1
           ends == DelimitersIn(t) \cup {0}
           starts == {j \in DelimitersIn(t) : j < i} \cup {0}
<1>1. n \in Nat /\ i \in 1 .. Len(t) + 1 /\ i - 1 = n
  OBVIOUS
<1>2. starts = ends
  BY <1>1 DEF DelimitersIn
<1>3. /\ Max(starts) \in starts
      /\ Max(starts) \in 0 .. i - 1
      /\ \A j \in starts : j <= Max(starts)
  BY <1>1, LineStart
<1>4. LineBefore(t, i) = SubSeq(t, Max(starts) + 1, i - 1)
  BY DEF LineBefore
<1>5. Partial(t) = LineBefore(t, i)
  BY DEF Partial
<1> HIDE DEF starts, i
<1> QED
  BY <1>1, <1>2, <1>3, <1>4, <1>5

\* A character lengthens the unfinished line, a delimiter ends it.
LEMMA PartialAppend ==
    ASSUME NEW t \in Seq(Char), NEW c \in Char
    PROVE  /\ Partial(t) \in Seq(Char) /\ DelimitersIn(Partial(t)) = {}
           /\ c = Delimiter => Partial(Append(t, c)) = <<>>
           /\ c # Delimiter => Partial(Append(t, c)) = Append(Partial(t), c)
<1> DEFINE n == Len(t)
           k == n + 1
           t2 == Append(t, c)
           ends == DelimitersIn(t) \cup {0}
           ends2 == DelimitersIn(t2) \cup {0}
<1>1. n \in Nat /\ k \in Nat /\ t2 \in Seq(Char) /\ Len(t2) = k
  <2>1. t2 \in Seq(Char) /\ n \in Nat /\ Len(t2) = n + 1
    OBVIOUS
  <2> QED
    BY <2>1
<1>2. Partial(t) \in Seq(Char) /\ DelimitersIn(Partial(t)) = {}
  BY <1>1, LineBeforeFacts DEF Partial
<1>3. /\ Partial(t) = SubSeq(t, Max(ends) + 1, n)
      /\ Max(ends) \in 0 .. n
  BY PartialIs
<1>4. /\ Partial(t2) = SubSeq(t2, Max(ends2) + 1, k)
      /\ Max(ends2) \in 0 .. k
      /\ \A j \in ends2 : j <= Max(ends2)
  BY <1>1, PartialIs
<1> HIDE DEF ends, ends2, n
<1>5. CASE c = Delimiter
  <2>1. k \in ends2
    BY <1>5, DelimitersAppend DEF ends2, n
  <2>2. Max(ends2) = k
    BY <1>1, <1>4, <2>1
  <2> HIDE DEF k, t2
  <2>3. SubSeq(t2, k + 1, k) = <<>>
    BY <1>1
  <2> QED
    BY <1>2, <1>4, <1>5, <2>2, <2>3 DEF t2
<1>6. CASE c # Delimiter
  <2>1. ends2 = ends
    BY <1>6, DelimitersAppend DEF ends, ends2
  <2>2. SubSeq(t2, Max(ends) + 1, k) = Append(SubSeq(t, Max(ends) + 1, n), c)
    BY <1>3, SubSeqAppend DEF n
  <2> QED
    BY <1>2, <1>3, <1>4, <1>6, <2>1, <2>2
<1> QED
  BY <1>5, <1>6

\* Trimming shortens, to nothing only what is blank.
LEMMA TrimFacts ==
    ASSUME NEW C, NEW s \in Seq(C)
    PROVE  /\ Trim(s) \in Seq(C)
           /\ Len(Trim(s)) <= Len(s)
           /\ Trim(s) = <<>> <=> \A i \in 1 .. Len(s) : s[i] \in White
<1> DEFINE ink == {i \in 1 .. Len(s) : s[i] \notin White}
           n == Len(s)
<1>1. n \in Nat /\ ink \in SUBSET (0 .. n) /\ ink \in SUBSET Nat
  OBVIOUS
<1>2. CASE ink = {}
  <2>1. Trim(s) = <<>>
    BY <1>2 DEF Trim
  <2>2. <<>> \in Seq(C) /\ Len(<<>>) = 0
    OBVIOUS
  <2>3. \A i \in 1 .. Len(s) : s[i] \in White
    BY <1>2
  <2> QED
    BY <1>1, <2>1, <2>2, <2>3
<1>3. CASE ink # {}
  <2> DEFINE a == Min(ink)
             b == Max(ink)
  <2>1. Trim(s) = SubSeq(s, a, b)
    BY <1>3 DEF Trim
  <2>2. ~ \A i \in 1 .. Len(s) : s[i] \in White
    BY <1>3
  <2> HIDE DEF ink
  <2>3. a \in ink /\ b \in ink /\ b >= a
    BY <1>1, <1>3, MinOf, MaxOf
  <2>4. a \in 1 .. n /\ b \in a .. n
    BY <2>3 DEF ink
  <2> HIDE DEF a, b
  <2>5. SubSeq(s, a, b) \in Seq(C) /\ Len(SubSeq(s, a, b)) = b - a + 1
    BY <2>4
  <2>6. SubSeq(s, a, b) # <<>>
    BY <2>4, <2>5
  <2> QED
    BY <2>1, <2>2, <2>4, <2>5, <2>6
<1> QED
  BY <1>2, <1>3

\* The message a line makes, if it makes any.
MessageOf(text) == Push(Trim(text), <<>>)

\* A line is a message, or none if it is blank.
LEMMA LineFacts ==
    ASSUME NEW t \in Seq(Char)
    PROVE  /\ MessageOf(t) \in Seq(Seq(Char))
           /\ \A rest \in Seq(Seq(Char)) : MessageOf(t) \o rest = Push(Trim(t), rest)
<1> DEFINE m == Trim(t)
<1>1. m \in Seq(Char)
  BY TrimFacts
<1>2. CASE m = <<>>
  <2>1. MessageOf(t) = <<>> /\ \A rest : Push(m, rest) = rest
    BY <1>2 DEF MessageOf, Push
  <2> QED
    BY <2>1
<1>3. CASE m # <<>>
  <2>1. MessageOf(t) = <<m>> \o <<>> /\ \A rest : Push(m, rest) = <<m>> \o rest
    BY <1>3 DEF MessageOf, Push
  <2> HIDE DEF m
  <2>2. <<m>> \o <<>> = <<m>> /\ <<m>> \in Seq(Seq(Char))
    BY <1>1
  <2> QED
    BY <2>1, <2>2 DEF m
<1> QED
  BY <1>2, <1>3

\* The messages and the unfinished line are made of the text's characters.
LEMMA FramingTypes ==
    ASSUME NEW C, NEW t \in Seq(C)
    PROVE  /\ Messages(t) \in Seq(Seq(C))
           /\ Partial(t) \in Seq(C)
           /\ DelimitersIn(Partial(t)) = {}
<1> DEFINE T == Seq(C)
           trimmed == [i \in 1 .. Len(t) |-> Trim(LineBefore(t, i))]
           S == {i \in DelimitersIn(t) : trimmed[i] # <<>>}
<1>1. Len(t) \in Nat
  OBVIOUS
<1>2. Partial(t) \in Seq(C) /\ DelimitersIn(Partial(t)) = {}
  BY <1>1, LineBeforeFacts DEF Partial
<1>3. \A i \in 1 .. Len(t) : Trim(LineBefore(t, i)) \in T
  BY <1>1, LineBeforeFacts, TrimFacts
<1>4. trimmed \in Seq(T) /\ Len(trimmed) = Len(t)
  <2> HIDE DEF T
  <2> QED
    BY <1>1, <1>3
<1>5. S \in SUBSET (1 .. Len(trimmed))
  BY <1>4 DEF DelimitersIn
<1>6. Messages(t) = Picked(trimmed, S)
  BY DEF Messages
<1> HIDE DEF trimmed, S, T
<1> QED
  BY <1>2, <1>4, <1>5, <1>6, PickedType DEF T

\* A delimiter adds the message of the line it ends.
LEMMA MessagesAppend ==
    ASSUME NEW t \in Seq(Char), NEW c \in Char
    PROVE  /\ Messages(t) \in Seq(Seq(Char))
           /\ c # Delimiter => Messages(Append(t, c)) = Messages(t)
           /\ c = Delimiter => Messages(Append(t, c)) = Messages(t) \o MessageOf(Partial(t))
<1> DEFINE n == Len(t)
           t2 == Append(t, c)
           trimmed == [i \in 1 .. n |-> Trim(LineBefore(t, i))]
           trimmed2 == [i \in 1 .. n + 1 |-> Trim(LineBefore(t2, i))]
           m == Trim(Partial(t))
           S == {i \in DelimitersIn(t) : trimmed[i] # <<>>}
           S2 == {i \in DelimitersIn(t2) : trimmed2[i] # <<>>}
<1>1. n \in Nat /\ t2 \in Seq(Char) /\ Len(t2) = n + 1
  BY AppendFacts
<1>2. Messages(t) = Picked(trimmed, S)
  BY DEF Messages
<1>3. Messages(t2) = Picked(trimmed2, S2)
  BY <1>1 DEF Messages
<1> HIDE DEF t2
<1>4. \A i \in 1 .. n + 1 : LineBefore(t2, i) = LineBefore(t, i)
  BY LineBeforeAppend DEF t2
<1>5. \A i \in 1 .. n : Trim(LineBefore(t, i)) \in Seq(Char)
  BY <1>1, LineBeforeFacts, TrimFacts
<1>6. m \in Seq(Char) /\ LineBefore(t, n + 1) = Partial(t)
  BY PartialAppend, TrimFacts DEF Partial
<1>7. /\ trimmed \in Seq(Seq(Char)) /\ Len(trimmed) = n
      /\ \A i \in 1 .. n : trimmed[i] = Trim(LineBefore(t, i))
  BY <1>1, <1>5
<1>8. /\ \A i \in 1 .. n + 1 : trimmed2[i] = Trim(LineBefore(t2, i))
      /\ Len(trimmed2) = n + 1
  BY <1>1
<1>9. /\ \A i \in 1 .. n : trimmed2[i] = trimmed[i]
      /\ trimmed2[n + 1] = m
  BY <1>1, <1>4, <1>6, <1>7, <1>8
<1>10. trimmed2 \in Seq(Seq(Char))
  <2>1. \A i \in 1 .. n + 1 : Trim(LineBefore(t2, i)) \in Seq(Char)
    BY <1>1, LineBeforeFacts, TrimFacts
  <2> QED
    BY <1>1, <2>1
<1>11. DelimitersIn(t) \in SUBSET (1 .. n)
  BY DelimitersAppend
<1>12. S \in SUBSET (1 .. n) /\ S \in SUBSET (1 .. Len(trimmed))
  BY <1>7, <1>11
<1> HIDE DEF trimmed, trimmed2, m
<1>13. trimmed2 = Append(trimmed, m)
  <2>1. /\ Append(trimmed, m) \in Seq(Seq(Char))
        /\ Len(Append(trimmed, m)) = n + 1
        /\ Append(trimmed, m)[n + 1] = m
        /\ \A i \in 1 .. n : Append(trimmed, m)[i] = trimmed[i]
    BY <1>6, <1>7, AppendFacts
  <2>2. \A i \in 1 .. n + 1 : i = n + 1 \/ i \in 1 .. n
    BY <1>1
  <2>3. \A i \in 1 .. n + 1 : trimmed2[i] = Append(trimmed, m)[i]
    BY <1>9, <2>1, <2>2
  <2> QED
    BY <1>8, <1>10, <2>1, <2>3, SameElements
<1>14. /\ Picked(trimmed2, S) = Picked(trimmed, S)
       /\ Picked(trimmed2, S \cup {n + 1}) = Append(Picked(trimmed, S), m)
       /\ Picked(trimmed, S) \in Seq(Seq(Char))
  <2> DEFINE T == Seq(Char)
  <2>1. trimmed \in Seq(T) /\ m \in T /\ S \in SUBSET (1 .. Len(trimmed))
    BY <1>6, <1>7, <1>12
  <2> HIDE DEF S, T
  <2>2. Picked(trimmed, S) \in Seq(T)
    BY <2>1, PickedType
  <2>3. /\ Picked(Append(trimmed, m), S) = Picked(trimmed, S)
        /\ Picked(Append(trimmed, m), S \cup {Len(trimmed) + 1})
             = Append(Picked(trimmed, S), m)
    BY <2>1, PickedAppend
  <2> QED
    BY <1>7, <1>13, <2>2, <2>3 DEF T
<1>15. CASE c # Delimiter
  <2>1. S2 = S
    BY <1>9, <1>11, <1>15, DelimitersAppend DEF t2
  <2> QED
    BY <1>2, <1>3, <1>14, <1>15, <2>1 DEF t2
<1>16. CASE c = Delimiter
  <2>1. DelimitersIn(t2) = DelimitersIn(t) \cup {n + 1}
    BY <1>16, DelimitersAppend DEF t2
  <2>2. CASE m = <<>>
    <3>1. S2 = S
      BY <1>9, <1>11, <2>1, <2>2
    <3>2. MessageOf(Partial(t)) = <<>>
      BY <2>2 DEF MessageOf, Push, m
    <3>3. Picked(trimmed, S) \o <<>> = Picked(trimmed, S)
      BY <1>14
    <3> HIDE DEF S, S2
    <3> QED
      BY <1>2, <1>3, <1>14, <1>16, <3>1, <3>2, <3>3 DEF t2
  <2>3. CASE m # <<>>
    <3>1. S2 = S \cup {n + 1}
      BY <1>9, <1>11, <2>1, <2>3
    <3>2. MessageOf(Partial(t)) = <<m>> \o <<>>
      BY <2>3 DEF MessageOf, Push, m
    <3>3. Append(Picked(trimmed, S), m) = Picked(trimmed, S) \o (<<m>> \o <<>>)
      <4> HIDE DEF S
      <4> QED
        BY <1>6, <1>14
    <3> HIDE DEF S, S2
    <3> QED
      BY <1>2, <1>3, <1>14, <1>16, <3>1, <3>2, <3>3 DEF t2
  <2> QED
    BY <2>2, <2>3
<1> QED
  BY <1>15, <1>16

---------------------------------------------------------------------------
(* A text in two parts. *)

\* A text without a delimiter is one unfinished line.
LEMMA Unfinished ==
    ASSUME NEW t \in Seq(Char), DelimitersIn(t) = {}
    PROVE  Messages(t) = <<>> /\ Partial(t) = t
<1>1. Messages(t) = <<>>
  BY PickedEmpty DEF Messages
<1>2. Partial(t) = t
  <2> DEFINE ends == DelimitersIn(t) \cup {0}
  <2>1. Partial(t) = SubSeq(t, Max(ends) + 1, Len(t)) /\ Max(ends) \in ends
    BY PartialIs
  <2>2. Max(ends) = 0
    BY <2>1
  <2>3. Partial(t) = SubSeq(t, 1, Len(t))
    BY <2>1, <2>2
  <2> QED
    BY <2>3
<1> QED
  BY <1>1, <1>2

\* A text can be framed in two steps: what the first part leaves unfinished
\* is read together with the second part.
LEMMA FramingConcat ==
    ASSUME NEW t \in Seq(Char), NEW u \in Seq(Char)
    PROVE  /\ Messages(t \o u) = Messages(t) \o Messages(Partial(t) \o u)
           /\ Partial(t \o u) = Partial(Partial(t) \o u)
<1> DEFINE Holds(v) == /\ Messages(t \o v) = Messages(t) \o Messages(Partial(t) \o v)
                       /\ Partial(t \o v) = Partial(Partial(t) \o v)
           S == {v \in Seq(Char) : Holds(v)}
           p == Partial(t)
<1>1. p \in Seq(Char) /\ DelimitersIn(p) = {} /\ Messages(t) \in Seq(Seq(Char))
  BY FramingTypes
<1>2. Messages(p) = <<>> /\ Partial(p) = p
  BY <1>1, Unfinished
<1>3. <<>> \in S
  <2>1. t \o <<>> = t /\ p \o <<>> = p /\ Messages(t) \o <<>> = Messages(t)
    BY <1>1
  <2>2. <<>> \in Seq(Char)
    OBVIOUS
  <2>3. Holds(<<>>)
    BY <1>2, <2>1
  <2> QED
    BY <2>2, <2>3
<1>4. ASSUME NEW v \in Seq(Char), NEW c \in Char, v \in S
      PROVE  Append(v, c) \in S
  <2> DEFINE tv == t \o v
             pv == p \o v
  <2>1. /\ t \o Append(v, c) = Append(tv, c) /\ tv \in Seq(Char)
        /\ p \o Append(v, c) = Append(pv, c) /\ pv \in Seq(Char)
        /\ Append(v, c) \in Seq(Char)
    <3>1. tv \in Seq(Char) /\ pv \in Seq(Char)
      BY <1>1, ConcatFacts
    <3>2. t \o Append(v, c) = Append(tv, c)
      BY ConcatAppend
    <3>3. p \o Append(v, c) = Append(pv, c)
      BY <1>1, ConcatAppend
    <3>4. Append(v, c) \in Seq(Char)
      BY AppendFacts
    <3> QED
      BY <3>1, <3>2, <3>3, <3>4
  <2>2. Messages(tv) = Messages(t) \o Messages(pv) /\ Partial(tv) = Partial(pv)
    BY <1>4
  <2> HIDE DEF tv, pv, p
  <2>3. Messages(pv) \in Seq(Seq(Char)) /\ Messages(tv) \in Seq(Seq(Char))
    BY <2>1, MessagesAppend
  <2>4. CASE c # Delimiter
    <3>1. /\ Messages(Append(tv, c)) = Messages(tv)
          /\ Messages(Append(pv, c)) = Messages(pv)
          /\ Partial(Append(tv, c)) = Append(Partial(tv), c)
          /\ Partial(Append(pv, c)) = Append(Partial(pv), c)
      BY <2>1, <2>4, MessagesAppend, PartialAppend
    <3>2. Holds(Append(v, c))
      BY <2>1, <2>2, <3>1 DEF p
    <3> QED
      BY <2>1, <3>2
  <2>5. CASE c = Delimiter
    <3> DEFINE l == MessageOf(Partial(pv))
    <3>1. /\ Messages(Append(tv, c)) = Messages(tv) \o MessageOf(Partial(tv))
          /\ Messages(Append(pv, c)) = Messages(pv) \o l
          /\ Partial(Append(tv, c)) = <<>>
          /\ Partial(Append(pv, c)) = <<>>
      BY <2>1, <2>5, MessagesAppend, PartialAppend
    <3>2. l \in Seq(Seq(Char))
      BY <2>1, LineFacts, PartialAppend
    <3> HIDE DEF l
    <3>3. (Messages(t) \o Messages(pv)) \o l = Messages(t) \o (Messages(pv) \o l)
      <4> DEFINE T == Seq(Char)
      <4>1. Messages(t) \in Seq(T) /\ Messages(pv) \in Seq(T) /\ l \in Seq(T)
        BY <1>1, <2>3, <3>2
      <4> HIDE DEF T
      <4> QED
        BY <4>1, ConcatRegroups
    <3>4. Messages(Append(tv, c)) = Messages(t) \o Messages(Append(pv, c))
      BY <2>2, <3>1, <3>3 DEF l
    <3>5. Holds(Append(v, c))
      BY <2>1, <3>1, <3>4 DEF p
    <3> QED
      BY <2>1, <3>5
  <2> QED
    BY <2>4, <2>5
<1> HIDE DEF S
<1>5. \A v \in Seq(Char) : v \in S
  BY <1>3, <1>4, SeqInduction
<1> QED
  BY <1>5 DEF S

---------------------------------------------------------------------------
(* The loop of feed(). *)

\* indexOf() finds the first delimiter.
LEMMA IndexFacts ==
    ASSUME NEW t \in Seq(Char)
    PROVE  /\ IndexOfDelimiter(t) \in 0 .. Len(t)
           /\ IndexOfDelimiter(t) = 0 <=> DelimitersIn(t) = {}
           /\ IndexOfDelimiter(t) # 0 =>
                /\ t[IndexOfDelimiter(t)] = Delimiter
                /\ \A j \in 1 .. IndexOfDelimiter(t) - 1 : t[j] # Delimiter
<1> DEFINE I == DelimitersIn(t)
<1>1. IndexOfDelimiter(t) = IF I # {} THEN Min(I) ELSE 0
  BY DEF IndexOfDelimiter, SelectInSeq, DelimitersIn
<1>2. I \subseteq 1 .. Len(t) /\ I \in SUBSET Nat /\ Len(t) \in Nat
  BY DEF DelimitersIn
<1>3. CASE I = {}
  BY <1>1, <1>2, <1>3
<1>4. CASE I # {}
  <2> DEFINE i == Min(I)
  <2>1. IndexOfDelimiter(t) = i
    BY <1>1, <1>4
  <2> HIDE DEF I
  <2>2. i \in I /\ \A j \in I : i <= j
    BY <1>2, <1>4, MinOf
  <2> HIDE DEF i
  <2>3. i \in 1 .. Len(t) /\ t[i] = Delimiter
    BY <1>2, <2>2 DEF I, DelimitersIn
  <2>4. \A j \in 1 .. i - 1 : t[j] # Delimiter
    BY <2>2, <2>3 DEF I, DelimitersIn
  <2> QED
    BY <1>4, <2>1, <2>3, <2>4 DEF I
<1> QED
  BY <1>3, <1>4

\* The first line and the rest of a text.
LEMMA FirstLine ==
    ASSUME NEW t \in Seq(Char), NEW i \in 1 .. Len(t), t[i] = Delimiter,
           \A j \in 1 .. i - 1 : t[j] # Delimiter
    PROVE  LET u == SubSeq(t, i + 1, Len(t))
           IN /\ u \in Seq(Char) /\ Len(u) < Len(t)
              /\ Messages(t) = Push(Trim(SubSeq(t, 1, i - 1)), Messages(u))
              /\ Partial(t) = Partial(u)
<1> DEFINE n == Len(t)
           p == SubSeq(t, 1, i - 1)
           q == Append(p, Delimiter)
           u == SubSeq(t, i + 1, n)
<1>1. n \in Nat /\ i - 1 \in 0 .. Len(t) /\ n \in 0 .. Len(t) /\ i \in 0 .. n
  OBVIOUS
<1>2. /\ p \in Seq(Char) /\ Len(p) = i - 1
      /\ \A j \in 1 .. i - 1 : p[j] = t[j]
  OBVIOUS
<1>3. /\ u \in Seq(Char) /\ Len(u) = n - i
      /\ \A j \in 1 .. n - i : u[j] = t[i + j]
  BY <1>1, SubSeqFacts
<1>4. Delimiter \in Char
  OBVIOUS
<1> HIDE DEF p, u
<1>5. /\ q \in Seq(Char) /\ Len(q) = i /\ q[i] = Delimiter
      /\ \A j \in 1 .. i - 1 : q[j] = p[j]
  <2>1. Len(p) + 1 = i
    BY <1>2
  <2> QED
    BY <1>2, <1>4, <2>1, AppendFacts
<1> HIDE DEF q
<1>6. t = q \o u
  <2>1. /\ q \o u \in Seq(Char) /\ Len(q \o u) = n
        /\ \A j \in 1 .. i : (q \o u)[j] = q[j]
        /\ \A j \in 1 .. n - i : (q \o u)[i + j] = u[j]
    <3>1. /\ q \o u \in Seq(Char) /\ Len(q \o u) = Len(q) + Len(u)
          /\ \A j \in 1 .. Len(q) : (q \o u)[j] = q[j]
          /\ \A j \in 1 .. Len(u) : (q \o u)[Len(q) + j] = u[j]
      BY <1>3, <1>5, ConcatFacts
    <3>2. Len(q) = i /\ Len(u) = n - i /\ Len(q) + Len(u) = n
      BY <1>1, <1>3, <1>5
    <3> HIDE DEF n
    <3> QED
      BY <3>1, <3>2
  <2>2. \A j \in 1 .. n : (q \o u)[j] = t[j]
    <3> SUFFICES ASSUME NEW j \in 1 .. n PROVE (q \o u)[j] = t[j]
      OBVIOUS
    <3>1. CASE j \in 1 .. i - 1
      BY <1>2, <1>5, <2>1, <3>1
    <3>2. CASE j = i
      BY <1>5, <2>1, <3>2
    <3>3. CASE j \in i + 1 .. n
      <4> DEFINE k == j - i
      <4>1. k \in 1 .. n - i /\ i + k = j
        BY <1>1, <3>3
      <4> HIDE DEF k
      <4>2. (q \o u)[i + k] = t[i + k]
        BY <1>3, <2>1, <4>1
      <4> QED
        BY <4>1, <4>2
    <3>4. j \in 1 .. i - 1 \/ j = i \/ j \in i + 1 .. n
      BY <1>1
    <3> QED
      BY <3>1, <3>2, <3>3, <3>4
  <2> HIDE DEF n
  <2>3. Len(t) = n
    BY DEF n
  <2> QED
    BY <2>1, <2>2, <2>3, SameElements
<1>7. DelimitersIn(p) = {}
  BY <1>2 DEF DelimitersIn
<1>8. Messages(p) = <<>> /\ Partial(p) = p
  BY <1>2, <1>7, Unfinished
<1>9. Messages(q) = <<>> \o MessageOf(p) /\ Partial(q) = <<>>
  BY <1>2, <1>4, <1>8, MessagesAppend, PartialAppend DEF q
<1>10. MessageOf(p) \in Seq(Seq(Char)) /\ Messages(u) \in Seq(Seq(Char))
  BY <1>2, <1>3, LineFacts, MessagesAppend
<1>11. <<>> \o MessageOf(p) = MessageOf(p) /\ <<>> \o u = u
  BY <1>3, <1>10
<1>12. Messages(t) = MessageOf(p) \o Messages(u) /\ Partial(t) = Partial(u)
  <2>1. /\ Messages(q \o u) = Messages(q) \o Messages(Partial(q) \o u)
        /\ Partial(q \o u) = Partial(Partial(q) \o u)
    BY <1>3, <1>5, FramingConcat
  <2> QED
    BY <1>6, <1>9, <1>11, <2>1
<1>13. MessageOf(p) \o Messages(u) = Push(Trim(p), Messages(u))
  BY <1>2, <1>10, LineFacts
<1> QED
  BY <1>1, <1>3, <1>12, <1>13 DEF p, u

\* One turn of the loop, with f for what the others do.
Turn(f, t) ==
    LET i == IndexOfDelimiter(t)
        after == f[SubSeq(t, i + 1, Len(t))]
    IN IF i = 0
         THEN [messages |-> <<>>, rest |-> t]
         ELSE [messages |-> Push(Trim(SubSeq(t, 1, i - 1)), after.messages),
               rest |-> after.rest]

\* The loop is the function whose value is one turn of the loop.
LEMMA ExtractIs ==
    Extract = CHOOSE f : f = [t \in Seq(Char) |-> Turn(f, t)]
BY Zenon DEF Extract, Turn, Char

\* What the loop is meant to compute.
Framed == [t \in Seq(Char) |-> [messages |-> Messages(t), rest |-> Partial(t)]]

\* The reference has that property.
LEMMA FramedTurns ==
    ASSUME NEW t \in Seq(Char)
    PROVE  Turn(Framed, t) = Framed[t]
<1> DEFINE i == IndexOfDelimiter(t)
           u == SubSeq(t, i + 1, Len(t))
           after == Framed[u]
<1>1. Framed[t] = [messages |-> Messages(t), rest |-> Partial(t)]
  BY Zenon DEF Framed
<1>2. Turn(Framed, t) = IF i = 0
         THEN [messages |-> <<>>, rest |-> t]
         ELSE [messages |-> Push(Trim(SubSeq(t, 1, i - 1)), after.messages),
               rest |-> after.rest]
  BY Zenon DEF Turn
<1>3. CASE i = 0
  <2>1. Messages(t) = <<>> /\ Partial(t) = t
    BY <1>3, IndexFacts, Unfinished
  <2> QED
    BY <1>1, <1>2, <1>3, <2>1
<1>4. CASE i # 0
  <2>1. /\ i \in 1 .. Len(t)
        /\ t[i] = Delimiter
        /\ \A j \in 1 .. i - 1 : t[j] # Delimiter
    BY <1>4, IndexFacts
  <2> HIDE DEF i
  <2>2. /\ u \in Seq(Char)
        /\ Messages(t) = Push(Trim(SubSeq(t, 1, i - 1)), Messages(u))
        /\ Partial(t) = Partial(u)
    BY <2>1, FirstLine
  <2> HIDE DEF u
  <2>3. after = [messages |-> Messages(u), rest |-> Partial(u)]
    BY <2>2, Zenon DEF Framed
  <2>4. after.messages = Messages(u) /\ after.rest = Partial(u)
    BY <2>3
  <2> HIDE DEF after
  <2> QED
    BY <1>1, <1>2, <1>4, <2>2, <2>4
<1> QED
  BY <1>3, <1>4

\* Only one function can be what each turn makes of it: by induction on the
\* length of the text.
LEMMA TurnsUnique ==
    ASSUME NEW f, \A t \in Seq(Char) : f[t] = Turn(f, t),
           NEW g, \A t \in Seq(Char) : g[t] = Turn(g, t)
    PROVE  \A t \in Seq(Char) : f[t] = g[t]
<1> DEFINE P == {n \in Nat : \A t \in Seq(Char) : Len(t) <= n => f[t] = g[t]}
<1>1. ASSUME NEW t \in Seq(Char),
             \A u \in Seq(Char) : Len(u) < Len(t) => f[u] = g[u]
      PROVE  f[t] = g[t]
  <2> DEFINE i == IndexOfDelimiter(t)
             u == SubSeq(t, i + 1, Len(t))
  <2>1. f[t] = Turn(f, t) /\ g[t] = Turn(g, t)
    OBVIOUS
  <2>2. CASE i = 0
    <3>1. /\ Turn(f, t) = [messages |-> <<>>, rest |-> t]
          /\ Turn(g, t) = [messages |-> <<>>, rest |-> t]
      BY <2>2, Zenon DEF Turn
    <3> QED
      BY <2>1, <3>1
  <2>3. CASE i # 0
    <3>1. /\ i \in 1 .. Len(t)
          /\ t[i] = Delimiter
          /\ \A j \in 1 .. i - 1 : t[j] # Delimiter
      BY <2>3, IndexFacts
    <3> HIDE DEF i
    <3>2. u \in Seq(Char) /\ Len(u) < Len(t)
      BY <3>1, FirstLine
    <3>3. f[u] = g[u]
      BY <1>1, <3>2
    <3> HIDE DEF u
    <3>4. Turn(f, t) = [messages |-> Push(Trim(SubSeq(t, 1, i - 1)), f[u].messages),
                        rest |-> f[u].rest]
      BY <2>3, Zenon DEF Turn, i, u
    <3>5. Turn(g, t) = [messages |-> Push(Trim(SubSeq(t, 1, i - 1)), g[u].messages),
                        rest |-> g[u].rest]
      BY <2>3, Zenon DEF Turn, i, u
    <3> QED
      BY <2>1, <3>3, <3>4, <3>5, Zenon
  <2> QED
    BY <2>2, <2>3
<1>2. 0 \in P
  <2>1. \A t \in Seq(Char) : Len(t) <= 0 => \A u \in Seq(Char) : ~ (Len(u) < Len(t))
    OBVIOUS
  <2> QED
    BY <1>1, <2>1
<1>3. ASSUME NEW n \in Nat, n \in P
      PROVE  n + 1 \in P
  <2>1. \A t \in Seq(Char) : Len(t) <= n + 1
          => \A u \in Seq(Char) : Len(u) < Len(t) => Len(u) <= n
    OBVIOUS
  <2> QED
    BY <1>1, <1>3, <2>1
<1>4. \A n \in Nat : n \in P
  <2> HIDE DEF P
  <2> QED
    BY <1>2, <1>3, SetInduction
<1> QED
  BY <1>4

\* The loop of feed() finds the complete non-blank lines of the text and
\* leaves its unfinished line, whatever the text.
THEOREM ExtractExact ==
    ASSUME NEW t \in Seq(STRING)
    PROVE  Extract[t] = [messages |-> Messages(t), rest |-> Partial(t)]
<1> DEFINE IsFixed(f) == f = [s \in Seq(Char) |-> Turn(f, s)]
<1>1. IsFixed(Framed)
  <2>1. \A s \in Seq(Char) : Turn(Framed, s) = [messages |-> Messages(s), rest |-> Partial(s)]
    BY FramedTurns, Zenon DEF Framed
  <2>2. [s \in Seq(Char) |-> Turn(Framed, s)]
          = [s \in Seq(Char) |-> [messages |-> Messages(s), rest |-> Partial(s)]]
    BY <2>1, Zenon
  <2> QED
    BY <2>2, Zenon DEF Framed
<1>2. IsFixed(Extract)
  <2>1. Extract = CHOOSE f : IsFixed(f)
    BY ExtractIs, Zenon
  <2> HIDE DEF IsFixed
  <2> QED
    BY <1>1, <2>1, Zenon
<1>3. \A s \in Seq(Char) : Extract[s] = Turn(Extract, s)
  BY <1>2, Zenon
<1>4. \A s \in Seq(Char) : Framed[s] = Turn(Framed, s)
  BY FramedTurns
<1>5. Extract[t] = Framed[t]
  BY <1>3, <1>4, TurnsUnique, Zenon DEF Char
<1> QED
  BY <1>5, Zenon DEF Framed, Char

\* One call of feed().
LEMMA FeedIs ==
    ASSUME NEW b \in Seq(STRING), NEW u \in Seq(STRING)
    PROVE  LET rest == Partial(b \o u)
           IN /\ TooLong(rest) => Feed(b, u) = [messages |-> <<>>, buffer |-> <<>>,
                                                thrown |-> TRUE]
              /\ ~TooLong(rest) => Feed(b, u) = [messages |-> Messages(b \o u),
                                                 buffer |-> rest, thrown |-> FALSE]
<1> DEFINE t == b \o u
           result == Extract[t]
<1>1. t \in Seq(STRING)
  BY ConcatFacts
<1>2. result = [messages |-> Messages(t), rest |-> Partial(t)]
  BY <1>1, ExtractExact
<1>3. result.messages = Messages(t) /\ result.rest = Partial(t)
  BY <1>2
<1>4. Feed(b, u) = IF TooLong(result.rest)
         THEN [messages |-> <<>>, buffer |-> <<>>, thrown |-> TRUE]
         ELSE [messages |-> result.messages, buffer |-> result.rest, thrown |-> FALSE]
  BY Zenon DEF Feed
<1> HIDE DEF result, t
<1> QED
  BY <1>3, <1>4 DEF t

---------------------------------------------------------------------------
(* The length limit. *)

\* A text is not within the limit unless its beginnings are.
LEMMA LimitAppend ==
    ASSUME NEW t \in Seq(Char), NEW c \in Char, MaxMessageLength \in Nat,
           WithinLimit(Append(t, c))
    PROVE  WithinLimit(t)
<1> DEFINE n == Len(t)
           t2 == Append(t, c)
<1>1. n \in Nat /\ t2 \in Seq(Char) /\ Len(t2) = n + 1
  BY AppendFacts
<1>2. DelimitersIn(t) \in SUBSET (1 .. n) /\ DelimitersIn(t) \subseteq DelimitersIn(t2)
  BY DelimitersAppend
<1>3. \A i \in 1 .. n + 1 : LineBefore(t2, i) = LineBefore(t, i)
  BY LineBeforeAppend
<1>4. /\ \A i \in DelimitersIn(t2) : ~TooLong(LineBefore(t2, i))
      /\ ~TooLong(Partial(t2))
  BY DEF WithinLimit, LineEnds, Partial
<1> HIDE DEF t2
<1>5. \A i \in DelimitersIn(t) : ~TooLong(LineBefore(t, i))
  BY <1>1, <1>2, <1>3, <1>4
<1>6. ~TooLong(Partial(t))
  <2>1. CASE c = Delimiter
    <3>1. n + 1 \in DelimitersIn(t2)
      BY <2>1, DelimitersAppend DEF t2
    <3>2. LineBefore(t2, n + 1) = Partial(t)
      BY <1>1, <1>3 DEF Partial
    <3> QED
      BY <1>4, <3>1, <3>2
  <2>2. CASE c # Delimiter
    <3>1. Partial(t2) = Append(Partial(t), c) /\ Partial(t) \in Seq(Char)
      BY <2>2, PartialAppend DEF t2
    <3>2. Len(Partial(t2)) = Len(Partial(t)) + 1 /\ Len(Partial(t)) \in Nat
      BY <3>1, AppendFacts
    <3> QED
      BY <1>4, <3>2 DEF TooLong
  <2> QED
    BY <2>1, <2>2
<1> QED
  BY <1>5, <1>6 DEF WithinLimit, LineEnds, Partial

\* What has arrived of a text within the limit is within the limit.
LEMMA LimitPrefix ==
    ASSUME NEW t \in Seq(Char), NEW u \in Seq(Char), MaxMessageLength \in Nat,
           WithinLimit(t \o u)
    PROVE  WithinLimit(t)
<1> DEFINE S == {v \in Seq(Char) : WithinLimit(t \o v) => WithinLimit(t)}
<1>1. <<>> \in S
  <2>1. t \o <<>> = t /\ <<>> \in Seq(Char)
    OBVIOUS
  <2> QED
    BY <2>1
<1>2. ASSUME NEW v \in Seq(Char), NEW c \in Char, v \in S
      PROVE  Append(v, c) \in S
  <2>1. t \o Append(v, c) = Append(t \o v, c) /\ t \o v \in Seq(Char)
    BY ConcatAppend, ConcatFacts
  <2>2. WithinLimit(t \o Append(v, c)) => WithinLimit(t \o v)
    BY <2>1, LimitAppend
  <2>3. Append(v, c) \in Seq(Char)
    BY AppendFacts
  <2> QED
    BY <1>2, <2>2, <2>3
<1> HIDE DEF S
<1>3. \A v \in Seq(Char) : v \in S
  BY <1>1, <1>2, SeqInduction
<1> QED
  BY <1>3 DEF S

\* Within the limit the unfinished line is not refused.
LEMMA LimitOfPartial ==
    ASSUME NEW t \in Seq(Char), MaxMessageLength \in Nat, WithinLimit(t)
    PROVE  ~TooLong(Partial(t))
BY DEF WithinLimit, LineEnds, Partial

---------------------------------------------------------------------------
(* Ends of lines. *)

\* A suffix is what stands behind some position.
LEMMA SuffixFacts ==
    ASSUME NEW T, NEW s \in Seq(T), NEW x \in Suffixes(s)
    PROVE  \E m \in 0 .. Len(s) : x = SubSeq(s, m + 1, Len(s))
<1>1. Len(s) \in Nat /\ SubSeq(s, Len(s) + 1, Len(s)) = <<>>
  OBVIOUS
<1>2. CASE x = <<>>
  BY <1>1, <1>2
<1>3. CASE \E l \in 1 .. Len(s) : x = SubSeq(s, l, Len(s))
  <2>1. PICK l \in 1 .. Len(s) : x = SubSeq(s, l, Len(s))
    BY <1>3
  <2>2. l - 1 \in 0 .. Len(s) /\ l - 1 + 1 = l
    BY <1>1
  <2> QED
    BY <2>1, <2>2
<1> QED
  BY <1>2, <1>3 DEF Suffixes

\* What stands behind a position is a suffix.
LEMMA SuffixOf ==
    ASSUME NEW T, NEW s \in Seq(T), NEW m \in 0 .. Len(s)
    PROVE  SubSeq(s, m + 1, Len(s)) \in Suffixes(s)
<1>1. Len(s) \in Nat /\ SubSeq(s, Len(s) + 1, Len(s)) = <<>>
  OBVIOUS
<1>2. CASE m = Len(s)
  BY <1>1, <1>2 DEF Suffixes
<1>3. CASE m # Len(s)
  <2>1. m + 1 \in 1 .. Len(s)
    BY <1>1, <1>3
  <2> QED
    BY <2>1 DEF Suffixes
<1> QED
  BY <1>2, <1>3

\* Appending to both keeps a suffix a suffix.
LEMMA SuffixAppend ==
    ASSUME NEW T, NEW s \in Seq(T), NEW x \in Suffixes(s), NEW e \in T
    PROVE  /\ x \in Seq(T)
           /\ Append(x, e) \in Suffixes(Append(s, e))
<1>1. PICK m \in 0 .. Len(s) : x = SubSeq(s, m + 1, Len(s))
  BY SuffixFacts
<1>2. x \in Seq(T)
  BY <1>1
<1>3. SubSeq(Append(s, e), m + 1, Len(s) + 1) = Append(x, e)
  BY <1>1, SubSeqAppend
<1>4. /\ Append(s, e) \in Seq(T) /\ Len(Append(s, e)) = Len(s) + 1
      /\ m \in 0 .. Len(Append(s, e))
  BY AppendFacts
<1>5. SubSeq(Append(s, e), m + 1, Len(Append(s, e))) \in Suffixes(Append(s, e))
  BY <1>4, SuffixOf
<1> QED
  BY <1>2, <1>3, <1>4, <1>5

\* Where a whole line has nothing but white space, so has its end.
LEMMA SuffixFramed ==
    ASSUME NEW s \in Seq(Char), NEW x \in Suffixes(s)
    PROVE  /\ x \in Seq(Char)
           /\ DelimitersIn(s) = {} => DelimitersIn(x) = {}
           /\ Len(MessageOf(x)) <= Len(MessageOf(s))
           /\ Len(MessageOf(x)) \in Nat /\ Len(MessageOf(s)) \in Nat
<1> DEFINE n == Len(s)
<1>1. PICK m \in 0 .. n : x = SubSeq(s, m + 1, n)
  BY SuffixFacts
<1>2. /\ x \in Seq(Char) /\ Len(x) = n - m
      /\ \A i \in 1 .. n - m : x[i] = s[m + i]
  BY <1>1, SubSeqFacts
<1>3. \A i \in 1 .. n - m : m + i \in 1 .. n
  OBVIOUS
<1>4. DelimitersIn(s) = {} => DelimitersIn(x) = {}
  BY <1>2, <1>3 DEF DelimitersIn
<1>5. Trim(s) = <<>> => Trim(x) = <<>>
  BY <1>2, <1>3, TrimFacts
<1>6. \A y \in Seq(Char) : Len(MessageOf(y)) = IF Trim(y) = <<>> THEN 0 ELSE 1
  <2> SUFFICES ASSUME NEW y \in Seq(Char)
               PROVE  Len(MessageOf(y)) = IF Trim(y) = <<>> THEN 0 ELSE 1
    OBVIOUS
  <2> DEFINE m2 == Trim(y)
  <2>1. m2 \in Seq(Char)
    BY TrimFacts
  <2>2. MessageOf(y) = IF m2 = <<>> THEN <<>> ELSE <<m2>> \o <<>>
    BY Zenon DEF MessageOf, Push
  <2> HIDE DEF m2
  <2>3. Len(<<m2>> \o <<>>) = 1 /\ Len(<<>>) = 0
    BY <2>1
  <2> QED
    BY <2>2, <2>3 DEF m2
<1>7. /\ Len(MessageOf(x)) = IF Trim(x) = <<>> THEN 0 ELSE 1
      /\ Len(MessageOf(s)) = IF Trim(s) = <<>> THEN 0 ELSE 1
  BY <1>2, <1>6
<1> QED
  BY <1>2, <1>4, <1>5, <1>7

\* Behind an end of the unfinished line the parser finds no more messages
\* than behind the whole of it, and is left with an end of what is unfinished.
LEMMA MoreMessages ==
    ASSUME NEW t \in Seq(Char), NEW u \in Seq(Char), NEW b \in Suffixes(Partial(t))
    PROVE  /\ b \in Seq(Char)
           /\ Partial(b \o u) \in Suffixes(Partial(t \o u))
           /\ Len(Messages(t)) \in Nat /\ Len(Messages(b \o u)) \in Nat
           /\ Len(Messages(t \o u)) \in Nat
           /\ Len(Messages(t)) + Len(Messages(b \o u)) <= Len(Messages(t \o u))
<1> DEFINE Holds(v) ==
             /\ Partial(b \o v) \in Suffixes(Partial(t \o v))
             /\ Len(Messages(t)) + Len(Messages(b \o v)) <= Len(Messages(t \o v))
           S == {v \in Seq(Char) : Holds(v)}
<1>1. Partial(t) \in Seq(Char) /\ DelimitersIn(Partial(t)) = {}
  BY FramingTypes
<1>2. b \in Seq(Char) /\ DelimitersIn(b) = {}
  BY <1>1, SuffixFramed
<1>3. \A y \in Seq(Char) : Messages(y) \in Seq(Seq(Char)) /\ Len(Messages(y)) \in Nat
  <2> SUFFICES ASSUME NEW y \in Seq(Char)
               PROVE  Messages(y) \in Seq(Seq(Char)) /\ Len(Messages(y)) \in Nat
    OBVIOUS
  <2> DEFINE T == Seq(Char)
             my == Messages(y)
  <2>1. my \in Seq(T)
    BY FramingTypes
  <2> HIDE DEF T, my
  <2>2. Len(my) \in Nat
    BY <2>1
  <2> QED
    BY <2>1, <2>2 DEF T, my
<1>4. <<>> \in S
  <2>1. t \o <<>> = t /\ b \o <<>> = b /\ <<>> \in Seq(Char) /\ Len(<<>>) = 0
    BY <1>2
  <2>2. Messages(b) = <<>> /\ Partial(b) = b
    BY <1>2, Unfinished
  <2>3. Holds(<<>>)
    BY <1>3, <2>1, <2>2
  <2> QED
    BY <2>1, <2>3
<1>5. ASSUME NEW v \in Seq(Char), NEW c \in Char, v \in S
      PROVE  Append(v, c) \in S
  <2> DEFINE tv == t \o v
             bv == b \o v
             T == Seq(Char)
  <2>1. /\ t \o Append(v, c) = Append(tv, c) /\ tv \in Seq(Char)
        /\ b \o Append(v, c) = Append(bv, c) /\ bv \in Seq(Char)
        /\ Append(v, c) \in Seq(Char)
    <3>1. tv \in Seq(Char) /\ bv \in Seq(Char)
      BY <1>2, ConcatFacts
    <3>2. t \o Append(v, c) = Append(tv, c)
      BY ConcatAppend
    <3>3. b \o Append(v, c) = Append(bv, c)
      BY <1>2, ConcatAppend
    <3>4. Append(v, c) \in Seq(Char)
      BY AppendFacts
    <3> QED
      BY <3>1, <3>2, <3>3, <3>4
  <2>2. /\ Partial(bv) \in Suffixes(Partial(tv))
        /\ Len(Messages(t)) + Len(Messages(bv)) <= Len(Messages(tv))
    BY <1>5
  <2> HIDE DEF tv, bv
  <2>3. Partial(tv) \in Seq(Char) /\ Partial(bv) \in Seq(Char)
    BY <2>1, FramingTypes
  <2>4. CASE c # Delimiter
    <3>1. /\ Messages(Append(bv, c)) = Messages(bv)
          /\ Messages(Append(tv, c)) = Messages(tv)
          /\ Partial(Append(tv, c)) = Append(Partial(tv), c)
          /\ Partial(Append(bv, c)) = Append(Partial(bv), c)
      BY <2>1, <2>4, MessagesAppend, PartialAppend
    <3>2. Append(Partial(bv), c) \in Suffixes(Append(Partial(tv), c))
      BY <2>2, <2>3, SuffixAppend
    <3>3. Holds(Append(v, c))
      BY <2>1, <2>2, <3>1, <3>2
    <3> QED
      BY <2>1, <3>3
  <2>5. CASE c = Delimiter
    <3> DEFINE lb == MessageOf(Partial(bv))
               lt == MessageOf(Partial(tv))
               mb == Messages(bv)
               mt == Messages(tv)
    <3>1. /\ Messages(Append(bv, c)) = mb \o lb
          /\ Messages(Append(tv, c)) = mt \o lt
          /\ Partial(Append(tv, c)) = <<>>
          /\ Partial(Append(bv, c)) = <<>>
      BY <2>1, <2>5, MessagesAppend, PartialAppend
    <3>2. /\ lb \in Seq(T) /\ lt \in Seq(T) /\ mb \in Seq(T) /\ mt \in Seq(T)
          /\ Len(lb) <= Len(lt)
      BY <1>3, <2>1, <2>2, <2>3, LineFacts, SuffixFramed
    <3>3. <<>> \in Suffixes(<<>>)
      BY DEF Suffixes
    <3>4. Len(Messages(t)) + Len(mb \o lb) <= Len(mt \o lt)
      <4> HIDE DEF T, lb, lt
      <4>1. Len(Messages(t)) \in Nat
        BY <1>3
      <4>2. Len(Messages(t)) + Len(mb) <= Len(mt)
        BY <2>2
      <4> HIDE DEF mb, mt
      <4>3. Len(mb \o lb) = Len(mb) + Len(lb) /\ Len(mt \o lt) = Len(mt) + Len(lt)
        BY <3>2, ConcatFacts
      <4>4. Len(mb) \in Nat /\ Len(lb) \in Nat /\ Len(mt) \in Nat /\ Len(lt) \in Nat
        BY <3>2
      <4> QED
        BY <3>2, <4>1, <4>2, <4>3, <4>4
    <3>5. Holds(Append(v, c))
      BY <2>1, <3>1, <3>3, <3>4
    <3> QED
      BY <2>1, <3>5
  <2> QED
    BY <2>4, <2>5
<1> HIDE DEF S
<1>6. u \in S
  <2>1. \A v \in Seq(Char) : v \in S
    BY <1>4, <1>5, SeqInduction
  <2> QED
    BY <2>1
<1>7. b \o u \in Seq(Char) /\ t \o u \in Seq(Char)
  BY <1>2, ConcatFacts
<1> QED
  BY <1>2, <1>3, <1>6, <1>7 DEF S

\* What the parser holds of the unfinished line p: all of it, or an end of it
\* where p has been refused.
Remains(x, p) == x \in Suffixes(p) /\ (x = p \/ TooLong(p))

\* The beginning of a line is not longer than more of it.
LEMMA LongerStill ==
    ASSUME NEW p \in Seq(Char), NEW c \in Char, MaxMessageLength \in Nat, TooLong(p)
    PROVE  TooLong(Append(p, c))
<1>1. Len(Append(p, c)) = Len(p) + 1 /\ Len(p) \in Nat
  BY AppendFacts
<1> QED
  BY <1>1 DEF TooLong

\* The end of a line is not longer than the line.
LEMMA NoLongerEnd ==
    ASSUME NEW p \in Seq(Char), NEW x \in Suffixes(p), MaxMessageLength \in Nat,
           TooLong(x)
    PROVE  TooLong(p)
<1>1. PICK m \in 0 .. Len(p) : x = SubSeq(p, m + 1, Len(p))
  BY SuffixFacts
<1>2. Len(x) = Len(p) - m
  BY <1>1, SubSeqFacts
<1>3. Len(p) \in Nat
  OBVIOUS
<1> QED
  BY <1>2, <1>3 DEF TooLong

\* What a line has become stays so when the text grows.
LEMMA LeftAppend ==
    ASSUME NEW t \in Seq(Char), NEW c \in Char, NEW m, NEW i \in 1 .. Len(t) + 1
    PROVE  LeftOf(m, Append(t, c), i) <=> LeftOf(m, t, i)
<1>1. LineBefore(Append(t, c), i) = LineBefore(t, i)
  BY LineBeforeAppend
<1> QED
  BY <1>1, Zenon DEF LeftOf

\* What may be missing may be missing when the text has grown.
LEMMA MissingAppend ==
    ASSUME NEW t \in Seq(Char), NEW c \in Char, MaxMessageLength \in Nat,
           NEW i \in DelimitersIn(t), MayBeMissing(t, i)
    PROVE  MayBeMissing(Append(t, c), i)
<1> DEFINE n == Len(t)
           t2 == Append(t, c)
<1>1. n \in Nat /\ t2 \in Seq(Char) /\ Len(t2) = n + 1
  BY AppendFacts
<1>2. DelimitersIn(t) \in SUBSET (1 .. n) /\ DelimitersIn(t) \subseteq DelimitersIn(t2)
  BY DelimitersAppend
<1>3. \A j \in 1 .. n + 1 : LineBefore(t2, j) = LineBefore(t, j)
  BY LineBeforeAppend
<1> HIDE DEF t2
<1>4. CASE Trim(LineBefore(t, i)) = <<>>
  BY <1>1, <1>2, <1>3, <1>4 DEF MayBeMissing, t2
<1>5. CASE \E j \in LineEnds(t) : j >= i /\ TooLong(LineBefore(t, j))
  <2>1. PICK j \in LineEnds(t) : j >= i /\ TooLong(LineBefore(t, j))
    BY <1>5
  <2>2. CASE j \in DelimitersIn(t)
    <3>1. j \in LineEnds(t2) /\ LineBefore(t2, j) = LineBefore(t, j)
      BY <1>1, <1>2, <1>3, <2>2 DEF LineEnds
    <3> QED
      BY <2>1, <3>1 DEF MayBeMissing, t2
  <2>3. CASE j = n + 1
    <3>1. CASE c = Delimiter
      <4>1. n + 1 \in LineEnds(t2) /\ LineBefore(t2, n + 1) = LineBefore(t, n + 1)
        BY <1>1, <1>3, <3>1, DelimitersAppend DEF LineEnds, t2
      <4> QED
        BY <2>1, <2>3, <4>1 DEF MayBeMissing, t2
    <3>2. CASE c # Delimiter
      <4>1. Partial(t2) = Append(Partial(t), c) /\ Partial(t) \in Seq(Char)
        BY <3>2, PartialAppend DEF t2
      <4>2. TooLong(Partial(t2))
        BY <2>1, <2>3, <4>1, LongerStill DEF Partial
      <4>3. /\ Len(t2) + 1 \in LineEnds(t2) /\ Len(t2) + 1 >= i
            /\ TooLong(LineBefore(t2, Len(t2) + 1))
        BY <1>1, <1>2, <4>2 DEF LineEnds, Partial
      <4> QED
        BY <4>3 DEF MayBeMissing, t2
    <3> QED
      BY <3>1, <3>2
  <2> QED
    BY <2>1, <2>2, <2>3 DEF LineEnds
<1> QED
  BY <1>4, <1>5 DEF MayBeMissing

\* The map from messages to lines, whatever is missing.
Placed(ms, t, line) ==
    /\ line \in [1 .. Len(ms) -> DelimitersIn(t)]
    /\ \A j, k \in 1 .. Len(ms) : j < k => line[j] < line[k]
    /\ \A k \in 1 .. Len(ms) : LeftOf(ms[k], t, line[k])

\* The map stays one when the text grows.
LEMMA PlacedAppend ==
    ASSUME NEW t \in Seq(Char), NEW c \in Char, NEW ms, NEW line, Placed(ms, t, line)
    PROVE  Placed(ms, Append(t, c), line)
<1> DEFINE t2 == Append(t, c)
<1>1. DelimitersIn(t) \in SUBSET (1 .. Len(t)) /\ DelimitersIn(t) \subseteq DelimitersIn(t2)
  BY DelimitersAppend
<1>2. /\ line \in [1 .. Len(ms) -> DelimitersIn(t)]
      /\ \A j, k \in 1 .. Len(ms) : j < k => line[j] < line[k]
      /\ \A k \in 1 .. Len(ms) : LeftOf(ms[k], t, line[k])
  BY DEF Placed
<1>3. Len(t) \in Nat
  OBVIOUS
<1> HIDE DEF t2
<1>4. line \in [1 .. Len(ms) -> DelimitersIn(t2)]
  BY <1>1, <1>2
<1>5. ASSUME NEW k \in 1 .. Len(ms) PROVE LeftOf(ms[k], t2, line[k])
  <2>1. line[k] \in 1 .. Len(t) + 1 /\ LeftOf(ms[k], t, line[k])
    BY <1>1, <1>2, <1>3
  <2> QED
    BY <2>1, LeftAppend DEF t2
<1> QED
  BY <1>2, <1>4, <1>5 DEF Placed, t2

\* Behind a map that misses nothing it should not, nothing is missing.
LEMMA SalvagedIs ==
    ASSUME NEW ms, NEW t
    PROVE  Salvaged(ms, t) <=>
             \E line : /\ Placed(ms, t, line)
                       /\ \A i \in DelimitersIn(t) :
                            MayBeMissing(t, i) \/ \E k \in 1 .. Len(ms) : line[k] = i
BY Zenon DEF Salvaged, Placed

\* While an overlong line is unfinished, everything in front of it may be
\* missing.
LEMMA RefusedSalvaged ==
    ASSUME NEW t \in Seq(Char), NEW ms, NEW line, Placed(ms, t, line),
           TooLong(Partial(t))
    PROVE  Salvaged(ms, t)
<1>1. ASSUME NEW i \in DelimitersIn(t) PROVE MayBeMissing(t, i)
  <2>1. i \in 1 .. Len(t) /\ Len(t) \in Nat
    BY DEF DelimitersIn
  <2>2. /\ Len(t) + 1 \in LineEnds(t) /\ Len(t) + 1 >= i
        /\ TooLong(LineBefore(t, Len(t) + 1))
    BY <2>1 DEF LineEnds, Partial
  <2> QED
    BY <2>2 DEF MayBeMissing
<1> QED
  BY <1>1, SalvagedIs

\* The text with one more character that ends no line.
LEMMA SalvagedGrows ==
    ASSUME NEW t \in Seq(Char), NEW c \in Char, c # Delimiter, NEW ms,
           MaxMessageLength \in Nat, Salvaged(ms, t)
    PROVE  Salvaged(ms, Append(t, c))
<1> DEFINE t2 == Append(t, c)
<1>1. PICK line : /\ Placed(ms, t, line)
                  /\ \A i \in DelimitersIn(t) :
                       MayBeMissing(t, i) \/ \E k \in 1 .. Len(ms) : line[k] = i
  BY SalvagedIs
<1>2. Placed(ms, t2, line)
  BY <1>1, PlacedAppend
<1>3. DelimitersIn(t2) = DelimitersIn(t)
  BY DelimitersAppend
<1>4. ASSUME NEW i \in DelimitersIn(t2)
      PROVE  MayBeMissing(t2, i) \/ \E k \in 1 .. Len(ms) : line[k] = i
  <2>1. i \in DelimitersIn(t)
    BY <1>3
  <2>2. CASE MayBeMissing(t, i)
    BY <2>1, <2>2, MissingAppend
  <2>3. CASE \E k \in 1 .. Len(ms) : line[k] = i
    BY <2>3
  <2> QED
    BY <1>1, <2>1, <2>2, <2>3
<1> HIDE DEF t2
<1>5. Salvaged(ms, t2)
  BY <1>2, <1>4, SalvagedIs
<1> QED
  BY <1>5 DEF t2

\* The text with the end of a line of which the parser holds x.
LEMMA SalvagedLine ==
    ASSUME NEW t \in Seq(Char), NEW c \in Char, c = Delimiter,
           NEW ms \in Seq(Seq(Char)), MaxMessageLength \in Nat, Salvaged(ms, t),
           NEW x, Remains(x, Partial(t))
    PROVE  Salvaged(ms \o MessageOf(x), Append(t, c))
<1> DEFINE n == Len(t)
           t2 == Append(t, c)
           p == Partial(t)
           m == Trim(x)
           T == Seq(Char)
<1>1. PICK line : /\ Placed(ms, t, line)
                  /\ \A i \in DelimitersIn(t) :
                       MayBeMissing(t, i) \/ \E k \in 1 .. Len(ms) : line[k] = i
  BY SalvagedIs
<1>2. n \in Nat /\ p \in Seq(Char) /\ x \in Suffixes(p)
  BY FramingTypes DEF Remains
<1>3. x \in Seq(Char) /\ m \in T
  BY <1>2, SuffixFramed, TrimFacts
<1>4. /\ DelimitersIn(t) \in SUBSET (1 .. n)
      /\ DelimitersIn(t2) = DelimitersIn(t) \cup {n + 1}
  BY <1>2, DelimitersAppend
<1>5. LineBefore(t2, n + 1) = p /\ n + 1 \in LineEnds(t2)
  <2>1. LineBefore(t2, n + 1) = LineBefore(t, n + 1)
    BY <1>2, LineBeforeAppend
  <2> QED
    BY <1>4, <2>1 DEF Partial, LineEnds
<1>6. Placed(ms, t2, line)
  BY <1>1, <1>2, PlacedAppend
<1>7. \A i \in DelimitersIn(t) :
        MayBeMissing(t2, i) \/ \E k \in 1 .. Len(ms) : line[k] = i
  <2> SUFFICES ASSUME NEW i \in DelimitersIn(t)
               PROVE  MayBeMissing(t2, i) \/ \E k \in 1 .. Len(ms) : line[k] = i
    OBVIOUS
  <2>1. CASE MayBeMissing(t, i)
    BY <1>2, <2>1, MissingAppend
  <2>2. CASE \E k \in 1 .. Len(ms) : line[k] = i
    BY <2>2
  <2> QED
    BY <1>1, <2>1, <2>2
<1>8. MessageOf(x) = IF m = <<>> THEN <<>> ELSE <<m>> \o <<>>
  BY Zenon DEF MessageOf, Push
<1>9. /\ line \in [1 .. Len(ms) -> DelimitersIn(t)]
      /\ \A j, k \in 1 .. Len(ms) : j < k => line[j] < line[k]
  BY <1>1 DEF Placed
<1>10. \A k \in 1 .. Len(ms) : LeftOf(ms[k], t2, line[k])
  BY <1>6 DEF Placed
<1>11. x = p \/ TooLong(p)
  BY DEF Remains
<1> HIDE DEF t2, p, m, T
<1>12. CASE m = <<>>
  <2>1. ms \o <<>> = ms
    OBVIOUS
  <2>2. MayBeMissing(t2, n + 1)
    <3>1. CASE x = p
      BY <1>5, <1>12, <3>1 DEF MayBeMissing, m
    <3>2. CASE TooLong(p)
      BY <1>2, <1>5, <3>2 DEF MayBeMissing
    <3> QED
      BY <1>11, <3>1, <3>2
  <2>3. \A i \in DelimitersIn(t2) :
          MayBeMissing(t2, i) \/ \E k \in 1 .. Len(ms) : line[k] = i
    BY <1>4, <1>7, <2>2
  <2>4. Salvaged(ms, t2)
    BY <1>6, <2>3, SalvagedIs
  <2> QED
    BY <1>8, <1>12, <2>1, <2>4 DEF t2
<1>13. CASE m # <<>>
  <2> DEFINE l == Len(ms)
             more == Append(ms, m)
             line2 == [k \in 1 .. l + 1 |-> IF k \in 1 .. l THEN line[k] ELSE n + 1]
  <2>1. l \in Nat /\ more = ms \o MessageOf(x)
    <3>1. ms \in Seq(T)
      BY DEF T
    <3>2. l \in Nat /\ <<m>> \o <<>> = <<m>> /\ ms \o <<m>> = Append(ms, m)
      BY <1>3, <3>1
    <3> QED
      BY <1>8, <1>13, <3>2
  <2>2. /\ Len(more) = l + 1 /\ more[l + 1] = m
        /\ \A k \in 1 .. l : more[k] = ms[k]
    <3>1. ms \in Seq(T)
      BY DEF T
    <3> QED
      BY <1>3, <3>1
  <2> HIDE DEF more
  <2>3. l \in Nat /\ 1 .. Len(more) = 1 .. l + 1
    BY <2>1, <2>2
  <2> HIDE DEF l
  <2>4. line2 \in [1 .. Len(more) -> DelimitersIn(t2)]
    <3>1. \A k \in 1 .. l : line[k] \in DelimitersIn(t2)
      BY <1>4, <1>9 DEF l
    <3>2. n + 1 \in DelimitersIn(t2)
      BY <1>4
    <3> QED
      BY <2>3, <3>1, <3>2
  <2>5. \A j, k \in 1 .. Len(more) : j < k => line2[j] < line2[k]
    <3> SUFFICES ASSUME NEW j \in 1 .. l + 1, NEW k \in 1 .. l + 1, j < k
                 PROVE  line2[j] < line2[k]
      BY <2>3
    <3>1. j \in 1 .. l /\ line2[j] = line[j] /\ line[j] \in 1 .. n
      <4>1. j \in 1 .. l
        BY <2>3
      <4>2. line[j] \in DelimitersIn(t)
        BY <1>9, <4>1 DEF l
      <4> QED
        BY <1>4, <2>3, <4>1, <4>2
    <3>2. CASE k \in 1 .. l
      BY <1>9, <3>1, <3>2 DEF l
    <3>3. CASE k \notin 1 .. l
      BY <1>2, <3>1, <3>3
    <3> QED
      BY <3>2, <3>3
  <2>6. \A k \in 1 .. Len(more) : LeftOf(more[k], t2, line2[k])
    <3> SUFFICES ASSUME NEW k \in 1 .. l + 1 PROVE LeftOf(more[k], t2, line2[k])
      BY <2>3
    <3>1. CASE k \in 1 .. l
      <4>1. more[k] = ms[k] /\ line2[k] = line[k] /\ k \in 1 .. Len(ms)
        BY <2>2, <3>1 DEF l
      <4> HIDE DEF line2
      <4> QED
        BY <1>10, <4>1
    <3>2. CASE k \notin 1 .. l
      <4>1. k = l + 1 /\ more[k] = m /\ line2[k] = n + 1
        BY <2>2, <2>3, <3>2
      <4>2. LeftOf(m, t2, n + 1)
        <5>1. \E suffix \in Suffixes(LineBefore(t2, n + 1)) : m = Trim(suffix)
          BY <1>2, <1>5 DEF m
        <5>2. ~TooLong(LineBefore(t2, n + 1)) => m = Trim(LineBefore(t2, n + 1))
          BY <1>5, <1>11 DEF m
        <5> QED
          BY <1>13, <5>1, <5>2 DEF LeftOf
      <4> HIDE DEF line2
      <4> QED
        BY <4>1, <4>2
    <3> QED
      BY <3>1, <3>2
  <2>7. \A i \in DelimitersIn(t2) :
          MayBeMissing(t2, i) \/ \E k \in 1 .. Len(more) : line2[k] = i
    <3> SUFFICES ASSUME NEW i \in DelimitersIn(t2), ~MayBeMissing(t2, i)
                 PROVE  \E k \in 1 .. l + 1 : line2[k] = i
      BY <2>3
    <3>1. CASE i = n + 1
      <4>1. l + 1 \in 1 .. l + 1 /\ line2[l + 1] = i
        BY <2>3, <3>1
      <4> HIDE DEF line2
      <4> QED
        BY <4>1
    <3>2. CASE i # n + 1
      <4>1. PICK k \in 1 .. l : line[k] = i
        BY <1>4, <1>7, <3>2 DEF l
      <4>2. k \in 1 .. l + 1 /\ line2[k] = i
        BY <2>3, <4>1
      <4> HIDE DEF line2
      <4> QED
        BY <4>2
    <3> QED
      BY <3>1, <3>2
  <2> HIDE DEF line2
  <2>8. Salvaged(more, t2)
    <3>1. Placed(more, t2, line2)
      BY <2>4, <2>5, <2>6, Zenon DEF Placed
    <3> QED
      BY <2>7, <3>1, SalvagedIs
  <2> QED
    BY <2>1, <2>8 DEF t2
<1> QED
  BY <1>12, <1>13

\* It does not matter in which order three batches of messages are joined.
LEMMA MessagesRegroup ==
    ASSUME NEW s \in Seq(Seq(Char)), NEW t \in Seq(Seq(Char)), NEW u \in Seq(Seq(Char))
    PROVE  (s \o t) \o u = s \o (t \o u)
<1> DEFINE T == Seq(Char)
<1>1. s \in Seq(T) /\ t \in Seq(T) /\ u \in Seq(T)
  OBVIOUS
<1> HIDE DEF T
<1> QED
  BY <1>1

\* However much of the unfinished line the parser has lost, what it makes of
\* the text behind it adds up with what it had made of the text before.
LEMMA SalvagedConcat ==
    ASSUME NEW t \in Seq(Char), NEW u \in Seq(Char), NEW ms \in Seq(Seq(Char)),
           MaxMessageLength \in Nat, Salvaged(ms, t),
           NEW b, Remains(b, Partial(t))
    PROVE  /\ b \in Seq(Char)
           /\ Remains(Partial(b \o u), Partial(t \o u))
           /\ Salvaged(ms \o Messages(b \o u), t \o u)
           /\ TooLong(Partial(b \o u)) => Salvaged(ms, t \o u)
<1>0. PICK line : Placed(ms, t, line)
  BY SalvagedIs
<1> DEFINE Holds(v) ==
             /\ Remains(Partial(b \o v), Partial(t \o v))
             /\ Salvaged(ms \o Messages(b \o v), t \o v)
             /\ Placed(ms, t \o v, line)
           S == {v \in Seq(Char) : Holds(v)}
<1>1. Partial(t) \in Seq(Char) /\ DelimitersIn(Partial(t)) = {}
  BY FramingTypes
<1>2. b \in Seq(Char) /\ DelimitersIn(b) = {}
  BY <1>1, SuffixFramed DEF Remains
<1>3. <<>> \in S
  <2>1. t \o <<>> = t /\ b \o <<>> = b /\ ms \o <<>> = ms /\ <<>> \in Seq(Char)
    BY <1>2
  <2>2. Messages(b) = <<>> /\ Partial(b) = b
    BY <1>2, Unfinished
  <2>3. Holds(<<>>)
    BY <1>0, <2>1, <2>2
  <2> QED
    BY <2>1, <2>3
<1>4. ASSUME NEW v \in Seq(Char), NEW c \in Char, v \in S
      PROVE  Append(v, c) \in S
  <2> DEFINE tv == t \o v
             bv == b \o v
             T == Seq(Char)
             ms2 == ms \o Messages(bv)
  <2>1. /\ t \o Append(v, c) = Append(tv, c) /\ tv \in Seq(Char)
        /\ b \o Append(v, c) = Append(bv, c) /\ bv \in Seq(Char)
        /\ Append(v, c) \in Seq(Char)
    <3>1. tv \in Seq(Char) /\ bv \in Seq(Char)
      BY <1>2, ConcatFacts
    <3>2. t \o Append(v, c) = Append(tv, c)
      BY ConcatAppend
    <3>3. b \o Append(v, c) = Append(bv, c)
      BY <1>2, ConcatAppend
    <3>4. Append(v, c) \in Seq(Char)
      BY AppendFacts
    <3> QED
      BY <3>1, <3>2, <3>3, <3>4
  <2>2. /\ Remains(Partial(bv), Partial(tv))
        /\ Salvaged(ms2, tv)
        /\ Placed(ms, tv, line)
    BY <1>4
  <2> HIDE DEF tv, bv
  <2>3. /\ Messages(bv) \in Seq(T) /\ ms \in Seq(T)
        /\ Partial(tv) \in Seq(Char) /\ Partial(bv) \in Seq(Char)
    BY <2>1, FramingTypes
  <2>4. ms2 \in Seq(T)
    <3> HIDE DEF T
    <3> QED
      BY <2>3, ConcatFacts
  <2>5. Placed(ms, Append(tv, c), line)
    BY <2>1, <2>2, PlacedAppend
  <2>6. CASE c # Delimiter
    <3>1. /\ Messages(Append(bv, c)) = Messages(bv)
          /\ Partial(Append(tv, c)) = Append(Partial(tv), c)
          /\ Partial(Append(bv, c)) = Append(Partial(bv), c)
      BY <2>1, <2>6, MessagesAppend, PartialAppend
    <3>2. Remains(Append(Partial(bv), c), Append(Partial(tv), c))
      <4>1. Append(Partial(bv), c) \in Suffixes(Append(Partial(tv), c))
        BY <2>2, <2>3, SuffixAppend DEF Remains
      <4>2. TooLong(Partial(tv)) => TooLong(Append(Partial(tv), c))
        BY <2>3, LongerStill
      <4> QED
        BY <2>2, <4>1, <4>2 DEF Remains
    <3>3. Salvaged(ms2, Append(tv, c))
      <4> HIDE DEF ms2
      <4> QED
        BY <2>1, <2>2, <2>6, SalvagedGrows
    <3>4. Holds(Append(v, c))
      BY <2>1, <2>5, <3>1, <3>2, <3>3
    <3> QED
      BY <2>1, <3>4
  <2>7. CASE c = Delimiter
    <3> DEFINE l == MessageOf(Partial(bv))
    <3>1. /\ Messages(Append(bv, c)) = Messages(bv) \o l
          /\ Partial(Append(tv, c)) = <<>>
          /\ Partial(Append(bv, c)) = <<>>
      BY <2>1, <2>7, MessagesAppend, PartialAppend
    <3>2. l \in Seq(T)
      BY <2>3, LineFacts
    <3>3. Salvaged(ms2 \o l, Append(tv, c))
      <4> HIDE DEF ms2
      <4> QED
        BY <2>1, <2>2, <2>4, <2>7, SalvagedLine
    <3>4. ms2 \o l = ms \o (Messages(bv) \o l)
      <4>1. ms \in Seq(T) /\ Messages(bv) \in Seq(T) /\ l \in Seq(T)
        BY <2>3, <3>2
      <4> HIDE DEF l
      <4>2. (ms \o Messages(bv)) \o l = ms \o (Messages(bv) \o l)
        BY Zenon, <4>1, MessagesRegroup
      <4> QED
        BY <4>2
    <3>5. Remains(<<>>, <<>>)
      BY DEF Suffixes, Remains
    <3>6. Holds(Append(v, c))
      BY <2>1, <2>5, <3>1, <3>3, <3>4, <3>5
    <3> QED
      BY <2>1, <3>6
  <2> QED
    BY <2>6, <2>7
<1> HIDE DEF S
<1>5. u \in S
  <2>1. \A v \in Seq(Char) : v \in S
    BY <1>3, <1>4, SeqInduction
  <2> QED
    BY <2>1
<1>6. /\ Remains(Partial(b \o u), Partial(t \o u))
      /\ Salvaged(ms \o Messages(b \o u), t \o u)
      /\ Placed(ms, t \o u, line)
  BY <1>5 DEF S
<1>7. TooLong(Partial(b \o u)) => Salvaged(ms, t \o u)
  <2>1. t \o u \in Seq(Char)
    BY ConcatFacts
  <2>2. Partial(t \o u) \in Seq(Char)
    BY <2>1, FramingTypes
  <2>3. TooLong(Partial(b \o u)) => TooLong(Partial(t \o u))
    BY <1>6, <2>2, NoLongerEnd DEF Remains
  <2> QED
    BY <1>6, <2>1, <2>3, RefusedSalvaged
<1> QED
  BY <1>2, <1>6, <1>7

---------------------------------------------------------------------------
(* Decoding. *)

DecodedPieces(chunk) == [i \in 1 .. Len(chunk) |-> DecodeAt(chunk, i)]

\* What a byte becomes depends on its neighbours.
LEMMA DecodeAtCases ==
    ASSUME NEW s, NEW i
    PROVE  /\ s[i] = Lead /\ i < Len(s) /\ s[i + 1] = Cont => DecodeAt(s, i) = <<Wide>>
           /\ s[i] = Lead /\ ~(i < Len(s) /\ s[i + 1] = Cont)
                => DecodeAt(s, i) = <<Replacement>>
           /\ s[i] = Cont /\ i > 1 /\ s[i - 1] = Lead => DecodeAt(s, i) = <<>>
           /\ s[i] = Cont /\ ~(i > 1 /\ s[i - 1] = Lead) => DecodeAt(s, i) = <<Replacement>>
           /\ s[i] \notin {Lead, Cont} => DecodeAt(s, i) = <<s[i]>>
BY DEF DecodeAt, Lead, Cont

\* A chunk of the bytes of some characters decodes to those characters and
\* replacements.
LEMMA DecodeType ==
    ASSUME NEW C, NEW s \in Seq(C \cup {Lead, Cont}),
           \A i \in 1 .. Len(s) : s[i] = Lead => Wide \in C
    PROVE  /\ DecodedPieces(s) \in Seq(Seq(C \cup {Replacement}))
           /\ Decode(s) \in Seq(C \cup {Replacement})
<1> DEFINE D == C \cup {Replacement}
           T == Seq(D)
           pieces == DecodedPieces(s)
<1>1. \A d \in D : <<d>> \in T
  <2> HIDE DEF D
  <2> QED
    OBVIOUS
<1>2. <<>> \in T
  OBVIOUS
<1>3. ASSUME NEW i \in 1 .. Len(s)
      PROVE  DecodeAt(s, i) \in T
  <2>1. s[i] \in C \cup {Lead, Cont}
    OBVIOUS
  <2>2. CASE s[i] = Lead
    <3>1. DecodeAt(s, i) = <<Wide>> \/ DecodeAt(s, i) = <<Replacement>>
      BY <2>2, DecodeAtCases
    <3>2. Wide \in D /\ Replacement \in D
      BY <2>2
    <3> HIDE DEF D, T
    <3> QED
      BY <1>1, <3>1, <3>2
  <2>3. CASE s[i] = Cont
    <3>1. DecodeAt(s, i) = <<>> \/ DecodeAt(s, i) = <<Replacement>>
      BY <2>3, DecodeAtCases
    <3>2. Replacement \in D
      OBVIOUS
    <3> HIDE DEF D, T
    <3> QED
      BY <1>1, <1>2, <3>1, <3>2
  <2>4. CASE s[i] \notin {Lead, Cont}
    <3>1. DecodeAt(s, i) = <<s[i]>>
      BY <2>4, DecodeAtCases
    <3>2. s[i] \in D
      BY <2>1, <2>4
    <3> HIDE DEF D, T
    <3> QED
      BY <1>1, <3>1, <3>2
  <2> QED
    BY <2>2, <2>3, <2>4
<1>4. Len(s) \in Nat
  OBVIOUS
<1> HIDE DEF T
<1>5. pieces \in Seq(T)
  BY <1>3, <1>4 DEF DecodedPieces
<1>6. Decode(s) = FlattenSeq(pieces)
  BY DEF Decode, DecodedPieces
<1> HIDE DEF pieces, D
<1> QED
  BY <1>5, <1>6, FlattenType DEF T, pieces, D

\* Decoding in two parts is decoding the whole, unless the first part ends
\* inside a character.
LEMMA DecodeConcat ==
    ASSUME NEW C, NEW s \in Seq(C \cup {Lead, Cont}), NEW u \in Seq(C \cup {Lead, Cont}),
           \A i \in 1 .. Len(s) : s[i] = Lead => Wide \in C,
           \A i \in 1 .. Len(u) : u[i] = Lead => Wide \in C,
           s = <<>> \/ s[Len(s)] # Lead
    PROVE  Decode(s \o u) = Decode(s) \o Decode(u)
<1> DEFINE B == C \cup {Lead, Cont}
           D == C \cup {Replacement}
           T == Seq(D)
           su == s \o u
           n == Len(s)
           m == Len(u)
           f == DecodedPieces(s)
           g == DecodedPieces(u)
           h == DecodedPieces(su)
<1>1. n \in Nat /\ m \in Nat
  OBVIOUS
<1>2. /\ su \in Seq(B) /\ Len(su) = n + m
      /\ \A i \in 1 .. n : su[i] = s[i]
      /\ \A i \in 1 .. m : su[n + i] = u[i]
  <2> HIDE DEF B
  <2> QED
    BY ConcatFacts DEF B
<1>3. f \in Seq(T) /\ g \in Seq(T)
  BY DecodeType
<1>4. /\ Len(f) = n /\ \A i \in 1 .. n : f[i] = DecodeAt(s, i)
      /\ Len(g) = m /\ \A i \in 1 .. m : g[i] = DecodeAt(u, i)
  BY <1>1 DEF DecodedPieces
<1> HIDE DEF su
<1>5. Len(h) = n + m /\ h = [i \in 1 .. n + m |-> DecodeAt(su, i)]
  BY <1>1, <1>2 DEF DecodedPieces
<1>6. ASSUME NEW i \in 1 .. n PROVE DecodeAt(su, i) = f[i]
  <2>1. su[i] = s[i] /\ f[i] = DecodeAt(s, i)
    BY <1>2, <1>4
  <2>2. (i > 1 /\ su[i - 1] = Lead) <=> (i > 1 /\ s[i - 1] = Lead)
    <3>1. i > 1 => i - 1 \in 1 .. n
      BY <1>1
    <3> QED
      BY <1>2, <3>1
  <2>3. s[i] = Lead => ((i < Len(su) /\ su[i + 1] = Cont) <=> (i < Len(s) /\ s[i + 1] = Cont))
    <3> SUFFICES ASSUME s[i] = Lead
                 PROVE  (i < Len(su) /\ su[i + 1] = Cont) <=> (i < Len(s) /\ s[i + 1] = Cont)
      OBVIOUS
    <3>1. s # <<>> /\ s[n] # Lead
      <4>1. s # <<>>
        BY <1>1
      <4> QED
        BY <4>1
    <3>2. i # n
      BY <3>1
    <3>3. i + 1 \in 1 .. n /\ i < n /\ i < n + m
      BY <1>1, <3>2
    <3> QED
      BY <1>2, <3>3
  <2> QED
    BY <2>1, <2>2, <2>3, DecodeAtCases
<1>7. ASSUME NEW i \in 1 .. m PROVE DecodeAt(su, n + i) = g[i]
  <2>1. su[n + i] = u[i] /\ g[i] = DecodeAt(u, i)
    BY <1>2, <1>4
  <2>2. (n + i > 1 /\ su[n + i - 1] = Lead) <=> (i > 1 /\ u[i - 1] = Lead)
    <3>1. CASE i = 1
      <4>1. n + i - 1 = n /\ (n + i > 1 <=> n \in 1 .. n)
        BY <1>1, <3>1
      <4>2. n \in 1 .. n => su[n] # Lead
        <5> SUFFICES ASSUME n \in 1 .. n PROVE su[n] # Lead
          OBVIOUS
        <5>1. s # <<>>
          BY <1>1
        <5>2. s[n] # Lead
          BY <5>1
        <5> QED
          BY <1>2, <5>2
      <4> QED
        BY <3>1, <4>1, <4>2
    <3>2. CASE i # 1
      <4> DEFINE j == i - 1
      <4>1. j \in 1 .. m /\ n + i - 1 = n + j /\ i > 1 /\ n + i > 1
        BY <1>1, <3>2
      <4>2. su[n + j] = u[j]
        BY <1>2, <4>1
      <4> QED
        BY <4>1, <4>2
    <3> QED
      BY <3>1, <3>2
  <2>3. (n + i < Len(su) /\ su[n + i + 1] = Cont) <=> (i < Len(u) /\ u[i + 1] = Cont)
    <3>1. n + i < Len(su) <=> i < m
      BY <1>1, <1>2
    <3>2. i < m => su[n + i + 1] = u[i + 1]
      <4> DEFINE j == i + 1
      <4>1. i < m => j \in 1 .. m
        BY <1>1
      <4>2. n + i + 1 = n + j
        BY <1>1
      <4> HIDE DEF j
      <4>3. i < m => su[n + j] = u[j]
        BY <1>2, <4>1
      <4> QED
        BY <4>2, <4>3 DEF j
    <3> QED
      BY <3>1, <3>2
  <2> DEFINE k == n + i
  <2>4. /\ su[k] = u[i]
        /\ (k > 1 /\ su[k - 1] = Lead) <=> (i > 1 /\ u[i - 1] = Lead)
        /\ (k < Len(su) /\ su[k + 1] = Cont) <=> (i < Len(u) /\ u[i + 1] = Cont)
    BY <2>1, <2>2, <2>3
  <2> HIDE DEF k
  <2>5. DecodeAt(su, k) = DecodeAt(u, i)
    BY <2>4, DecodeAtCases
  <2> QED
    BY <2>1, <2>5 DEF k
<1>8. h = f \o g
  <2> HIDE DEF f, g, h, T, n, m
  <2>1. /\ f \o g \in Seq(T) /\ Len(f \o g) = n + m
        /\ \A i \in 1 .. n : (f \o g)[i] = f[i]
        /\ \A i \in 1 .. m : (f \o g)[n + i] = g[i]
    <3>1. /\ f \o g \in Seq(T) /\ Len(f \o g) = Len(f) + Len(g)
          /\ \A i \in 1 .. Len(f) : (f \o g)[i] = f[i]
          /\ \A i \in 1 .. Len(g) : (f \o g)[Len(f) + i] = g[i]
      BY <1>3, ConcatFacts
    <3> QED
      BY <1>4, <3>1
  <2>2. \A i \in 1 .. n + m : i \in 1 .. n \/ \E j \in 1 .. m : i = n + j
    <3> SUFFICES ASSUME NEW i \in 1 .. n + m, i \notin 1 .. n
                 PROVE  i - n \in 1 .. m /\ i = n + (i - n)
      OBVIOUS
    <3> QED
      BY <1>1
  <2>3. \A i \in 1 .. n + m : DecodeAt(su, i) = (f \o g)[i]
    BY <1>6, <1>7, <2>1, <2>2
  <2>4. \A i \in 1 .. n + m : (f \o g)[i] \in T
    BY <2>1
  <2>5. h \in Seq(T)
    <3>1. \A i \in 1 .. n + m : DecodeAt(su, i) \in T
      BY <2>3, <2>4
    <3> QED
      BY <1>1, <1>5, <3>1
  <2>6. \A i \in 1 .. n + m : h[i] = (f \o g)[i]
    BY <1>5, <2>3
  <2> QED
    BY <1>5, <2>1, <2>5, <2>6, SameElements
<1>9. FlattenSeq(f \o g) = FlattenSeq(f) \o FlattenSeq(g)
  <2> HIDE DEF f, g, D
  <2> QED
    BY <1>3, FlattenConcat
<1>10. /\ Decode(s) = FlattenSeq(f) /\ Decode(u) = FlattenSeq(g)
       /\ Decode(su) = FlattenSeq(h)
  BY DEF Decode, DecodedPieces
<1> QED
  BY <1>8, <1>9, <1>10 DEF su

\* A chunk of one-byte characters is its own text.
LEMMA DecodePlain ==
    ASSUME NEW C, NEW s \in Seq(C), Lead \notin C, Cont \notin C
    PROVE  Decode(s) = s
<1> DEFINE Singles(x) == [i \in 1 .. Len(x) |-> <<x[i]>>]
           S == {x \in Seq(C) : FlattenSeq(Singles(x)) = x}
<1>1. Decode(s) = FlattenSeq(Singles(s))
  <2>1. \A i \in 1 .. Len(s) : s[i] \in C
    OBVIOUS
  <2>2. \A i \in 1 .. Len(s) : DecodeAt(s, i) = <<s[i]>>
    BY <2>1, DecodeAtCases
  <2>3. [i \in 1 .. Len(s) |-> DecodeAt(s, i)] = Singles(s)
    BY <2>2, Zenon
  <2> QED
    BY <2>3, Zenon DEF Decode
<1>2. <<>> \in S
  <2>1. Singles(<<>>) = <<>>
    OBVIOUS
  <2>2. <<>> \in Seq(C)
    OBVIOUS
  <2> QED
    BY <2>1, <2>2, FlattenEmpty
<1>3. ASSUME NEW x \in Seq(C), NEW e \in C, x \in S
      PROVE  Append(x, e) \in S
  <2> DEFINE T == Seq(C)
             x2 == Append(x, e)
  <2>1. /\ x2 \in Seq(C) /\ Len(x2) = Len(x) + 1 /\ Len(x) \in Nat
        /\ x2[Len(x) + 1] = e /\ \A i \in 1 .. Len(x) : x2[i] = x[i]
    BY AppendFacts
  <2>2. \A y \in C : <<y>> \in T
    OBVIOUS
  <2>3. \A y \in Seq(C) : Singles(y) \in Seq(T) /\ Len(Singles(y)) = Len(y)
                          /\ \A i \in 1 .. Len(y) : Singles(y)[i] = <<y[i]>>
    <3> SUFFICES ASSUME NEW y \in Seq(C)
                 PROVE  Singles(y) \in Seq(T) /\ Len(Singles(y)) = Len(y)
                        /\ \A i \in 1 .. Len(y) : Singles(y)[i] = <<y[i]>>
      OBVIOUS
    <3>1. Len(y) \in Nat /\ \A i \in 1 .. Len(y) : <<y[i]>> \in T
      BY <2>2
    <3> HIDE DEF T
    <3> QED
      BY <3>1
  <2> HIDE DEF x2
  <2>4. Singles(x2) = Append(Singles(x), <<e>>)
    <3> DEFINE a == Singles(x)
               b == Singles(x2)
               n == Len(x)
    <3>1. /\ a \in Seq(T) /\ Len(a) = n /\ \A i \in 1 .. n : a[i] = <<x[i]>>
          /\ b \in Seq(T) /\ Len(b) = n + 1 /\ \A i \in 1 .. n + 1 : b[i] = <<x2[i]>>
      BY <2>1, <2>3
    <3>2. <<e>> \in T
      BY <2>2
    <3> HIDE DEF a, b, T
    <3>3. /\ Append(a, <<e>>) \in Seq(T) /\ Len(Append(a, <<e>>)) = n + 1
          /\ Append(a, <<e>>)[n + 1] = <<e>>
          /\ \A i \in 1 .. n : Append(a, <<e>>)[i] = a[i]
      BY <3>1, <3>2, AppendFacts
    <3>4. \A i \in 1 .. n + 1 : i = n + 1 \/ i \in 1 .. n
      BY <2>1
    <3>5. \A i \in 1 .. n + 1 : b[i] = Append(a, <<e>>)[i]
      BY <2>1, <3>1, <3>3, <3>4
    <3>6. b = Append(a, <<e>>)
      BY <3>1, <3>3, <3>5, SameElements
    <3> QED
      BY <3>6 DEF a, b
  <2>5. FlattenSeq(Append(Singles(x), <<e>>)) = FlattenSeq(Singles(x)) \o <<e>>
    <3>1. Singles(x) \in Seq(Seq(C)) /\ <<e>> \in Seq(C)
      BY <2>3
    <3> HIDE DEF Singles
    <3> QED
      BY <3>1, FlattenAppend
  <2>6. FlattenSeq(Singles(x)) = x
    BY <1>3
  <2>7. x \o <<e>> = Append(x, e)
    OBVIOUS
  <2>8. FlattenSeq(Singles(x2)) = x2
    BY <2>4, <2>5, <2>6, <2>7, Zenon DEF x2
  <2> HIDE DEF Singles
  <2> QED
    BY <2>1, <2>8 DEF x2
<1> HIDE DEF S
<1>4. \A x \in Seq(C) : x \in S
  BY <1>2, <1>3, SeqInduction
<1> QED
  BY <1>1, <1>4 DEF S
==========================================================================
