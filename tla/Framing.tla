----------------------------- MODULE Framing -----------------------------
(***************************************************************************)
(* What a text means as a sequence of messages, defined from the text as a *)
(* whole and not by the parser's loop: the reference against which         *)
(* MessageStream and ConnectionHandler compare what feed() returns.        *)
(***************************************************************************)
EXTENDS MessageParser, Subsequences

DelimitersIn(t) == {i \in 1 .. Len(t) : t[i] = Delimiter}

\* What stands between position i and the last delimiter in front of it.
LineBefore(t, i) ==
    SubSeq(t, Max({j \in DelimitersIn(t) : j < i} \cup {0}) + 1, i - 1)

\* What follows the last delimiter.
Partial(t) == LineBefore(t, Len(t) + 1)

\* The messages t consists of: its lines, trimmed, without the blank ones.
Messages(t) ==
    LET trimmed == [i \in 1 .. Len(t) |-> Trim(LineBefore(t, i))]
    IN Picked(trimmed, {i \in DelimitersIn(t) : trimmed[i] # <<>>})

\* Where a line of t ends, the unfinished one included.
LineEnds(t) == DelimitersIn(t) \cup {Len(t) + 1}

\* No line of t, finished or not, is longer than the limit.
WithinLimit(t) == \A i \in LineEnds(t) : ~TooLong(LineBefore(t, i))

\* message is what is left of the line that ends at i: all of it, or some end
\* of a line that is beyond the limit.
LeftOf(message, t, i) ==
    /\ message # <<>>
    /\ \E suffix \in Suffixes(LineBefore(t, i)) : message = Trim(suffix)
    /\ ~TooLong(LineBefore(t, i)) => message = Trim(LineBefore(t, i))

\* The line that ends at i need not yield a message: it is blank, or it is
\* beyond the limit or in front of a line that is.
MayBeMissing(t, i) ==
    \/ Trim(LineBefore(t, i)) = <<>>
    \/ \E j \in LineEnds(t) : j >= i /\ TooLong(LineBefore(t, j))

\* ms is what refusing overlong lines may leave of t: a strictly increasing
\* map takes each message to a line it is left of, so that no line yields two
\* and none is out of order, and misses only lines that may be missing.
Salvaged(ms, t) ==
    \E line \in [1 .. Len(ms) -> DelimitersIn(t)] :
        /\ \A j, k \in 1 .. Len(ms) : j < k => line[j] < line[k]
        /\ \A k \in 1 .. Len(ms) : LeftOf(ms[k], t, line[k])
        /\ \A i \in DelimitersIn(t) :
              MayBeMissing(t, i) \/ \E k \in 1 .. Len(ms) : line[k] = i
==========================================================================
