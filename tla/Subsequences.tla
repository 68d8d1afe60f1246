-------------------------- MODULE Subsequences --------------------------
(***************************************************************************)
(* The elements of a sequence at some of its positions, in order.  Unlike  *)
(* SelectSeq and SetToSortSeq of the libraries these are defined without   *)
(* recursion or sorting, so that SequenceLemmas can prove facts of them.   *)
(***************************************************************************)
EXTENDS Naturals, Sequences, FiniteSets

\* The k-th smallest element of S.
Nth(S, k) == CHOOSE i \in S : Cardinality({j \in S : j <= i}) = k

\* The elements of seq at the positions in S.
Picked(seq, S) == [k \in 1 .. Cardinality(S) |-> seq[Nth(S, k)]]

\* The elements of seq that belong to S.
Among(seq, S) == Picked(seq, {i \in 1 .. Len(seq) : seq[i] \in S})
==========================================================================
