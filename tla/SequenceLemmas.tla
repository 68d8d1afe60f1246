------------------------- MODULE SequenceLemmas -------------------------
(***************************************************************************)
(* Facts about finite sets of numbers and about sequences that the proofs  *)
(* of the other modules cite.  Induction is by way of sets: SetInduction   *)
(* follows from the well-foundedness of < on Nat, whose theorem (WFMin)    *)
(* speaks of sets and not of predicates.                                   *)
(***************************************************************************)
EXTENDS Integers, Subsequences, SequencesExt, TLAPS, WellFoundedInduction,
        FiniteSetTheorems, SequenceTheorems

---------------------------------------------------------------------------
(* Induction. *)

\* A set that contains 0 and the successor of each of its numbers contains
\* every number: otherwise there is a least one outside.
LEMMA SetInduction ==
    ASSUME NEW S, 0 \in S, \A n \in Nat : n \in S => n + 1 \in S
    PROVE  \A n \in Nat : n \in S
<1> DEFINE T == {n \in Nat : n \notin S}
           R == OpToRel(<, Nat)
<1>1. SUFFICES ASSUME T # {} PROVE FALSE
  OBVIOUS
<1>2. \E x \in T : \A y \in T : <<y, x>> \notin R
  <2>1. IsWellFoundedOn(R, Nat)
    BY NatLessThanWellFounded
  <2>2. T \subseteq Nat
    OBVIOUS
  <2> HIDE DEF R, T
  <2> QED
    BY <1>1, <2>1, <2>2, WFMin
<1>3. PICK x \in T : \A y \in T : <<y, x>> \notin R
  BY <1>2
<1>4. x - 1 \in Nat /\ x - 1 \in S
  <2>1. x \in Nat /\ x # 0
    OBVIOUS
  <2>2. x - 1 \in Nat /\ <<x - 1, x>> \in R
    BY <2>1 DEF OpToRel
  <2> QED
    BY <2>2, <1>3
<1> QED
  BY <1>4

---------------------------------------------------------------------------
(* Finite sets of numbers. *)

\* A non-empty set of numbers up to a bound has a greatest element.
LEMMA MaxExists ==
    ASSUME NEW n \in Nat, NEW S \in SUBSET (0 .. n), S # {}
    PROVE  \E x \in S : \A y \in S : x >= y
<1> DEFINE P == {m \in Nat : \A U \in SUBSET (0 .. m) : U # {}
                                => \E x \in U : \A y \in U : x >= y}
<1>1. 0 \in P
  <2> SUFFICES ASSUME NEW U \in SUBSET (0 .. 0), U # {}
               PROVE  \E x \in U : \A y \in U : x >= y
    OBVIOUS
  <2>1. PICK x \in U : TRUE
    OBVIOUS
  <2>2. \A y \in U : x >= y
    OBVIOUS
  <2> QED
    BY <2>1, <2>2
<1>2. ASSUME NEW m \in Nat, m \in P
      PROVE  m + 1 \in P
  <2> SUFFICES ASSUME NEW U \in SUBSET (0 .. m + 1), U # {}
               PROVE  \E x \in U : \A y \in U : x >= y
    OBVIOUS
  <2>1. CASE m + 1 \in U
    BY <2>1
  <2>2. CASE m + 1 \notin U
    <3>1. U \in SUBSET (0 .. m)
      BY <2>2
    <3> QED
      BY <3>1, <1>2
  <2> QED
    BY <2>1, <2>2
<1>3. \A m \in Nat : m \in P
  <2> HIDE DEF P
  <2> QED
    BY <1>1, <1>2, SetInduction
<1> QED
  BY <1>3

\* Max is such an element.
LEMMA MaxOf ==
    ASSUME NEW n \in Nat, NEW S \in SUBSET (0 .. n), S # {}
    PROVE  Max(S) \in S /\ \A y \in S : Max(S) >= y
BY MaxExists DEF Max

\* A non-empty set of numbers has a least element.
LEMMA MinOf ==
    ASSUME NEW S \in SUBSET Nat, S # {}
    PROVE  Min(S) \in S /\ \A y \in S : Min(S) <= y
<1> DEFINE P == {m \in Nat : \A y \in S : m <= y}
<1>1. \E x \in S : \A y \in S : x <= y
  <2>1. SUFFICES ASSUME \A x \in S : \E y \in S : ~ (x <= y) PROVE FALSE
    OBVIOUS
  <2>2. 0 \in P
    OBVIOUS
  <2>3. \A m \in Nat : m \in P => m + 1 \in P
    BY <2>1
  <2>4. \A m \in Nat : m \in P
    <3> HIDE DEF P
    <3> QED
      BY <2>2, <2>3, SetInduction
  <2>5. PICK x \in S : TRUE
    OBVIOUS
  <2>6. x + 1 <= x
    BY <2>4, <2>5
  <2> QED
    BY <2>5, <2>6
<1> QED
  BY <1>1 DEF Min

---------------------------------------------------------------------------
(* The k-th smallest element of a set, and picked subsequences. *)

\* How many elements of S are up to i.
Rank(S, i) == Cardinality({j \in S : j <= i})

\* A set of positions has a number of elements up to each position.
LEMMA UpTo ==
    ASSUME NEW n \in Nat, NEW S \in SUBSET (1 .. n)
    PROVE  /\ IsFiniteSet(S) /\ Cardinality(S) \in Nat
           /\ \A i \in Int : /\ IsFiniteSet({j \in S : j <= i})
                             /\ Rank(S, i) \in 0 .. Cardinality(S)
<1>1. IsFiniteSet(1 .. n)
  BY FS_Interval
<1>2. IsFiniteSet(S) /\ Cardinality(S) \in Nat
  BY <1>1, FS_Subset, FS_CardinalityType
<1>3. ASSUME NEW i \in Int
      PROVE  /\ IsFiniteSet({j \in S : j <= i})
             /\ Rank(S, i) \in 0 .. Cardinality(S)
  <2> DEFINE U == {j \in S : j <= i}
  <2>1. U \in SUBSET S
    OBVIOUS
  <2> HIDE DEF U
  <2>2. IsFiniteSet(U) /\ Cardinality(U) <= Cardinality(S)
    BY <1>2, <2>1, FS_Subset
  <2>3. Cardinality(U) \in Nat
    BY <2>2, FS_CardinalityType
  <2>4. Cardinality(U) \in 0 .. Cardinality(S)
    BY <1>2, <2>2, <2>3
  <2> QED
    BY <2>2, <2>4 DEF U, Rank
<1> QED
  BY <1>2, <1>3

\* No two elements have the same rank.
LEMMA RankInjective ==
    ASSUME NEW n \in Nat, NEW S \in SUBSET (1 .. n),
           NEW i \in S, NEW j \in S, Rank(S, i) = Rank(S, j)
    PROVE  i = j
<1>1. ASSUME NEW a \in S, NEW b \in S, a < b, Rank(S, a) = Rank(S, b)
      PROVE  FALSE
  <2> DEFINE A == {x \in S : x <= a}
             B == {x \in S : x <= b}
  <2>1. A \in SUBSET B /\ A # B
    <3>1. b \in B /\ b \notin A
      BY <1>1
    <3>2. \A x \in S : x \in Int
      OBVIOUS
    <3>3. A \subseteq B
      <4> SUFFICES ASSUME NEW x \in A PROVE x \in B
        OBVIOUS
      <4>1. x \in Int /\ a \in Int /\ b \in Int
        BY <3>2
      <4> QED
        BY <4>1, <1>1
    <3> QED
      BY <3>1, <3>3
  <2>2. IsFiniteSet(B)
    BY UpTo
  <2>3. Cardinality(A) = Cardinality(B)
    BY <1>1 DEF Rank
  <2> HIDE DEF A, B
  <2> QED
    BY <2>1, <2>2, <2>3, FS_Subset
<1>2. i \in Int /\ j \in Int
  OBVIOUS
<1> QED
  BY <1>1, <1>2

\* An element is the Nth of its rank.
LEMMA NthOfRank ==
    ASSUME NEW n \in Nat, NEW S \in SUBSET (1 .. n), NEW i \in S
    PROVE  Nth(S, Rank(S, i)) = i
<1> DEFINE k == Rank(S, i)
<1>1. i \in S /\ Cardinality({j \in S : j <= i}) = k
  BY DEF Rank
<1> HIDE DEF k
<1>2. Nth(S, k) \in S /\ Cardinality({j \in S : j <= Nth(S, k)}) = k
  BY <1>1 DEF Nth
<1>3. Rank(S, Nth(S, k)) = Rank(S, i)
  BY <1>2 DEF Rank, k
<1> QED
  BY <1>2, <1>3, RankInjective DEF k

\* A greater element comes last and leaves the others their ranks.
LEMMA RankAdd ==
    ASSUME NEW n \in Nat, NEW S \in SUBSET (1 .. n)
    PROVE  /\ Cardinality(S \cup {n + 1}) = Cardinality(S) + 1
           /\ Rank(S \cup {n + 1}, n + 1) = Cardinality(S) + 1
           /\ \A i \in S : Rank(S \cup {n + 1}, i) = Rank(S, i)
<1> DEFINE T == S \cup {n + 1}
<1>1. Cardinality(T) = Cardinality(S) + 1
  <2>1. n + 1 \notin S /\ IsFiniteSet(S)
    BY UpTo
  <2> QED
    BY <2>1, FS_AddElement
<1>2. {j \in T : j <= n + 1} = T
  <2>1. \A j \in T : j <= n + 1
    OBVIOUS
  <2> QED
    BY <2>1
<1>3. ASSUME NEW i \in S
      PROVE  {j \in T : j <= i} = {j \in S : j <= i}
  OBVIOUS
<1> QED
  BY <1>1, <1>2, <1>3 DEF Rank

\* Every number up to the cardinality is the rank of some element.
LEMMA RankSurjective ==
    ASSUME NEW n \in Nat, NEW S \in SUBSET (1 .. n),
           NEW k \in 1 .. Cardinality(S)
    PROVE  \E i \in S : Rank(S, i) = k
<1> DEFINE P == {m \in Nat : \A U \in SUBSET (1 .. m) :
                   \A c \in 1 .. Cardinality(U) : \E i \in U : Rank(U, i) = c}
<1>1. 0 \in P
  <2>1. \A U \in SUBSET (1 .. 0) : U = {}
    OBVIOUS
  <2>2. Cardinality({}) = 0
    BY FS_EmptySet
  <2> QED
    BY <2>1, <2>2
<1>2. ASSUME NEW m \in Nat, m \in P
      PROVE  m + 1 \in P
  <2> SUFFICES ASSUME NEW U \in SUBSET (1 .. m + 1),
                      NEW c \in 1 .. Cardinality(U)
               PROVE  \E i \in U : Rank(U, i) = c
    OBVIOUS
  <2>1. CASE m + 1 \notin U
    <3>1. U \in SUBSET (1 .. m)
      BY <2>1
    <3> QED
      BY <3>1, <1>2
  <2>2. CASE m + 1 \in U
    <3> DEFINE V == U \ {m + 1}
    <3>1. V \in SUBSET (1 .. m) /\ U = V \cup {m + 1}
      BY <2>2
    <3> HIDE DEF V
    <3>2. /\ Cardinality(U) = Cardinality(V) + 1
          /\ Rank(U, m + 1) = Cardinality(V) + 1
          /\ \A i \in V : Rank(U, i) = Rank(V, i)
      BY <3>1, RankAdd
    <3>3. Cardinality(V) \in Nat
      BY <3>1, UpTo
    <3>4. CASE c = Cardinality(V) + 1
      BY <3>2, <3>4, <2>2
    <3>5. CASE c \in 1 .. Cardinality(V)
      <4>1. PICK i \in V : Rank(V, i) = c
        BY <3>1, <3>5, <1>2
      <4> QED
        BY <4>1, <3>1, <3>2
    <3> QED
      BY <3>2, <3>3, <3>4, <3>5
  <2> QED
    BY <2>1, <2>2
<1>3. \A m \in Nat : m \in P
  <2> HIDE DEF P
  <2> QED
    BY <1>1, <1>2, SetInduction
<1> QED
  BY <1>3

\* The k-th smallest element is in the set and has rank k.
LEMMA NthProperties ==
    ASSUME NEW n \in Nat, NEW S \in SUBSET (1 .. n),
           NEW k \in 1 .. Cardinality(S)
    PROVE  Nth(S, k) \in S /\ Rank(S, Nth(S, k)) = k
<1>1. PICK i \in S : Rank(S, i) = k
  BY RankSurjective
<1> QED
  BY <1>1, NthOfRank

\* Adding a greater element adds an Nth and changes no other.
LEMMA NthAdd ==
    ASSUME NEW n \in Nat, NEW S \in SUBSET (1 .. n)
    PROVE  /\ Nth(S \cup {n + 1}, Cardinality(S) + 1) = n + 1
           /\ \A k \in 1 .. Cardinality(S) : Nth(S \cup {n + 1}, k) = Nth(S, k)
<1> DEFINE T == S \cup {n + 1}
<1>1. T \in SUBSET (1 .. n + 1) /\ n + 1 \in T /\ S \subseteq T
  OBVIOUS
<1>2. Nth(T, Rank(T, n + 1)) = n + 1
  BY <1>1, NthOfRank
<1>3. ASSUME NEW k \in 1 .. Cardinality(S)
      PROVE  Nth(T, k) = Nth(S, k)
  <2>1. Nth(S, k) \in S /\ Rank(S, Nth(S, k)) = k
    BY NthProperties
  <2>2. Rank(T, Nth(S, k)) = k
    BY <2>1, RankAdd
  <2>3. Nth(S, k) \in T /\ n + 1 \in Nat
    BY <2>1
  <2> HIDE DEF T
  <2>4. Nth(T, Rank(T, Nth(S, k))) = Nth(S, k)
    BY <1>1, <2>3, NthOfRank
  <2> QED
    BY <2>2, <2>4
<1> QED
  BY <1>2, <1>3, RankAdd

\* Behind the elements of S, up to n, come those of T, moved up by n.
Joined(U, S, n, T, m) ==
    /\ n \in Nat /\ S \in SUBSET (1 .. n)
    /\ m \in Nat /\ T \in SUBSET (1 .. m)
    /\ \A i : i \in U <=> (i \in S \/ \E j \in T : i = n + j)

\* Joining the positions of two sequences keeps their order.
LEMMA NthShift ==
    ASSUME NEW n, NEW S, NEW m, NEW T, NEW ST, Joined(ST, S, n, T, m)
    PROVE  /\ Cardinality(ST) = Cardinality(S) + Cardinality(T)
           /\ \A k \in 1 .. Cardinality(S) : Nth(ST, k) = Nth(S, k)
           /\ \A k \in 1 .. Cardinality(T) :
                Nth(ST, Cardinality(S) + k) = n + Nth(T, k)
<1> DEFINE U(X) == S \cup {n + j : j \in X}
           Holds(X) ==
             /\ Cardinality(U(X)) = Cardinality(S) + Cardinality(X)
             /\ \A k \in 1 .. Cardinality(S) : Nth(U(X), k) = Nth(S, k)
             /\ \A k \in 1 .. Cardinality(X) :
                  Nth(U(X), Cardinality(S) + k) = n + Nth(X, k)
           P == {l \in Nat : \A X \in SUBSET (1 .. l) : Holds(X)}
<1>0. /\ n \in Nat /\ S \in SUBSET (1 .. n)
      /\ m \in Nat /\ T \in SUBSET (1 .. m)
  BY DEF Joined
<1>1. Cardinality(S) \in Nat
  BY <1>0, UpTo
<1>2. 0 \in P
  <2>1. \A X \in SUBSET (1 .. 0) : X = {}
    OBVIOUS
  <2>2. U({}) = S /\ Cardinality({}) = 0
    BY FS_EmptySet
  <2>3. Holds({})
    <3> HIDE DEF U
    <3> QED
      BY <1>1, <2>2
  <2> QED
    BY <2>1, <2>3
<1>3. ASSUME NEW l \in Nat, l \in P
      PROVE  l + 1 \in P
  <2>0. \A X \in SUBSET (1 .. l) : Holds(X)
    BY <1>3
  <2> HIDE DEF Holds
  <2> SUFFICES ASSUME NEW X \in SUBSET (1 .. l + 1) PROVE Holds(X)
    OBVIOUS
  <2>1. CASE l + 1 \notin X
    <3>1. X \in SUBSET (1 .. l)
      BY <2>1
    <3> QED
      BY <3>1, <2>0
  <2>2. CASE l + 1 \in X
    <3> DEFINE V == X \ {l + 1}
               a == n + l
               c == Cardinality(S)
               d == Cardinality(V)
    <3>1. V \in SUBSET (1 .. l) /\ X = V \cup {l + 1}
      BY <2>2
    <3>2. Holds(V)
      BY <2>0, <3>1
    <3>3a. a \in Nat
      BY <1>0
    <3>3b. ASSUME NEW x \in U(V) PROVE x \in 1 .. a
      <4>1. CASE x \in S
        BY <1>0, <4>1
      <4>2. CASE \E j \in V : x = n + j
        BY <1>0, <3>1, <4>2
      <4> QED
        BY <3>3b, <4>1, <4>2
    <3>3. a \in Nat /\ U(V) \in SUBSET (1 .. a)
      BY <3>3a, <3>3b
    <3>4. U(X) = U(V) \cup {a + 1}
      <4>1. n + (l + 1) = a + 1
        BY <1>0
      <4> QED
        BY <3>1, <4>1
    <3> HIDE DEF V
    <3>5. /\ Cardinality(X) = d + 1
          /\ Nth(X, d + 1) = l + 1
          /\ \A k \in 1 .. d : Nth(X, k) = Nth(V, k)
      BY <3>1, RankAdd, NthAdd
    <3> HIDE DEF a
    <3> DEFINE W == U(V)
               Y == U(X)
    <3>6. /\ Cardinality(W) = c + d
          /\ \A k \in 1 .. c : Nth(W, k) = Nth(S, k)
          /\ \A k \in 1 .. d : Nth(W, c + k) = n + Nth(V, k)
      BY <3>2 DEF Holds
    <3> HIDE DEF W
    <3>7. W \in SUBSET (1 .. a) /\ Y = W \cup {a + 1}
      BY <3>3, <3>4 DEF W
    <3> HIDE DEF Y
    <3>8. /\ Cardinality(Y) = Cardinality(W) + 1
          /\ Nth(Y, Cardinality(W) + 1) = a + 1
          /\ \A k \in 1 .. Cardinality(W) : Nth(Y, k) = Nth(W, k)
      BY <3>3, <3>7, RankAdd, NthAdd
    <3>9. d \in Nat /\ c \in Nat
      BY <1>1, <3>1, UpTo
    <3> HIDE DEF c, d
    <3>10. Cardinality(Y) = c + (d + 1)
      BY <3>6, <3>8, <3>9
    <3>11. \A k \in 1 .. c : Nth(Y, k) = Nth(S, k)
      BY <3>6, <3>8, <3>9
    <3>12. \A k \in 1 .. d + 1 : Nth(Y, c + k) = n + Nth(X, k)
      <4> SUFFICES ASSUME NEW k \in 1 .. d + 1 PROVE Nth(Y, c + k) = n + Nth(X, k)
        OBVIOUS
      <4>1. CASE k = d + 1
        <5>1. Nth(Y, c + d + 1) = a + 1
          BY <3>6, <3>8
        <5>2. c + d + 1 = c + k /\ a + 1 = n + (l + 1)
          BY <1>0, <3>9, <4>1 DEF a
        <5> QED
          BY <3>5, <4>1, <5>1, <5>2
      <4>2. CASE k \in 1 .. d
        <5>1. c + k \in 1 .. c + d
          BY <3>9, <4>2
        <5>2. Nth(Y, c + k) = Nth(W, c + k)
          BY <3>6, <3>8, <5>1
        <5> QED
          BY <3>5, <3>6, <4>2, <5>2
      <4> QED
        BY <3>9, <4>1, <4>2
    <3> QED
      BY <3>5, <3>10, <3>11, <3>12 DEF Y, c, Holds
  <2> QED
    BY <2>1, <2>2
<1>4. \A l \in Nat : l \in P
  <2> HIDE DEF P
  <2> QED
    BY <1>2, <1>3, SetInduction
<1>5. Holds(T)
  <2> HIDE DEF Holds
  <2> QED
    BY <1>0, <1>4
<1>6. ST = U(T)
  BY DEF U, Joined
<1> HIDE DEF U
<1> QED
  BY <1>5, <1>6

\* No positions, no elements.
LEMMA PickedEmpty == ASSUME NEW seq PROVE Picked(seq, {}) = <<>>
BY FS_EmptySet DEF Picked

\* A picked subsequence has an element for each position.
LEMMA PickedType ==
    ASSUME NEW T, NEW seq \in Seq(T), NEW S \in SUBSET (1 .. Len(seq))
    PROVE  /\ Picked(seq, S) \in Seq(T)
           /\ Len(Picked(seq, S)) = Cardinality(S)
           /\ Cardinality(S) \in Nat
           /\ \A k \in 1 .. Cardinality(S) :
                /\ Nth(S, k) \in S
                /\ Picked(seq, S)[k] = seq[Nth(S, k)]
<1> DEFINE n == Len(seq)
           c == Cardinality(S)
<1>1. n \in Nat /\ S \in SUBSET (1 .. n)
  OBVIOUS
<1>2. \A i \in 1 .. n : seq[i] \in T
  OBVIOUS
<1> HIDE DEF n
<1>3. c \in Nat
  BY <1>1, UpTo
<1>4. \A k \in 1 .. c : Nth(S, k) \in S
  BY <1>1, NthProperties
<1>5. \A k \in 1 .. c : seq[Nth(S, k)] \in T
  BY <1>1, <1>2, <1>4
<1>6. Picked(seq, S) = [k \in 1 .. c |-> seq[Nth(S, k)]]
  BY DEF Picked
<1> HIDE DEF c
<1>7. [k \in 1 .. c |-> seq[Nth(S, k)]] \in Seq(T)
  BY <1>3, <1>5
<1>8. Len([k \in 1 .. c |-> seq[Nth(S, k)]]) = c
  BY <1>3
<1> QED
  BY <1>3, <1>4, <1>6, <1>7, <1>8 DEF c

\* Two sequences of one length with the same elements are equal.
LEMMA SameElements ==
    ASSUME NEW T, NEW s \in Seq(T), NEW t \in Seq(T), Len(s) = Len(t),
           \A i \in 1 .. Len(s) : s[i] = t[i]
    PROVE  s = t
OBVIOUS

\* What an element behind the others adds to the picked ones.
LEMMA PickedAppend ==
    ASSUME NEW T, NEW seq \in Seq(T), NEW e \in T,
           NEW S \in SUBSET (1 .. Len(seq))
    PROVE  /\ Picked(Append(seq, e), S) = Picked(seq, S)
           /\ Picked(Append(seq, e), S \cup {Len(seq) + 1})
                = Append(Picked(seq, S), e)
<1> DEFINE n == Len(seq)
           longer == Append(seq, e)
           c == Cardinality(S)
           U == S \cup {n + 1}
<1>1. n \in Nat /\ S \in SUBSET (1 .. n) /\ c \in Nat
  BY PickedType
<1>2. /\ longer \in Seq(T) /\ Len(longer) = n + 1
      /\ longer[n + 1] = e
      /\ \A i \in 1 .. n : longer[i] = seq[i]
  OBVIOUS
<1>3. S \in SUBSET (1 .. Len(longer)) /\ U \in SUBSET (1 .. Len(longer))
  BY <1>1, <1>2
<1> HIDE DEF longer, n
<1>4. Cardinality(U) = c + 1
  BY <1>1, RankAdd
<1>5. Nth(U, c + 1) = n + 1 /\ \A k \in 1 .. c : Nth(U, k) = Nth(S, k)
  BY <1>1, NthAdd
<1> HIDE DEF U
<1>6. /\ Picked(seq, S) \in Seq(T) /\ Len(Picked(seq, S)) = c
      /\ \A k \in 1 .. c : Nth(S, k) \in S /\ Picked(seq, S)[k] = seq[Nth(S, k)]
  BY PickedType
<1>7. /\ Picked(longer, S) \in Seq(T) /\ Len(Picked(longer, S)) = c
      /\ \A k \in 1 .. c : Picked(longer, S)[k] = longer[Nth(S, k)]
  BY <1>2, <1>3, PickedType
<1>8. /\ Picked(longer, U) \in Seq(T) /\ Len(Picked(longer, U)) = c + 1
      /\ \A k \in 1 .. c + 1 : Picked(longer, U)[k] = longer[Nth(U, k)]
  BY <1>2, <1>3, <1>4, PickedType
<1>9. \A k \in 1 .. c : longer[Nth(S, k)] = seq[Nth(S, k)]
  BY <1>1, <1>2, <1>6
<1> HIDE DEF c
<1>10. Picked(longer, S) = Picked(seq, S)
  BY <1>6, <1>7, <1>9, SameElements
<1>11. Picked(longer, U) = Append(Picked(seq, S), e)
  <2> DEFINE p == Picked(seq, S)
             q == Picked(longer, U)
  <2>1. /\ p \in Seq(T) /\ Len(p) = c
        /\ Append(p, e) \in Seq(T) /\ Len(Append(p, e)) = c + 1
        /\ Append(p, e)[c + 1] = e
        /\ \A k \in 1 .. c : Append(p, e)[k] = p[k]
    BY <1>6
  <2>2. q[c + 1] = e
    BY <1>1, <1>2, <1>5, <1>8
  <2>3. \A k \in 1 .. c : q[k] = p[k]
    BY <1>1, <1>5, <1>6, <1>8, <1>9
  <2>4. \A k \in 1 .. c + 1 : q[k] = Append(p, e)[k]
    BY <1>1, <2>1, <2>2, <2>3
  <2> HIDE DEF p, q
  <2> QED
    BY <1>8, <2>1, <2>4, SameElements DEF q, p
<1> QED
  BY <1>10, <1>11 DEF longer, U, n

---------------------------------------------------------------------------
(* Sequences. *)

\* A set with the empty sequence and, with a sequence, each of its
\* extensions by one element contains every sequence.
LEMMA SeqInduction ==
    ASSUME NEW T, NEW S, <<>> \in S,
           \A s \in Seq(T) : \A e \in T : s \in S => Append(s, e) \in S
    PROVE  \A s \in Seq(T) : s \in S
<1> DEFINE P == {m \in Nat : \A s \in Seq(T) : Len(s) = m => s \in S}
<1>1. 0 \in P
  <2>1. \A s \in Seq(T) : Len(s) = 0 => s = <<>>
    OBVIOUS
  <2> QED
    BY <2>1
<1>2. ASSUME NEW m \in Nat, m \in P
      PROVE  m + 1 \in P
  <2> SUFFICES ASSUME NEW s \in Seq(T), Len(s) = m + 1
               PROVE  s \in S
    OBVIOUS
  <2> DEFINE f == SubSeq(s, 1, m)
  <2>1. f \in Seq(T) /\ Len(f) = m
    OBVIOUS
  <2>2. s[m + 1] \in T
    OBVIOUS
  <2>3. s = Append(f, s[m + 1])
    <3>1. /\ Append(f, s[m + 1]) \in Seq(T)
          /\ Len(Append(f, s[m + 1])) = m + 1
          /\ \A i \in 1 .. m + 1 : Append(f, s[m + 1])[i] = s[i]
      OBVIOUS
    <3> HIDE DEF f
    <3> QED
      BY <3>1, SameElements
  <2> HIDE DEF f
  <2>4. f \in S
    BY <1>2, <2>1
  <2> QED
    BY <2>1, <2>2, <2>3, <2>4
<1>3. \A m \in Nat : m \in P
  <2> HIDE DEF P
  <2> QED
    BY <1>1, <1>2, SetInduction
<1> QED
  BY <1>3

\* A sequence over a set is one over a larger set.
LEMMA SeqSubset ==
    ASSUME NEW S, NEW T, S \subseteq T, NEW s \in Seq(S)
    PROVE  s \in Seq(T)
OBVIOUS

\* What a concatenation consists of.
LEMMA ConcatFacts ==
    ASSUME NEW T, NEW s \in Seq(T), NEW t \in Seq(T)
    PROVE  /\ s \o t \in Seq(T)
           /\ Len(s \o t) = Len(s) + Len(t)
           /\ \A i \in 1 .. Len(s) : (s \o t)[i] = s[i]
           /\ \A i \in 1 .. Len(t) : (s \o t)[Len(s) + i] = t[i]
           /\ <<>> \o s = s /\ s \o <<>> = s
OBVIOUS

\* What an appended sequence consists of.
LEMMA AppendFacts ==
    ASSUME NEW T, NEW s \in Seq(T), NEW e \in T
    PROVE  /\ Len(s) \in Nat
           /\ Append(s, e) \in Seq(T)
           /\ Len(Append(s, e)) = Len(s) + 1
           /\ Append(s, e)[Len(s) + 1] = e
           /\ \A i \in 1 .. Len(s) : Append(s, e)[i] = s[i]
OBVIOUS

\* Appending to the second part appends to the whole.
LEMMA ConcatAppend ==
    ASSUME NEW T, NEW s \in Seq(T), NEW t \in Seq(T), NEW e \in T
    PROVE  s \o Append(t, e) = Append(s \o t, e)
OBVIOUS

\* Concatenation is associative.
LEMMA ConcatRegroups ==
    ASSUME NEW T, NEW s \in Seq(T), NEW t \in Seq(T), NEW u \in Seq(T)
    PROVE  (s \o t) \o u = s \o (t \o u)
OBVIOUS

\* What a subsequence consists of.
LEMMA SubSeqFacts ==
    ASSUME NEW T, NEW s \in Seq(T), NEW k \in 0 .. Len(s), NEW m \in 0 .. k
    PROVE  /\ SubSeq(s, m + 1, k) \in Seq(T)
           /\ Len(SubSeq(s, m + 1, k)) = k - m
           /\ \A i \in 1 .. k - m : SubSeq(s, m + 1, k)[i] = s[m + i]
OBVIOUS

\* A prefix in two parts.
LEMMA SubSeqSplit ==
    ASSUME NEW T, NEW s \in Seq(T), NEW k \in 0 .. Len(s), NEW m \in 0 .. k
    PROVE  SubSeq(s, 1, k) = SubSeq(s, 1, m) \o SubSeq(s, m + 1, k)
<1> DEFINE a == SubSeq(s, 1, k)
           b == SubSeq(s, 1, m)
           c == SubSeq(s, m + 1, k)
<1>1. Len(s) \in Nat /\ m \in 0 .. Len(s) /\ k \in 0 .. Len(s)
  OBVIOUS
<1>2. /\ a \in Seq(T) /\ Len(a) = k /\ \A i \in 1 .. k : a[i] = s[i]
      /\ b \in Seq(T) /\ Len(b) = m /\ \A i \in 1 .. m : b[i] = s[i]
  BY <1>1
<1>3. c \in Seq(T) /\ Len(c) = k - m /\ \A i \in 1 .. k - m : c[i] = s[m + i]
  BY <1>1, SubSeqFacts
<1> HIDE DEF a, b, c
<1>4. /\ b \o c \in Seq(T) /\ Len(b \o c) = Len(b) + Len(c)
      /\ \A i \in 1 .. Len(b) : (b \o c)[i] = b[i]
      /\ \A i \in 1 .. Len(c) : (b \o c)[Len(b) + i] = c[i]
  <2>1. b \in Seq(T) /\ c \in Seq(T)
    BY <1>2, <1>3
  <2> QED
    BY <2>1, ConcatFacts
<1>5. Len(b \o c) = k
  BY <1>1, <1>2, <1>3, <1>4
<1>6. ASSUME NEW i \in 1 .. k PROVE a[i] = (b \o c)[i]
  <2>1. CASE i \in 1 .. m
    BY <1>2, <1>4, <2>1
  <2>2. CASE i \notin 1 .. m
    <3> DEFINE j == i - m
    <3>1. j \in 1 .. k - m /\ i = m + j
      BY <1>1, <2>2
    <3> HIDE DEF j
    <3>2. (b \o c)[m + j] = s[m + j]
      BY <1>2, <1>3, <1>4, <3>1
    <3> QED
      BY <1>2, <3>1, <3>2
  <2> QED
    BY <2>1, <2>2
<1>7. a = b \o c
  BY <1>2, <1>4, <1>5, <1>6, SameElements
<1> QED
  BY <1>7 DEF a, b, c

\* An element at the end lengthens the subsequences that reach it.
LEMMA SubSeqAppend ==
    ASSUME NEW T, NEW s \in Seq(T), NEW e \in T, NEW m \in 0 .. Len(s)
    PROVE  /\ \A k \in m .. Len(s) :
                SubSeq(Append(s, e), m + 1, k) = SubSeq(s, m + 1, k)
           /\ SubSeq(Append(s, e), m + 1, Len(s) + 1)
                = Append(SubSeq(s, m + 1, Len(s)), e)
<1> DEFINE n == Len(s)
           l == Append(s, e)
<1>1. /\ n \in Nat /\ l \in Seq(T) /\ Len(l) = n + 1
      /\ l[n + 1] = e /\ \A i \in 1 .. n : l[i] = s[i]
  OBVIOUS
<1> HIDE DEF l
<1>2. ASSUME NEW k \in m .. n PROVE SubSeq(l, m + 1, k) = SubSeq(s, m + 1, k)
  <2>1. k \in 0 .. Len(s) /\ k \in 0 .. Len(l) /\ m \in 0 .. k
    BY <1>1
  <2> DEFINE a == SubSeq(l, m + 1, k)
             b == SubSeq(s, m + 1, k)
  <2>2. a \in Seq(T) /\ Len(a) = k - m /\ \A i \in 1 .. k - m : a[i] = l[m + i]
    BY <1>1, <2>1, SubSeqFacts
  <2>3. b \in Seq(T) /\ Len(b) = k - m /\ \A i \in 1 .. k - m : b[i] = s[m + i]
    BY <1>1, <2>1, SubSeqFacts
  <2> HIDE DEF a, b
  <2>4. \A i \in 1 .. k - m : m + i \in 1 .. n
    BY <1>1
  <2>5. \A i \in 1 .. Len(a) : a[i] = b[i]
    BY <1>1, <2>2, <2>3, <2>4
  <2> QED
    BY <2>2, <2>3, <2>5, SameElements DEF a, b
<1>3. SubSeq(l, m + 1, n + 1) = Append(SubSeq(s, m + 1, n), e)
  <2> DEFINE a == SubSeq(l, m + 1, n + 1)
             b == SubSeq(s, m + 1, n)
             d == n - m
  <2>1. n + 1 \in 0 .. Len(l) /\ m \in 0 .. n + 1 /\ n \in 0 .. Len(s) /\ d \in Nat
    BY <1>1
  <2>2. /\ a \in Seq(T) /\ Len(a) = n + 1 - m
        /\ \A i \in 1 .. n + 1 - m : a[i] = l[m + i]
    BY <1>1, <2>1, SubSeqFacts
  <2>3. b \in Seq(T) /\ Len(b) = d /\ \A i \in 1 .. d : b[i] = s[m + i]
    BY <1>1, <2>1, SubSeqFacts
  <2> HIDE DEF a, b
  <2>4. /\ Append(b, e) \in Seq(T) /\ Len(Append(b, e)) = Len(b) + 1
        /\ Append(b, e)[Len(b) + 1] = e
        /\ \A i \in 1 .. Len(b) : Append(b, e)[i] = b[i]
    BY <2>3
  <2>5. n + 1 - m = d + 1 /\ m + (d + 1) = n + 1
    BY <1>1
  <2>6. a[d + 1] = e
    BY <1>1, <2>1, <2>2, <2>5
  <2>7. \A i \in 1 .. d : m + i \in 1 .. n /\ i \in 1 .. n + 1 - m
    BY <1>1
  <2>8. \A i \in 1 .. d : a[i] = b[i]
    BY <1>1, <2>2, <2>3, <2>7
  <2> HIDE DEF d, n
  <2>9. \A i \in 1 .. d + 1 : a[i] = Append(b, e)[i]
    <3> SUFFICES ASSUME NEW i \in 1 .. d + 1 PROVE a[i] = Append(b, e)[i]
      OBVIOUS
    <3>1. i = d + 1 \/ i \in 1 .. d
      BY <2>1
    <3> QED
      BY <3>1, <2>3, <2>4, <2>6, <2>8
  <2>10. a = Append(b, e)
    BY <2>2, <2>3, <2>4, <2>5, <2>9, SameElements
  <2> QED
    BY <2>10 DEF a, b
<1> QED
  BY <1>2, <1>3 DEF l

---------------------------------------------------------------------------
(* The elements of a sequence that belong to a set. *)

\* Nothing is among nothing.
LEMMA AmongEmpty == ASSUME NEW S PROVE Among(<<>>, S) = <<>>
<1>1. {i \in 1 .. Len(<<>>) : <<>>[i] \in S} = {}
  OBVIOUS
<1> QED
  BY <1>1, PickedEmpty DEF Among

\* The elements among a sequence's are elements of it.
LEMMA AmongType ==
    ASSUME NEW T, NEW seq \in Seq(T), NEW S
    PROVE  Among(seq, S) \in Seq(T)
<1> DEFINE U == {i \in 1 .. Len(seq) : seq[i] \in S}
<1>1. U \in SUBSET (1 .. Len(seq))
  OBVIOUS
<1>2. Among(seq, S) = Picked(seq, U)
  BY DEF Among
<1> HIDE DEF U
<1> QED
  BY <1>1, <1>2, PickedType

\* An appended element counts if it belongs to the set.
LEMMA AmongAppend ==
    ASSUME NEW T, NEW seq \in Seq(T), NEW e \in T, NEW S
    PROVE  /\ e \in S => Among(Append(seq, e), S) = Append(Among(seq, S), e)
           /\ e \notin S => Among(Append(seq, e), S) = Among(seq, S)
<1> DEFINE n == Len(seq)
           longer == Append(seq, e)
           U == {i \in 1 .. n : seq[i] \in S}
           V == {i \in 1 .. n + 1 : longer[i] \in S}
<1>1. /\ n \in Nat /\ Len(longer) = n + 1 /\ longer[n + 1] = e
      /\ \A i \in 1 .. n : longer[i] = seq[i]
  BY AppendFacts
<1>2. Among(seq, S) = Picked(seq, U) /\ Among(longer, S) = Picked(longer, V)
  BY <1>1 DEF Among
<1>3. 1 .. n + 1 = (1 .. n) \cup {n + 1}
  BY <1>1
<1>4. e \in S => V = U \cup {n + 1}
  BY <1>1, <1>3
<1>5. e \notin S => V = U
  BY <1>1, <1>3
<1>6. U \in SUBSET (1 .. Len(seq))
  OBVIOUS
<1> HIDE DEF U, V
<1>7. /\ Picked(longer, U) = Picked(seq, U)
      /\ Picked(longer, U \cup {n + 1}) = Append(Picked(seq, U), e)
  BY <1>6, PickedAppend
<1> QED
  BY <1>2, <1>4, <1>5, <1>7

\* Among distributes over concatenation.
LEMMA AmongConcat ==
    ASSUME NEW T, NEW s \in Seq(T), NEW t \in Seq(T), NEW S
    PROVE  Among(s \o t, S) = Among(s, S) \o Among(t, S)
<1> DEFINE P == {u \in Seq(T) : Among(s \o u, S) = Among(s, S) \o Among(u, S)}
<1>1. <<>> \in P
  <2>1. s \o <<>> = s /\ <<>> \in Seq(T)
    OBVIOUS
  <2>2. Among(s, S) \in Seq(T) /\ Among(<<>>, S) = <<>>
    BY AmongType, AmongEmpty
  <2>3. Among(s, S) \o Among(<<>>, S) = Among(s, S)
    BY <2>2, ConcatFacts
  <2> QED
    BY <2>1, <2>3
<1>2. ASSUME NEW u \in Seq(T), NEW e \in T, u \in P
      PROVE  Append(u, e) \in P
  <2> DEFINE su == s \o u
  <2>1. s \o Append(u, e) = Append(su, e) /\ su \in Seq(T) /\ Append(u, e) \in Seq(T)
    BY ConcatFacts, ConcatAppend, AppendFacts
  <2>2. Among(su, S) = Among(s, S) \o Among(u, S)
    BY <1>2
  <2> HIDE DEF su
  <2>3. Among(s, S) \in Seq(T) /\ Among(u, S) \in Seq(T)
    BY AmongType
  <2>4. Among(s \o Append(u, e), S) = Among(s, S) \o Among(Append(u, e), S)
    <3>1. CASE e \in S
      <4>0. Among(Append(su, e), S) = Append(Among(su, S), e)
        BY <2>1, <3>1, AmongAppend
      <4>1. Among(Append(u, e), S) = Append(Among(u, S), e)
        BY <3>1, AmongAppend
      <4>2. Among(s, S) \o Append(Among(u, S), e) = Append(Among(s, S) \o Among(u, S), e)
        BY <2>3, ConcatAppend
      <4> QED
        BY <2>1, <2>2, <4>0, <4>1, <4>2
    <3>2. CASE e \notin S
      <4>0. Among(Append(su, e), S) = Among(su, S)
        BY <2>1, <3>2, AmongAppend
      <4>1. Among(Append(u, e), S) = Among(u, S)
        BY <3>2, AmongAppend
      <4> QED
        BY <2>1, <2>2, <4>0, <4>1
    <3> QED
      BY <3>1, <3>2
  <2> QED
    BY <2>1, <2>4
<1> HIDE DEF P
<1>3. \A u \in Seq(T) : u \in P
  BY <1>1, <1>2, SeqInduction
<1> QED
  BY <1>3 DEF P

\* All of a sequence of elements of S, nothing of one without them.
LEMMA AmongAll ==
    ASSUME NEW T, NEW s \in Seq(T), NEW S
    PROVE  /\ (\A i \in 1 .. Len(s) : s[i] \in S) => Among(s, S) = s
           /\ (\A i \in 1 .. Len(s) : s[i] \notin S) => Among(s, S) = <<>>
<1> DEFINE All(u) == \A i \in 1 .. Len(u) : u[i] \in S
           None(u) == \A i \in 1 .. Len(u) : u[i] \notin S
           P == {u \in Seq(T) : /\ All(u) => Among(u, S) = u
                                /\ None(u) => Among(u, S) = <<>>}
<1>1. <<>> \in P
  <2>1. <<>> \in Seq(T)
    OBVIOUS
  <2> QED
    BY <2>1, AmongEmpty
<1>2. ASSUME NEW u \in Seq(T), NEW e \in T, u \in P
      PROVE  Append(u, e) \in P
  <2> DEFINE v == Append(u, e)
  <2>1. /\ v \in Seq(T) /\ Len(u) \in Nat /\ Len(v) = Len(u) + 1
        /\ v[Len(u) + 1] = e /\ \A i \in 1 .. Len(u) : v[i] = u[i]
    BY AppendFacts
  <2>2. /\ All(u) => Among(u, S) = u
        /\ None(u) => Among(u, S) = <<>>
    BY <1>2
  <2>3. /\ e \in S => Among(v, S) = Append(Among(u, S), e)
        /\ e \notin S => Among(v, S) = Among(u, S)
    <3> HIDE DEF All, None, P
    <3> QED
      BY AmongAppend
  <2>4. All(v) => All(u) /\ e \in S
    <3> HIDE DEF v
    <3> QED
      BY <2>1
  <2>5. None(v) => None(u) /\ e \notin S
    <3> HIDE DEF v
    <3> QED
      BY <2>1
  <2> HIDE DEF All, None
  <2>6. /\ All(v) => Among(v, S) = v
        /\ None(v) => Among(v, S) = <<>>
    BY <2>2, <2>3, <2>4, <2>5
  <2> QED
    BY <2>1, <2>6
<1> HIDE DEF P
<1>3. \A u \in Seq(T) : u \in P
  BY <1>1, <1>2, SeqInduction
<1> QED
  BY <1>3 DEF P

---------------------------------------------------------------------------
(* FlattenSeq, whose definition is a recursive function. *)

Flattens(seqs, n, g) ==
    g = [i \in 1 .. n |-> IF i = 1 THEN seqs[i] ELSE g[i - 1] \o seqs[i]]

\* The partial results of flattening, one from the other.
LEMMA FlattensAt ==
    ASSUME NEW seqs, NEW n, NEW g, Flattens(seqs, n, g), NEW i \in 1 .. n
    PROVE  g[i] = IF i = 1 THEN seqs[i] ELSE g[i - 1] \o seqs[i]
BY Zenon DEF Flattens

\* There are such partial results for every length.
LEMMA FlattensExists ==
    ASSUME NEW seqs, NEW n \in Nat
    PROVE  \E g : Flattens(seqs, n, g)
<1> DEFINE P == {m \in Nat : \E g : Flattens(seqs, m, g)}
<1>1. 0 \in P
  <2>1. Flattens(seqs, 0, <<>>)
    BY DEF Flattens
  <2> QED
    BY <2>1
<1>2. ASSUME NEW m \in Nat, m \in P
      PROVE  m + 1 \in P
  <2>1. PICK g : Flattens(seqs, m, g)
    BY <1>2
  <2> DEFINE h == [i \in 1 .. m + 1 |->
                     IF i = 1 THEN seqs[i] ELSE g[i - 1] \o seqs[i]]
  <2>2. ASSUME NEW i \in 1 .. m PROVE h[i] = g[i]
    <3>1. h[i] = IF i = 1 THEN seqs[i] ELSE g[i - 1] \o seqs[i]
      OBVIOUS
    <3> HIDE DEF h
    <3>2. g[i] = IF i = 1 THEN seqs[i] ELSE g[i - 1] \o seqs[i]
      BY <2>1, Zenon DEF Flattens
    <3> QED
      BY <3>1, <3>2
  <2>3. ASSUME NEW i \in 1 .. m + 1, i # 1 PROVE h[i - 1] = g[i - 1]
    <3>1. i - 1 \in 1 .. m
      BY <2>3
    <3> QED
      BY <3>1, <2>2
  <2>4. h = [i \in 1 .. m + 1 |->
               IF i = 1 THEN seqs[i] ELSE h[i - 1] \o seqs[i]]
    <3> DEFINE e(i) == IF i = 1 THEN seqs[i] ELSE g[i - 1] \o seqs[i]
               d(i) == IF i = 1 THEN seqs[i] ELSE h[i - 1] \o seqs[i]
    <3>1. \A i \in 1 .. m + 1 : e(i) = d(i)
      <4> HIDE DEF h
      <4> QED
        BY <2>3
    <3> HIDE DEF d, e
    <3>2. [i \in 1 .. m + 1 |-> e(i)] = [i \in 1 .. m + 1 |-> d(i)]
      BY <3>1
    <3>3. h = [i \in 1 .. m + 1 |-> e(i)]
      BY Zenon DEF e
    <3> HIDE DEF h
    <3> QED
      BY <3>2, <3>3, Zenon DEF d
  <2>5. Flattens(seqs, m + 1, h)
    BY <2>4, Zenon DEF Flattens
  <2> QED
    BY <2>5
<1>3. \A m \in Nat : m \in P
  <2> HIDE DEF P
  <2> QED
    BY <1>1, <1>2, SetInduction
<1> QED
  BY <1>3

\* FlattenSeq is the last of them.
LEMMA FlattenIs ==
    ASSUME NEW seqs
    PROVE  FlattenSeq(seqs) = IF Len(seqs) = 0 THEN seqs
                              ELSE (CHOOSE g : Flattens(seqs, Len(seqs), g))[Len(seqs)]
BY Zenon DEF FlattenSeq, Flattens

\* Every flattening of a longer sequence agrees with that of a shorter one.
LEMMA FlattensAgree ==
    ASSUME NEW seqs, NEW n \in Nat, NEW g, Flattens(seqs, n, g),
           NEW more, NEW m \in Nat, NEW h, Flattens(more, m, h),
           n <= m, \A i \in 1 .. n : seqs[i] = more[i]
    PROVE  \A i \in 1 .. n : g[i] = h[i]
<1> DEFINE P == {i \in Nat : i \in 1 .. n => g[i] = h[i]}
<1>1. 0 \in P
  OBVIOUS
<1>2. ASSUME NEW i \in Nat, i \in P
      PROVE  i + 1 \in P
  <2> SUFFICES ASSUME i + 1 \in 1 .. n PROVE g[i + 1] = h[i + 1]
    OBVIOUS
  <2>1. i + 1 \in 1 .. n /\ i + 1 \in 1 .. m
    OBVIOUS
  <2>2. g[i + 1] = IF i + 1 = 1 THEN seqs[i + 1] ELSE g[i + 1 - 1] \o seqs[i + 1]
    BY <2>1, FlattensAt
  <2>3. h[i + 1] = IF i + 1 = 1 THEN more[i + 1] ELSE h[i + 1 - 1] \o more[i + 1]
    BY <2>1, FlattensAt
  <2>4. i # 0 => i \in 1 .. n /\ g[i] = h[i]
    BY <1>2
  <2>5. i + 1 - 1 = i /\ seqs[i + 1] = more[i + 1]
    OBVIOUS
  <2> QED
    BY <2>2, <2>3, <2>4, <2>5
<1>3. \A i \in Nat : i \in P
  <2> HIDE DEF P
  <2> QED
    BY <1>1, <1>2, SetInduction
<1> QED
  BY <1>3

\* Flattening nothing gives nothing.
LEMMA FlattenEmpty == FlattenSeq(<<>>) = <<>>
BY FlattenIs

\* Flattening takes the sequences one by one.
LEMMA FlattenAppend ==
    ASSUME NEW T, NEW seqs \in Seq(Seq(T)), NEW last \in Seq(T)
    PROVE  FlattenSeq(Append(seqs, last)) = FlattenSeq(seqs) \o last
<1> DEFINE n == Len(seqs)
           more == Append(seqs, last)
           g == CHOOSE x : Flattens(seqs, n, x)
           h == CHOOSE x : Flattens(more, n + 1, x)
<1>1. /\ n \in Nat /\ n + 1 \in Nat /\ Len(more) = n + 1
      /\ more[n + 1] = last
      /\ \A i \in 1 .. n : seqs[i] = more[i]
  OBVIOUS
<1>2. FlattenSeq(more) = h[n + 1]
  <2> HIDE DEF more, n
  <2> QED
    BY <1>1, FlattenIs
<1>3. FlattenSeq(seqs) = IF n = 0 THEN seqs ELSE g[n]
  BY FlattenIs
<1> HIDE DEF more, n
<1>4. Flattens(seqs, n, g) /\ Flattens(more, n + 1, h)
  BY <1>1, FlattensExists
<1> HIDE DEF g, h
<1>5. \A i \in 1 .. n : g[i] = h[i]
  <2>1. n <= n + 1
    BY <1>1
  <2> QED
    BY <1>1, <1>4, <2>1, FlattensAgree
<1>6. /\ n = 0 => h[n + 1] = more[n + 1]
      /\ n # 0 => h[n + 1] = h[n] \o more[n + 1]
  <2> DEFINE m == n + 1
  <2>1. m \in 1 .. m
    BY <1>1
  <2>2. Flattens(more, m, h)
    BY <1>4
  <2> HIDE DEF m
  <2>3. h[m] = IF m = 1 THEN more[m] ELSE h[m - 1] \o more[m]
    BY <2>1, <2>2, FlattensAt
  <2>4. m = n + 1 /\ m - 1 = n /\ (m = 1 <=> n = 0)
    BY <1>1 DEF m
  <2> QED
    BY <2>3, <2>4
<1>7. CASE n = 0
  <2>1. seqs = <<>>
    BY <1>7 DEF n
  <2>2. h[n + 1] = last
    BY <1>1, <1>6, <1>7
  <2> QED
    BY <1>2, <1>3, <1>7, <2>1, <2>2 DEF more
<1>8. CASE n # 0
  <2>1. n + 1 # 1 /\ n + 1 - 1 = n /\ n \in 1 .. n
    BY <1>1, <1>8
  <2>2. h[n + 1] = g[n] \o last
    <3>1. h[n] = g[n]
      BY <1>5, <2>1
    <3>2. h[n + 1] = h[n] \o more[n + 1]
      BY <1>6, <1>8
    <3>3. more[n + 1] = last
      BY <1>1
    <3> QED
      BY <3>1, <3>2, <3>3, Zenon
  <2> QED
    BY <1>2, <1>3, <1>8, <2>2 DEF more
<1> QED
  BY <1>7, <1>8

\* Flattening keeps to the elements' set.
LEMMA FlattenType ==
    ASSUME NEW T, NEW seqs \in Seq(Seq(T))
    PROVE  FlattenSeq(seqs) \in Seq(T)
<1> DEFINE S == {s \in Seq(Seq(T)) : FlattenSeq(s) \in Seq(T)}
<1>1. <<>> \in S
  <2>1. FlattenSeq(<<>>) \in Seq(T)
    <3>1. <<>> \in Seq(T)
      OBVIOUS
    <3> QED
      BY <3>1, FlattenEmpty, Zenon
  <2>2. <<>> \in Seq(Seq(T))
    OBVIOUS
  <2> QED
    BY <2>1, <2>2
<1>2. ASSUME NEW s \in Seq(Seq(T)), NEW e \in Seq(T), s \in S
      PROVE  Append(s, e) \in S
  <2>1. FlattenSeq(Append(s, e)) = FlattenSeq(s) \o e
    BY FlattenAppend
  <2>2. FlattenSeq(Append(s, e)) \in Seq(T) /\ Append(s, e) \in Seq(Seq(T))
    BY <1>2, <2>1
  <2> QED
    BY <2>2
<1> HIDE DEF S
<1>3. \A s \in Seq(Seq(T)) : s \in S
  BY <1>1, <1>2, SeqInduction
<1> QED
  BY <1>3 DEF S

\* Flattening a concatenation concatenates the flattened parts.
LEMMA FlattenConcat ==
    ASSUME NEW T, NEW front \in Seq(Seq(T)), NEW back \in Seq(Seq(T))
    PROVE  FlattenSeq(front \o back) = FlattenSeq(front) \o FlattenSeq(back)
<1> DEFINE S == {s \in Seq(Seq(T)) :
                   FlattenSeq(front \o s) = FlattenSeq(front) \o FlattenSeq(s)}
<1>1. <<>> \in S
  <2>1. front \o <<>> = front /\ <<>> \in Seq(Seq(T))
    OBVIOUS
  <2>2. FlattenSeq(front) \o FlattenSeq(<<>>) = FlattenSeq(front)
    BY FlattenEmpty, FlattenType
  <2> QED
    BY <2>1, <2>2
<1>2. ASSUME NEW s \in Seq(Seq(T)), NEW e \in Seq(T), s \in S
      PROVE  Append(s, e) \in S
  <2>1. front \o Append(s, e) = Append(front \o s, e) /\ front \o s \in Seq(Seq(T))
    BY ConcatAppend
  <2>2. FlattenSeq(front \o Append(s, e)) = FlattenSeq(front \o s) \o e
    BY <2>1, FlattenAppend
  <2>3. FlattenSeq(front \o s) = FlattenSeq(front) \o FlattenSeq(s)
    BY <1>2
  <2>4. FlattenSeq(Append(s, e)) = FlattenSeq(s) \o e
    BY FlattenAppend
  <2>5. (FlattenSeq(front) \o FlattenSeq(s)) \o e
          = FlattenSeq(front) \o (FlattenSeq(s) \o e)
    BY FlattenType, ConcatRegroups
  <2>6. FlattenSeq(front \o Append(s, e)) = FlattenSeq(front) \o FlattenSeq(Append(s, e))
    BY <2>2, <2>3, <2>4, <2>5
  <2>7. Append(s, e) \in Seq(Seq(T))
    OBVIOUS
  <2> QED
    BY <2>6, <2>7
<1> HIDE DEF S
<1>3. \A s \in Seq(Seq(T)) : s \in S
  BY <1>1, <1>2, SeqInduction
<1> QED
  BY <1>3 DEF S

\* FlattenSeq of a single sequence.
LEMMA FlattenSingle ==
    ASSUME NEW T, NEW s \in Seq(T)
    PROVE  FlattenSeq(<<s>>) = s
<1>1. <<>> \in Seq(Seq(T)) /\ Append(<<>>, s) = <<s>> /\ <<>> \o s = s
  OBVIOUS
<1> QED
  BY <1>1, FlattenEmpty, FlattenAppend
==========================================================================
