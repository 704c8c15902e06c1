------------------------------ MODULE DataLemmas ------------------------------
(***************************************************************************)
(* Lemmas about the data the models are built from, for the proofs of the   *)
(* components: extreme elements of sets of numbers, induction, and          *)
(* FlattenSeq, the concatenation of the buffers of a list.  Induction is    *)
(* stated for a set instead of a predicate: a set is a value, which every   *)
(* prover can be given, and "it holds of n" is "n is in the set".           *)
(***************************************************************************)
EXTENDS Integers, Sequences, SequencesExt, SequenceTheorems, WellFoundedInduction, TLAPS

-----------------------------------------------------------------------------
(* Numbers                                                                  *)

\* A set of natural numbers that is not empty has a least element.
LEMMA SmallestElement ==
    ASSUME NEW T, T \subseteq Nat, T # {}
    PROVE  \E m \in T : \A k \in T : m <= k
<1> DEFINE R == {p \in Nat \X Nat : p[1] < p[2]}
<1>1. IsWellFoundedOn(R, Nat)
    BY NatLessThanWellFounded DEF OpToRel
<1>2. \A k, m \in Nat : <<k, m>> \in R <=> k < m
    OBVIOUS
<1> HIDE DEF R
<1>3. PICK m \in T : \A k \in T : ~ (<<k, m>> \in R)
    BY <1>1, WFMin
<1>4. \A k \in T : k \in Nat /\ m \in Nat /\ ~ (k < m)
    BY <1>2, <1>3
<1>5. \A k \in T : m <= k
    BY <1>4
<1> QED BY <1>5

\* A bounded one has a greatest element: what a CHOOSE of a maximum relies on.
LEMMA LargestElement ==
    ASSUME NEW T, NEW n \in Nat, T \subseteq 0 .. n, T # {}
    PROVE  \E m \in T : \A k \in T : k <= m
<1> DEFINE U == {k \in 0 .. n : n - k \in T}
<1>1. PICK t \in T : TRUE
    OBVIOUS
<1>2. n - t \in U
    BY <1>1
<1>3. U \subseteq Nat /\ U # {}
    BY <1>2
<1>4. PICK u \in U : \A k \in U : u <= k
  <2> HIDE DEF U
  <2> QED BY <1>3, SmallestElement
<1>5. ASSUME NEW k \in T PROVE k <= n - u
  <2>1. n - k \in U
    OBVIOUS
  <2> QED BY <1>4, <2>1
<1> QED BY <1>5

\* A set that contains 0 and, with a number, the next, contains them all.
LEMMA InductionOnSet ==
    ASSUME NEW T, 0 \in T, \A n \in T : n \in Nat => n + 1 \in T
    PROVE  Nat \subseteq T
<1> DEFINE U == Nat \ T
<1>1. SUFFICES ASSUME U # {} PROVE FALSE
    OBVIOUS
<1>2. PICK m \in U : \A k \in U : m <= k
  <2>1. U \subseteq Nat
    OBVIOUS
  <2> HIDE DEF U
  <2> QED BY <1>1, <2>1, SmallestElement
<1>3. m # 0 /\ m \in Nat
    OBVIOUS
<1>4. m - 1 \in Nat /\ m - 1 \notin U
    BY <1>2, <1>3
<1>5. m - 1 \in T /\ (m - 1) + 1 = m
    BY <1>3, <1>4
<1> QED BY <1>4, <1>5

-----------------------------------------------------------------------------
(* FlattenSeq                                                               *)

\* g[i] is the concatenation of the first i members of s, up to the n-th.
Concatenates(g, s, n) ==
    \A i \in 1 .. n : g[i] = IF i = 1 THEN s[1] ELSE g[i - 1] \o s[i]

\* There is such a g for every sequence of sequences.
LEMMA ConcatenationExists ==
    ASSUME NEW S, NEW s \in Seq(Seq(S))
    PROVE  \E g \in [1 .. Len(s) -> Seq(S)] : Concatenates(g, s, Len(s))
<1> DEFINE T == {n \in Nat : n <= Len(s) =>
                    \E g \in [1 .. n -> Seq(S)] : Concatenates(g, s, n)}
<1>1. 0 \in T
  <2> DEFINE g == [i \in 1 .. 0 |-> <<>>]
  <2>1. 1 .. 0 = {}
    OBVIOUS
  <2>2. g \in [1 .. 0 -> Seq(S)]
    BY <2>1
  <2>3. Concatenates(g, s, 0)
    BY <2>1 DEF Concatenates
  <2> QED BY <2>2, <2>3
<1>2. ASSUME NEW n \in T, n \in Nat PROVE n + 1 \in T
  <2>1. SUFFICES ASSUME n + 1 <= Len(s)
                 PROVE  \E g \in [1 .. n + 1 -> Seq(S)] : Concatenates(g, s, n + 1)
    OBVIOUS
  <2>2. PICK g \in [1 .. n -> Seq(S)] : Concatenates(g, s, n)
    BY <2>1
  <2> DEFINE h == [i \in 1 .. n + 1 |->
                     IF i <= n THEN g[i] ELSE IF i = 1 THEN s[1] ELSE g[n] \o s[i]]
  <2>3. \A i \in 1 .. n + 1 : s[i] \in Seq(S)
    BY <2>1
  <2>4. h \in [1 .. n + 1 -> Seq(S)]
    BY <2>3, ConcatProperties
  <2>5. ASSUME NEW i \in 1 .. n + 1
        PROVE  h[i] = IF i = 1 THEN s[1] ELSE h[i - 1] \o s[i]
    <3>1. CASE i <= n
      <4>1. h[i] = g[i] /\ i \in 1 .. n /\ (i # 1 => i - 1 \in 1 .. n /\ h[i - 1] = g[i - 1])
        BY <3>1
      <4> QED BY <2>2, <4>1 DEF Concatenates
    <3>2. CASE i = n + 1
      <4>1. n # 0 => i - 1 = n /\ n \in 1 .. n + 1 /\ h[n] = g[n]
        BY <3>2
      <4> QED BY <3>2, <4>1
    <3> QED BY <3>1, <3>2
  <2>6. Concatenates(h, s, n + 1)
    BY <2>5 DEF Concatenates
  <2> QED BY <2>4, <2>6
<1>3. Nat \subseteq T
  <2> HIDE DEF T
  <2> QED BY <1>1, <1>2, InductionOnSet
<1>4. Len(s) \in T
    BY <1>3
<1> QED BY <1>4

\* And no other.
LEMMA ConcatenationUnique ==
    ASSUME NEW s, NEW n \in Nat, NEW g, NEW h,
           Concatenates(g, s, n), Concatenates(h, s, n)
    PROVE  \A i \in 1 .. n : g[i] = h[i]
<1> DEFINE T == {i \in Nat : i \in 1 .. n => g[i] = h[i]}
<1>1. 0 \in T
    OBVIOUS
<1>2. ASSUME NEW i \in T, i \in Nat PROVE i + 1 \in T
    BY DEF Concatenates
<1>3. Nat \subseteq T
  <2> HIDE DEF T
  <2> QED BY <1>1, <1>2, InductionOnSet
<1> QED BY <1>3

\* FlattenSeq of a sequence that is not empty is the last of its concatenations.
LEMMA FlattenIs ==
    ASSUME NEW S, NEW s \in Seq(Seq(S)), s # <<>>, NEW g, Concatenates(g, s, Len(s))
    PROVE  FlattenSeq(s) = g[Len(s)]
<1> DEFINE Flat(f) == f = [i \in 1 .. Len(s) |-> IF i = 1 THEN s[i] ELSE f[i - 1] \o s[i]]
           flatten == CHOOSE f : Flat(f)
<1>1. PICK f \in [1 .. Len(s) -> Seq(S)] : Concatenates(f, s, Len(s))
    BY ConcatenationExists
<1>2. f = [i \in 1 .. Len(s) |-> IF i = 1 THEN s[i] ELSE f[i - 1] \o s[i]]
    BY <1>1 DEF Concatenates
<1>3. Flat(flatten)
    BY <1>2
<1>4. FlattenSeq(s) = flatten[Len(s)]
    BY DEF FlattenSeq
<1> HIDE DEF flatten
<1>5. Concatenates(flatten, s, Len(s))
    BY <1>3 DEF Concatenates
<1>6. Len(s) \in Nat /\ Len(s) \in 1 .. Len(s)
    OBVIOUS
<1> QED BY <1>4, <1>5, <1>6, ConcatenationUnique

\* The concatenation of no sequence is empty.
LEMMA FlattenEmpty == FlattenSeq(<<>>) = <<>>
BY DEF FlattenSeq

\* The concatenation has the elements of its members.
LEMMA FlattenType ==
    ASSUME NEW S, NEW s \in Seq(Seq(S))
    PROVE  FlattenSeq(s) \in Seq(S)
<1>1. CASE s = <<>>
    BY <1>1, FlattenEmpty, EmptySeq
<1>2. CASE s # <<>>
  <2>1. PICK g \in [1 .. Len(s) -> Seq(S)] : Concatenates(g, s, Len(s))
    BY ConcatenationExists
  <2>2. FlattenSeq(s) = g[Len(s)]
    BY <1>2, <2>1, FlattenIs
  <2>3. Len(s) \in 1 .. Len(s)
    BY <1>2
  <2> QED BY <2>1, <2>2, <2>3
<1> QED BY <1>1, <1>2

\* A member at the end adds its elements at the end.
LEMMA FlattenAppend ==
    ASSUME NEW S, NEW s \in Seq(Seq(S)), NEW e \in Seq(S)
    PROVE  FlattenSeq(Append(s, e)) = FlattenSeq(s) \o e
<1> DEFINE t == Append(s, e)
           n == Len(s)
<1>0. n \in Nat
    OBVIOUS
<1>1. /\ t \in Seq(Seq(S)) /\ t # <<>> /\ Len(t) = n + 1 /\ n \in Nat
      /\ \A i \in 1 .. n : t[i] = s[i]
      /\ t[n + 1] = e
    BY AppendProperties
<1> HIDE DEF t
<1>2. PICK g \in [1 .. Len(t) -> Seq(S)] : Concatenates(g, t, Len(t))
    BY <1>1, ConcatenationExists
<1>3. FlattenSeq(t) = g[n + 1]
    BY <1>1, <1>2, FlattenIs
<1>4. CASE s = <<>>
  <2>1. n = 0
    BY <1>4
  <2>2. g[1] = e
    BY <1>1, <1>2, <2>1 DEF Concatenates
  <2> QED BY <1>3, <1>4, <2>1, <2>2, FlattenEmpty DEF t
<1>5. CASE s # <<>>
  <2>1. n # 0
    BY <1>5
  <2>2. n + 1 \in 1 .. n + 1 /\ n + 1 # 1 /\ (n + 1) - 1 = n
    BY <1>1, <2>1
  <2>3. g[n + 1] = g[n] \o e
    BY <1>1, <1>2, <2>2 DEF Concatenates
  <2>4. ASSUME NEW i \in 1 .. n
        PROVE  g[i] = IF i = 1 THEN s[1] ELSE g[i - 1] \o s[i]
    <3>1. i \in 1 .. n + 1 /\ 1 \in 1 .. n
      BY <1>1
    <3> QED BY <1>1, <1>2, <3>1 DEF Concatenates
  <2>5. Concatenates(g, s, n)
    BY <2>4 DEF Concatenates
  <2>6. FlattenSeq(s) = g[n]
    BY <1>5, <2>5, FlattenIs
  <2> QED BY <1>3, <2>3, <2>6 DEF t
<1> QED BY <1>4, <1>5

\* e[k] is where the k-th of the first n members of s ends in their concatenation.
Ends(e, s, n) ==
    /\ e[0] = 0
    /\ \A k \in 1 .. n : e[k] = e[k - 1] + Len(s[k])

\* f is s[1], ..., s[m] one after the other, up to e[m].
Joins(f, e, s, m) ==
    /\ Len(f) = e[m]
    /\ \A k \in 1 .. m : \A i \in 1 .. Len(s[k]) :
         e[k - 1] + i \in 1 .. e[m] /\ f[e[k - 1] + i] = s[k][i]
    /\ \A p \in 1 .. e[m] : \E k \in 1 .. m : p - e[k - 1] \in 1 .. Len(s[k])

\* One member more.
LEMMA JoinsNext ==
    ASSUME NEW S, NEW n \in Nat, NEW s \in [1 .. n -> Seq(S)], NEW e \in [0 .. n -> Nat],
           Ends(e, s, n), NEW m \in 0 .. n - 1, NEW f \in Seq(S), Joins(f, e, s, m)
    PROVE  Joins(f \o s[m + 1], e, s, m + 1)
<1> DEFINE t == s[m + 1]
           h == f \o t
<1>1. m + 1 \in 1 .. n /\ (m + 1) - 1 = m /\ m \in 0 .. n /\ m \in Nat
    OBVIOUS
<1>2. t \in Seq(S) /\ Len(t) \in Nat /\ Len(f) \in Nat /\ e[m] \in Nat /\ e[m + 1] \in Nat
    BY <1>1
<1>3. e[m + 1] = e[m] + Len(t) /\ Len(f) = e[m]
    BY <1>1 DEF Ends, Joins
<1> HIDE DEF t
<1>4. /\ Len(h) = e[m + 1]
      /\ \A i \in 1 .. e[m] : h[i] = f[i]
      /\ \A i \in 1 .. Len(t) : h[e[m] + i] = t[i]
  <2>1. /\ Len(h) = Len(f) + Len(t)
        /\ \A i \in 1 .. Len(f) : h[i] = f[i]
        /\ \A i \in 1 .. Len(t) : h[Len(f) + i] = t[i]
    BY <1>2
  <2> HIDE DEF h
  <2> QED BY <1>3, <2>1
<1> HIDE DEF h
<1>5. /\ \A x \in 1 .. e[m] : x \in 1 .. e[m + 1]
      /\ \A i \in 1 .. Len(t) : e[m] + i \in 1 .. e[m + 1]
  <2>1. \A a, l \in Nat : /\ \A x \in 1 .. a : x \in 1 .. a + l
                          /\ \A i \in 1 .. l : a + i \in 1 .. a + l
    OBVIOUS
  <2> QED BY <1>2, <1>3, <2>1
<1>6. ASSUME NEW k \in 1 .. m + 1, NEW i \in 1 .. Len(s[k])
      PROVE  e[k - 1] + i \in 1 .. e[m + 1] /\ h[e[k - 1] + i] = s[k][i]
  <2>1. CASE k \in 1 .. m
    <3>1. e[k - 1] + i \in 1 .. e[m] /\ f[e[k - 1] + i] = s[k][i]
      BY <2>1 DEF Joins
    <3>2. e[k - 1] + i \in 1 .. e[m + 1]
      BY <1>5, <3>1
    <3>3. h[e[k - 1] + i] = f[e[k - 1] + i]
      BY <1>4, <3>1
    <3> QED BY <3>1, <3>2, <3>3
  <2>2. CASE k = m + 1
    <3>1. e[k - 1] = e[m] /\ s[k] = t /\ i \in 1 .. Len(t)
      BY <1>1, <2>2 DEF t
    <3>2. e[m] + i \in 1 .. e[m + 1] /\ h[e[m] + i] = t[i]
      BY <1>5, <1>4, <3>1
    <3> QED BY <3>1, <3>2
  <2> QED BY <1>1, <2>1, <2>2
<1>7. ASSUME NEW p \in 1 .. e[m + 1]
      PROVE  \E k \in 1 .. m + 1 : p - e[k - 1] \in 1 .. Len(s[k])
  <2>1. CASE p \in 1 .. e[m]
    <3>1. PICK k \in 1 .. m : p - e[k - 1] \in 1 .. Len(s[k])
      BY <2>1 DEF Joins
    <3> QED BY <1>1, <3>1
  <2>2. CASE p \notin 1 .. e[m]
    <3>1. p - e[(m + 1) - 1] \in 1 .. Len(s[m + 1])
      BY <1>1, <1>2, <1>3, <2>2 DEF t
    <3> QED BY <1>1, <3>1
  <2> QED BY <2>1, <2>2
<1>8. Joins(h, e, s, m + 1)
    BY <1>4, <1>6, <1>7 DEF Joins
<1> QED BY <1>8 DEF h, t

\* FlattenSeq joins its members, and nothing else is in it.
LEMMA FlattenJoins ==
    ASSUME NEW S, NEW n \in Nat, NEW s \in [1 .. n -> Seq(S)], NEW e \in [0 .. n -> Nat],
           Ends(e, s, n)
    PROVE  Joins(FlattenSeq(s), e, s, n)
<1>1. s \in Seq(Seq(S)) /\ Len(s) = n
    OBVIOUS
<1>2. PICK g \in [1 .. Len(s) -> Seq(S)] : Concatenates(g, s, Len(s))
    BY <1>1, ConcatenationExists
<1>3. Joins(<<>>, e, s, 0)
    BY DEF Joins, Ends
<1> DEFINE T == {m \in Nat : m \in 1 .. n => Joins(g[m], e, s, m)}
<1>4. 0 \in T
    OBVIOUS
<1>5. ASSUME NEW m \in T, m \in Nat, m + 1 \in 1 .. n PROVE Joins(g[m + 1], e, s, m + 1)
  <2>1. CASE m = 0
    <3>1. s[1] \in Seq(S) /\ 1 \in 1 .. Len(s) /\ 0 \in 0 .. n - 1 /\ <<>> \in Seq(S)
      BY <1>1, <1>5, <2>1
    <3>2. g[1] = s[1] /\ <<>> \o s[1] = s[1]
      BY <1>2, <3>1, ConcatEmptySeq DEF Concatenates
    <3>3. Joins(<<>> \o s[0 + 1], e, s, 0 + 1)
      BY <1>3, <3>1, JoinsNext
    <3> QED BY <2>1, <3>2, <3>3
  <2>2. CASE m # 0
    <3>1. /\ m \in 1 .. n /\ m \in 0 .. n - 1 /\ m + 1 \in 1 .. Len(s)
          /\ m + 1 # 1 /\ (m + 1) - 1 = m
      BY <1>1, <1>5, <2>2
    <3>2. Joins(g[m], e, s, m) /\ g[m] \in Seq(S)
      BY <1>1, <1>2, <3>1
    <3>3. Joins(g[m] \o s[m + 1], e, s, m + 1)
      BY <3>1, <3>2, JoinsNext
    <3>4. g[m + 1] = g[m] \o s[m + 1]
      BY <1>2, <3>1 DEF Concatenates
    <3> QED BY <3>3, <3>4
  <2> QED BY <2>1, <2>2
<1>6. Nat \subseteq T
  <2>1. \A m \in T : m \in Nat => m + 1 \in T
    BY <1>5
  <2> HIDE DEF T
  <2> QED BY <1>4, <2>1, InductionOnSet
<1>7. CASE n = 0
  <2>1. s = <<>>
    BY <1>1, <1>7
  <2> QED BY <1>3, <1>7, <2>1, FlattenEmpty
<1>8. CASE n # 0
  <2>1. FlattenSeq(s) = g[n]
    BY <1>1, <1>2, <1>8, FlattenIs
  <2>2. Joins(g[n], e, s, n)
    BY <1>6, <1>8
  <2> QED BY <2>1, <2>2
<1> QED BY <1>7, <1>8

\* Sequences of three elements: the place of each element is a matter of arithmetic.
LEMMA FlattenThrees ==
    ASSUME NEW T, NEW n \in Nat, NEW s \in [1 .. n -> Seq(T)], \A j \in 1 .. n : Len(s[j]) = 3
    PROVE  LET f == FlattenSeq(s) IN
           /\ f \in Seq(T) /\ Len(f) = 3 * n
           /\ \A j \in 1 .. n : \A i \in 1 .. 3 : f[3 * (j - 1) + i] = s[j][i]
<1> DEFINE f == FlattenSeq(s)
           e == [k \in 0 .. n |-> 3 * k]
<1>1. e \in [0 .. n -> Nat]
    OBVIOUS
<1>2. \A k \in 0 .. n : e[k] = 3 * k
    OBVIOUS
<1> HIDE DEF e
<1>3. Ends(e, s, n)
  <2>1. ASSUME NEW k \in 1 .. n PROVE e[k] = e[k - 1] + Len(s[k])
    <3>1. k \in 0 .. n /\ k - 1 \in 0 .. n
      OBVIOUS
    <3>2. e[k] = 3 * k /\ e[k - 1] = 3 * (k - 1) /\ Len(s[k]) = 3
      BY <1>2, <3>1
    <3> QED BY <3>2
  <2> QED BY <1>2, <2>1 DEF Ends
<1>4. Joins(f, e, s, n)
    BY <1>1, <1>3, FlattenJoins
<1>5. f \in Seq(T)
  <2>1. s \in Seq(Seq(T))
    OBVIOUS
  <2> QED BY <2>1, FlattenType
<1> HIDE DEF f
<1>6. Len(f) = 3 * n
    BY <1>2, <1>4 DEF Joins
<1>7. ASSUME NEW j \in 1 .. n, NEW i \in 1 .. 3 PROVE f[3 * (j - 1) + i] = s[j][i]
  <2>1. e[j - 1] = 3 * (j - 1)
    BY <1>2
  <2>2. i \in 1 .. Len(s[j])
    OBVIOUS
  <2> QED BY <1>4, <2>1, <2>2 DEF Joins
<1> QED BY <1>5, <1>6, <1>7 DEF f

-----------------------------------------------------------------------------
(* Pieces of a sequence                                                     *)

\* Behind the first k elements of a piece there is a shorter piece.
LEMMA SubSeqDrop ==
    ASSUME NEW S, NEW s \in Seq(S), NEW a \in Nat, NEW b \in a .. Len(s), NEW k \in 0 .. b - a
    PROVE  SubSeq(SubSeq(s, a + 1, b), k + 1, b - a) = SubSeq(s, a + k + 1, b)
OBVIOUS

\* Two pieces that meet are one.
LEMMA SubSeqMeet ==
    ASSUME NEW S, NEW s \in Seq(S), NEW a \in Nat, NEW b \in a .. Len(s), NEW c \in b .. Len(s)
    PROVE  SubSeq(s, a + 1, b) \o SubSeq(s, b + 1, c) = SubSeq(s, a + 1, c)
OBVIOUS

\* t is a and then b.
IsTwo(t, a, b) ==
    /\ Len(t) = Len(a) + Len(b)
    /\ \A i \in 1 .. Len(a) : i \in 1 .. Len(t) /\ t[i] = a[i]
    /\ \A i \in 1 .. Len(b) : Len(a) + i \in 1 .. Len(t) /\ t[Len(a) + i] = b[i]

\* What a concatenation is, element by element.
LEMMA ConcatTwo ==
    ASSUME NEW S, NEW a \in Seq(S), NEW b \in Seq(S)
    PROVE  a \o b \in Seq(S) /\ IsTwo(a \o b, a, b)
BY DEF IsTwo

\* t is a, b, c and then d.
IsFour(t, a, b, c, d) ==
    /\ Len(t) = Len(a) + Len(b) + Len(c) + Len(d)
    /\ \A i \in 1 .. Len(a) : t[i] = a[i]
    /\ \A i \in 1 .. Len(b) : t[Len(a) + i] = b[i]
    /\ \A i \in 1 .. Len(c) : t[Len(a) + Len(b) + i] = c[i]
    /\ \A i \in 1 .. Len(d) : t[Len(a) + Len(b) + Len(c) + i] = d[i]

\* The same for four.
LEMMA ConcatFour ==
    ASSUME NEW S, NEW a \in Seq(S), NEW b \in Seq(S), NEW c \in Seq(S), NEW d \in Seq(S)
    PROVE  a \o b \o c \o d \in Seq(S) /\ IsFour(a \o b \o c \o d, a, b, c, d)
<1> DEFINE ab == a \o b
           abc == ab \o c
           abcd == abc \o d
<1>1. ab \in Seq(S) /\ IsTwo(ab, a, b)
    BY ConcatTwo
<1> HIDE DEF ab
<1>2. abc \in Seq(S) /\ IsTwo(abc, ab, c)
    BY <1>1, ConcatTwo
<1> HIDE DEF abc
<1>3. abcd \in Seq(S) /\ IsTwo(abcd, abc, d)
    BY <1>2, ConcatTwo
<1> HIDE DEF abcd
<1>4. Len(ab) = Len(a) + Len(b) /\ Len(abc) = Len(a) + Len(b) + Len(c)
    BY <1>1, <1>2 DEF IsTwo
<1>5. /\ \A i \in 1 .. Len(a) : abcd[i] = a[i]
      /\ \A i \in 1 .. Len(b) : abcd[Len(a) + i] = b[i]
      /\ \A i \in 1 .. Len(c) : abcd[Len(ab) + i] = c[i]
    BY <1>1, <1>2, <1>3 DEF IsTwo
<1>6. IsFour(abcd, a, b, c, d)
    BY <1>3, <1>4, <1>5 DEF IsTwo, IsFour
<1> QED BY <1>3, <1>6 DEF abcd, abc, ab
=============================================================================
