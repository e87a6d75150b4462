--------------------------- MODULE SequenceLemmas ---------------------------
(***************************************************************************)
(* Facts about sequences that the proofs of several components need.       *)
(* Induction is over sets: a set of numbers that has 0 and with each       *)
(* number the next one has them all.                                       *)
(***************************************************************************)
EXTENDS Integers, SequencesExt, SequenceTheorems, WellFoundedInduction, TLAPS

\* A set of numbers that is not empty has a least one.
LEMMA LeastNumber ==
  ASSUME NEW T, T \subseteq Nat, T # {}
  PROVE  \E n \in T : \A m \in T : n <= m
<1> DEFINE R == {ss \in Nat \X Nat : ss[1] < ss[2]}
<1>1. IsWellFoundedOn(R, Nat)
  BY NatLessThanWellFounded DEF OpToRel
<1>2. \A m, n \in Nat : <<m, n>> \in R <=> m < n
  OBVIOUS
<1> HIDE DEF R
<1>3. \E n \in T : \A m \in T : ~(<<m, n>> \in R)
  BY <1>1, WFMin, Zenon
<1>4. PICK n \in T : \A m \in T : ~(<<m, n>> \in R)
  BY <1>3
<1>5. ASSUME NEW m \in T PROVE n <= m
  <2>1. m \in Nat /\ n \in Nat
    OBVIOUS
  <2>2. ~(m < n)
    BY <1>2, <1>4, <2>1, Zenon
  <2>3. QED
    BY <2>1, <2>2
<1>6. QED
  BY <1>5

\* Induction over the numbers.
LEMMA NumberInduction ==
  ASSUME NEW T, 0 \in T, \A n \in Nat : n \in T => n + 1 \in T
  PROVE  Nat \subseteq T
<1> DEFINE U == Nat \ T
<1>1. SUFFICES ASSUME U # {} PROVE FALSE
  OBVIOUS
<1>2. U \subseteq Nat
  OBVIOUS
<1>3. \E n \in U : \A m \in U : n <= m
  <2> HIDE DEF U
  <2>1. QED
    BY <1>1, <1>2, LeastNumber
<1>4. PICK n \in U : \A m \in U : n <= m
  BY <1>3
<1>5. n # 0 /\ n - 1 \in Nat
  BY <1>4
<1>6. n - 1 \in T
  BY <1>4, <1>5
<1>7. QED
  BY <1>4, <1>5, <1>6

\* Induction over sequences, from the left.
LEMMA SequenceInduction ==
  ASSUME NEW S, NEW T, <<>> \in T,
         \A s \in Seq(S), x \in S : s \in T => Append(s, x) \in T
  PROVE  Seq(S) \subseteq T
<1> DEFINE N == {n \in Nat : \A s \in Seq(S) : Len(s) = n => s \in T}
<1>1. 0 \in N
  BY EmptySeq
<1>2. ASSUME NEW n \in Nat, n \in N PROVE n + 1 \in N
  <2> SUFFICES ASSUME NEW s \in Seq(S), Len(s) = n + 1 PROVE s \in T
    OBVIOUS
  <2>1. s # <<>>
    BY EmptySeq
  <2>2. PICK r \in Seq(S), x \in S : s = Append(r, x)
    BY <2>1, SequenceEmptyOrAppend
  <2>3. Len(r) = n
    BY <2>2, AppendProperties, LenProperties
  <2>4. r \in T
    BY <1>2, <2>3
  <2>5. QED
    BY <2>2, <2>4
<1>3. Nat \subseteq N
  <2> HIDE DEF N
  <2>1. QED
    BY <1>1, <1>2, NumberInduction
<1>4. QED
  BY <1>3, LenProperties

-----------------------------------------------------------------------------
(* Where the elements of a concatenation and of a subsequence come from. *)

\* z is the m elements of x and then the n elements of y.
Joins(z, x, m, y, n) == z = x \o y /\ m = Len(x) /\ n = Len(y)

LEMMA ConcatAt ==
  ASSUME NEW S, NEW x \in Seq(S), NEW y \in Seq(S), NEW z, NEW m, NEW n,
         Joins(z, x, m, y, n)
  PROVE  /\ m \in Nat /\ n \in Nat
         /\ z \in Seq(S) /\ Len(z) = m + n
         /\ \A i \in 1..m : z[i] = x[i]
         /\ \A i \in 1..n : z[m + i] = y[i]
<1>1. m \in Nat /\ n \in Nat
  BY LenProperties DEF Joins
<1>2. z \in Seq(S) /\ Len(z) = m + n
  BY <1>1, ConcatProperties DEF Joins
<1>3. \A i \in 1..(m + n) : z[i] = IF i <= m THEN x[i] ELSE y[i - m]
  BY <1>1, ConcatProperties DEF Joins
<1>4. ASSUME NEW i \in 1..m PROVE z[i] = x[i]
  <2>1. i \in 1..(m + n) /\ i <= m
    BY <1>1
  <2>2. QED
    BY <1>3, <2>1
<1>5. ASSUME NEW i \in 1..n PROVE z[m + i] = y[i]
  <2>1. PICK j : j = m + i
    OBVIOUS
  <2>2. j \in 1..(m + n) /\ ~(j <= m) /\ j - m = i
    BY <1>1, <2>1
  <2>3. z[j] = y[j - m]
    BY <1>3, <2>2
  <2>4. QED
    BY <2>1, <2>2, <2>3
<1>6. QED
  BY <1>1, <1>2, <1>4, <1>5

LEMMA SubSeqAt ==
  ASSUME NEW S, NEW f \in Seq(S), NEW m \in Nat, NEW x \in Seq(S),
         NEW n, n = Len(x), m + n <= Len(f),
         \A i \in 1..n : f[m + i] = x[i]
  PROVE  SubSeq(f, m + 1, m + n) = x
<1>1. n \in Nat /\ Len(f) \in Nat
  BY LenProperties
<1>2. PICK y, k, l : y = SubSeq(f, k, l) /\ k = m + 1 /\ l = m + n
  OBVIOUS
<1>3. k \in Int /\ l \in Int /\ l - k + 1 = n /\ (IF k <= l THEN l - k + 1 ELSE 0) = n
  BY <1>1, <1>2
<1>4. \A i \in k..l : f[i] \in S
  <2>1. \A i \in k..l : i \in 1..Len(f)
    BY <1>1, <1>2
  <2>2. QED
    BY <2>1, ElementOfSeq
<1>5. /\ y \in Seq(S) /\ Len(y) = n
      /\ \A i \in 1..n : y[i] = f[k + i - 1]
  <2>1. /\ SubSeq(f, k, l) \in Seq(S)
        /\ Len(SubSeq(f, k, l)) = IF k <= l THEN l - k + 1 ELSE 0
        /\ \A i \in 1..(l - k + 1) : SubSeq(f, k, l)[i] = f[k + i - 1]
    BY <1>3, <1>4, SubSeqProperties
  <2>2. QED
    BY <1>2, <1>3, <2>1, Zenon
<1>6. ASSUME NEW i \in 1..n PROVE y[i] = x[i]
  <2>1. k + i - 1 = m + i
    BY <1>1, <1>2
  <2>2. QED
    BY <1>5, <2>1
<1>7. y = x
  BY <1>5, <1>6, SeqEqual
<1>8. QED
  BY <1>2, <1>7

-----------------------------------------------------------------------------
(* FlattenSeq. *)

\* The function of which FlattenSeq takes the last value, for the first n
\* sequences.
Flattens(f, s, n) ==
  f = [i \in 1..n |-> IF i = 1 THEN s[i] ELSE f[i - 1] \o s[i]]

\* Each value is the one before it with the next sequence behind it.
LEMMA FlattensAt ==
  ASSUME NEW f, NEW s, NEW n \in Nat, Flattens(f, s, n), NEW i \in 1..n
  PROVE  f[i] = IF i = 1 THEN s[i] ELSE f[i - 1] \o s[i]
BY DEF Flattens

\* There is one such function,
LEMMA FlattensExists ==
  ASSUME NEW s, NEW n \in Nat
  PROVE  \E f : Flattens(f, s, n)
<1> DEFINE N == {k \in Nat : \E f : Flattens(f, s, k)}
<1>1. 0 \in N
  <2>1. Flattens(<<>>, s, 0)
    BY DEF Flattens
  <2>2. QED
    BY <2>1
<1>2. ASSUME NEW k \in Nat, k \in N PROVE k + 1 \in N
  <2>1. PICK f : Flattens(f, s, k)
    BY <1>2
  <2> DEFINE g == [i \in 1..(k + 1) |->
                     IF i = k + 1 THEN (IF i = 1 THEN s[i] ELSE f[i - 1] \o s[i])
                                  ELSE f[i]]
  <2>2. ASSUME NEW i \in 1..(k + 1)
        PROVE  g[i] = IF i = 1 THEN s[i] ELSE g[i - 1] \o s[i]
    <3>1. CASE i = k + 1
      <4>1. i # 1 => i - 1 \in 1..k /\ g[i - 1] = f[i - 1]
        BY <3>1
      <4>2. QED
        BY <3>1, <4>1
    <3>2. CASE i # k + 1
      <4>1. i \in 1..k /\ g[i] = f[i]
        BY <3>2
      <4>2. i # 1 => i - 1 \in 1..k /\ g[i - 1] = f[i - 1]
        BY <3>2
      <4>3. f[i] = IF i = 1 THEN s[i] ELSE f[i - 1] \o s[i]
        BY <2>1, <4>1 DEF Flattens
      <4>4. QED
        BY <4>1, <4>2, <4>3
    <3>3. QED
      BY <3>1, <3>2
  <2>3. g = [i \in 1..(k + 1) |-> g[i]]
    OBVIOUS
  <2>4. Flattens(g, s, k + 1)
    <3> HIDE DEF g
    <3>1. QED
      BY <2>2, <2>3 DEF Flattens
  <2>5. QED
    BY <2>4
<1>3. Nat \subseteq N
  <2> HIDE DEF N
  <2>1. QED
    BY <1>1, <1>2, NumberInduction
<1>4. QED
  BY <1>3

\* whose values do not depend on n.
LEMMA FlattensUnique ==
  ASSUME NEW s, NEW m \in Nat, NEW n \in Nat, m <= n,
         NEW f, Flattens(f, s, m), NEW g, Flattens(g, s, n),
         NEW i \in 1..m
  PROVE  f[i] = g[i]
<1> DEFINE N == {k \in Nat : k \in 1..m => f[k] = g[k]}
<1>1. 0 \in N
  OBVIOUS
<1>2. ASSUME NEW k \in Nat, k \in N PROVE k + 1 \in N
  <2> SUFFICES ASSUME k + 1 \in 1..m PROVE f[k + 1] = g[k + 1]
    OBVIOUS
  <2>1. /\ f[k + 1] = IF k + 1 = 1 THEN s[k + 1] ELSE f[(k + 1) - 1] \o s[k + 1]
        /\ g[k + 1] = IF k + 1 = 1 THEN s[k + 1] ELSE g[(k + 1) - 1] \o s[k + 1]
    BY k + 1 \in 1..n, FlattensAt
  <2>2. k + 1 # 1 => k \in 1..m /\ f[k] = g[k]
    BY <1>2
  <2>3. (k + 1) - 1 = k
    OBVIOUS
  <2>4. QED
    BY <2>1, <2>2, <2>3
<1>3. Nat \subseteq N
  <2> HIDE DEF N
  <2>1. QED
    BY <1>1, <1>2, NumberInduction
<1>4. QED
  BY <1>3

\* FlattenSeq is the last value.
LEMMA FlattenIsLast ==
  ASSUME NEW S, NEW s \in Seq(Seq(S)), s # <<>>
  PROVE  \E f : Flattens(f, s, Len(s)) /\ FlattenSeq(s) = f[Len(s)]
<1> DEFINE flatten == CHOOSE f : f = [i \in 1..Len(s) |->
                                IF i = 1 THEN s[i] ELSE f[i - 1] \o s[i]]
<1>1. Len(s) \in Nat /\ Len(s) # 0
  BY EmptySeq, LenProperties
<1>2. FlattenSeq(s) = flatten[Len(s)]
  BY <1>1 DEF FlattenSeq
<1>3. Flattens(flatten, s, Len(s))
  BY <1>1, FlattensExists DEF Flattens
<1>4. QED
  BY <1>2, <1>3

\* So FlattenSeq grows with the sequence,
LEMMA FlattenEmpty == FlattenSeq(<<>>) = <<>>
BY DEF FlattenSeq

\* at its end
LEMMA FlattenAppend ==
  ASSUME NEW S, NEW s \in Seq(Seq(S)), NEW x \in Seq(S)
  PROVE  FlattenSeq(Append(s, x)) = FlattenSeq(s) \o x
<1>0. PICK t, n : t = Append(s, x) /\ n = Len(s)
  OBVIOUS
<1>1. /\ t \in Seq(Seq(S)) /\ t # <<>> /\ n \in Nat
      /\ n = Len(s) /\ Len(t) = n + 1 /\ t[n + 1] = x
      /\ \A i \in 1..n : s[i] = t[i]
  BY <1>0, AppendProperties, LenProperties
<1>2. PICK g : Flattens(g, t, n + 1) /\ FlattenSeq(t) = g[n + 1]
  BY <1>1, FlattenIsLast
<1>3. n + 1 \in Nat /\ n + 1 \in 1..(n + 1) /\ n <= n + 1 /\ (n + 1) - 1 = n
  BY <1>1
<1>4. g[n + 1] = IF n + 1 = 1 THEN t[n + 1] ELSE g[(n + 1) - 1] \o t[n + 1]
  BY <1>2, <1>3, FlattensAt, Zenon
<1>5. CASE n = 0
  <2>1. s = <<>> /\ FlattenSeq(s) = <<>>
    BY <1>1, <1>5, EmptySeq, FlattenEmpty
  <2>2. FlattenSeq(t) = x
    BY <1>1, <1>2, <1>4, <1>5
  <2>3. QED
    BY <1>0, <2>1, <2>2, ConcatEmptySeq
<1>6. CASE n # 0
  <2>1. s # <<>> /\ n \in 1..n
    BY <1>1, <1>6, EmptySeq
  <2>2. PICK f : Flattens(f, s, n) /\ FlattenSeq(s) = f[n]
    BY <1>1, <2>1, FlattenIsLast
  <2>3. \A i \in 1..n : f[i] = g[i]
    <3>1. Flattens(f, s, n) /\ Flattens(g, t, n + 1)
      BY <1>2, <2>2
    <3>2. Flattens(f, t, n)
      <4>1. \A i \in 1..n : t[i] = s[i]
        BY <1>1
      <4>2. QED
        BY <3>1, <4>1 DEF Flattens
    <3>3. QED
      BY <1>1, <1>3, <3>1, <3>2, FlattensUnique
  <2>4. FlattenSeq(t) = g[n] \o x
    BY <1>1, <1>2, <1>3, <1>4, <1>6
  <2>5. QED
    BY <1>0, <2>1, <2>2, <2>3, <2>4
<1>7. QED
  BY <1>5, <1>6

\* and stays among the sequences of the same elements.
LEMMA FlattenType ==
  ASSUME NEW S, NEW s \in Seq(Seq(S))
  PROVE  FlattenSeq(s) \in Seq(S)
<1> DEFINE T == {t \in Seq(Seq(S)) : FlattenSeq(t) \in Seq(S)}
<1>1. <<>> \in T
  BY FlattenEmpty, EmptySeq
<1>2. ASSUME NEW t \in Seq(Seq(S)), NEW x \in Seq(S), t \in T
      PROVE  Append(t, x) \in T
  <2>1. FlattenSeq(Append(t, x)) = FlattenSeq(t) \o x
    BY FlattenAppend
  <2>2. QED
    BY <1>2, <2>1, AppendProperties, ConcatProperties
<1>3. Seq(Seq(S)) \subseteq T
  <2> HIDE DEF T
  <2>1. QED
    BY <1>1, <1>2, SequenceInduction
<1>4. QED
  BY <1>3

\* off[k] elements of FlattenSeq(s) come from the first k sequences.
Offsets(off, s) ==
  /\ off \in [0..Len(s) -> Nat]
  /\ off[0] = 0 /\ off[Len(s)] = Len(FlattenSeq(s))
  /\ \A k \in 1..Len(s) :
       /\ off[k] = off[k - 1] + Len(s[k]) /\ off[k] <= Len(FlattenSeq(s))
       /\ \A j \in 1..Len(s[k]) : FlattenSeq(s)[off[k - 1] + j] = s[k][j]

\* Where each sequence is found in FlattenSeq.
LEMMA OffsetsExist ==
  ASSUME NEW S, NEW s \in Seq(Seq(S))
  PROVE  \E off : Offsets(off, s)
<1> DEFINE T == {t \in Seq(Seq(S)) : \E off : Offsets(off, t)}
<1>1. <<>> \in T
  <2>1. Offsets([k \in 0..0 |-> 0], <<>>)
    BY FlattenEmpty DEF Offsets
  <2>2. QED
    BY <2>1
<1>2. ASSUME NEW t \in Seq(Seq(S)), NEW x \in Seq(S), t \in T
      PROVE  Append(t, x) \in T
  <2>1. PICK off : Offsets(off, t)
    BY <1>2
  <2>2. PICK u, f, g, n, m : /\ u = Append(t, x) /\ n = Len(t) /\ m = Len(x)
                             /\ f = FlattenSeq(t) /\ g = FlattenSeq(u)
    OBVIOUS
  <2>3. /\ u \in Seq(Seq(S)) /\ n \in Nat /\ m \in Nat /\ Len(u) = n + 1 /\ u[n + 1] = x
        /\ \A k \in 1..n : u[k] = t[k]
    BY <2>2
  <2>4. f \in Seq(S) /\ g = f \o x
    BY <2>2, FlattenAppend, FlattenType
  <2>5. /\ Len(f) \in Nat /\ Len(g) = Len(f) + m
        /\ \A j \in 1..Len(f) : g[j] = f[j]
        /\ \A j \in 1..m : g[Len(f) + j] = x[j]
    BY <2>2, <2>4
  <2> DEFINE new == [k \in 0..(n + 1) |-> IF k = n + 1 THEN Len(g) ELSE off[k]]
  <2>6. /\ off \in [0..n -> Nat] /\ off[0] = 0 /\ off[n] = Len(f)
        /\ \A k \in 1..n : /\ off[k] = off[k - 1] + Len(t[k]) /\ off[k] <= Len(f)
                           /\ \A j \in 1..Len(t[k]) : f[off[k - 1] + j] = t[k][j]
    BY <2>1, <2>2 DEF Offsets
  <2>7. /\ new \in [0..(n + 1) -> Nat] /\ new[0] = 0 /\ new[n + 1] = Len(g)
        /\ \A k \in 0..n : new[k] = off[k]
    BY <2>3, <2>5, <2>6
  <2> HIDE DEF new
  <2>8. ASSUME NEW k \in 1..(n + 1)
        PROVE  /\ new[k] = new[k - 1] + Len(u[k]) /\ new[k] <= Len(g)
               /\ \A j \in 1..Len(u[k]) : g[new[k - 1] + j] = u[k][j]
    <3>1. CASE k = n + 1
      <4>1. new[k - 1] = Len(f)
        BY <2>3, <2>6, <2>7, <3>1
      <4>2. QED
        BY <2>2, <2>3, <2>5, <2>7, <3>1, <4>1
    <3>2. CASE k # n + 1
      <4>1. k \in 1..n /\ k - 1 \in 0..n
        BY <2>3, <3>2
      <4>2. t[k] \in Seq(S) /\ u[k] = t[k]
        BY <2>2, <2>3, <4>1
      <4>3. new[k] = off[k] /\ new[k - 1] = off[k - 1] /\ off[k - 1] \in Nat /\ off[k] \in Nat
        <5>1. k \in 0..n /\ k - 1 \in 0..n
          BY <2>3, <4>1
        <5>2. off[k] \in Nat /\ off[k - 1] \in Nat
          BY <2>6, <5>1
        <5>3. QED
          BY <2>7, <5>1, <5>2
      <4>4. /\ off[k] = off[k - 1] + Len(t[k]) /\ off[k] <= Len(f)
            /\ \A j \in 1..Len(t[k]) : f[off[k - 1] + j] = t[k][j]
        BY <2>6, <4>1
      <4>5. Len(t[k]) \in Nat
        BY <4>2
      <4>6. ASSUME NEW j \in 1..Len(t[k]) PROVE g[off[k - 1] + j] = t[k][j]
        <5>1. \A o \in Nat, l \in Nat, e \in Nat : o + l <= e => o + j \in 1..e \/ l < j
          OBVIOUS
        <5>2. off[k - 1] + Len(t[k]) <= Len(f)
          BY <4>4
        <5>3. off[k - 1] + j \in 1..Len(f) \/ Len(t[k]) < j
          BY <2>5, <4>3, <4>5, <5>1, <5>2
        <5>4. off[k - 1] + j \in 1..Len(f)
          BY <4>5, <5>3
        <5>5. QED
          BY <2>5, <4>4, <5>4
      <4>7. new[k] <= Len(g)
        BY <2>2, <2>3, <2>5, <4>3, <4>4
      <4>8. QED
        BY <4>2, <4>3, <4>4, <4>6, <4>7
    <3>3. QED
      BY <3>1, <3>2
  <2>9. Offsets(new, u)
    <3>1. Len(u) = n + 1 /\ FlattenSeq(u) = g
      BY <2>2, <2>3
    <3>2. \A k \in 1..(n + 1) :
            /\ new[k] = new[k - 1] + Len(u[k]) /\ new[k] <= Len(g)
            /\ \A j \in 1..Len(u[k]) : g[new[k - 1] + j] = u[k][j]
      BY <2>8
    <3>3. QED
      BY <2>7, <3>1, <3>2, Zenon DEF Offsets
  <2>10. QED
    BY <2>2, <2>3, <2>9
<1>3. Seq(Seq(S)) \subseteq T
  <2> HIDE DEF T
  <2>1. QED
    BY <1>1, <1>2, SequenceInduction
<1>4. QED
  BY <1>3

-----------------------------------------------------------------------------
(* A function applied to each element. *)

Mapped(F, s) == [i \in DOMAIN s |-> F[s[i]]]

LEMMA MappedEmpty ==
  ASSUME NEW F
  PROVE  Mapped(F, <<>>) = <<>>
BY DEF Mapped

\* F takes the elements of S to elements of T.
Maps(F, S, T) == F \in [S -> T]

LEMMA MappedType ==
  ASSUME NEW S, NEW T, NEW F, Maps(F, S, T),
         NEW s \in Seq(S), NEW w, w = Mapped(F, s)
  PROVE  /\ w \in Seq(T) /\ Len(w) = Len(s)
         /\ \A i \in 1..Len(s) : w[i] = F[s[i]]
<1>1. PICK n : n = Len(s)
  OBVIOUS
<1>2. n \in Nat /\ DOMAIN s = 1..n /\ \A i \in 1..n : s[i] \in S
  BY <1>1, LenProperties, ElementOfSeq
<1>3. w = [i \in 1..n |-> F[s[i]]]
  BY <1>2 DEF Mapped
<1>4. \A i \in 1..n : F[s[i]] \in T
  BY <1>2 DEF Maps
<1>5. QED
  BY <1>1, <1>2, <1>3, <1>4

LEMMA MappedAppend ==
  ASSUME NEW S, NEW T, NEW F, Maps(F, S, T),
         NEW s \in Seq(S), NEW x \in S
  PROVE  Mapped(F, Append(s, x)) = Append(Mapped(F, s), F[x])
<1>1. PICK n, t, w, v, u : /\ n = Len(s) /\ t = Append(s, x) /\ w = Mapped(F, s)
                           /\ v = Append(w, F[x]) /\ u = Mapped(F, t)
  OBVIOUS
<1>2. /\ n \in Nat /\ t \in Seq(S) /\ Len(t) = n + 1 /\ t[n + 1] = x
      /\ \A i \in 1..n : t[i] = s[i]
  BY <1>1, LenProperties, AppendProperties
<1>3. w \in Seq(T) /\ Len(w) = n /\ \A i \in 1..n : w[i] = F[s[i]]
  <2>1. w = Mapped(F, s)
    BY <1>1
  <2>2. w \in Seq(T) /\ Len(w) = Len(s) /\ \A i \in 1..Len(s) : w[i] = F[s[i]]
    BY <2>1, MappedType
  <2>3. QED
    BY <1>1, <2>2, Zenon
<1>4. F[x] \in T
  BY DEF Maps
<1>5. /\ v \in Seq(T) /\ Len(v) = n + 1 /\ v[n + 1] = F[x]
      /\ \A i \in 1..n : v[i] = w[i]
  BY <1>1, <1>3, <1>4, AppendProperties
<1>6. u \in Seq(T) /\ Len(u) = n + 1 /\ \A i \in 1..(n + 1) : u[i] = F[t[i]]
  <2>1. u = Mapped(F, t) /\ t \in Seq(S)
    BY <1>1, <1>2
  <2>2. u \in Seq(T) /\ Len(u) = Len(t) /\ \A i \in 1..Len(t) : u[i] = F[t[i]]
    BY <2>1, MappedType
  <2>3. QED
    BY <1>2, <2>2, Zenon
<1>7. ASSUME NEW i \in 1..(n + 1) PROVE u[i] = v[i]
  <2>1. CASE i = n + 1
    BY <1>2, <1>5, <1>6, <2>1
  <2>2. CASE i # n + 1
    <3>1. i \in 1..n
      BY <1>2, <2>2
    <3>2. QED
      BY <1>2, <1>3, <1>5, <1>6, <3>1
  <2>3. QED
    BY <2>1, <2>2
<1>8. u = v
  BY <1>5, <1>6, <1>7, SeqEqual
<1>9. QED
  BY <1>1, <1>8

-----------------------------------------------------------------------------
(* Iteration. *)

\* The values a, F[a], F[F[a]], ... make a function of the numbers.
Iterates(f, F, a) ==
  f = [k \in Nat |-> IF k = 0 THEN a ELSE F[f[k - 1]]]

LEMMA IterationExists ==
  ASSUME NEW F, NEW a
  PROVE  \E f : Iterates(f, F, a)
<1> DEFINE Upto(g, n) == g = [k \in 0..n |-> IF k = 0 THEN a ELSE F[g[k - 1]]]
           N == {n \in Nat : \E g : Upto(g, n)}
<1>1. 0 \in N
  <2>1. Upto([k \in 0..0 |-> a], 0)
    OBVIOUS
  <2>2. QED
    BY <2>1
<1>2. ASSUME NEW n \in Nat, n \in N PROVE n + 1 \in N
  <2>1. PICK g : Upto(g, n)
    BY <1>2
  <2> DEFINE h == [k \in 0..(n + 1) |-> IF k = n + 1 THEN F[g[n]] ELSE g[k]]
  <2>2. ASSUME NEW k \in 0..(n + 1)
        PROVE  h[k] = IF k = 0 THEN a ELSE F[h[k - 1]]
    <3>1. CASE k = n + 1
      <4>1. k # 0 /\ k - 1 = n /\ n \in 0..(n + 1) /\ n # n + 1
        BY <3>1
      <4>2. h[k] = F[g[n]] /\ h[n] = g[n]
        BY <3>1, <4>1
      <4>3. QED
        BY <4>1, <4>2
    <3>2. CASE k # n + 1
      <4>1. k \in 0..n /\ h[k] = g[k]
        BY <3>2
      <4>2. g[k] = IF k = 0 THEN a ELSE F[g[k - 1]]
        BY <2>1, <4>1
      <4>3. k # 0 => k - 1 \in 0..(n + 1) /\ k - 1 # n + 1
        BY <4>1
      <4>4. k # 0 => h[k - 1] = g[k - 1]
        BY <4>3
      <4>5. QED
        BY <4>1, <4>2, <4>4
    <3>3. QED
      BY <3>1, <3>2
  <2>3. h = [k \in 0..(n + 1) |-> h[k]]
    OBVIOUS
  <2>4. Upto(h, n + 1)
    <3> HIDE DEF h
    <3>1. QED
      BY <2>2, <2>3
  <2>5. QED
    <3> HIDE DEF h
    <3>1. QED
      BY <2>4
<1>3. Nat \subseteq N
  <2> HIDE DEF N
  <2>1. QED
    BY <1>1, <1>2, NumberInduction
<1> DEFINE G(n) == CHOOSE g : Upto(g, n)
<1>4. \A n \in Nat : Upto(G(n), n)
  BY <1>3
<1>5. ASSUME NEW n \in Nat, NEW k \in 0..n PROVE G(n)[k] = G(k)[k]
  <2> DEFINE K == {i \in Nat : i \in 0..k => G(n)[i] = G(k)[i]}
  <2> HIDE DEF G
  <2>1. \A i \in 0..n : G(n)[i] = IF i = 0 THEN a ELSE F[G(n)[i - 1]]
    BY <1>4
  <2>2. \A i \in 0..k : G(k)[i] = IF i = 0 THEN a ELSE F[G(k)[i - 1]]
    BY <1>4
  <2>3. 0 \in K
    BY <2>1, <2>2
  <2>4. ASSUME NEW i \in Nat, i \in K PROVE i + 1 \in K
    <3> SUFFICES ASSUME i + 1 \in 0..k PROVE G(n)[i + 1] = G(k)[i + 1]
      OBVIOUS
    <3>1. G(n)[i] = G(k)[i] /\ i + 1 \in 0..n /\ (i + 1) - 1 = i
      BY <2>4
    <3>2. /\ G(n)[i + 1] = IF i + 1 = 0 THEN a ELSE F[G(n)[(i + 1) - 1]]
          /\ G(k)[i + 1] = IF i + 1 = 0 THEN a ELSE F[G(k)[(i + 1) - 1]]
      BY <2>1, <2>2, <3>1
    <3>3. QED
      BY <3>1, <3>2
  <2>5. Nat \subseteq K
    <3> HIDE DEF K
    <3>1. QED
      BY <2>3, <2>4, NumberInduction
  <2>6. QED
    BY <2>5
<1> DEFINE f == [k \in Nat |-> G(k)[k]]
<1>6. ASSUME NEW k \in Nat PROVE f[k] = IF k = 0 THEN a ELSE F[f[k - 1]]
  <2> HIDE DEF G
  <2>1. G(k)[k] = IF k = 0 THEN a ELSE F[G(k)[k - 1]]
    BY <1>4
  <2>2. k # 0 => k - 1 \in Nat /\ G(k)[k - 1] = G(k - 1)[k - 1]
    BY <1>5
  <2>3. QED
    BY <2>1, <2>2
<1>7. f = [k \in Nat |-> f[k]]
  OBVIOUS
<1>8. Iterates(f, F, a)
  <2> HIDE DEF f
  <2>1. QED
    BY <1>6, <1>7 DEF Iterates
<1>9. QED
  BY <1>8

-----------------------------------------------------------------------------
(* Folds. *)

\* Max is the largest element of a set of positions.
LEMMA MaxPosition ==
  ASSUME NEW n \in Nat, NEW s \in SUBSET (1..n), s # {}
  PROVE  Max(s) \in s /\ \A i \in s : Max(s) >= i
<1> DEFINE T == {n - i : i \in s}
<1>1. T \subseteq Nat /\ T # {}
  <2>1. \A i \in s : i \in 1..n
    OBVIOUS
  <2>2. \A i \in 1..n : n - i \in Nat
    OBVIOUS
  <2>3. QED
    BY <2>1, <2>2
<1>2. PICK m \in T : \A k \in T : m <= k
  <2> HIDE DEF T
  <2>1. QED
    BY <1>1, LeastNumber
<1>3. \E x \in s : \A y \in s : x >= y
  <2>1. PICK x \in s : m = n - x
    BY <1>2
  <2>2. ASSUME NEW y \in s PROVE x >= y
    <3>1. n - y \in T /\ x \in 1..n /\ y \in 1..n
      OBVIOUS
    <3>2. m <= n - y
      BY <1>2, <3>1
    <3>3. QED
      BY <2>1, <3>1, <3>2
  <2>3. QED
    BY <2>2
<1>4. QED
  BY <1>3 DEF Max

\* What FoldLeft defines: its value for the positions in s is that for all of
\* them but the last, and then the element at the last one.
Folds(f, F, a, t, n) ==
  f = [s \in SUBSET (1..n) |-> IF s = {} THEN a ELSE F[<<f[s \ {Max(s)}], t[Max(s)]>>]]

Foldable(A, F, a, t, n) ==
  \E f : Folds(f, F, a, t, n) /\ f \in [SUBSET (1..n) -> A]

LEMMA FoldExists ==
  ASSUME NEW A, NEW S, NEW F, Maps(F, A \X S, A), NEW a \in A,
         NEW t \in Seq(S)
  PROVE  \E f : Folds(f, F, a, t, Len(t)) /\ f \in [SUBSET (1..Len(t)) -> A]
<1> DEFINE N == {n \in Nat : n <= Len(t) => Foldable(A, F, a, t, n)}
<1>1. 0 \in N
  <2> DEFINE f == [s \in SUBSET (1..0) |-> a]
  <2>1. \A s \in SUBSET (1..0) : s = {}
    OBVIOUS
  <2>2. Folds(f, F, a, t, 0) /\ f \in [SUBSET (1..0) -> A]
    BY <2>1 DEF Folds
  <2>3. QED
    BY <2>2 DEF Foldable
<1>2. ASSUME NEW n \in Nat, n \in N PROVE n + 1 \in N
  <2> SUFFICES ASSUME n + 1 <= Len(t) PROVE Foldable(A, F, a, t, n + 1)
    OBVIOUS
  <2>1. Len(t) \in Nat /\ n <= Len(t)
    BY LenProperties
  <2>2. PICK f : Folds(f, F, a, t, n) /\ f \in [SUBSET (1..n) -> A]
    BY <1>2, <2>1 DEF Foldable
  <2> DEFINE P == SUBSET (1..(n + 1))
             g == [s \in P |-> IF n + 1 \in s THEN F[<<f[s \ {n + 1}], t[n + 1]>>]
                                              ELSE f[s]]
  <2>3. t[n + 1] \in S
    BY <2>1, ElementOfSeq
  <2>4. ASSUME NEW s \in P
        PROVE  /\ n + 1 \in s => s \ {n + 1} \in SUBSET (1..n)
               /\ n + 1 \notin s => s \in SUBSET (1..n)
    OBVIOUS
  <2>5. ASSUME NEW s \in P PROVE g[s] \in A
    BY <2>2, <2>3, <2>4 DEF Maps
  <2>6. ASSUME NEW s \in P
        PROVE  g[s] = IF s = {} THEN a ELSE F[<<g[s \ {Max(s)}], t[Max(s)]>>]
    <3>1. CASE n + 1 \in s
      <4>1. s \in SUBSET (1..(n + 1)) /\ s # {} /\ n + 1 \in Nat
        BY <3>1
      <4>2. Max(s) \in s /\ Max(s) >= n + 1
        BY <3>1, <4>1, MaxPosition
      <4>3. Max(s) = n + 1
        <5>1. Max(s) \in 1..(n + 1)
          BY <4>2
        <5>2. QED
          BY <4>2, <5>1
      <4>4. s \ {n + 1} \in P /\ n + 1 \notin s \ {n + 1}
        OBVIOUS
      <4>5. g[s \ {n + 1}] = f[s \ {n + 1}] /\ g[s] = F[<<f[s \ {n + 1}], t[n + 1]>>]
        BY <3>1, <4>4
      <4>6. QED
        BY <4>1, <4>3, <4>5
    <3>2. CASE n + 1 \notin s
      <4>1. s \in SUBSET (1..n)
        BY <2>4, <3>2
      <4>2. g[s] = f[s]
        BY <3>2
      <4>3. f[s] = IF s = {} THEN a ELSE F[<<f[s \ {Max(s)}], t[Max(s)]>>]
        BY <2>2, <4>1 DEF Folds
      <4>4. s \ {Max(s)} \in P /\ n + 1 \notin s \ {Max(s)}
        BY <3>2
      <4>5. g[s \ {Max(s)}] = f[s \ {Max(s)}]
        BY <4>4
      <4>6. QED
        BY <4>2, <4>3, <4>5
    <3>3. QED
      BY <3>1, <3>2
  <2>7. g = [s \in P |-> g[s]]
    OBVIOUS
  <2> HIDE DEF g
  <2>8. Folds(g, F, a, t, n + 1)
    BY <2>6, <2>7 DEF Folds
  <2>9. g \in [P -> A]
    BY <2>5, <2>7
  <2>10. QED
    BY <2>8, <2>9 DEF Foldable
<1>3. Nat \subseteq N
  <2> HIDE DEF N
  <2>1. QED
    BY <1>1, <1>2, NumberInduction
<1>4. Foldable(A, F, a, t, Len(t))
  <2>1. Len(t) \in Nat
    BY LenProperties
  <2>2. Len(t) \in N
    BY <1>3, <2>1
  <2>3. QED
    BY <2>1, <2>2
<1>5. QED
  BY <1>4 DEF Foldable

\* The positions up to k, without the last one.
LEMMA LastOfPositions ==
  ASSUME NEW k \in Nat, k # 0
  PROVE  Max(1..k) = k /\ (1..k) \ {k} = 1..(k - 1) /\ 1..k # {}
<1>1. 1..k # {} /\ (1..k) \ {k} = 1..(k - 1) /\ 1..k \in SUBSET (1..k) /\ k \in 1..k
  OBVIOUS
<1>2. Max(1..k) \in 1..k /\ Max(1..k) >= k
  BY <1>1, MaxPosition
<1>3. QED
  BY <1>1, <1>2
=============================================================================
