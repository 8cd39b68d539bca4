----------------------------- MODULE RecursionLemmas -----------------------------
(***************************************************************************)
(* Induction and recursion without operator parameters, for the proofs       *)
(* about operators that are defined by a recursive function: induction says  *)
(* that a set contains all numbers, recursion that there is a function that  *)
(* satisfies its equation.  Then what the proofs need about sequences, and    *)
(* about queues in which nothing is twice.                                  *)
(***************************************************************************)
EXTENDS Integers, Sequences, FiniteSets, NaturalsInduction, WellFoundedInduction, TLAPS

-----------------------------------------------------------------------------
(* Induction. *)

LessThan == {ss \in Nat \X Nat : ss[1] < ss[2]}

LEMMA LessThanWellFounded == IsWellFoundedOn(LessThan, Nat)
BY NatLessThanWellFounded DEF OpToRel, LessThan

\* Every set of numbers that is not empty has a least element.
THEOREM LeastElement ==
    ASSUME NEW S, S \subseteq Nat, S # {}
    PROVE  \E m \in S : \A n \in S : m <= n
<1>1. PICK m \in S : \A n \in S : ~ (<<n, m>> \in LessThan)
    BY LessThanWellFounded, WFMin
<1>2. ASSUME NEW n \in S, n < m PROVE <<n, m>> \in LessThan
    BY <1>2 DEF LessThan
<1>3. ASSUME NEW n \in S PROVE m <= n
  <2>1. ~ (n < m)
      BY <1>1, <1>2
  <2> QED
      BY <2>1
<1> QED
    BY <1>3

\* Induction from one number to the next, up to a bound.
THEOREM InductionUpTo ==
    ASSUME NEW N \in Nat, NEW S, 0 \in S,
           \A n \in 0 .. N - 1 : n \in S => n + 1 \in S
    PROVE  \A n \in 0 .. N : n \in S
<1> DEFINE T == {n \in 0 .. N : n \notin S}
<1>1. SUFFICES ASSUME T # {} PROVE FALSE
    OBVIOUS
<1>2. PICK m \in T : \A n \in T : m <= n
  <2>1. T \subseteq Nat
      OBVIOUS
  <2> HIDE DEF T
  <2> QED
      BY <1>1, <2>1, LeastElement
<1>3. m # 0 /\ m - 1 \in 0 .. N - 1 /\ m - 1 \notin T
    BY <1>2
<1> QED
    BY <1>2, <1>3

\* A number is in S when those above it are, up to N.
FromAbove(S, N) == \A i \in 1 .. N : (\A j \in i + 1 .. N : j \in S) => i \in S

\* Induction from a bound downwards.
THEOREM InductionFromAbove ==
    ASSUME NEW N \in Nat, NEW S, FromAbove(S, N)
    PROVE  \A i \in 1 .. N : i \in S
<1> DEFINE T == {n \in Nat : n < N /\ N - n \notin S}
<1>1. SUFFICES ASSUME T # {} PROVE FALSE
  <2> SUFFICES ASSUME NEW i \in 1 .. N, i \notin S PROVE T # {}
      OBVIOUS
  <2>1. N - i \in Nat /\ N - i < N /\ N - (N - i) = i
      OBVIOUS
  <2>2. N - i \in T
      BY <2>1
  <2> QED
      BY <2>2
<1>2. PICK m \in T : \A n \in T : m <= n
  <2>1. T \subseteq Nat
      OBVIOUS
  <2> HIDE DEF T
  <2> QED
      BY <1>1, <2>1, LeastElement
<1>3. N - m \in 1 .. N /\ N - m \notin S
    BY <1>2
<1>4. ASSUME NEW j \in (N - m) + 1 .. N PROVE j \in S
  <2>1. N - j \in Nat /\ N - j < m /\ N - j < N /\ N - (N - j) = j
      BY <1>2
  <2>2. N - j \notin T
      BY <1>2, <2>1
  <2> QED
      BY <2>1, <2>2
<1> QED
    BY <1>3, <1>4 DEF FromAbove

\* Induction over all numbers.
THEOREM InductionOverNat ==
    ASSUME NEW S, 0 \in S, \A n \in Nat : n \in S => n + 1 \in S
    PROVE  \A n \in Nat : n \in S
<1>1. SUFFICES ASSUME NEW n \in Nat PROVE n \in S
    OBVIOUS
<1> QED
    BY InductionUpTo

\* f and g agree at 0, and at the next number where they agree.
SameSteps(f, g, N) == f[0] = g[0] /\ \A n \in 1 .. N : f[n - 1] = g[n - 1] => f[n] = g[n]

\* Two such functions agree everywhere.
THEOREM AgreeUpTo ==
    ASSUME NEW N \in Nat, NEW f, NEW g, SameSteps(f, g, N)
    PROVE  \A n \in 0 .. N : f[n] = g[n]
<1> DEFINE Same == {n \in 0 .. N : f[n] = g[n]}
<1>1. 0 \in Same
    BY DEF SameSteps
<1>2. ASSUME NEW n \in 0 .. N - 1, n \in Same PROVE n + 1 \in Same
  <2>1. n + 1 \in 1 .. N /\ (n + 1) - 1 = n
      OBVIOUS
  <2> QED
      BY <1>2, <2>1 DEF SameSteps
<1>3. \A n \in 0 .. N : n \in Same
  <2> HIDE DEF Same
  <2> QED
      BY <1>1, <1>2, InductionUpTo
<1> QED
    BY <1>3

-----------------------------------------------------------------------------
(* Recursion. *)

\* f begins with a, and its n-th value is the n-th step from the one before.
Iterates(f, S, a, step) == \A n \in S : f[n] = IF n = 0 THEN a ELSE step[n][f[n - 1]]

\* A first value and a step make a sequence of values.
THEOREM RecursionOverNat ==
    ASSUME NEW S, NEW a \in S, NEW step \in [Nat -> [S -> S]]
    PROVE  \E f \in [Nat -> S] : Iterates(f, Nat, a, step)
<1> DEFINE A(n) == {h \in [0 .. n -> S] :
                        h[0] = a /\ \A k \in 1 .. n : h[k] = step[k][h[k - 1]]}
           Has == {n \in Nat : A(n) # {}}
<1>1. \A n \in Nat : n \in Has
  <2>1. 0 \in Has
    <3>1. [k \in 0 .. 0 |-> a] \in A(0)
        OBVIOUS
    <3> QED
        BY <3>1
  <2>2. ASSUME NEW n \in Nat, n \in Has PROVE n + 1 \in Has
    <3>1. PICK h \in A(n) : TRUE
        BY <2>2
    <3> DEFINE g == [k \in 0 .. n + 1 |-> IF k = n + 1 THEN step[n + 1][h[n]] ELSE h[k]]
    <3>2. g \in [0 .. n + 1 -> S] /\ g[0] = a
        BY <3>1
    <3>3. ASSUME NEW k \in 1 .. n + 1 PROVE g[k] = step[k][g[k - 1]]
      <4>1. CASE k = n + 1
          BY <4>1
      <4>2. CASE k \in 1 .. n
          BY <4>2, <3>1
      <4> QED
          BY <4>1, <4>2
    <3>4. g \in A(n + 1)
        BY <3>2, <3>3
    <3> HIDE DEF A, g
    <3> QED
        BY <3>4
  <2> HIDE DEF A, Has
  <2> QED
      BY <2>1, <2>2, InductionOverNat
<1>2. ASSUME NEW n \in Nat, NEW g \in A(n), NEW m \in Nat, NEW h \in A(m), NEW k \in 0 .. n, k <= m
      PROVE  g[k] = h[k]
  <2> DEFINE Same == {l \in 0 .. k : g[l] = h[l]}
  <2>1. 0 \in Same
      OBVIOUS
  <2>2. ASSUME NEW l \in 0 .. k - 1, l \in Same PROVE l + 1 \in Same
    <3>1. g[l + 1] = step[l + 1][g[l]] /\ h[l + 1] = step[l + 1][h[l]]
      <4>1. l + 1 \in 1 .. n /\ l + 1 \in 1 .. m /\ (l + 1) - 1 = l
          BY <1>2
      <4> QED
          BY <4>1
    <3> QED
        BY <3>1, <2>2
  <2>3. \A l \in 0 .. k : l \in Same
    <3>1. k \in Nat
        OBVIOUS
    <3> HIDE DEF Same
    <3> QED
        BY <2>1, <2>2, <3>1, InductionUpTo
  <2> QED
      BY <2>3
<1> DEFINE f == [n \in Nat |-> (CHOOSE h \in A(n) : TRUE)[n]]
<1>3. ASSUME NEW n \in Nat, NEW h \in A(n), NEW k \in 0 .. n PROVE f[k] = h[k]
  <2>1. (CHOOSE g \in A(k) : TRUE) \in A(k)
    <3>1. k \in Has
      <4> HIDE DEF Has
      <4> QED
          BY <1>1
    <3> HIDE DEF A
    <3> QED
        BY <3>1, Zenon
  <2>2. (CHOOSE g \in A(k) : TRUE)[k] = h[k]
    <3> HIDE DEF A
    <3> QED
        BY <2>1, <1>2
  <2> QED
      BY <2>2
<1>4. ASSUME NEW n \in Nat
      PROVE  f[n] \in S /\ f[n] = IF n = 0 THEN a ELSE step[n][f[n - 1]]
  <2>1. PICK h \in A(n) : TRUE
      BY <1>1
  <2>2. f[n] = h[n] /\ (n # 0 => f[n - 1] = h[n - 1])
    <3> HIDE DEF A, f
    <3> QED
        BY <1>3
  <2> HIDE DEF f
  <2> QED
      BY <2>1, <2>2
<1>5. f \in [Nat -> S]
  <2>1. \A n \in Nat : f[n] \in S
    <3> HIDE DEF f
    <3> QED
        BY <1>4
  <2> QED
      BY <2>1
<1> HIDE DEF f
<1> QED
    BY <1>4, <1>5 DEF Iterates

\* The same up to a bound.
THEOREM RecursionUpTo ==
    ASSUME NEW S, NEW a \in S, NEW N \in Nat, NEW step \in [1 .. N -> [S -> S]]
    PROVE  \E f \in [0 .. N -> S] : Iterates(f, 0 .. N, a, step)
<1> DEFINE same == [x \in S |-> x]
           always == [n \in Nat |-> IF n \in 1 .. N THEN step[n] ELSE same]
<1>1. always \in [Nat -> [S -> S]]
    OBVIOUS
<1>2. PICK g \in [Nat -> S] : Iterates(g, Nat, a, always)
  <2> HIDE DEF always
  <2> QED
      BY <1>1, RecursionOverNat
<1> DEFINE f == [n \in 0 .. N |-> g[n]]
<1>3. f \in [0 .. N -> S]
    OBVIOUS
<1>4. ASSUME NEW n \in 0 .. N PROVE f[n] = IF n = 0 THEN a ELSE step[n][f[n - 1]]
  <2>1. CASE n = 0
      BY <2>1, <1>2 DEF Iterates
  <2>2. CASE n # 0
    <3>1. n \in 1 .. N /\ n - 1 \in 0 .. N /\ n \in Nat
        BY <2>2
    <3>2. g[n] = always[n][g[n - 1]] /\ always[n] = step[n]
      <4>1. always[n] = step[n]
          BY <3>1
      <4> HIDE DEF always
      <4> QED
          BY <4>1, <3>1, <1>2, <2>2 DEF Iterates
    <3> QED
        BY <3>1, <3>2, <2>2
  <2> QED
      BY <2>1, <2>2
<1> HIDE DEF f
<1> QED
    BY <1>3, <1>4 DEF Iterates

\* The values of F depend on those of smaller arguments only.
Descends(F, D, R, m) ==
    \A x \in D : \A g, h \in [D -> R] :
        (\A y \in D : m[y] < m[x] => g[y] = h[y]) => F[g][x] = F[h][x]

FixedPoint(f, F) == f = F[f]

\* A functional whose values depend on those of smaller arguments has a fixed point.
THEOREM RecursionByMeasure ==
    ASSUME NEW D, NEW R, R # {}, NEW m \in [D -> Nat],
           NEW F \in [[D -> R] -> [D -> R]],
           Descends(F, D, R, m)
    PROVE  \E f \in [D -> R] : FixedPoint(f, F)
<1>1. PICK a \in [D -> R] : TRUE
  <2>1. PICK r \in R : TRUE
      OBVIOUS
  <2>2. [x \in D |-> r] \in [D -> R]
      OBVIOUS
  <2> QED
      BY <2>2
<1> DEFINE step == [n \in Nat |-> F]
<1>2. PICK h \in [Nat -> [D -> R]] : \A n \in Nat : h[n + 1] = F[h[n]]
  <2>1. step \in [Nat -> [[D -> R] -> [D -> R]]]
      OBVIOUS
  <2>2. PICK h \in [Nat -> [D -> R]] :Iterates(h, Nat, a, step)
    <3> HIDE DEF step
    <3> QED
        BY <2>1, RecursionOverNat
  <2>3. ASSUME NEW n \in Nat PROVE h[n + 1] = F[h[n]]
    <3>1. n + 1 \in Nat /\ n + 1 # 0 /\ (n + 1) - 1 = n
        OBVIOUS
    <3>2. h[n + 1] = step[n + 1][h[(n + 1) - 1]]
      <4> HIDE DEF step
      <4> QED
          BY <2>2, <3>1 DEF Iterates
    <3> QED
        BY <3>1, <3>2
  <2> QED
      BY <2>3
<1> DEFINE Settled == {n \in Nat : \A x \in D : m[x] < n => h[n + 1][x] = h[n][x]}
<1>3. \A n \in Nat : n \in Settled
  <2>1. 0 \in Settled
      OBVIOUS
  <2>2. ASSUME NEW n \in Nat, n \in Settled PROVE n + 1 \in Settled
    <3>1. ASSUME NEW x \in D, m[x] < n + 1 PROVE h[(n + 1) + 1][x] = h[n + 1][x]
      <4>1. h[(n + 1) + 1] = F[h[n + 1]] /\ h[n + 1] = F[h[n]]
          BY <1>2
      <4>2. h[n + 1] \in [D -> R] /\ h[n] \in [D -> R]
          OBVIOUS
      <4>3. \A y \in D : m[y] < m[x] => h[n + 1][y] = h[n][y]
          BY <3>1, <2>2
      <4> QED
          BY <4>1, <4>2, <4>3 DEF Descends
    <3> QED
        BY <3>1
  <2> HIDE DEF Settled
  <2> QED
      BY <2>1, <2>2, InductionOverNat
<1>4. ASSUME NEW x \in D, NEW n \in Nat, m[x] < n PROVE h[n][x] = h[m[x] + 1][x]
  <2> DEFINE k == m[x] + 1
             Same == {i \in Nat : h[k + i][x] = h[k][x]}
  <2>1. 0 \in Same
      OBVIOUS
  <2>2. ASSUME NEW i \in Nat, i \in Same PROVE i + 1 \in Same
    <3>1. k + i \in Nat /\ m[x] < k + i /\ k + (i + 1) = (k + i) + 1
        OBVIOUS
    <3>2. h[(k + i) + 1][x] = h[k + i][x]
      <4> HIDE DEF k
      <4> QED
          BY <3>1, <1>3
    <3> HIDE DEF k
    <3> QED
        BY <3>1, <3>2, <2>2
  <2>3. \A i \in Nat : i \in Same
    <3> HIDE DEF Same
    <3> QED
        BY <2>1, <2>2, InductionOverNat
  <2>4. n - k \in Nat /\ k + (n - k) = n
      BY <1>4
  <2> HIDE DEF k
  <2> QED
      BY <2>3, <2>4 DEF k
<1> DEFINE f == [x \in D |-> h[m[x] + 1][x]]
<1>5. f \in [D -> R]
    OBVIOUS
<1>6. ASSUME NEW x \in D PROVE f[x] = F[f][x]
  <2>1. \A y \in D : m[y] < m[x] => f[y] = h[m[x]][y]
      BY <1>4
  <2>2. h[m[x]] \in [D -> R] /\ h[m[x] + 1] = F[h[m[x]]]
      BY <1>2
  <2>3. F[f][x] = F[h[m[x]]][x]
    <3> HIDE DEF f
    <3> QED
        BY <1>5, <2>1, <2>2 DEF Descends
  <2> QED
      BY <2>2, <2>3
<1>7. f = F[f]
  <2>1. F[f] \in [D -> R]
      BY <1>5
  <2> HIDE DEF f
  <2> QED
      BY <1>5, <1>6, <2>1
<1> HIDE DEF f
<1> QED
    BY <1>5, <1>7 DEF FixedPoint

\* f has the value of an argument where it stops, and goes on with the next elsewhere.
Chained(f, D, Stops, value, next, step) ==
    \A x \in D : f[x] = IF x \in Stops THEN value[x] ELSE step[x][f[next[x]]]

\* The same where every argument either stops or goes on with one smaller argument.
THEOREM RecursionAlong ==
    ASSUME NEW D, NEW R, R # {}, NEW m \in [D -> Nat],
           NEW Stops, NEW value \in [D -> R], NEW next \in [D -> D], NEW step \in [D -> [R -> R]],
           \A x \in D : x \notin Stops => m[next[x]] < m[x]
    PROVE  \E f \in [D -> R] : Chained(f, D, Stops, value, next, step)
<1> DEFINE F == [g \in [D -> R] |->
                    [x \in D |-> IF x \in Stops THEN value[x] ELSE step[x][g[next[x]]]]]
<1>1. F \in [[D -> R] -> [D -> R]]
    OBVIOUS
<1>2. Descends(F, D, R, m)
  <2> SUFFICES ASSUME NEW x \in D, NEW g \in [D -> R], NEW h \in [D -> R],
                      \A y \in D : m[y] < m[x] => g[y] = h[y]
               PROVE  F[g][x] = F[h][x]
      BY DEF Descends
  <2>1. x \notin Stops => g[next[x]] = h[next[x]]
      OBVIOUS
  <2> QED
      BY <2>1
<1>3. PICK f \in [D -> R] : FixedPoint(f, F)
  <2> HIDE DEF F
  <2> QED
      BY <1>1, <1>2, RecursionByMeasure
<1>4. \A x \in D : F[f][x] = IF x \in Stops THEN value[x] ELSE step[x][f[next[x]]]
    OBVIOUS
<1> QED
    BY <1>3, <1>4 DEF FixedPoint, Chained

-----------------------------------------------------------------------------
(* Sequences. *)

\* Sequences of the same elements are the same.
LEMMA SameSequences ==
    ASSUME NEW S, NEW s \in Seq(S), NEW t \in Seq(S), Len(s) = Len(t),
           \A i \in 1 .. Len(s) : s[i] = t[i]
    PROVE  s = t
OBVIOUS

\* What Append does.
LEMMA AppendIs ==
    ASSUME NEW S, NEW s \in Seq(S), NEW e \in S
    PROVE  /\ Append(s, e) \in Seq(S)
           /\ Len(Append(s, e)) = Len(s) + 1
           /\ \A i \in 1 .. Len(s) : Append(s, e)[i] = s[i]
           /\ Append(s, e)[Len(s) + 1] = e
OBVIOUS

\* What SubSeq does.
LEMMA PrefixIs ==
    ASSUME NEW S, NEW s \in Seq(S), NEW n \in 0 .. Len(s)
    PROVE  /\ SubSeq(s, 1, n) \in Seq(S)
           /\ Len(SubSeq(s, 1, n)) = n
           /\ \A i \in 1 .. n : SubSeq(s, 1, n)[i] = s[i]
<1>1. n \in Nat /\ Len(s) \in Nat /\ \A i \in 1 .. n : s[i] \in S
    OBVIOUS
<1>2. SubSeq(s, 1, n) = [i \in 1 .. n |-> s[i]]
    BY <1>1
<1> QED
    BY <1>1, <1>2

\* What SubSeq does anywhere.
LEMMA SubSeqIs ==
    ASSUME NEW S, NEW s \in Seq(S), NEW m \in 1 .. Len(s) + 1, NEW n \in m - 1 .. Len(s)
    PROVE  /\ SubSeq(s, m, n) \in Seq(S)
           /\ Len(SubSeq(s, m, n)) = n - m + 1
           /\ \A i \in 1 .. n - m + 1 : SubSeq(s, m, n)[i] = s[m + i - 1]
<1>1. n - m + 1 \in Nat /\ Len(s) \in Nat
    OBVIOUS
<1>2. \A i \in 1 .. n - m + 1 : m + i - 1 \in 1 .. Len(s)
    OBVIOUS
<1>3. SubSeq(s, m, n) = [i \in 1 .. n - m + 1 |-> s[m + i - 1]]
    BY <1>1, <1>2
<1> QED
    BY <1>1, <1>2, <1>3

\* SubSeq of SubSeq: the end of a part is the end of a shorter part.
LEMMA PartOfPart ==
    ASSUME NEW S, NEW p \in Seq(S), NEW s \in 0 .. Len(p), NEW x \in s .. Len(p), NEW off \in Nat
    PROVE  /\ SubSeq(p, s + 1, x) \in Seq(S) /\ Len(SubSeq(p, s + 1, x)) = x - s
           /\ SubSeq(p, s + 1 + off, x) = SubSeq(SubSeq(p, s + 1, x), off + 1, Len(SubSeq(p, s + 1, x)))
<1> DEFINE text == SubSeq(p, s + 1, x)
           n == x - s
<1>0. Len(p) \in Nat /\ s \in Nat /\ x \in Nat /\ n \in Nat
    OBVIOUS
<1>1. s + 1 \in 1 .. Len(p) + 1 /\ x \in (s + 1) - 1 .. Len(p) /\ x - (s + 1) + 1 = n
    BY <1>0
<1>2. /\ text \in Seq(S) /\ Len(text) = n
      /\ \A i \in 1 .. n : text[i] = p[s + 1 + i - 1]
    BY <1>1, SubSeqIs
<1> HIDE DEF text
<1>3. CASE off <= n
  <2>1. /\ s + 1 + off \in 1 .. Len(p) + 1 /\ x \in (s + 1 + off) - 1 .. Len(p)
        /\ x - (s + 1 + off) + 1 = n - off
        /\ off + 1 \in 1 .. n + 1 /\ n \in (off + 1) - 1 .. n /\ n - (off + 1) + 1 = n - off
        /\ \A i \in 1 .. n - off : /\ off + 1 + i - 1 \in 1 .. n
                                   /\ s + 1 + (off + 1 + i - 1) - 1 = s + 1 + off + i - 1
      BY <1>0, <1>3
  <2> DEFINE a == s + 1 + off
             u == SubSeq(p, a, x)
             v == SubSeq(text, off + 1, n)
  <2> HIDE DEF n, a
  <2>2. u \in Seq(S) /\ Len(u) = n - off /\ \A i \in 1 .. n - off : u[i] = p[a + i - 1]
      BY <2>1, SubSeqIs DEF a
  <2>3. v \in Seq(S) /\ Len(v) = n - off /\ \A i \in 1 .. n - off : v[i] = text[off + 1 + i - 1]
      BY <1>2, <2>1, SubSeqIs
  <2> HIDE DEF u, v
  <2>4. \A i \in 1 .. n - off : u[i] = v[i]
      BY <1>2, <2>1, <2>2, <2>3 DEF a
  <2>5. u = v
      BY <2>2, <2>3, <2>4, SameSequences
  <2> QED
      BY <1>2, <2>5 DEF u, v, a, text, n
<1>4. CASE ~ (off <= n)
  <2>1. SubSeq(p, s + 1 + off, x) = <<>>
      BY <1>0, <1>4
  <2>2. SubSeq(text, off + 1, n) = <<>>
      BY <1>0, <1>2, <1>4
  <2> QED
      BY <1>2, <2>1, <2>2 DEF text
<1> QED
    BY <1>2, <1>3, <1>4 DEF text

\* A sequence that is not empty has a last element.
LEMMA LastOf ==
    ASSUME NEW S, NEW s \in Seq(S), s # <<>>
    PROVE  /\ Len(s) \in Nat \ {0}
           /\ SubSeq(s, 1, Len(s) - 1) \in Seq(S)
           /\ Len(SubSeq(s, 1, Len(s) - 1)) = Len(s) - 1
           /\ s[Len(s)] \in S
           /\ s = Append(SubSeq(s, 1, Len(s) - 1), s[Len(s)])
<1> DEFINE front == SubSeq(s, 1, Len(s) - 1)
<1>1. Len(s) \in Nat \ {0} /\ s[Len(s)] \in S /\ Len(s) - 1 \in 0 .. Len(s)
    OBVIOUS
<1>2. front \in Seq(S) /\ Len(front) = Len(s) - 1 /\ \A i \in 1 .. Len(s) - 1 : front[i] = s[i]
    BY <1>1, PrefixIs
<1> HIDE DEF front
<1>3. /\ Append(front, s[Len(s)]) \in Seq(S)
      /\ Len(Append(front, s[Len(s)])) = Len(s)
      /\ \A i \in 1 .. Len(s) : Append(front, s[Len(s)])[i] = s[i]
    BY <1>1, <1>2, AppendIs
<1>4. s = Append(front, s[Len(s)])
    BY <1>3, SameSequences
<1> QED
    BY <1>1, <1>2, <1>4 DEF front

\* The next longer prefix of a sequence.
LEMMA NextPrefix ==
    ASSUME NEW S, NEW s \in Seq(S), NEW n \in 0 .. Len(s) - 1
    PROVE  SubSeq(s, 1, n + 1) = Append(SubSeq(s, 1, n), s[n + 1])
<1> DEFINE p == SubSeq(s, 1, n)
           q == SubSeq(s, 1, n + 1)
<1>1. n \in 0 .. Len(s) /\ n + 1 \in 0 .. Len(s) /\ s[n + 1] \in S
    OBVIOUS
<1>2. p \in Seq(S) /\ Len(p) = n /\ \A i \in 1 .. n : p[i] = s[i]
    BY <1>1, PrefixIs
<1>3. q \in Seq(S) /\ Len(q) = n + 1 /\ \A i \in 1 .. n + 1 : q[i] = s[i]
    BY <1>1, PrefixIs
<1> DEFINE r == Append(p, s[n + 1])
<1> HIDE DEF p, q
<1>4. r \in Seq(S) /\ Len(r) = n + 1 /\ \A i \in 1 .. n + 1 : r[i] = s[i]
    BY <1>1, <1>2, AppendIs
<1> HIDE DEF r
<1>5. q = r
    BY <1>3, <1>4, SameSequences
<1> QED
    BY <1>5 DEF p, q, r

-----------------------------------------------------------------------------
(* Queues in which nothing is twice. *)

Members(s) == {s[i] : i \in DOMAIN s}

NothingTwice(s) == \A i, j \in DOMAIN s : s[i] = s[j] => i = j

\* Who is not yet in the queue may be appended.
LEMMA AppendedOnce ==
    ASSUME NEW S, NEW s \in Seq(S), NothingTwice(s), NEW e \in S, e \notin Members(s)
    PROVE  Members(Append(s, e)) = Members(s) \cup {e} /\ NothingTwice(Append(s, e))
<1> DEFINE t == Append(s, e)
<1>1. /\ DOMAIN s = 1 .. Len(s) /\ DOMAIN t = 1 .. Len(s) + 1
      /\ Len(s) \in Nat
      /\ t[Len(s) + 1] = e
      /\ \A i \in 1 .. Len(s) : t[i] = s[i]
    OBVIOUS
<1> HIDE DEF t
<1>2. Members(t) = Members(s) \cup {e}
    BY <1>1 DEF Members
<1>3. ASSUME NEW i \in 1 .. Len(s) + 1, NEW j \in 1 .. Len(s) + 1, t[i] = t[j]
      PROVE  i = j
  <2>1. CASE i \in 1 .. Len(s) /\ j \in 1 .. Len(s)
      BY <1>1, <1>3, <2>1 DEF NothingTwice
  <2>2. CASE i = Len(s) + 1 \/ j = Len(s) + 1
      BY <1>1, <1>3, <2>2 DEF Members
  <2> QED
      BY <1>1, <2>1, <2>2
<1>4. NothingTwice(t)
    BY <1>1, <1>3 DEF NothingTwice
<1> QED
    BY <1>2, <1>4 DEF t

\* Who leaves the head of the queue is in it no more.
LEMMA TakenOnce ==
    ASSUME NEW S, NEW s \in Seq(S), s # <<>>, NothingTwice(s)
    PROVE  /\ Members(Tail(s)) = Members(s) \ {Head(s)} /\ Head(s) \in Members(s)
           /\ NothingTwice(Tail(s))
<1> DEFINE t == Tail(s)
<1>1. /\ DOMAIN s = 1 .. Len(s) /\ DOMAIN t = 1 .. Len(s) - 1
      /\ Len(s) \in Nat \ {0}
      /\ Head(s) = s[1]
      /\ \A i \in 1 .. Len(s) - 1 : t[i] = s[i + 1]
    OBVIOUS
<1> HIDE DEF t
<1>2. NothingTwice(t)
    BY <1>1 DEF NothingTwice
<1>3. Head(s) \in Members(s)
    BY <1>1 DEF Members
<1>4. Members(t) \subseteq Members(s) \ {Head(s)}
    BY <1>1 DEF Members, NothingTwice
<1>5. ASSUME NEW e \in Members(s), e # Head(s) PROVE e \in Members(t)
  <2>1. PICK i \in 1 .. Len(s) : s[i] = e
      BY <1>1 DEF Members
  <2>2. i - 1 \in 1 .. Len(s) - 1 /\ t[i - 1] = e
      BY <1>1, <1>5, <2>1
  <2> QED
      BY <1>1, <2>2 DEF Members
<1> QED
    BY <1>2, <1>3, <1>4, <1>5 DEF t
=============================================================================
