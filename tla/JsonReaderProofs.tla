--------------------------- MODULE JsonReaderProofs ---------------------------
(***************************************************************************)
(* Theorems about JsonReader, for texts of any length.                      *)
(***************************************************************************)
EXTENDS JsonReader, RecursionLemmas, SequenceTheorems, FiniteSetTheorems

-----------------------------------------------------------------------------
(* Places in a text. *)

\* The least of a set of numbers, if one knows it.
LEMMA MinIs ==
    ASSUME NEW S, S \subseteq Int, NEW m \in S, \A k \in S : m <= k
    PROVE  Min(S) = m
<1>1. m \in S /\ \A k \in S : m <= k
    OBVIOUS
<1>2. Min(S) \in S /\ \A k \in S : Min(S) <= k
    BY <1>1, Zenon DEF Min
<1>3. m \in Int /\ Min(S) \in Int /\ m <= Min(S) /\ Min(S) <= m
    BY <1>1, <1>2
<1> QED
    BY <1>3

\* m is the first place from i on with a character of S, or the end.
IsSeek(t, i, S, m) ==
    /\ m \in 1 .. Len(t) + 1
    /\ \A j \in i .. m - 1 : t[j] \notin S
    /\ m <= Len(t) => i <= m /\ t[m] \in S

\* The same for a character outside S.
IsPass(t, i, S, m) ==
    /\ m \in 1 .. Len(t) + 1
    /\ \A j \in i .. m - 1 : t[j] \in S
    /\ m <= Len(t) => i <= m /\ t[m] \notin S

LEMMA SeekOnly ==
    ASSUME NEW t \in Seq(STRING), NEW i \in Nat \ {0}, NEW S, NEW m, IsSeek(t, i, S, m)
    PROVE  Seek(t, i, S) = m
<1> DEFINE P == {j \in i .. Len(t) : t[j] \in S} \cup {Len(t) + 1}
<1>1. Len(t) \in Nat /\ m \in 1 .. Len(t) + 1
    BY DEF IsSeek
<1>2. P \subseteq Int
    BY <1>1
<1>3. m \in P
    BY <1>1 DEF IsSeek
<1>4. \A k \in P : m <= k
    BY <1>1 DEF IsSeek
<1> HIDE DEF P
<1>5. Min(P) = m
    BY <1>2, <1>3, <1>4, MinIs
<1> QED
    BY <1>5 DEF Seek, P

LEMMA PassOnly ==
    ASSUME NEW t \in Seq(STRING), NEW i \in Nat \ {0}, NEW S, NEW m, IsPass(t, i, S, m)
    PROVE  Pass(t, i, S) = m
<1> DEFINE P == {j \in i .. Len(t) : t[j] \notin S} \cup {Len(t) + 1}
<1>1. Len(t) \in Nat /\ m \in 1 .. Len(t) + 1
    BY DEF IsPass
<1>2. P \subseteq Int
    BY <1>1
<1>3. m \in P
    BY <1>1 DEF IsPass
<1>4. \A k \in P : m <= k
    BY <1>1 DEF IsPass
<1> HIDE DEF P
<1>5. Min(P) = m
    BY <1>2, <1>3, <1>4, MinIs
<1> QED
    BY <1>5 DEF Pass, P

LEMMA SeekIs ==
    ASSUME NEW t \in Seq(STRING), NEW i \in Nat \ {0}, NEW S
    PROVE  IsSeek(t, i, S, Seek(t, i, S))
<1> DEFINE P == {j \in i .. Len(t) : t[j] \in S} \cup {Len(t) + 1}
<1>1. Len(t) \in Nat
    OBVIOUS
<1>2. P \subseteq Nat /\ Len(t) + 1 \in P
    BY <1>1
<1>3. PICK m \in P : \A k \in P : m <= k
  <2> HIDE DEF P
  <2> QED
      BY <1>2, LeastElement
<1>4. m \in 1 .. Len(t) + 1
    BY <1>1, <1>3
<1>5. ASSUME NEW j \in i .. m - 1 PROVE t[j] \notin S
    BY <1>1, <1>3, <1>4, <1>5
<1>6. m <= Len(t) => i <= m /\ t[m] \in S
    BY <1>1, <1>3
<1>7. IsSeek(t, i, S, m)
    BY <1>4, <1>5, <1>6 DEF IsSeek
<1> QED
    BY <1>7, SeekOnly

LEMMA PassIs ==
    ASSUME NEW t \in Seq(STRING), NEW i \in Nat \ {0}, NEW S
    PROVE  IsPass(t, i, S, Pass(t, i, S))
<1> DEFINE P == {j \in i .. Len(t) : t[j] \notin S} \cup {Len(t) + 1}
<1>1. Len(t) \in Nat
    OBVIOUS
<1>2. P \subseteq Nat /\ Len(t) + 1 \in P
    BY <1>1
<1>3. PICK m \in P : \A k \in P : m <= k
  <2> HIDE DEF P
  <2> QED
      BY <1>2, LeastElement
<1>4. m \in 1 .. Len(t) + 1
    BY <1>1, <1>3
<1>5. ASSUME NEW j \in i .. m - 1 PROVE t[j] \in S
    BY <1>1, <1>3, <1>4, <1>5
<1>6. m <= Len(t) => i <= m /\ t[m] \notin S
    BY <1>1, <1>3
<1>7. IsPass(t, i, S, m)
    BY <1>4, <1>5, <1>6 DEF IsPass
<1> QED
    BY <1>7, PassOnly

-----------------------------------------------------------------------------
(* Strings. *)

\* The text of a string ends at j.
EndsAt(t, j, Stops) == At(t, j) \in {"NUL", "NL"} \/ At(t, j) \in Stops

\* Where a string goes on behind j, and by how much it gets shorter, unless it is an error.
EscapeAt(t, j, Escapes) ==
    IF At(t, j) # "BSL" THEN <<1, 0>>
    ELSE IF At(t, j + 1) \in Escapes THEN <<2, 1>>
    ELSE IF At(t, j + 1) = "u" /\ \A k \in 2 .. 5 : At(t, j + k) \in Hex THEN <<7, 6>>
    ELSE <<0, 0>>

GoesOnFrom(t, j, Stops, Escapes) == ~ EndsAt(t, j, Stops) /\ EscapeAt(t, j, Escapes)[1] # 0

EndOf(t, j, Stops) ==
    IF At(t, j) \notin {"NUL", "NL"} /\ At(t, j) \in Stops THEN <<j, 0>> ELSE <<0, 0>>

Shortened(end, n) == <<end[1], end[2] + n>>

\* What the scan of a string is, in terms of these.
IsScan(f, t, Stops, Escapes) ==
    \A j \in Nat :
        f[j] = IF GoesOnFrom(t, j, Stops, Escapes)
                  THEN Shortened(f[j + EscapeAt(t, j, Escapes)[1]], EscapeAt(t, j, Escapes)[2])
                  ELSE EndOf(t, j, Stops)

LEMMA EscapesAre ==
    ASSUME NEW t, NEW j, NEW Escapes
    PROVE  /\ EscapeAt(t, j, Escapes)[1] \in {0, 1, 2, 7}
           /\ EscapeAt(t, j, Escapes)[2] \in {0, 1, 6}
           /\ EscapeAt(t, j, Escapes)[1] = 1 => EscapeAt(t, j, Escapes)[2] = 0
           /\ EscapeAt(t, j, Escapes)[1] \in {2, 7} => At(t, j) = "BSL"
    BY DEF EscapeAt

LEMMA ScanExists ==
    ASSUME NEW t \in Seq(STRING), NEW Stops, NEW Escapes
    PROVE  \E f \in [Nat -> Nat \X Nat] : IsScan(f, t, Stops, Escapes)
<1> DEFINE R == Nat \X Nat
           Stopping == {j \in Nat : ~ GoesOnFrom(t, j, Stops, Escapes)}
           val == [j \in Nat |-> EndOf(t, j, Stops)]
           nxt == [j \in Nat |-> j + EscapeAt(t, j, Escapes)[1]]
           m == [j \in Nat |-> IF j <= Len(t) THEN Len(t) + 1 - j ELSE 0]
           step == [j \in Nat |-> [r \in R |-> Shortened(r, EscapeAt(t, j, Escapes)[2])]]
<1>1. Len(t) \in Nat
    OBVIOUS
<1>2. nxt \in [Nat -> Nat] /\ m \in [Nat -> Nat]
    BY <1>1, EscapesAre
<1>3. val \in [Nat -> R] /\ R # {}
  <2>1. \A j \in Nat : EndOf(t, j, Stops) \in R
      BY DEF EndOf
  <2>2. <<0, 0>> \in R
      OBVIOUS
  <2> QED
      BY <2>1, <2>2
<1>4. step \in [Nat -> [R -> R]]
  <2>1. ASSUME NEW j \in Nat, NEW r \in R PROVE Shortened(r, EscapeAt(t, j, Escapes)[2]) \in R
    <3>1. EscapeAt(t, j, Escapes)[2] \in Nat
        BY EscapesAre
    <3> QED
        BY <3>1 DEF Shortened
  <2> QED
      BY <2>1
<1>5. ASSUME NEW j \in Nat, j \notin Stopping PROVE m[nxt[j]] < m[j]
  <2>1. ~ EndsAt(t, j, Stops) /\ EscapeAt(t, j, Escapes)[1] \in {1, 2, 7}
      BY <1>5, EscapesAre DEF GoesOnFrom
  <2>2. j <= Len(t)
      BY <1>1, <2>1 DEF EndsAt, At
  <2>3. nxt[j] \in Nat /\ nxt[j] > j
      BY <2>1
  <2> HIDE DEF nxt
  <2> QED
      BY <1>1, <2>2, <2>3
<1>6. PICK f \in [Nat -> R] : Chained(f, Nat, Stopping, val, nxt, step)
  <2> HIDE DEF Stopping, val, R, nxt, m, step
  <2> QED
      BY <1>2, <1>3, <1>4, <1>5, RecursionAlong
<1>7. ASSUME NEW j \in Nat
      PROVE  f[j] = IF GoesOnFrom(t, j, Stops, Escapes)
                       THEN Shortened(f[j + EscapeAt(t, j, Escapes)[1]], EscapeAt(t, j, Escapes)[2])
                       ELSE EndOf(t, j, Stops)
  <2>1. f[j] = IF j \in Stopping THEN val[j] ELSE step[j][f[nxt[j]]]
      BY <1>6 DEF Chained
  <2>2. f[nxt[j]] \in R
      BY <1>2, <1>6
  <2>3. step[j][f[nxt[j]]] = Shortened(f[nxt[j]], EscapeAt(t, j, Escapes)[2])
    <3> HIDE DEF nxt
    <3> QED
        BY <2>2
  <2> QED
      BY <2>1, <2>3
<1> QED
    BY <1>6, <1>7 DEF IsScan

\* How the end of a string is found: one step of the scan.
Scanned(t, j, Stops, Escapes, one, two, seven) ==
    IF At(t, j) \in {"NUL", "NL"} THEN <<0, 0>>
    ELSE IF At(t, j) \in Stops THEN <<j, 0>>
    ELSE IF At(t, j) # "BSL" THEN one
    ELSE IF At(t, j + 1) \in Escapes THEN Shortened(two, 1)
    ELSE IF At(t, j + 1) = "u" /\ \A k \in 2 .. 5 : At(t, j + k) \in Hex THEN Shortened(seven, 6)
    ELSE <<0, 0>>

LEMMA StringEndIs ==
    ASSUME NEW t \in Seq(STRING), NEW Stops, NEW Escapes, NEW i \in Nat
    PROVE  StringEnd(t, i, Stops, Escapes) =
               Scanned(t, i, Stops, Escapes, StringEnd(t, i + 1, Stops, Escapes),
                       StringEnd(t, i + 2, Stops, Escapes), StringEnd(t, i + 7, Stops, Escapes))
<1> DEFINE Is(f) == f = [j \in Nat |-> Scanned(t, j, Stops, Escapes, f[j + 1], f[j + 2], f[j + 7])]
           scan == CHOOSE f : Is(f)
<1>1. \A j : StringEnd(t, j, Stops, Escapes) = scan[j]
    BY DEF StringEnd, Scanned, Shortened
<1>2. PICK f \in [Nat -> Nat \X Nat] : IsScan(f, t, Stops, Escapes)
    BY ScanExists
<1>3. ASSUME NEW j \in Nat PROVE f[j] = Scanned(t, j, Stops, Escapes, f[j + 1], f[j + 2], f[j + 7])
  <2>1. f[j + 1] \in Nat \X Nat
    <3>1. j + 1 \in Nat
        OBVIOUS
    <3> QED
        BY <3>1, Zenon
  <2>2. f[j + 1] = <<f[j + 1][1], f[j + 1][2] + 0>>
    <3>1. \A r \in Nat \X Nat : r = <<r[1], r[2] + 0>>
        OBVIOUS
    <3> QED
        BY <2>1, <3>1, Zenon
  <2>3. f[j] = IF GoesOnFrom(t, j, Stops, Escapes)
                  THEN Shortened(f[j + EscapeAt(t, j, Escapes)[1]], EscapeAt(t, j, Escapes)[2])
                  ELSE EndOf(t, j, Stops)
      BY <1>2 DEF IsScan
  <2>4. CASE GoesOnFrom(t, j, Stops, Escapes)
    <3>1. At(t, j) \notin {"NUL", "NL"} /\ At(t, j) \notin Stops
        BY <2>4 DEF GoesOnFrom, EndsAt
    <3>2. CASE At(t, j) # "BSL"
        BY <2>2, <2>3, <2>4, <3>1, <3>2 DEF EscapeAt, Scanned, Shortened
    <3>3. CASE At(t, j) = "BSL" /\ At(t, j + 1) \in Escapes
      <4>1. EscapeAt(t, j, Escapes) = <<2, 1>>
          BY <3>3 DEF EscapeAt
      <4> QED
          BY <2>3, <2>4, <3>1, <3>3, <4>1 DEF Scanned
    <3>4. CASE At(t, j) = "BSL" /\ At(t, j + 1) \notin Escapes
      <4>1. /\ EscapeAt(t, j, Escapes) = <<7, 6>>
            /\ At(t, j + 1) = "u" /\ \A k \in 2 .. 5 : At(t, j + k) \in Hex
          BY <2>4, <3>4 DEF EscapeAt, GoesOnFrom
      <4> QED
          BY <2>3, <2>4, <3>1, <3>4, <4>1 DEF Scanned
    <3> QED
        BY <3>2, <3>3, <3>4
  <2>5. CASE ~ GoesOnFrom(t, j, Stops, Escapes)
    <3>1. CASE EndsAt(t, j, Stops)
        BY <2>3, <2>5, <3>1 DEF EndOf, EndsAt, Scanned
    <3>2. CASE ~ EndsAt(t, j, Stops)
      <4>1. EscapeAt(t, j, Escapes)[1] = 0 /\ At(t, j) \notin {"NUL", "NL"} /\ At(t, j) \notin Stops
          BY <2>5, <3>2 DEF GoesOnFrom, EndsAt
      <4>2. /\ At(t, j) = "BSL" /\ At(t, j + 1) \notin Escapes
            /\ ~ (At(t, j + 1) = "u" /\ \A k \in 2 .. 5 : At(t, j + k) \in Hex)
          BY <4>1 DEF EscapeAt
      <4> QED
          BY <2>3, <2>5, <4>1, <4>2 DEF EndOf, Scanned
    <3> QED
        BY <3>1, <3>2
  <2> QED
      BY <2>4, <2>5
<1>4. Is(f)
    BY <1>2, <1>3
<1>5. Is(scan)
  <2> HIDE DEF Is
  <2> QED
      BY <1>4
<1>6. scan[i] = Scanned(t, i, Stops, Escapes, scan[i + 1], scan[i + 2], scan[i + 7])
    BY <1>5
<1> HIDE DEF scan
<1>7. /\ StringEnd(t, i, Stops, Escapes) = scan[i]
      /\ StringEnd(t, i + 1, Stops, Escapes) = scan[i + 1]
      /\ StringEnd(t, i + 2, Stops, Escapes) = scan[i + 2]
      /\ StringEnd(t, i + 7, Stops, Escapes) = scan[i + 7]
    BY <1>1
<1> QED
    BY <1>6, <1>7

\* Without a backslash.
Unescaped(t) == \A j \in 1 .. Len(t) : t[j] # "BSL"

\* A string that goes on at i ends behind it, or it is an error.
EndsBehind(t, i, Stops, end) ==
    end[1] # 0 =>
        /\ end[1] \in i .. Len(t)
        /\ t[end[1]] \in Stops
        /\ Unescaped(t) => \A j \in i .. end[1] - 1 : t[j] \notin Stops

LEMMA EndsLater ==
    ASSUME NEW t \in Seq(STRING), NEW i \in Nat \ {0}, NEW Stops, NEW d \in {1, 2, 7}, NEW end, NEW n,
           EndsBehind(t, i + d, Stops, end), i <= Len(t), t[i] \notin Stops, d # 1 => t[i] = "BSL"
    PROVE  EndsBehind(t, i, Stops, end) /\ EndsBehind(t, i, Stops, Shortened(end, n))
<1>1. Len(t) \in Nat
    OBVIOUS
<1>2. Unescaped(t) => d = 1
    BY <1>1 DEF Unescaped
<1>3. ASSUME end[1] # 0
      PROVE  /\ end[1] \in i .. Len(t)
             /\ t[end[1]] \in Stops
             /\ Unescaped(t) => \A j \in i .. end[1] - 1 : t[j] \notin Stops
  <2>1. end[1] \in i + d .. Len(t) /\ t[end[1]] \in Stops
      BY <1>3 DEF EndsBehind
  <2>2. ASSUME Unescaped(t), NEW j \in i .. end[1] - 1 PROVE t[j] \notin Stops
    <3>1. \A k \in i + 1 .. end[1] - 1 : t[k] \notin Stops
        BY <1>2, <1>3, <2>2 DEF EndsBehind
    <3>2. j = i \/ j \in i + 1 .. end[1] - 1
        BY <2>1
    <3> QED
        BY <3>1, <3>2
  <2> QED
      BY <1>1, <2>1, <2>2
<1>4. Shortened(end, n)[1] = end[1]
    BY DEF Shortened
<1> QED
    BY <1>3, <1>4 DEF EndsBehind

LEMMA StringEnds ==
    ASSUME NEW t \in Seq(STRING), NEW Stops, NEW Escapes, NEW k \in Nat \ {0}
    PROVE  EndsBehind(t, k, Stops, StringEnd(t, k, Stops, Escapes))
<1> DEFINE N == Len(t) + 1
           E(i) == StringEnd(t, i, Stops, Escapes)
           S == {i \in 1 .. N : EndsBehind(t, i, Stops, E(i))}
<1>1. N \in Nat /\ Len(t) \in Nat
    OBVIOUS
<1>2. ASSUME NEW i \in Nat PROVE E(i) = Scanned(t, i, Stops, Escapes, E(i + 1), E(i + 2), E(i + 7))
    BY StringEndIs
<1>3. EndsBehind(t, 1, Stops, <<0, 0>>) /\ \A i : EndsBehind(t, i, Stops, <<0, 0>>)
    BY DEF EndsBehind
<1>4. ASSUME NEW i \in Nat, i > Len(t) PROVE EndsBehind(t, i, Stops, E(i))
  <2>1. At(t, i) = "NUL"
      BY <1>1, <1>4 DEF At
  <2>2. E(i) = <<0, 0>>
      BY <1>2, <2>1 DEF Scanned
  <2> HIDE DEF E
  <2> QED
      BY <1>3, <2>2
<1>5. FromAbove(S, N)
  <2>1. ASSUME NEW i \in 1 .. N, \A j \in i + 1 .. N : j \in S PROVE i \in S
    <3>1. i \in Nat \ {0} /\ i + 1 \in Nat /\ i + 2 \in Nat /\ i + 7 \in Nat
        BY <1>1
    <3>2. CASE i > Len(t)
        BY <1>4, <2>1, <3>1, <3>2
    <3>3. CASE i <= Len(t)
      <4>1. At(t, i) = t[i]
          BY <3>3 DEF At
      <4>2. ASSUME NEW j \in Nat, j > i PROVE EndsBehind(t, j, Stops, E(j))
        <5>1. CASE j > Len(t)
            BY <1>4, <5>1
        <5>2. CASE j <= Len(t)
          <6>1. j \in i + 1 .. N
              BY <1>1, <3>1, <4>2, <5>2
          <6>2. j \in S
              BY <2>1, <6>1
          <6> QED
              BY <6>2
        <5> QED
            BY <1>1, <5>1, <5>2
      <4>3. EndsBehind(t, i + 1, Stops, E(i + 1)) /\ EndsBehind(t, i + 2, Stops, E(i + 2))
            /\ EndsBehind(t, i + 7, Stops, E(i + 7))
        <5>1. i + 1 > i /\ i + 2 > i /\ i + 7 > i
            BY <3>1
        <5> HIDE DEF E
        <5> QED
            BY <3>1, <4>2, <5>1
      <4>4. E(i) = Scanned(t, i, Stops, Escapes, E(i + 1), E(i + 2), E(i + 7))
          BY <1>2, <3>1
      <4> DEFINE e1 == E(i + 1)
                 e2 == E(i + 2)
                 e7 == E(i + 7)
      <4>5. EndsBehind(t, i, Stops, E(i))
        <5>1. CASE t[i] \in {"NUL", "NL"}
            BY <1>3, <4>1, <4>4, <5>1 DEF Scanned
        <5>2. CASE t[i] \notin {"NUL", "NL"} /\ t[i] \in Stops
          <6>1. E(i) = <<i, 0>>
              BY <4>1, <4>4, <5>2 DEF Scanned
          <6>2. EndsBehind(t, i, Stops, <<i, 0>>)
              BY <3>1, <3>3, <5>2 DEF EndsBehind
          <6> HIDE DEF E
          <6> QED
              BY <6>1, <6>2
        <5>3. CASE t[i] \notin {"NUL", "NL"} /\ t[i] \notin Stops
          <6> HIDE DEF E
          <6>1. E(i) \in {<<0, 0>>, e1, Shortened(e2, 1), Shortened(e7, 6)}
                /\ (E(i) = e1 \/ t[i] = "BSL" \/ E(i) = <<0, 0>>)
              BY <4>1, <4>4, <5>3 DEF Scanned
          <6>2. EndsBehind(t, i + 1, Stops, e1) /\ EndsBehind(t, i + 2, Stops, e2)
                /\ EndsBehind(t, i + 7, Stops, e7)
              BY <4>3
          <6> HIDE DEF e1, e2, e7
          <6>3. EndsBehind(t, i, Stops, e1)
              BY <3>1, <3>3, <5>3, <6>2, EndsLater
          <6>4. t[i] = "BSL" => EndsBehind(t, i, Stops, Shortened(e2, 1)) /\ EndsBehind(t, i, Stops, Shortened(e7, 6))
              BY <3>1, <3>3, <5>3, <6>2, EndsLater
          <6> QED
              BY <1>3, <6>1, <6>3, <6>4
        <5> QED
            BY <5>1, <5>2, <5>3
      <4> QED
          BY <4>5
    <3> QED
        BY <1>1, <3>2, <3>3
  <2> HIDE DEF S
  <2> QED
      BY <2>1 DEF FromAbove
<1>6. \A i \in 1 .. N : i \in S
  <2> HIDE DEF S, N
  <2> QED
      BY <1>1, <1>5, InductionFromAbove
<1> QED
    BY <1>1, <1>4, <1>6

-----------------------------------------------------------------------------
(* Tokens. *)

Scalars == {"string", "int", "uint", "number"}

IsError(n) == n.tok.type = "error"

\* n is the token of a value that begins at i, and the cursor behind it.
ValueAt(t, i, n) == n.tok.type \in Scalars /\ n.at \in i + 1 .. Len(t) + 1

\* Nothing in it is a bracket, a comma or a colon.
NoControl(t, i, n) == n.tok.start = i /\ \A j \in i + 1 .. n.at - 1 : t[j] \notin Control

LEMMA FoundIs ==
    ASSUME NEW type, NEW start, NEW len, NEW v, NEW a
    PROVE  /\ Found(type, start, len, v, a).at = a
           /\ Found(type, start, len, v, a).tok.type = type
           /\ Found(type, start, len, v, a).tok.start = start
    BY DEF Found

LEMMA FailedIs == IsError(Failed)
    BY DEF Failed, Found, IsError

LEMMA QuoteStringIs ==
    ASSUME NEW t \in Seq(STRING), NEW i \in 1 .. Len(t)
    PROVE  IsError(parser_quote_string(t, i)) \/ ValueAt(t, i, parser_quote_string(t, i))
<1> DEFINE end == StringEnd(t, i + 1, {"QUOTE"}, Escape \cup {"QUOTE"})
           n == Found("string", i + 1, end[1] - end[2] - (i + 1), 0, end[1] + 1)
<1>1. EndsBehind(t, i + 1, {"QUOTE"}, end) /\ Len(t) \in Nat
    BY StringEnds
<1>2. parser_quote_string(t, i) = IF end[1] = 0 THEN Failed ELSE n
    BY DEF parser_quote_string
<1>3. n.at = end[1] + 1 /\ n.tok.type = "string"
    BY FoundIs
<1> HIDE DEF end, n
<1>4. ASSUME end[1] # 0 PROVE ValueAt(t, i, n)
  <2>1. end[1] \in i + 1 .. Len(t)
      BY <1>1, <1>4 DEF EndsBehind
  <2>2. end[1] + 1 \in i + 1 .. Len(t) + 1
      BY <1>1, <2>1
  <2> QED
      BY <1>3, <2>2 DEF ValueAt, Scalars
<1> QED
    BY <1>2, <1>4, FailedIs

LEMMA WordIs ==
    ASSUME NEW t \in Seq(STRING), NEW i \in 1 .. Len(t)
    PROVE  \/ IsError(parser_string(t, i))
           \/ /\ ValueAt(t, i, parser_string(t, i))
              /\ Unescaped(t) => NoControl(t, i, parser_string(t, i))
<1> DEFINE end == StringEnd(t, i + 1, EndOfWord, Escape)
           n == Found("string", i, end[1] - end[2] - i, 0, end[1])
<1>1. EndsBehind(t, i + 1, EndOfWord, end) /\ Len(t) \in Nat
    BY StringEnds
<1>2. parser_string(t, i) = IF end[1] = 0 THEN Failed ELSE n
    BY DEF parser_string
<1>3. n.at = end[1] /\ n.tok.type = "string" /\ n.tok.start = i
    BY FoundIs
<1> HIDE DEF end, n
<1>4. ASSUME end[1] # 0 PROVE ValueAt(t, i, n) /\ (Unescaped(t) => NoControl(t, i, n))
  <2>1. end[1] \in i + 1 .. Len(t)
      BY <1>1, <1>4 DEF EndsBehind
  <2>2. end[1] \in i + 1 .. Len(t) + 1
      BY <1>1, <2>1
  <2>3. ASSUME Unescaped(t), NEW j \in i + 1 .. end[1] - 1 PROVE t[j] \notin Control
      BY <1>1, <1>4, <2>3 DEF EndsBehind, EndOfWord
  <2> QED
      BY <1>3, <2>2, <2>3 DEF ValueAt, Scalars, NoControl
<1> QED
    BY <1>2, <1>4, FailedIs

LEMMA DigitsAre == Digits = {"0", "1", "2", "3", "4", "5", "6", "7", "8", "9"}
<1>1. DOMAIN Digit = 1 .. 10
    BY DEF Digit
<1>2. \A k \in 1 .. 10 : k \in {1, 2, 3, 4, 5, 6, 7, 8, 9, 10}
    OBVIOUS
<1>3. /\ Digit[1] = "0" /\ Digit[2] = "1" /\ Digit[3] = "2" /\ Digit[4] = "3" /\ Digit[5] = "4"
      /\ Digit[6] = "5" /\ Digit[7] = "6" /\ Digit[8] = "7" /\ Digit[9] = "8" /\ Digit[10] = "9"
    BY DEF Digit
<1>4. Digits = {Digit[k] : k \in 1 .. 10}
    BY <1>1 DEF Digits, ToSet
<1> QED
    BY <1>2, <1>3, <1>4

LEMMA NumberIs ==
    ASSUME NEW t \in Seq(STRING), NEW i \in 1 .. Len(t)
    PROVE  \/ IsError(parser_number(t, i))
           \/ ValueAt(t, i, parser_number(t, i)) /\ NoControl(t, i, parser_number(t, i))
<1> DEFINE S == Digits \cup {"."}
           stop == Pass(t, i + 1, S)
           point == Seek(t, i + 1, {"."})
           whole == NumberOf(SubSeq(t, i, Min({stop, point}) - 1))
           type == IF point < stop THEN "number" ELSE IF t[i] = "-" THEN "int" ELSE "uint"
           n == Found(type, i, stop - i, whole, stop)
<1>1. Len(t) \in Nat /\ i + 1 \in Nat \ {0}
    OBVIOUS
<1>2. IsPass(t, i + 1, S, stop)
    BY <1>1, PassIs
<1>3. parser_number(t, i) = IF Seek(t, point + 1, {"."}) < stop THEN Failed ELSE n
    BY DEF parser_number
<1>4. n.at = stop /\ n.tok.type = type /\ n.tok.start = i
    BY FoundIs
<1>5. type \in Scalars
    BY DEF Scalars
<1>6. S \cap Control = {}
    BY DigitsAre DEF Control
<1> HIDE DEF stop, n, type, point, S
<1>7. stop \in i + 1 .. Len(t) + 1 /\ \A j \in i + 1 .. stop - 1 : t[j] \in S
    BY <1>1, <1>2 DEF IsPass
<1>8. ValueAt(t, i, n) /\ NoControl(t, i, n)
    BY <1>4, <1>5, <1>6, <1>7 DEF ValueAt, NoControl
<1> QED
    BY <1>3, <1>8, FailedIs

-----------------------------------------------------------------------------
(* next() *)

\* The first character from k on that is not blank, where the next token begins.
Begins(t, k) == Pass(t, k, Blank)

LineComment(t, k) == At(t, Begins(t, k)) = "/" /\ At(t, Begins(t, k) + 1) = "/"

\* Behind a line comment.
Behind(t, k) == Seek(t, Begins(t, k) + 2, {"NL"})

\* The token at k, if no line comment comes before it.
TokenAt(t, k, last) ==
    LET i == Begins(t, k)
        c == At(t, i)
    IN  IF c = "NUL" THEN AtEnd(i, last)
        ELSE IF c \in Control THEN Found("ctrl", i, 1, 0, i + 1)
        ELSE IF c = "/" /\ At(t, i + 1) = "*" /\ Unclosed(t, i + 2)
                THEN [tok |-> last, at |-> Len(t) + 1]
        ELSE IF c = "/" THEN Failed
        ELSE IF c = "QUOTE" THEN parser_quote_string(t, i)
        ELSE IF c \in Digits \cup {"-"} THEN parser_number(t, i)
        ELSE parser_string(t, i)

LEMMA BeginsIs ==
    ASSUME NEW t \in Seq(STRING), NEW k \in 1 .. Len(t) + 1
    PROVE  /\ Begins(t, k) \in k .. Len(t) + 1
           /\ \A j \in k .. Begins(t, k) - 1 : t[j] \in Blank
           /\ Begins(t, k) <= Len(t) => At(t, Begins(t, k)) = t[Begins(t, k)] /\ t[Begins(t, k)] \notin Blank
           /\ Begins(t, k) = Len(t) + 1 => At(t, Begins(t, k)) = "NUL"
<1>1. IsPass(t, k, Blank, Begins(t, k)) /\ Len(t) \in Nat
    BY PassIs DEF Begins
<1> QED
    BY <1>1 DEF IsPass, At

LEMMA BehindIs ==
    ASSUME NEW t \in Seq(STRING), NEW k \in 1 .. Len(t) + 1, LineComment(t, k)
    PROVE  Behind(t, k) \in k + 1 .. Len(t) + 1
<1>1. Begins(t, k) \in k .. Len(t) /\ Len(t) \in Nat
    BY BeginsIs DEF LineComment
<1>2. IsSeek(t, Begins(t, k) + 2, {"NL"}, Behind(t, k))
    BY <1>1, SeekIs DEF Behind
<1> QED
    BY <1>1, <1>2 DEF IsSeek

\* One step of the loop of next().
Lexed(t, k, last, more) ==
    LET i == Pass(t, k, Blank)
        c == At(t, i)
    IN  IF c = "NUL" THEN AtEnd(i, last)
        ELSE IF c \in Control THEN Found("ctrl", i, 1, 0, i + 1)
        ELSE IF c = "/" /\ At(t, i + 1) = "/" THEN more
        ELSE IF c = "/" /\ At(t, i + 1) = "*" /\ Unclosed(t, i + 2)
                THEN [tok |-> last, at |-> Len(t) + 1]
        ELSE IF c = "/" THEN Failed
        ELSE IF c = "QUOTE" THEN parser_quote_string(t, i)
        ELSE IF c \in Digits \cup {"-"} THEN parser_number(t, i)
        ELSE parser_string(t, i)

LEMMA LexedIs ==
    ASSUME NEW t, NEW k, NEW last, NEW more
    PROVE  Lexed(t, k, last, more) = IF LineComment(t, k) THEN more ELSE TokenAt(t, k, last)
    BY DEF Lexed, LineComment, TokenAt, Begins, Control

LEMMA NextIs ==
    ASSUME NEW t \in Seq(STRING), NEW last, NEW at0 \in 1 .. Len(t) + 1
    PROVE  next(t, at0, last) =
               IF LineComment(t, at0) THEN next(t, Behind(t, at0), last) ELSE TokenAt(t, at0, last)
<1> DEFINE D == 1 .. Len(t) + 1
           Is(f) == f = [k \in D |-> Lexed(t, k, last, f[Behind(t, k)])]
           from == CHOOSE f : Is(f)
           Stopping == {k \in D : ~ LineComment(t, k)}
           val == [k \in D |-> TokenAt(t, k, last)]
           R == {val[k] : k \in D}
           nxt == [k \in D |-> IF LineComment(t, k) THEN Behind(t, k) ELSE k]
           m == [k \in D |-> Len(t) + 1 - k]
           step == [k \in D |-> [r \in R |-> r]]
<1>1. Len(t) \in Nat /\ 1 \in D
    OBVIOUS
<1>2. ASSUME NEW k \in D, LineComment(t, k) PROVE Behind(t, k) \in D /\ Behind(t, k) > k
  <2>1. Behind(t, k) \in k + 1 .. Len(t) + 1
      BY <1>2, BehindIs
  <2> QED
      BY <1>1, <2>1
<1>3. \A k : next(t, k, last) = from[k]
    BY DEF next, Lexed, Behind, Begins
<1>4. nxt \in [D -> D] /\ m \in [D -> Nat] /\ val \in [D -> R] /\ R # {} /\ step \in [D -> [R -> R]]
  <2>1. nxt \in [D -> D]
      BY <1>2
  <2>2. m \in [D -> Nat]
      BY <1>1
  <2>3. val \in [D -> R] /\ R # {}
      BY <1>1
  <2> HIDE DEF R, D
  <2>4. step \in [D -> [R -> R]]
      OBVIOUS
  <2> QED
      BY <2>1, <2>2, <2>3, <2>4
<1>5. ASSUME NEW k \in D, k \notin Stopping PROVE m[nxt[k]] < m[k]
  <2>1. LineComment(t, k) /\ nxt[k] = Behind(t, k) /\ nxt[k] \in D
      BY <1>4, <1>5
  <2>2. nxt[k] > k
      BY <1>2, <2>1
  <2> HIDE DEF nxt
  <2> QED
      BY <1>1, <2>1, <2>2
<1>6. PICK f \in [D -> R] : Chained(f, D, Stopping, val, nxt, step)
  <2> HIDE DEF Stopping, val, R, nxt, m, step, D
  <2> QED
      BY <1>4, <1>5, RecursionAlong
<1>7. ASSUME NEW k \in D
      PROVE  f[k] = IF LineComment(t, k) THEN f[Behind(t, k)] ELSE TokenAt(t, k, last)
  <2>1. f[k] = IF k \in Stopping THEN val[k] ELSE step[k][f[nxt[k]]]
      BY <1>6 DEF Chained
  <2>2. CASE LineComment(t, k)
    <3>1. nxt[k] = Behind(t, k) /\ k \notin Stopping
        BY <2>2
    <3>2. f[nxt[k]] \in R
        BY <1>4, <1>6
    <3>3. step[k][f[nxt[k]]] = f[nxt[k]]
      <4> HIDE DEF nxt, R, D
      <4> QED
          BY <3>2
    <3> HIDE DEF nxt, Stopping, val, step
    <3> QED
        BY <2>1, <2>2, <3>1, <3>3
  <2>3. CASE ~ LineComment(t, k)
    <3>1. k \in Stopping /\ val[k] = TokenAt(t, k, last)
        BY <2>3
    <3> HIDE DEF nxt, Stopping, val, step
    <3> QED
        BY <2>1, <2>3, <3>1
  <2> QED
      BY <2>2, <2>3
<1>8. Is(f)
  <2>1. ASSUME NEW k \in D PROVE f[k] = Lexed(t, k, last, f[Behind(t, k)])
      BY <1>7, LexedIs
  <2> HIDE DEF D, R
  <2> QED
      BY <1>6, <2>1
<1>9. Is(from)
  <2> HIDE DEF Is
  <2> QED
      BY <1>8
<1>10. from[at0] = IF LineComment(t, at0) THEN from[Behind(t, at0)] ELSE TokenAt(t, at0, last)
  <2>1. from[at0] = Lexed(t, at0, last, from[Behind(t, at0)])
      BY <1>9
  <2> HIDE DEF from
  <2> QED
      BY <2>1, LexedIs
<1> HIDE DEF from
<1>11. next(t, at0, last) = from[at0] /\ next(t, Behind(t, at0), last) = from[Behind(t, at0)]
    BY <1>3
<1> QED
    BY <1>10, <1>11

\* What next() comes to, from k on: an error, the end, nothing new behind a comment
\* that does not end, or a token that is behind k.
Moves(t, k, last, n) ==
    \/ IsError(n)
    \/ n.tok.type = "end" /\ n.at \in k .. Len(t) + 1 /\ At(t, n.tok.start) = "NUL"
    \/ n.tok = last /\ n.at \in k + 1 .. Len(t) + 1
    \/ n.tok.type \in Scalars \cup {"ctrl"} /\ n.at \in k + 1 .. Len(t) + 1

LEMMA TokenMoves ==
    ASSUME NEW t \in Seq(STRING), NEW k \in 1 .. Len(t) + 1, NEW last
    PROVE  Moves(t, k, last, TokenAt(t, k, last))
<1> DEFINE i == Begins(t, k)
           n == TokenAt(t, k, last)
<1>1. Len(t) \in Nat /\ i \in k .. Len(t) + 1 /\ (i = Len(t) + 1 => At(t, i) = "NUL")
    BY BeginsIs
<1> HIDE DEF i
<1>2. CASE At(t, i) = "NUL"
  <2>1. n = AtEnd(i, last)
      BY <1>2 DEF TokenAt, i
  <2>2. n.tok.type = "end" /\ n.tok.start = i /\ n.at = i
      BY <2>1, FoundIs DEF AtEnd
  <2> HIDE DEF n
  <2>3. Moves(t, k, last, n)
      BY <1>1, <1>2, <2>2 DEF Moves
  <2> QED
      BY <2>3 DEF n
<1>3. CASE At(t, i) # "NUL"
  <2>1. i \in 1 .. Len(t) /\ i + 1 \in k + 1 .. Len(t) + 1 /\ Len(t) + 1 \in k + 1 .. Len(t) + 1
      BY <1>1, <1>3
  <2>2. CASE At(t, i) \in Control
    <3>1. n = Found("ctrl", i, 1, 0, i + 1)
        BY <1>3, <2>2 DEF TokenAt, i
    <3>2. n.tok.type = "ctrl" /\ n.at = i + 1
        BY <3>1, FoundIs
    <3> HIDE DEF n
    <3>3. Moves(t, k, last, n)
        BY <2>1, <3>2 DEF Moves
    <3> QED
        BY <3>3 DEF n
  <2>3. CASE At(t, i) = "/"
    <3>1. n = [tok |-> last, at |-> Len(t) + 1] \/ n = Failed
        BY <1>3, <2>3 DEF TokenAt, i, Control
    <3> HIDE DEF n
    <3>2. CASE n = Failed
        BY <3>2, FailedIs DEF Moves, n
    <3>3. CASE n = [tok |-> last, at |-> Len(t) + 1]
      <4>1. n.tok = last /\ n.at = Len(t) + 1
          BY <3>3
      <4> QED
          BY <2>1, <4>1 DEF Moves, n
    <3> QED
        BY <3>1, <3>2, <3>3
  <2>4. CASE At(t, i) \notin Control \cup {"/"}
    <3>1. n \in {parser_quote_string(t, i), parser_number(t, i), parser_string(t, i)}
        BY <1>3, <2>4 DEF TokenAt, i
    <3>2. \A x \in {parser_quote_string(t, i), parser_number(t, i), parser_string(t, i)} :
              IsError(x) \/ ValueAt(t, i, x)
        BY <2>1, QuoteStringIs, NumberIs, WordIs
    <3> HIDE DEF n
    <3>3. IsError(n) \/ ValueAt(t, i, n)
        BY <3>1, <3>2
    <3>4. Moves(t, k, last, n)
        BY <1>1, <2>1, <3>3 DEF ValueAt, Moves
    <3> QED
        BY <3>4 DEF n
  <2> QED
      BY <2>2, <2>3, <2>4
<1> QED
    BY <1>2, <1>3

LEMMA NextMoves ==
    ASSUME NEW t \in Seq(STRING), NEW k \in 1 .. Len(t) + 1, NEW last
    PROVE  Moves(t, k, last, next(t, k, last))
<1> DEFINE N == Len(t) + 1
           S == {i \in 1 .. N : Moves(t, i, last, next(t, i, last))}
<1>1. N \in Nat /\ Len(t) \in Nat
    OBVIOUS
<1>2. FromAbove(S, N)
  <2>1. ASSUME NEW i \in 1 .. N, \A j \in i + 1 .. N : j \in S PROVE i \in S
    <3>1. CASE LineComment(t, i)
      <4>1. Behind(t, i) \in i + 1 .. N
          BY <3>1, BehindIs
      <4>2. Moves(t, Behind(t, i), last, next(t, Behind(t, i), last))
          BY <2>1, <4>1
      <4>3. next(t, i, last) = next(t, Behind(t, i), last)
          BY <3>1, NextIs
      <4> DEFINE n == next(t, Behind(t, i), last)
                 b == Behind(t, i)
      <4> HIDE DEF n, b
      <4>4. b \in i + 1 .. N /\ Moves(t, b, last, n)
          BY <4>1, <4>2 DEF n, b
      <4>5. Moves(t, i, last, n)
          BY <1>1, <4>4 DEF Moves
      <4> QED
          BY <4>3, <4>5 DEF n
    <3>2. CASE ~ LineComment(t, i)
      <4>1. next(t, i, last) = TokenAt(t, i, last)
          BY <3>2, NextIs
      <4> QED
          BY <4>1, TokenMoves
    <3> QED
        BY <3>1, <3>2
  <2> HIDE DEF S
  <2> QED
      BY <2>1 DEF FromAbove
<1>3. \A i \in 1 .. N : i \in S
  <2> HIDE DEF S, N
  <2> QED
      BY <1>1, <1>2, InductionFromAbove
<1> QED
    BY <1>3

\* A text without strings, comments and escapes.
Bare(t) == \A j \in 1 .. Len(t) : t[j] \notin {"QUOTE", "BSL", "/"}

\* The token that begins at i, in such a text.
BareToken(t, i, n) ==
    /\ n.tok.start = i
    /\ \/ n.tok.type = "end" /\ At(t, i) = "NUL" /\ n.at = i
       \/ n.tok.type = "ctrl" /\ i <= Len(t) /\ n.at = i + 1
       \/ /\ n.tok.type \in Scalars /\ i <= Len(t) /\ n.at \in i + 1 .. Len(t) + 1
          /\ \A j \in i .. n.at - 1 : t[j] \notin Control

LEMMA NextInBareText ==
    ASSUME NEW t \in Seq(STRING), NEW k \in 1 .. Len(t) + 1, NEW last, Bare(t)
    PROVE  IsError(next(t, k, last)) \/ BareToken(t, Begins(t, k), next(t, k, last))
<1> DEFINE i == Begins(t, k)
           n == TokenAt(t, k, last)
<1>1. /\ Len(t) \in Nat /\ i \in k .. Len(t) + 1 /\ (i = Len(t) + 1 => At(t, i) = "NUL")
      /\ i <= Len(t) => At(t, i) = t[i]
    BY BeginsIs
<1>2. At(t, i) \notin {"QUOTE", "BSL", "/"}
    BY <1>1 DEF Bare
<1>3. next(t, k, last) = n
  <2>1. ~ LineComment(t, k)
      BY <1>2 DEF LineComment
  <2> QED
      BY <2>1, NextIs
<1> HIDE DEF i
<1>4. CASE At(t, i) = "NUL"
  <2>1. n = AtEnd(i, last)
      BY <1>4 DEF TokenAt, i
  <2>2. n.tok.type = "end" /\ n.tok.start = i /\ n.at = i
      BY <2>1, FoundIs DEF AtEnd
  <2> HIDE DEF n
  <2> QED
      BY <1>3, <1>4, <2>2 DEF BareToken, i
<1>5. CASE At(t, i) # "NUL"
  <2>1. i \in 1 .. Len(t) /\ At(t, i) = t[i]
      BY <1>1, <1>5
  <2>2. CASE At(t, i) \in Control
    <3>1. n = Found("ctrl", i, 1, 0, i + 1)
        BY <1>5, <2>2 DEF TokenAt, i
    <3>2. n.tok.type = "ctrl" /\ n.at = i + 1 /\ n.tok.start = i
        BY <3>1, FoundIs
    <3> HIDE DEF n
    <3> QED
        BY <1>3, <2>1, <3>2 DEF BareToken, i
  <2>3. CASE At(t, i) \notin Control
    <3>1. n \in {parser_number(t, i), parser_string(t, i)}
        BY <1>2, <1>5, <2>3 DEF TokenAt, i
    <3>2. Unescaped(t)
        BY DEF Bare, Unescaped
    <3>3. \A x \in {parser_number(t, i), parser_string(t, i)} :
              IsError(x) \/ (ValueAt(t, i, x) /\ NoControl(t, i, x))
        BY <2>1, <3>2, NumberIs, WordIs
    <3> HIDE DEF n
    <3>4. IsError(n) \/ (ValueAt(t, i, n) /\ NoControl(t, i, n))
        BY <3>1, <3>3
    <3>5. ASSUME ValueAt(t, i, n), NoControl(t, i, n) PROVE BareToken(t, i, n)
      <4>1. ASSUME NEW j \in i .. n.at - 1 PROVE t[j] \notin Control
        <5>1. j = i \/ j \in i + 1 .. n.at - 1
            BY <2>1
        <5> QED
            BY <2>1, <2>3, <3>5, <5>1 DEF NoControl
      <4> QED
          BY <2>1, <3>5, <4>1 DEF BareToken, ValueAt, NoControl
    <3> QED
        BY <1>3, <3>4, <3>5 DEF i
  <2> QED
      BY <2>2, <2>3
<1> QED
    BY <1>4, <1>5

-----------------------------------------------------------------------------
(* Containers. *)

\* The inputs of Init.
InputOK ==
    /\ input.op \in {"read", "skip"}
    /\ IsType(input.type)
    /\ input.text \in Seq(STRING)

\* A container that is being read; what was read of a sequence is a sequence.
FrameOK(frame, kind) ==
    /\ frame = [items |-> frame.items, key |-> frame.key]
    /\ IsFiniteSet(DOMAIN frame.items)
    /\ kind = "seq" => \E S : frame.items \in Seq(S)

FramesOK(fs, type) ==
    /\ \E S : fs \in Seq(S)
    /\ \A i \in 1 .. Len(fs) : FrameOK(fs[i], type[i])

Count(frame) == Cardinality(DOMAIN frame.items)

LEMMA CountIs ==
    ASSUME NEW frame, NEW kind, FrameOK(frame, kind)
    PROVE  Count(frame) \in Nat
    BY FS_CardinalityType DEF FrameOK, Count

LEMMA NewFrame ==
    ASSUME NEW own, NEW kind
    PROVE  FrameOK(NewContainer(own), kind) /\ Count(NewContainer(own)) = 0
<1> DEFINE e == <<>>
           k == IF own = "map" THEN 0 ELSE <<>>
           f == NewContainer(own)
<1>1. DOMAIN e = {} /\ e \in Seq({})
    OBVIOUS
<1>2. f = [items |-> e, key |-> k]
    BY DEF NewContainer
<1> HIDE DEF e, f, k
<1>3. f.items = e /\ f.key = k
    BY <1>2
<1>4. IsFiniteSet(DOMAIN f.items) /\ Cardinality(DOMAIN f.items) = 0
    BY <1>1, <1>3, FS_EmptySet
<1>5. FrameOK(f, kind) /\ Count(f) = 0
    BY <1>1, <1>2, <1>3, <1>4 DEF FrameOK, Count
<1> QED
    BY <1>5 DEF f

\* What one more value makes of the values of a container.
Put(items, key, kind, v) ==
    IF kind = "seq" THEN Append(items, v)
    ELSE [k \in DOMAIN items \cup {key} |-> IF k = key THEN v ELSE items[k]]

LEMMA PutOne ==
    ASSUME NEW frame, NEW kind, FrameOK(frame, kind), NEW v
    PROVE  LET more == [frame EXCEPT !.items = Put(frame.items, frame.key, kind, v)]
           IN  FrameOK(more, kind) /\ Count(more) <= Count(frame) + 1
<1> DEFINE items == frame.items
           put == Put(frame.items, frame.key, kind, v)
           more == [frame EXCEPT !.items = put]
           D == DOMAIN frame.items
<1>1. /\ frame = [items |-> frame.items, key |-> frame.key] /\ IsFiniteSet(D)
      /\ kind = "seq" => \E S : items \in Seq(S)
    BY DEF FrameOK
<1>2. \E x : DOMAIN put = D \cup {x} /\ (kind = "seq" => \E S : put \in Seq(S))
  <2>1. CASE kind = "seq"
    <3>1. PICK S : items \in Seq(S)
        BY <1>1, <2>1
    <3> DEFINE S2 == S \cup {v}
    <3>2. items \in Seq(S2) /\ v \in S2 /\ D = 1 .. Len(items) /\ Len(items) \in Nat
        BY <3>1
    <3> HIDE DEF S2
    <3>3. put = Append(items, v)
        BY <2>1 DEF Put
    <3>4. put \in Seq(S2) /\ Len(put) = Len(items) + 1
        BY <3>2, <3>3, AppendIs
    <3>5. DOMAIN put = 1 .. Len(items) + 1
        BY <3>4
    <3> HIDE DEF put, items, D
    <3>6. DOMAIN put = D \cup {Len(items) + 1}
        BY <3>2, <3>5
    <3> QED
        BY <3>4, <3>6
  <2>2. CASE kind # "seq"
    <3>1. DOMAIN put = D \cup {frame.key}
        BY <2>2 DEF Put
    <3> HIDE DEF put, D
    <3> QED
        BY <2>2, <3>1
  <2> QED
      BY <2>1, <2>2
<1>3. PICK x : DOMAIN put = D \cup {x} /\ (kind = "seq" => \E S : put \in Seq(S))
    BY <1>2
<1>4. IsFiniteSet(D \cup {x}) /\ Cardinality(D \cup {x}) <= Cardinality(D) + 1
  <2> HIDE DEF D
  <2>1. IsFiniteSet(D \cup {x}) /\ Cardinality(D) \in Nat
      BY <1>1, FS_AddElement, FS_CardinalityType
  <2>2. Cardinality(D \cup {x}) = IF x \in D THEN Cardinality(D) ELSE Cardinality(D) + 1
      BY <1>1, FS_AddElement
  <2> QED
      BY <2>1, <2>2
<1> HIDE DEF put, D
<1>5. more = [items |-> put, key |-> frame.key]
    BY <1>1
<1>6. more.items = put /\ more.key = frame.key
    BY <1>5
<1> HIDE DEF more
<1>7. FrameOK(more, kind)
    BY <1>3, <1>4, <1>5, <1>6 DEF FrameOK
<1>8. Count(more) <= Count(frame) + 1
    BY <1>3, <1>4, <1>6 DEF Count, D
<1> QED
    BY <1>7, <1>8 DEF more, put

\* Only the innermost container gets the value.
LEMMA DeliverIs ==
    ASSUME NEW fs, NEW type, FramesOK(fs, type), fs # <<>>, NEW v
    PROVE  /\ FramesOK(Deliver(fs, type[Len(fs)], v), type)
           /\ Len(Deliver(fs, type[Len(fs)], v)) = Len(fs)
           /\ \A i \in 1 .. Len(fs) - 1 : Deliver(fs, type[Len(fs)], v)[i] = fs[i]
           /\ Count(Deliver(fs, type[Len(fs)], v)[Len(fs)]) <= Count(fs[Len(fs)]) + 1
<1> DEFINE n == Len(fs)
           f == fs[n]
           kind == type[n]
           g == Put(f.items, f.key, kind, v)
           more == [f EXCEPT !.items = g]
           new == Deliver(fs, kind, v)
<1>1. PICK S : fs \in Seq(S)
    BY DEF FramesOK
<1>2. n \in Nat \ {0} /\ DOMAIN fs = 1 .. n
    BY <1>1
<1>3. new = [fs EXCEPT ![n] = more]
    BY <1>1, <1>2 DEF Deliver, Put
<1>4. FrameOK(f, kind)
    BY <1>2 DEF FramesOK
<1>5. FrameOK(more, kind) /\ Count(more) <= Count(f) + 1
    BY <1>4, PutOne
<1> HIDE DEF more, new, f, kind, n
<1>6. new \in Seq(S \cup {more}) /\ Len(new) = n /\ new[n] = more /\ \A i \in 1 .. n - 1 : new[i] = fs[i]
    BY <1>1, <1>2, <1>3 DEF n
<1>7. ASSUME NEW i \in 1 .. n PROVE FrameOK(new[i], type[i])
  <2>1. CASE i = n
      BY <1>5, <1>6, <2>1 DEF kind
  <2>2. CASE i # n
    <3>1. i \in 1 .. n - 1
        BY <1>2, <2>2
    <3> QED
        BY <1>6, <3>1 DEF FramesOK, n
  <2> QED
      BY <2>1, <2>2
<1>8. FramesOK(new, type)
    BY <1>6, <1>7 DEF FramesOK
<1> QED
    BY <1>5, <1>6, <1>8 DEF new, kind, n, f

-----------------------------------------------------------------------------
(* No container has more elements than characters were passed. *)

\* There is room for n elements before the cursor, and for the token it is at.
Room(n, cursor, token) == n < cursor /\ (token.type # "end" => n + 1 < cursor)

Positions == 1 .. Len(input.text) + 1

\* Where read_json is.
AtCall == {"value", "item", "colon", "after"}

Elements ==
    /\ at \in Positions
    /\ tok.type = "end" => At(input.text, tok.start) = "NUL"
    /\ \A i \in 1 .. Len(frames) : Room(Count(frames[i]), at, tok)

ReaderInv ==
    /\ pc \in AtCall \cup {"new", "done", "error", "undefined"}
    /\ pc = "new" => at = 1 /\ frames = <<>> /\ tok.type = "none"
    /\ FramesOK(frames, input.type)
    /\ pc # "error" => Elements
    /\ pc \in AtCall => tok.type \in Scalars \cup {"ctrl", "end"}
    /\ pc \in AtCall \ {"value"} => frames # <<>>

JsonInv == InputOK /\ (input.op = "read" => ReaderInv)

\* The token after the next call of next().
Goes(cursor, token, cursor2, token2) ==
    /\ cursor2 \in Positions
    /\ \/ token2.type = "end" /\ cursor <= cursor2 /\ At(input.text, token2.start) = "NUL"
       \/ token2 = token /\ cursor < cursor2
       \/ token2.type \in Scalars \cup {"ctrl"} /\ cursor < cursor2

LEMMA AdvanceIs ==
    ASSUME InputOK, at \in Positions, NEW to, Advance(to)
    PROVE  \/ pc' = "error"
           \/ Goes(at, tok, at', tok') /\ pc' = IF tok'.type = "none" THEN "undefined" ELSE to
<1> DEFINE n == next(input.text, at, tok)
<1>1. input.text \in Seq(STRING) /\ Len(input.text) \in Nat
    BY DEF InputOK
<1>2. Moves(input.text, at, tok, n)
    BY <1>1, NextMoves DEF Positions
<1>3. /\ tok' = n.tok /\ at' = n.at
      /\ pc' = IF n.tok.type = "error" THEN "error" ELSE IF n.tok.type = "none" THEN "undefined" ELSE to
    BY DEF Advance
<1> HIDE DEF n
<1>4. CASE n.tok.type = "error"
    BY <1>3, <1>4
<1>5. CASE n.tok.type # "error"
  <2>1. Goes(at, tok, n.at, n.tok)
      BY <1>1, <1>2, <1>5 DEF Moves, IsError, Goes, Positions
  <2> QED
      BY <1>3, <1>5, <2>1
<1> QED
    BY <1>4, <1>5

\* How the room changes.
LEMMA RoomIs ==
    ASSUME NEW cursor \in Positions, NEW token, NEW cursor2, NEW token2, Len(input.text) \in Nat,
           Goes(cursor, token, cursor2, token2), NEW n \in Nat, Room(n, cursor, token), NEW m \in Nat,
           m <= n + 1, token.type = "end" => m <= n
    PROVE  Room(m, cursor2, token2)
    BY DEF Room, Goes, Positions

LEMMA RoomForNone ==
    ASSUME NEW cursor \in Positions, NEW token, NEW cursor2, NEW token2, Len(input.text) \in Nat,
           Goes(cursor, token, cursor2, token2)
    PROVE  Room(0, cursor2, token2)
    BY DEF Room, Goes, Positions

\* A step of read_json that calls next(): new containers are empty, and the innermost one
\* has got one element at most, and this not at the end of the text.
Grown ==
    \A i \in 1 .. Len(frames') :
        \/ Count(frames'[i]) = 0
        \/ i \in 1 .. Len(frames) /\ Count(frames'[i]) <= Count(frames[i])
        \/ i \in 1 .. Len(frames) /\ tok.type # "end" /\ Count(frames'[i]) <= Count(frames[i]) + 1

LEMMA CallKeeps ==
    ASSUME InputOK, ReaderInv, pc \in AtCall \cup {"new"}, UNCHANGED input,
           NEW to, to \in AtCall \cup {"done"}, Advance(to), FramesOK(frames', input.type), Grown,
           to \in AtCall \ {"value"} => frames' # <<>>,
           pc = "new" => to = "value"
    PROVE  ReaderInv'
<1>1. Len(input.text) \in Nat /\ at \in Positions /\ pc # "error" /\ Elements
  <2>1. Len(input.text) \in Nat
      BY DEF InputOK
  <2> QED
      BY <2>1 DEF ReaderInv, Elements, AtCall
<1>2. FramesOK(frames', input'.type)
    OBVIOUS
<1>3. CASE pc' = "error"
    BY <1>2, <1>3 DEF ReaderInv, AtCall
<1>4. CASE pc' # "error"
  <2>1. Goes(at, tok, at', tok') /\ pc' = IF tok'.type = "none" THEN "undefined" ELSE to
      BY <1>1, <1>4, AdvanceIs
  <2>2. at' \in Positions' /\ (tok'.type = "end" => At(input'.text, tok'.start) = "NUL")
    <3>1. tok'.type = "end" => At(input.text, tok'.start) = "NUL"
        BY <1>1, <2>1 DEF Goes, Elements, Scalars
    <3> QED
        BY <2>1, <3>1 DEF Goes, Positions
  <2>3. ASSUME NEW i \in 1 .. Len(frames') PROVE Room(Count(frames'[i]), at', tok')
    <3>1. Count(frames'[i]) \in Nat
        BY <1>2, CountIs DEF FramesOK
    <3>2. CASE Count(frames'[i]) = 0
        BY <1>1, <2>1, <3>2, RoomForNone
    <3>3. CASE i \in 1 .. Len(frames) /\ Count(frames'[i]) <= Count(frames[i])
      <4>1. Count(frames[i]) \in Nat /\ Room(Count(frames[i]), at, tok)
          BY <1>1, <3>3, CountIs DEF ReaderInv, FramesOK, Elements
      <4>2. Count(frames'[i]) <= Count(frames[i]) + 1
          BY <3>1, <3>3, <4>1
      <4> QED
          BY <1>1, <2>1, <3>1, <3>3, <4>1, <4>2, RoomIs
    <3>4. CASE i \in 1 .. Len(frames) /\ tok.type # "end" /\ Count(frames'[i]) <= Count(frames[i]) + 1
      <4>1. Count(frames[i]) \in Nat /\ Room(Count(frames[i]), at, tok)
          BY <1>1, <3>4, CountIs DEF ReaderInv, FramesOK, Elements
      <4> QED
          BY <1>1, <2>1, <3>1, <3>4, <4>1, RoomIs
    <3> QED
        BY <3>2, <3>3, <3>4 DEF Grown
  <2>4. Elements'
      BY <2>2, <2>3 DEF Elements
  <2>5. pc' \in AtCall => tok'.type \in Scalars \cup {"ctrl", "end"}
    <3>1. tok.type \in Scalars \cup {"ctrl", "end", "none"}
        BY DEF ReaderInv
    <3>2. tok'.type \in Scalars \cup {"ctrl", "end", "none"}
        BY <2>1, <3>1 DEF Goes
    <3>3. tok'.type = "none" => pc' \notin AtCall
        BY <2>1 DEF AtCall
    <3> QED
        BY <3>2, <3>3
  <2> QED
      BY <1>2, <2>1, <2>4, <2>5 DEF ReaderInv, AtCall
<1> QED
    BY <1>3, <1>4

\* An error keeps the containers.
LEMMA ThrowKeeps ==
    ASSUME ReaderInv, Throw, UNCHANGED input
    PROVE  ReaderInv'
    BY DEF ReaderInv, Throw, AtCall

\* A container that a value of its kind was given.
LEMMA GivenGrows ==
    ASSUME ReaderInv, frames # <<>>, tok.type # "end", NEW v, frames' = Deliver(frames, Kind, v)
    PROVE  FramesOK(frames', input.type) /\ Grown /\ frames' # <<>>
<1>1. FramesOK(frames, input.type) /\ Kind = input.type[Len(frames)]
    BY DEF ReaderInv, Kind, Depth
<1>2. /\ FramesOK(frames', input.type)
      /\ Len(frames') = Len(frames)
      /\ \A i \in 1 .. Len(frames) - 1 : frames'[i] = frames[i]
      /\ Count(frames'[Len(frames)]) <= Count(frames[Len(frames)]) + 1
    BY <1>1, DeliverIs
<1>3. Len(frames) \in Nat \ {0}
    BY <1>1 DEF FramesOK
<1>4. ASSUME NEW i \in 1 .. Len(frames')
      PROVE  /\ i \in 1 .. Len(frames)
             /\ Count(frames'[i]) <= Count(frames[i]) \/ Count(frames'[i]) <= Count(frames[i]) + 1
  <2>1. i = Len(frames) \/ i \in 1 .. Len(frames) - 1
      BY <1>2, <1>3
  <2>2. Count(frames[i]) \in Nat
      BY <1>1, <1>2, CountIs DEF FramesOK
  <2> QED
      BY <1>2, <2>1, <2>2
<1>5. Grown
    BY <1>4 DEF Grown
<1> QED
    BY <1>2, <1>3, <1>5

LEMMA SameGrows ==
    ASSUME ReaderInv, frames' = frames
    PROVE  FramesOK(frames', input.type) /\ Grown
<1>1. FramesOK(frames, input.type)
    BY DEF ReaderInv
<1>2. ASSUME NEW i \in 1 .. Len(frames') PROVE i \in 1 .. Len(frames) /\ Count(frames'[i]) <= Count(frames[i])
  <2>1. Count(frames[i]) \in Nat
      BY <1>1, CountIs DEF FramesOK
  <2> QED
      BY <2>1
<1> QED
    BY <1>1, <1>2 DEF Grown

\* Where a scalar is to be read, there is a container for it.
LEMMA ScalarInContainer ==
    ASSUME InputOK, ReaderInv, AtValue, Wanted \in {"uint", "string"}
    PROVE  frames # <<>>
<1>1. CASE pc = "item"
    BY <1>1 DEF ReaderInv, AtCall
<1>2. CASE pc = "value" /\ frames = <<>>
  <2>1. Wanted = input.type[1]
      BY <1>2 DEF Wanted, Depth
  <2>2. 1 \in 1 .. Len(input.type) /\ 1 # Len(input.type)
      BY DEF InputOK, IsType
  <2> QED
      BY <2>1, <2>2 DEF InputOK, IsType
<1> QED
    BY <1>1, <1>2 DEF AtValue

LEMMA ReadUintKeeps == ASSUME InputOK, ReaderInv, ReadUint, UNCHANGED input PROVE ReaderInv'
<1>1. AtValue /\ Wanted = "uint" /\ pc \in AtCall
    BY DEF ReadUint, AtValue, AtCall
<1>2. CASE Throw
    BY <1>2, ThrowKeeps
<1>3. CASE ~ Throw
  <2>1. PICK v : frames' = Deliver(frames, Kind, v) /\ Advance("after") /\ tok.type # "end"
      BY <1>3 DEF ReadUint, IsUint
  <2>2. frames # <<>>
      BY <1>1, ScalarInContainer
  <2>3. FramesOK(frames', input.type) /\ Grown /\ frames' # <<>>
      BY <2>1, <2>2, GivenGrows
  <2>4. "after" \in AtCall /\ pc # "new"
      BY <1>1 DEF AtCall
  <2> QED
      BY <1>1, <2>1, <2>3, <2>4, CallKeeps
<1> QED
    BY <1>2, <1>3

LEMMA ReadStringKeeps == ASSUME InputOK, ReaderInv, ReadString, UNCHANGED input PROVE ReaderInv'
<1>1. AtValue /\ Wanted = "string" /\ pc \in AtCall
    BY DEF ReadString, AtValue, AtCall
<1>2. CASE Throw
    BY <1>2, ThrowKeeps
<1>3. CASE ~ Throw
  <2>1. PICK v : frames' = Deliver(frames, Kind, v) /\ Advance("after") /\ tok.type # "end"
      BY <1>3 DEF ReadString
  <2>2. frames # <<>>
      BY <1>1, ScalarInContainer
  <2>3. FramesOK(frames', input.type) /\ Grown /\ frames' # <<>>
      BY <2>1, <2>2, GivenGrows
  <2>4. "after" \in AtCall /\ pc # "new"
      BY <1>1 DEF AtCall
  <2> QED
      BY <1>1, <2>1, <2>3, <2>4, CallKeeps
<1> QED
    BY <1>2, <1>3

LEMMA OpenContainerKeeps == ASSUME InputOK, ReaderInv, OpenContainer, UNCHANGED input PROVE ReaderInv'
<1>1. AtValue /\ pc \in AtCall
    BY DEF OpenContainer, AtValue, AtCall
<1>2. CASE Throw
    BY <1>2, ThrowKeeps
<1>3. CASE ~ Throw
  <2> DEFINE new == NewContainer(Wanted)
  <2>1. frames' = Append(frames, new) /\ Advance("item")
      BY <1>3 DEF OpenContainer
  <2>2. Count(new) = 0 /\ \A kind : FrameOK(new, kind)
      BY NewFrame
  <2> HIDE DEF new
  <2>3. FramesOK(frames, input.type)
      BY DEF ReaderInv
  <2>4. PICK S : frames \in Seq(S)
      BY <2>3 DEF FramesOK
  <2> DEFINE S2 == S \cup {new}
  <2>5. frames \in Seq(S2) /\ new \in S2 /\ Len(frames) \in Nat
      BY <2>4
  <2> HIDE DEF S2
  <2>6. /\ frames' \in Seq(S2) /\ Len(frames') = Len(frames) + 1
        /\ \A i \in 1 .. Len(frames) : frames'[i] = frames[i]
        /\ frames'[Len(frames) + 1] = new
      BY <2>1, <2>5, AppendIs
  <2>7. ASSUME NEW i \in 1 .. Len(frames')
        PROVE  /\ FrameOK(frames'[i], input.type[i])
               /\ Count(frames'[i]) = 0 \/ (i \in 1 .. Len(frames) /\ Count(frames'[i]) <= Count(frames[i]))
    <3>1. CASE i = Len(frames) + 1
        BY <2>2, <2>6, <3>1
    <3>2. CASE i \in 1 .. Len(frames)
      <4>1. FrameOK(frames[i], input.type[i]) /\ frames'[i] = frames[i]
          BY <2>3, <2>6, <3>2 DEF FramesOK
      <4>2. Count(frames[i]) \in Nat
          BY <4>1, CountIs
      <4> QED
          BY <3>2, <4>1, <4>2
    <3> QED
        BY <2>5, <2>6, <3>1, <3>2
  <2>8. FramesOK(frames', input.type) /\ Grown /\ frames' # <<>>
    <3>1. FramesOK(frames', input.type)
        BY <2>6, <2>7 DEF FramesOK
    <3>2. Grown
        BY <2>7 DEF Grown
    <3> QED
        BY <2>5, <2>6, <3>1, <3>2
  <2>9. "item" \in AtCall /\ pc # "new"
      BY <1>1 DEF AtCall
  <2> QED
      BY <1>1, <2>1, <2>8, <2>9, CallKeeps
<1> QED
    BY <1>2, <1>3
LEMMA ReadKeyKeeps == ASSUME InputOK, ReaderInv, ReadKey, UNCHANGED input PROVE ReaderInv'
<1>1. pc = "item" /\ pc \in AtCall /\ frames # <<>>
    BY DEF ReadKey, ReaderInv, AtCall
<1>2. CASE Throw
    BY <1>2, ThrowKeeps
<1>3. CASE ~ Throw
  <2>1. frames' = [frames EXCEPT ![Depth].key = Key] /\ Advance("colon")
      BY <1>3 DEF ReadKey
  <2>2. FramesOK(frames, input.type)
      BY DEF ReaderInv
  <2>3. PICK S : frames \in Seq(S)
      BY <2>2 DEF FramesOK
  <2> DEFINE n == Len(frames)
             f == frames[n]
             keyed == [f EXCEPT !.key = Key]
  <2>4. n \in Nat \ {0} /\ frames' = [frames EXCEPT ![n] = keyed]
      BY <1>1, <2>1, <2>3 DEF Depth
  <2>5. FrameOK(f, input.type[n])
      BY <2>2, <2>4 DEF FramesOK
  <2>6. FrameOK(keyed, input.type[n]) /\ Count(keyed) = Count(f)
    <3>1. f = [items |-> f.items, key |-> f.key]
        BY <2>5 DEF FrameOK
    <3> HIDE DEF f
    <3>2. keyed = [items |-> f.items, key |-> Key] /\ keyed.items = f.items /\ keyed.key = Key
        BY <3>1
    <3> HIDE DEF keyed
    <3> QED
        BY <2>5, <3>2 DEF FrameOK, Count
  <2> HIDE DEF keyed, f
  <2>7. /\ frames' \in Seq(S \cup {keyed}) /\ Len(frames') = n /\ frames'[n] = keyed
        /\ \A i \in 1 .. n - 1 : frames'[i] = frames[i]
      BY <2>3, <2>4
  <2>8. ASSUME NEW i \in 1 .. Len(frames')
        PROVE  FrameOK(frames'[i], input.type[i]) /\ i \in 1 .. Len(frames) /\ Count(frames'[i]) <= Count(frames[i])
    <3>1. FrameOK(frames[i], input.type[i]) /\ i \in 1 .. n
        BY <2>2, <2>7 DEF FramesOK
    <3>2. Count(frames[i]) \in Nat
        BY <3>1, CountIs
    <3>3. CASE i = n
        BY <2>6, <2>7, <3>1, <3>2, <3>3 DEF f
    <3>4. CASE i # n
      <4>1. i \in 1 .. n - 1
          BY <2>4, <3>1, <3>4
      <4>2. frames'[i] = frames[i]
          BY <2>7, <4>1
      <4> QED
          BY <3>1, <3>2, <4>2
    <3> QED
        BY <3>3, <3>4
  <2>9. FramesOK(frames', input.type) /\ Grown /\ frames' # <<>>
    <3>1. FramesOK(frames', input.type)
        BY <2>7, <2>8 DEF FramesOK
    <3>2. Grown
        BY <2>8 DEF Grown
    <3> QED
        BY <2>4, <2>7, <3>1, <3>2
  <2>10. "colon" \in AtCall /\ pc # "new"
      BY <1>1 DEF AtCall
  <2> QED
      BY <1>1, <2>1, <2>9, <2>10, CallKeeps
<1> QED
    BY <1>2, <1>3

LEMMA ColonKeeps == ASSUME InputOK, ReaderInv, Colon, UNCHANGED input PROVE ReaderInv'
<1>1. pc = "colon" /\ pc \in AtCall
    BY DEF Colon, AtCall
<1>2. CASE Throw
    BY <1>2, ThrowKeeps
<1>3. CASE ~ Throw
  <2>1. frames' = frames /\ Advance("value")
      BY <1>3 DEF Colon
  <2>2. FramesOK(frames', input.type) /\ Grown
      BY <2>1, SameGrows
  <2>3. "value" \in AtCall /\ pc # "new"
      BY <1>1 DEF AtCall
  <2> QED
      BY <1>1, <2>1, <2>2, <2>3, CallKeeps
<1> QED
    BY <1>2, <1>3

LEMMA CommaKeeps == ASSUME InputOK, ReaderInv, Comma, UNCHANGED input PROVE ReaderInv'
<1>1. pc = "after" /\ pc \in AtCall /\ frames' = frames /\ frames # <<>> /\ Advance("item")
    BY DEF Comma, ReaderInv, AtCall
<1>2. FramesOK(frames', input.type) /\ Grown /\ frames' # <<>>
    BY <1>1, SameGrows
<1>3. "item" \in AtCall /\ pc # "new"
    BY <1>1 DEF AtCall
<1> QED
    BY <1>1, <1>2, <1>3, CallKeeps

LEMMA NoSeparatorKeeps == ASSUME ReaderInv, NoSeparator, UNCHANGED input PROVE ReaderInv'
    BY ThrowKeeps DEF NoSeparator

LEMMA ConstructKeeps ==
    ASSUME InputOK, ReaderInv, input.op = "read", Construct, UNCHANGED input PROVE ReaderInv'
<1>1. pc = "new" /\ frames' = frames /\ Advance("value")
    BY DEF Construct
<1>2. FramesOK(frames', input.type) /\ Grown
    BY <1>1, SameGrows
<1>3. "value" \in AtCall
    BY DEF AtCall
<1> QED
    BY <1>1, <1>2, <1>3, CallKeeps

\* The closing bracket of a container: its elements go to the one around it, which has
\* got one more.
LEMMA CloseContainerKeeps ==
    ASSUME InputOK, ReaderInv, CloseContainer, UNCHANGED input PROVE ReaderInv'
<1>1. pc \in {"item", "after"} /\ pc \in AtCall /\ frames # <<>> /\ Expect(Closing(Kind))
    BY DEF CloseContainer, ReaderInv, AtCall
<1>2. FramesOK(frames, input.type) /\ Elements
    BY <1>1 DEF ReaderInv
<1>3. PICK S : frames \in Seq(S)
    BY <1>2 DEF FramesOK
<1>4. Depth = Len(frames) /\ Depth \in Nat \ {0}
    BY <1>1, <1>3 DEF Depth
<1>5. tok.type # "end"
    BY <1>1, <1>2 DEF Elements, Expect, Closing
<1>6. CASE Depth = 1
  <2>1. frames' = <<>> /\ Advance("done")
      BY <1>6 DEF CloseContainer
  <2>2. FramesOK(frames', input.type) /\ Grown
      BY <2>1 DEF FramesOK, Grown
  <2>3. "done" \notin AtCall /\ pc # "new"
      BY <1>1 DEF AtCall
  <2> QED
      BY <1>1, <2>1, <2>2, <2>3, CallKeeps
<1>7. CASE Depth # 1
  <2> DEFINE front == Front(frames)
             n == Depth - 1
             v == Inner.items
  <2>1. frames' = Deliver(front, input.type[n], v) /\ Advance("after")
      BY <1>7 DEF CloseContainer
  <2>2. front \in Seq(S) /\ Len(front) = n /\ n \in Nat \ {0} /\ \A i \in 1 .. n : front[i] = frames[i]
      BY <1>3, <1>4, <1>7 DEF Front
  <2>3. FramesOK(front, input.type) /\ front # <<>>
    <3>1. ASSUME NEW i \in 1 .. n PROVE FrameOK(front[i], input.type[i])
      <4>1. i \in 1 .. Len(frames) /\ front[i] = frames[i]
          BY <1>4, <2>2
      <4> QED
          BY <1>2, <4>1 DEF FramesOK
    <3> QED
        BY <2>2, <3>1 DEF FramesOK
  <2> HIDE DEF front, n, v
  <2>4. /\ FramesOK(frames', input.type)
        /\ Len(frames') = n
        /\ \A i \in 1 .. n - 1 : frames'[i] = front[i]
        /\ Count(frames'[n]) <= Count(front[n]) + 1
    <3> DEFINE new == Deliver(front, input.type[Len(front)], v)
    <3>1. /\ FramesOK(new, input.type)
          /\ Len(new) = Len(front)
          /\ \A i \in 1 .. Len(front) - 1 : new[i] = front[i]
          /\ Count(new[Len(front)]) <= Count(front[Len(front)]) + 1
        BY <2>3, DeliverIs
    <3>2. frames' = new
        BY <2>1, <2>2
    <3> HIDE DEF new
    <3> QED
        BY <2>2, <3>1, <3>2
  <2>5. ASSUME NEW i \in 1 .. Len(frames')
        PROVE  /\ i \in 1 .. Len(frames)
               /\ Count(frames'[i]) <= Count(frames[i]) \/ Count(frames'[i]) <= Count(frames[i]) + 1
    <3>1. i \in 1 .. n /\ i \in 1 .. Len(frames) /\ front[i] = frames[i]
        BY <1>4, <2>2, <2>4 DEF n
    <3>2. Count(frames[i]) \in Nat
        BY <1>2, <3>1, CountIs DEF FramesOK
    <3>3. i = n \/ i \in 1 .. n - 1
        BY <2>2, <3>1
    <3> QED
        BY <2>4, <3>1, <3>2, <3>3
  <2>6. Grown
      BY <1>5, <2>5 DEF Grown
  <2>7. frames' # <<>>
      BY <2>2, <2>4
  <2>8. "after" \in AtCall /\ pc # "new"
      BY <1>1 DEF AtCall
  <2> QED
      BY <1>1, <2>1, <2>4, <2>6, <2>7, <2>8, CallKeeps
<1> QED
    BY <1>6, <1>7

-----------------------------------------------------------------------------
LEMMA InitInv == Init => JsonInv
<1> SUFFICES ASSUME Init PROVE JsonInv
    OBVIOUS
<1>1. InputOK
  <2>1. CASE input \in Document
      BY <2>1, InputAssumption DEF InputOK
  <2>2. CASE input \notin Document
    <3>1. PICK stub \in Stub : \E n \in 0 .. MaxMore : \E more \in [1 .. n -> stub.alphabet] :
             input = [op |-> stub.op, type |-> stub.type,
                      text |-> stub.begin \o more, written |-> Unwritten]
        BY <2>2 DEF Init
    <3>2. PICK n \in 0 .. MaxMore : \E more \in [1 .. n -> stub.alphabet] :
             input = [op |-> stub.op, type |-> stub.type,
                      text |-> stub.begin \o more, written |-> Unwritten]
        BY <3>1
    <3>3. PICK more \in [1 .. n -> stub.alphabet] :
             input = [op |-> stub.op, type |-> stub.type,
                      text |-> stub.begin \o more, written |-> Unwritten]
        BY <3>2
    <3>4. /\ stub.begin \in Seq(STRING) /\ stub.alphabet \subseteq STRING
          /\ stub.op \in {"read", "skip"} /\ IsType(stub.type)
        BY InputAssumption
    <3>5. n \in Nat
        BY InputAssumption
    <3>6. more \in [1 .. n -> STRING]
        BY <3>3, <3>4
    <3>7. more \in Seq(STRING)
        BY <3>5, <3>6, SeqDef
    <3>8. stub.begin \o more \in Seq(STRING)
        BY <3>4, <3>7, ConcatProperties
    <3>9. input.op = stub.op /\ input.type = stub.type /\ input.text = stub.begin \o more
        BY <3>3
    <3> QED
        BY <3>4, <3>8, <3>9 DEF InputOK
  <2> QED
      BY <2>1, <2>2
<1>2. ReaderInv
  <2>1. pc = "new" /\ at = 1 /\ frames = <<>> /\ tok = Uninitialized
      BY DEF Init
  <2>2. Len(input.text) \in Nat
      BY <1>1 DEF InputOK
  <2>3. FramesOK(frames, input.type)
      BY <2>1 DEF FramesOK
  <2>4. tok.type = "none"
      BY <2>1 DEF Uninitialized
  <2>5. Elements
      BY <2>1, <2>2, <2>4 DEF Elements, Positions
  <2> QED
      BY <2>1, <2>3, <2>4, <2>5 DEF ReaderInv, AtCall
<1> QED
    BY <1>1, <1>2 DEF JsonInv

LEMMA StepKeepsInv == JsonInv /\ [Next]_vars => JsonInv'
<1> SUFFICES ASSUME JsonInv, [Next]_vars PROVE JsonInv'
    OBVIOUS
<1>1. InputOK /\ UNCHANGED input
    BY DEF JsonInv, Next, Over, vars
<1>2. InputOK'
    BY <1>1 DEF InputOK
<1>3. ASSUME input.op = "read" PROVE ReaderInv'
  <2>1. ReaderInv
      BY <1>3 DEF JsonInv
  <2>2. CASE Construct
      BY <1>1, <1>3, <2>1, <2>2, ConstructKeeps
  <2>3. CASE ReadUint
      BY <1>1, <2>1, <2>3, ReadUintKeeps
  <2>4. CASE ReadString
      BY <1>1, <2>1, <2>4, ReadStringKeeps
  <2>5. CASE OpenContainer
      BY <1>1, <2>1, <2>5, OpenContainerKeeps
  <2>6. CASE ReadKey
      BY <1>1, <2>1, <2>6, ReadKeyKeeps
  <2>7. CASE Colon
      BY <1>1, <2>1, <2>7, ColonKeeps
  <2>8. CASE Comma
      BY <1>1, <2>1, <2>8, CommaKeeps
  <2>9. CASE CloseContainer
      BY <1>1, <2>1, <2>9, CloseContainerKeeps
  <2>10. CASE NoSeparator
      BY <1>1, <2>1, <2>10, NoSeparatorKeeps
  <2>11. CASE SkipOver
      BY <2>1, <2>11 DEF ReaderInv, AtCall, SkipOver, Skip, SkipComma, SkipLoop, SkipColon
  <2>12. CASE UNCHANGED vars
      BY <2>1, <2>12 DEF vars, ReaderInv, Elements, Positions
  <2> QED
      BY <2>2, <2>3, <2>4, <2>5, <2>6, <2>7, <2>8, <2>9, <2>10, <2>11, <2>12 DEF Next, Read, Over
<1> QED
    BY <1>1, <1>2, <1>3 DEF JsonInv

LEMMA InvGivesFit == JsonInv => ElementsFitText
<1> SUFFICES ASSUME JsonInv, NEW i \in 1 .. Depth, input.op = "read", pc # "error"
             PROVE  Cardinality(DOMAIN frames[i].items) < at
    BY DEF ElementsFitText
<1>1. Elements /\ i \in 1 .. Len(frames)
    BY DEF JsonInv, ReaderInv, Depth
<1> QED
    BY <1>1 DEF Elements, Room, Count

\* No container that read_json fills ever has more elements than characters were passed:
\* whatever the text is, its loops end with it.
THEOREM ElementsAlwaysFit == Spec => []ElementsFitText
<1>1. Init => JsonInv
    BY InitInv
<1>2. JsonInv /\ [Next]_vars => JsonInv'
    BY StepKeepsInv
<1>3. JsonInv => ElementsFitText
    BY InvGivesFit
<1> QED
    BY <1>1, <1>2, <1>3, PTL DEF Spec

-----------------------------------------------------------------------------
(* No element is lost and none invented.                                     *)

LEMMA MaxIs ==
    ASSUME NEW S, S \subseteq Int, NEW m \in S, \A k \in S : m >= k
    PROVE  Max(S) = m
<1>1. m \in S /\ \A k \in S : m >= k
    OBVIOUS
<1>2. Max(S) \in S /\ \A k \in S : Max(S) >= k
    BY <1>1, Zenon DEF Max
<1>3. m \in Int /\ Max(S) \in Int /\ m <= Max(S) /\ Max(S) <= m
    BY <1>1, <1>2
<1> QED
    BY <1>3

IsComma(c) == c = ","

\* The commas of t between the bracket at o and s.
Commas(t, o, s) == {j \in o .. s - 1 : IsComma(t[j])}

LEMMA BlankIsNone == \A c \in Blank : ~ IsComma(c) /\ c # "]"
    BY Zenon DEF Blank, IsComma

LEMMA ControlHasBoth == \A c : c \notin Control => ~ IsComma(c) /\ c # "]"
    BY Zenon DEF Control, IsComma

LEMMA BracketIsNone == ~ IsComma("[") /\ "[" # "]" /\ ~ IsComma("]")
    BY Zenon DEF IsComma

\* s is in the sequence that the bracket at o opens, and q is where its last piece
\* before s begins: at that bracket, or behind the last comma.
InSequence(t, o, s) == s \in o + 1 .. Len(t) + 1 /\ \A j \in o + 1 .. s - 1 : t[j] # "]"

PieceFrom(t, o, q, s) ==
    /\ q \in o .. s - 1
    /\ q = o \/ IsComma(t[q])
    /\ \A j \in q + 1 .. s - 1 : ~ IsComma(t[j])

AfterSeparator(t, o, s) ==
    \E q \in Int : PieceFrom(t, o, q, s) /\ \A j \in q + 1 .. s - 1 : t[j] \in Blank

AfterElement(t, o, s) ==
    \E q \in Int : PieceFrom(t, o, q, s) /\ \E j \in q + 1 .. s - 1 : t[j] \notin Blank

\* Behind a token that is no bracket and no comma the counts are what they were.
LEMMA CommasAre ==
    ASSUME NEW t, NEW o \in Int, NEW s \in Int, NEW c \in Int, o <= s, s <= c,
           \A j \in s .. c - 1 : ~ IsComma(t[j])
    PROVE  Commas(t, o, c) = Commas(t, o, s)
    BY DEF Commas

LEMMA CommasCount ==
    ASSUME NEW t, NEW o \in Int, NEW s \in Int
    PROVE  IsFiniteSet(Commas(t, o, s)) /\ Cardinality(Commas(t, o, s)) \in Nat
<1>1. IsFiniteSet(o .. s - 1)
    BY FS_Interval
<1>2. Commas(t, o, s) \subseteq o .. s - 1
    BY DEF Commas
<1> QED
    BY <1>1, <1>2, FS_Subset, FS_CardinalityType

LEMMA FirstPiece ==
    ASSUME NEW t \in Seq(STRING), NEW o \in 1 .. Len(t), t[o] = "["
    PROVE  LET s == Begins(t, o + 1)
           IN  /\ InSequence(t, o, s) /\ AfterSeparator(t, o, s)
               /\ Cardinality(Commas(t, o, s)) = 0
<1> DEFINE s == Begins(t, o + 1)
<1>1. Len(t) \in Nat /\ o + 1 \in 1 .. Len(t) + 1
    OBVIOUS
<1>2. s \in o + 1 .. Len(t) + 1 /\ \A j \in o + 1 .. s - 1 : t[j] \in Blank
    BY <1>1, BeginsIs
<1> HIDE DEF s
<1>3. \A j \in o .. s - 1 : t[j] # "]" /\ ~ IsComma(t[j])
  <2> SUFFICES ASSUME NEW j \in o .. s - 1 PROVE t[j] # "]" /\ ~ IsComma(t[j])
      OBVIOUS
  <2>1. j = o \/ j \in o + 1 .. s - 1
      OBVIOUS
  <2> QED
      BY <1>2, <2>1, BlankIsNone, BracketIsNone
<1>4. InSequence(t, o, s)
    BY <1>2, <1>3 DEF InSequence
<1>5. PieceFrom(t, o, o, s)
    BY <1>2, <1>3 DEF PieceFrom
<1>6. AfterSeparator(t, o, s)
    BY <1>2, <1>5 DEF AfterSeparator
<1>7. Commas(t, o, s) = {}
    BY <1>3 DEF Commas
<1> QED
    BY <1>4, <1>6, <1>7, FS_EmptySet DEF s

LEMMA ElementInPiece ==
    ASSUME NEW t \in Seq(STRING), NEW o \in 1 .. Len(t), NEW s \in 1 .. Len(t),
           InSequence(t, o, s), AfterSeparator(t, o, s), t[s] \notin Blank,
           NEW c \in s + 1 .. Len(t) + 1, \A j \in s .. c - 1 : t[j] \notin Control
    PROVE  LET s2 == Begins(t, c)
           IN  /\ InSequence(t, o, s2) /\ AfterElement(t, o, s2)
               /\ Commas(t, o, s2) = Commas(t, o, s)
<1> DEFINE s2 == Begins(t, c)
<1>1. Len(t) \in Nat /\ c \in 1 .. Len(t) + 1
    OBVIOUS
<1>2. s2 \in c .. Len(t) + 1 /\ \A j \in c .. s2 - 1 : t[j] \in Blank
    BY <1>1, BeginsIs
<1> HIDE DEF s2
<1>3. \A j \in s .. s2 - 1 : t[j] # "]" /\ ~ IsComma(t[j])
  <2> SUFFICES ASSUME NEW j \in s .. s2 - 1 PROVE t[j] # "]" /\ ~ IsComma(t[j])
      OBVIOUS
  <2>1. j \in s .. c - 1 \/ j \in c .. s2 - 1
      BY <1>2
  <2> QED
      BY <1>2, <2>1, BlankIsNone, ControlHasBoth
<1>4. s \in o + 1 .. Len(t) /\ s2 \in s + 1 .. Len(t) + 1
    BY <1>2 DEF InSequence
<1>5. InSequence(t, o, s2)
  <2>1. ASSUME NEW j \in o + 1 .. s2 - 1 PROVE t[j] # "]"
    <3>1. j \in o + 1 .. s - 1 \/ j \in s .. s2 - 1
        BY <1>4
    <3> QED
        BY <1>3, <3>1 DEF InSequence
  <2> QED
      BY <1>4, <2>1 DEF InSequence
<1>6. PICK q \in Int : PieceFrom(t, o, q, s)
    BY DEF AfterSeparator
<1>7. PieceFrom(t, o, q, s2)
  <2>1. ASSUME NEW j \in q + 1 .. s2 - 1 PROVE ~ IsComma(t[j])
    <3>1. j \in q + 1 .. s - 1 \/ j \in s .. s2 - 1
        BY <1>4
    <3> QED
        BY <1>3, <1>6, <3>1 DEF PieceFrom
  <2> QED
      BY <1>4, <1>6, <2>1 DEF PieceFrom
<1>8. AfterElement(t, o, s2)
  <2>1. s \in q + 1 .. s2 - 1
      BY <1>4, <1>6 DEF PieceFrom
  <2> QED
      BY <1>7, <2>1 DEF AfterElement
<1>9. Commas(t, o, s2) = Commas(t, o, s)
    BY <1>3, <1>4, CommasAre
<1> QED
    BY <1>5, <1>8, <1>9 DEF s2

LEMMA NextPiece ==
    ASSUME NEW t \in Seq(STRING), NEW o \in 1 .. Len(t), NEW s \in 1 .. Len(t),
           InSequence(t, o, s), IsComma(t[s])
    PROVE  LET s2 == Begins(t, s + 1)
           IN  /\ InSequence(t, o, s2) /\ AfterSeparator(t, o, s2)
               /\ Cardinality(Commas(t, o, s2)) = Cardinality(Commas(t, o, s)) + 1
<1> DEFINE s2 == Begins(t, s + 1)
<1>1. Len(t) \in Nat /\ s + 1 \in 1 .. Len(t) + 1
    OBVIOUS
<1>2. s2 \in s + 1 .. Len(t) + 1 /\ \A j \in s + 1 .. s2 - 1 : t[j] \in Blank
    BY <1>1, BeginsIs
<1> HIDE DEF s2
<1>3. \A j \in s + 1 .. s2 - 1 : t[j] # "]" /\ ~ IsComma(t[j])
    BY <1>2, BlankIsNone
<1>4. s \in o + 1 .. Len(t)
    BY DEF InSequence
<1>5. InSequence(t, o, s2)
  <2>1. ASSUME NEW j \in o + 1 .. s2 - 1 PROVE t[j] # "]"
    <3>1. j \in o + 1 .. s - 1 \/ j = s \/ j \in s + 1 .. s2 - 1
        BY <1>4
    <3> QED
        BY <1>3, <3>1, Zenon DEF InSequence, IsComma
  <2> QED
      BY <1>2, <1>4, <2>1 DEF InSequence
<1>6. PieceFrom(t, o, s, s2)
    BY <1>2, <1>3, <1>4 DEF PieceFrom
<1>7. AfterSeparator(t, o, s2)
    BY <1>2, <1>6 DEF AfterSeparator
<1>8. Commas(t, o, s2) = Commas(t, o, s) \cup {s} /\ s \notin Commas(t, o, s)
    BY <1>2, <1>3, <1>4 DEF Commas
<1>9. Cardinality(Commas(t, o, s2)) = Cardinality(Commas(t, o, s)) + 1
  <2> DEFINE S == Commas(t, o, s)
  <2>1. IsFiniteSet(S) /\ Cardinality(S) \in Nat
      BY CommasCount
  <2> HIDE DEF S
  <2>2. Cardinality(S \cup {s}) = Cardinality(S) + 1
      BY <1>8, <2>1, FS_AddElement DEF S
  <2> QED
      BY <1>8, <2>2 DEF S
<1> QED
    BY <1>5, <1>7, <1>9 DEF s2

\* What NoElementLost says of a value with n elements that was read up to s.
LEMMA LastPiece ==
    ASSUME NEW t \in Seq(STRING), NEW o \in 1 .. Len(t), NEW s \in 1 .. Len(t),
           InSequence(t, o, s), t[s] = "]", NEW q \in Int, PieceFrom(t, o, q, s)
    PROVE  Seek(t, o + 1, {"]"}) = s /\ Max(Commas(t, o, s) \cup {o}) = q
<1>1. IsSeek(t, o + 1, {"]"}, s)
    BY DEF IsSeek, InSequence
<1>2. Seek(t, o + 1, {"]"}) = s
    BY <1>1, SeekOnly
<1> DEFINE S == Commas(t, o, s) \cup {o}
<1>3. S \subseteq Int /\ q \in S
    BY DEF Commas, PieceFrom
<1>4. \A k \in S : q >= k
    BY DEF Commas, PieceFrom
<1> HIDE DEF S
<1>5. Max(S) = q
    BY <1>3, <1>4, MaxIs
<1> QED
    BY <1>2, <1>5 DEF S

\* The token that begins at i, where no blank is.
TokenHere(t, i, token, cursor) ==
    /\ i \in 1 .. Len(t) + 1
    /\ i <= Len(t) => t[i] \notin Blank
    /\ BareToken(t, i, [tok |-> token, at |-> cursor])

LEMMA AdvanceInBareText ==
    ASSUME input.text \in Seq(STRING), Bare(input.text), at \in Positions, NEW to, Advance(to)
    PROVE  \/ pc' = "error"
           \/ pc' = to /\ TokenHere(input.text, Begins(input.text, at), tok', at')
<1> DEFINE t == input.text
           n == next(t, at, tok)
           i == Begins(t, at)
<1>1. t \in Seq(STRING) /\ at \in 1 .. Len(t) + 1 /\ Len(t) \in Nat
    BY DEF Positions
<1>2. IsError(n) \/ BareToken(t, i, n)
    BY <1>1, NextInBareText
<1>3. i \in 1 .. Len(t) + 1 /\ (i <= Len(t) => t[i] \notin Blank)
    BY <1>1, BeginsIs
<1>4. /\ tok' = n.tok /\ at' = n.at
      /\ pc' = IF n.tok.type = "error" THEN "error" ELSE IF n.tok.type = "none" THEN "undefined" ELSE to
    BY DEF Advance
<1> HIDE DEF n, i
<1>5. CASE IsError(n)
    BY <1>4, <1>5 DEF IsError
<1>6. CASE BareToken(t, i, n)
  <2>1. n.tok.type \in Scalars \cup {"ctrl", "end"}
      BY <1>6 DEF BareToken
  <2>2. pc' = to
      BY <1>4, <2>1 DEF Scalars
  <2> DEFINE m == [tok |-> tok', at |-> at']
  <2>3. m.tok = n.tok /\ m.at = n.at
      BY <1>4
  <2> HIDE DEF m
  <2>4. BareToken(t, i, m)
      BY <1>6, <2>3 DEF BareToken
  <2>5. TokenHere(t, i, tok', at')
      BY <1>3, <2>4 DEF TokenHere, m
  <2> QED
      BY <2>2, <2>5 DEF i
<1> QED
    BY <1>2, <1>5, <1>6

\* A character of Control is a token of its own.
LEMMA ControlHere ==
    ASSUME NEW t \in Seq(STRING), NEW i, NEW token, NEW cursor, TokenHere(t, i, token, cursor),
           At(t, i) \in Control
    PROVE  i \in 1 .. Len(t) /\ At(t, i) = t[i] /\ cursor = i + 1 /\ token.start = i
<1> DEFINE m == [tok |-> token, at |-> cursor]
<1>1. m.tok = token /\ m.at = cursor
    OBVIOUS
<1> HIDE DEF m
<1>2. BareToken(t, i, m) /\ i \in 1 .. Len(t) + 1 /\ Len(t) \in Nat
    BY DEF TokenHere, m
<1>3. At(t, i) # "NUL"
    BY Zenon DEF Control
<1>4. i \in 1 .. Len(t) /\ At(t, i) = t[i]
    BY <1>2, <1>3 DEF At
<1>5. ASSUME m.tok.type \in Scalars, m.at \in i + 1 .. Len(t) + 1, \A j \in i .. m.at - 1 : t[j] \notin Control
      PROVE  FALSE
  <2>1. i \in i .. m.at - 1
      BY <1>2, <1>5
  <2> QED
      BY <1>4, <1>5, <2>1
<1>6. m.at = i + 1 /\ m.tok.start = i
    BY <1>2, <1>3, <1>5 DEF BareToken
<1> QED
    BY <1>1, <1>4, <1>6

LEMMA ScalarHere ==
    ASSUME NEW t \in Seq(STRING), NEW i, NEW token, NEW cursor, TokenHere(t, i, token, cursor),
           token.type \in Scalars
    PROVE  /\ i \in 1 .. Len(t) /\ t[i] \notin Blank /\ cursor \in i + 1 .. Len(t) + 1
           /\ \A j \in i .. cursor - 1 : t[j] \notin Control
           /\ token.start = i
<1> DEFINE m == [tok |-> token, at |-> cursor]
<1>1. m.tok = token /\ m.at = cursor
    OBVIOUS
<1> HIDE DEF m
<1>2. BareToken(t, i, m) /\ i \in 1 .. Len(t) + 1 /\ Len(t) \in Nat
    BY DEF TokenHere, m
<1>3. m.tok.type \notin {"end", "ctrl"}
    BY <1>1 DEF Scalars
<1>4. /\ i <= Len(t) /\ m.at \in i + 1 .. Len(t) + 1 /\ m.tok.start = i
      /\ \A j \in i .. m.at - 1 : t[j] \notin Control
    BY <1>2, <1>3 DEF BareToken
<1> QED
    BY <1>1, <1>2, <1>4 DEF TokenHere

-----------------------------------------------------------------------------
\* A call that NoElementLost is about.
Simple ==
    /\ input.op = "read"
    /\ input.type[1] = "seq" /\ Len(input.type) = 2
    /\ Bare(input.text)

\* The container being read has n elements, and the reader is at a token behind its bracket.
InIt(t, fs, token, cursor, n) ==
    LET o == Begins(t, 1)
    IN  /\ Len(fs) = 1
        /\ o \in 1 .. Len(t)
        /\ TokenHere(t, token.start, token, cursor)
        /\ InSequence(t, o, token.start)
        /\ Len(fs[1].items) = n

\* An element for each piece: behind a separator as many as there are commas, behind an
\* element one more.
Pieces ==
    LET t == input.text
        o == Begins(t, 1)
    IN  /\ pc # "colon"
        /\ pc = "value" => frames = <<>> /\ TokenHere(t, o, tok, at)
        /\ pc = "item" =>
              InIt(t, frames, tok, at, Cardinality(Commas(t, o, tok.start))) /\ AfterSeparator(t, o, tok.start)
        /\ pc = "after" =>
              InIt(t, frames, tok, at, Cardinality(Commas(t, o, tok.start)) + 1) /\ AfterElement(t, o, tok.start)
        /\ NoElementLost

PiecesInv == JsonInv /\ (Simple => Pieces)

LEMMA OnlyDone == pc # "done" => NoElementLost
    BY DEF NoElementLost

LEMMA SimpleIs ==
    ASSUME JsonInv, Simple
    PROVE  /\ input.text \in Seq(STRING) /\ Len(input.text) \in Nat /\ Bare(input.text)
           /\ InputOK /\ ReaderInv
           /\ input.type[1] = "seq" /\ input.type[2] \in {"uint", "string"}
<1>1. InputOK /\ ReaderInv
    BY DEF JsonInv, Simple
<1>2. 2 \in 1 .. Len(input.type) /\ Len(input.type) = 2
    BY DEF Simple
<1>3. input.type[2] \in {"uint", "string"}
    BY <1>1, <1>2 DEF InputOK, IsType
<1> QED
    BY <1>1, <1>3 DEF InputOK, Simple

LEMMA ConstructPieces ==
    ASSUME JsonInv, Simple, Construct, UNCHANGED input
    PROVE  Pieces'
<1>1. /\ input.text \in Seq(STRING) /\ Len(input.text) \in Nat /\ Bare(input.text)
      /\ pc = "new" /\ at = 1 /\ at \in Positions /\ frames = <<>>
    BY SimpleIs DEF Construct, ReaderInv, Positions
<1>2. Advance("value") /\ frames' = frames
    BY DEF Construct, Simple
<1>3. \/ pc' = "error"
      \/ pc' = "value" /\ TokenHere(input.text, Begins(input.text, 1), tok', at')
    BY <1>1, <1>2, AdvanceInBareText
<1>4. pc' # "done"
    BY <1>3
<1>5. NoElementLost'
    BY <1>4 DEF NoElementLost
<1> QED
    BY <1>1, <1>2, <1>3, <1>5 DEF Pieces

LEMMA OpenPieces ==
    ASSUME JsonInv, Simple, Pieces, OpenContainer, UNCHANGED input
    PROVE  Pieces'
<1> DEFINE t == input.text
           o == Begins(t, 1)
<1>1. /\ t \in Seq(STRING) /\ Len(t) \in Nat /\ Bare(t) /\ ReaderInv
      /\ input.type[2] \in {"uint", "string"}
    BY SimpleIs
<1>2. pc = "value" /\ frames = <<>> /\ TokenHere(t, o, tok, at)
  <2>1. CASE pc = "item"
    <3>1. Len(frames) = 1
        BY <2>1 DEF Pieces, InIt
    <3>2. Wanted = input.type[2]
        BY <3>1 DEF Wanted, Depth
    <3> QED
        BY <1>1, <3>2 DEF OpenContainer
  <2> QED
      BY <2>1 DEF OpenContainer, AtValue, Pieces
<1> HIDE DEF o
<1>3. NoElementLost' \/ pc' = "done"
    BY DEF NoElementLost
<1>4. CASE Throw
    BY <1>3, <1>4 DEF Throw, Pieces
<1>5. CASE ~ Throw
  <2>1. Wanted = "seq"
      BY <1>2, SimpleIs DEF Wanted, Depth
  <2> DEFINE new == NewContainer(Wanted)
  <2>2. Expect("[") /\ frames' = Append(frames, new) /\ Advance("item")
      BY <1>5, <2>1 DEF OpenContainer, Opening
  <2>3. tok.start = o
      BY <1>2 DEF TokenHere, BareToken
  <2>4. At(t, o) = "[" /\ "[" \in Control
      BY <2>2, <2>3, Zenon DEF Expect, Control
  <2>5. o \in 1 .. Len(t) /\ t[o] = "[" /\ at = o + 1
      BY <1>1, <1>2, <2>4, ControlHere
  <2>6. at \in Positions
      BY <1>1, <2>5 DEF Positions
  <2> DEFINE s == Begins(t, o + 1)
  <2>7. pc' = "error" \/ (pc' = "item" /\ TokenHere(t, s, tok', at'))
      BY <1>1, <2>2, <2>5, <2>6, AdvanceInBareText
  <2>8. InSequence(t, o, s) /\ AfterSeparator(t, o, s) /\ Cardinality(Commas(t, o, s)) = 0
      BY <1>1, <2>5, FirstPiece
  <2>9. Len(frames') = 1 /\ Len(frames'[1].items) = 0
      BY <1>2, <2>2 DEF NewContainer
  <2> HIDE DEF s
  <2>10. TokenHere(t, s, tok', at') => tok'.start = s
      BY DEF TokenHere, BareToken
  <2>11. CASE pc' = "error"
      BY <1>3, <2>11 DEF Pieces
  <2>12. CASE pc' = "item" /\ TokenHere(t, s, tok', at')
    <3>1. tok'.start = s
        BY <2>10, <2>12
    <3>2. InIt(t, frames', tok', at', 0)
        BY <2>5, <2>8, <2>9, <2>12, <3>1 DEF InIt, o
    <3>3. NoElementLost'
        BY <1>3, <2>12
    <3> QED
        BY <2>8, <2>12, <3>1, <3>2, <3>3 DEF Pieces, o
  <2> QED
      BY <2>7, <2>11, <2>12
<1> QED
    BY <1>4, <1>5

LEMMA ScalarPieces ==
    ASSUME JsonInv, Simple, Pieces, ReadUint \/ ReadString, UNCHANGED input
    PROVE  Pieces'
<1> DEFINE t == input.text
           o == Begins(t, 1)
           s == tok.start
<1>1. /\ t \in Seq(STRING) /\ Len(t) \in Nat /\ Bare(t) /\ ReaderInv /\ input.type[1] = "seq"
    BY SimpleIs
<1>2. pc = "item" /\ InIt(t, frames, tok, at, Cardinality(Commas(t, o, s))) /\ AfterSeparator(t, o, s)
  <2>1. CASE pc = "value"
    <3>1. Wanted = "seq"
        BY <1>1, <2>1 DEF Wanted, Depth, Pieces
    <3> QED
        BY <3>1 DEF ReadUint, ReadString
  <2> QED
      BY <2>1 DEF ReadUint, ReadString, AtValue, Pieces
<1>3. /\ o \in 1 .. Len(t) /\ TokenHere(t, s, tok, at) /\ InSequence(t, o, s)
      /\ Len(frames) = 1 /\ Len(frames[1].items) = Cardinality(Commas(t, o, s))
    BY <1>2 DEF InIt
<1> HIDE DEF o, s
<1>4. NoElementLost' \/ pc' = "done"
    BY DEF NoElementLost
<1>5. CASE Throw
    BY <1>4, <1>5 DEF Throw, Pieces
<1>6. CASE ~ Throw
  <2>1. PICK v : frames' = Deliver(frames, Kind, v) /\ Advance("after") /\ tok.type \in Scalars
      BY <1>6 DEF ReadUint, IsUint, ReadString, Scalars
  <2>2. /\ s \in 1 .. Len(t) /\ t[s] \notin Blank /\ at \in s + 1 .. Len(t) + 1
        /\ \A j \in s .. at - 1 : t[j] \notin Control
      BY <1>1, <1>3, <2>1, ScalarHere
  <2>3. at \in Positions
      BY <1>1, <2>2 DEF Positions
  <2> DEFINE s2 == Begins(t, at)
  <2>4. pc' = "error" \/ (pc' = "after" /\ TokenHere(t, s2, tok', at'))
      BY <1>1, <2>1, <2>3, AdvanceInBareText
  <2>5. InSequence(t, o, s2) /\ AfterElement(t, o, s2) /\ Commas(t, o, s2) = Commas(t, o, s)
      BY <1>1, <1>2, <1>3, <2>2, ElementInPiece DEF o, s
  <2>6. Len(frames') = 1 /\ Len(frames'[1].items) = Len(frames[1].items) + 1
    <3>1. Kind = "seq" /\ frames # <<>>
      <4>1. Depth = 1
          BY <1>3 DEF Depth
      <4>2. Kind = "seq"
          BY <1>1, <4>1, Zenon DEF Kind
      <4>3. frames # <<>>
          BY <1>3
      <4> QED
          BY <4>2, <4>3
    <3>2. PICK S : frames \in Seq(S)
        BY <1>1 DEF ReaderInv, FramesOK
    <3>3. 1 \in 1 .. Len(frames)
        BY <1>3
    <3>4. FrameOK(frames[1], "seq")
        BY <1>1, <3>3 DEF ReaderInv, FramesOK
    <3> DEFINE f == frames[1]
               more == [f EXCEPT !.items = Append(f.items, v)]
    <3>5. PICK R : f.items \in Seq(R)
        BY <3>4 DEF FrameOK
    <3>6. frames' = [frames EXCEPT ![1] = more]
        BY <1>3, <2>1, <3>1, <3>2 DEF Deliver
    <3>7. f = [items |-> f.items, key |-> f.key]
        BY <3>4 DEF FrameOK
    <3> HIDE DEF f
    <3>8. more.items = Append(f.items, v)
        BY <3>7
    <3> HIDE DEF more
    <3>9. frames'[1] = more /\ Len(frames') = 1
        BY <1>3, <3>2, <3>6
    <3>10. Len(Append(f.items, v)) = Len(f.items) + 1
        BY <3>5
    <3> QED
        BY <3>8, <3>9, <3>10 DEF f
  <2> HIDE DEF s2
  <2>7. CASE pc' = "error"
      BY <1>4, <2>7 DEF Pieces
  <2>8. CASE pc' = "after" /\ TokenHere(t, s2, tok', at')
    <3>1. tok'.start = s2
        BY <2>8 DEF TokenHere, BareToken
    <3>2. Len(frames'[1].items) = Cardinality(Commas(t, o, s2)) + 1
        BY <1>3, <2>5, <2>6
    <3>3. InIt(t, frames', tok', at', Cardinality(Commas(t, o, s2)) + 1)
        BY <1>3, <2>5, <2>6, <2>8, <3>1, <3>2 DEF InIt, o
    <3>4. NoElementLost'
        BY <1>4, <2>8
    <3> QED
        BY <2>5, <2>8, <3>1, <3>3, <3>4 DEF Pieces, o
  <2> QED
      BY <2>4, <2>7, <2>8
<1> QED
    BY <1>5, <1>6

LEMMA CommaPieces ==
    ASSUME JsonInv, Simple, Pieces, Comma, UNCHANGED input
    PROVE  Pieces'
<1> DEFINE t == input.text
           o == Begins(t, 1)
           s == tok.start
           n == Cardinality(Commas(t, o, s)) + 1
<1>1. t \in Seq(STRING) /\ Len(t) \in Nat /\ Bare(t)
    BY SimpleIs
<1>2. pc = "after" /\ InIt(t, frames, tok, at, n) /\ AfterElement(t, o, s) /\ Advance("item") /\ frames' = frames
    BY DEF Comma, Pieces
<1>3. IsComma(At(t, s)) /\ At(t, s) \in Control
    BY Zenon DEF Comma, Expect, IsComma, Control
<1>4. /\ o \in 1 .. Len(t) /\ TokenHere(t, s, tok, at) /\ InSequence(t, o, s)
      /\ Len(frames) = 1 /\ Len(frames[1].items) = n
    BY <1>2 DEF InIt
<1> HIDE DEF o, s, n
<1>5. s \in 1 .. Len(t) /\ IsComma(t[s]) /\ at = s + 1
    BY <1>1, <1>3, <1>4, ControlHere
<1>6. at \in Positions
    BY <1>1, <1>5 DEF Positions
<1> DEFINE s2 == Begins(t, s + 1)
<1>7. pc' = "error" \/ (pc' = "item" /\ TokenHere(t, s2, tok', at'))
    BY <1>1, <1>2, <1>5, <1>6, AdvanceInBareText
<1>8. /\ InSequence(t, o, s2) /\ AfterSeparator(t, o, s2)
      /\ Cardinality(Commas(t, o, s2)) = n
    BY <1>1, <1>4, <1>5, NextPiece DEF n
<1> HIDE DEF s2
<1>9. NoElementLost' \/ pc' = "done"
    BY DEF NoElementLost
<1>10. CASE pc' = "error"
    BY <1>9, <1>10 DEF Pieces
<1>11. CASE pc' = "item" /\ TokenHere(t, s2, tok', at')
  <2>1. tok'.start = s2
      BY <1>11 DEF TokenHere, BareToken
  <2>2. InIt(t, frames', tok', at', n)
      BY <1>2, <1>4, <1>8, <1>11, <2>1 DEF InIt, o
  <2>3. NoElementLost'
      BY <1>9, <1>11
  <2> QED
      BY <1>8, <1>11, <2>1, <2>2, <2>3 DEF Pieces, o
<1> QED
    BY <1>7, <1>10, <1>11

\* The bracket: there is an element for each comma, and one more when something else
\* stands behind the last of them.
LEMMA ClosePieces ==
    ASSUME JsonInv, Simple, Pieces, CloseContainer, UNCHANGED input
    PROVE  Pieces'
<1> DEFINE t == input.text
           o == Begins(t, 1)
           s == tok.start
           c == Cardinality(Commas(t, o, s))
<1>1. t \in Seq(STRING) /\ Len(t) \in Nat /\ Bare(t) /\ input.type[1] = "seq"
    BY SimpleIs
<1>2. PICK n : /\ InIt(t, frames, tok, at, n)
               /\ \/ n = c /\ AfterSeparator(t, o, s)
                  \/ n = c + 1 /\ AfterElement(t, o, s)
    BY DEF CloseContainer, Pieces
<1>3. /\ o \in 1 .. Len(t) /\ TokenHere(t, s, tok, at) /\ InSequence(t, o, s)
      /\ Len(frames) = 1 /\ Len(frames[1].items) = n
    BY <1>2 DEF InIt
<1>4. Depth = 1
    BY <1>3 DEF Depth
<1>5. Expect("]") /\ value' = frames[1].items /\ Advance("done")
  <2>1. Kind = "seq"
      BY <1>1, <1>4, Zenon DEF Kind
  <2> QED
      BY <1>4, <2>1 DEF CloseContainer, Closing, Inner
<1>6. At(t, s) = "]" /\ "]" \in Control
    BY <1>5, Zenon DEF Expect, Control
<1> HIDE DEF o, s, c
<1>7. s \in 1 .. Len(t) /\ t[s] = "]" /\ at = s + 1
    BY <1>1, <1>3, <1>6, ControlHere
<1>8. at \in Positions
    BY <1>1, <1>7 DEF Positions
<1>9. pc' \in {"error", "done"}
    BY <1>1, <1>5, <1>8, AdvanceInBareText
<1>10. NoElementLost'
  <2> DEFINE E(q) == \E j \in q + 1 .. s - 1 : t[j] \notin Blank
  <2>1. PICK q \in Int : PieceFrom(t, o, q, s) /\ n = c + (IF E(q) THEN 1 ELSE 0)
    <3>1. c \in Nat
        BY <1>3, <1>7, CommasCount DEF c
    <3>2. CASE n = c /\ AfterSeparator(t, o, s)
      <4>1. PICK q \in Int : PieceFrom(t, o, q, s) /\ \A j \in q + 1 .. s - 1 : t[j] \in Blank
          BY <3>2 DEF AfterSeparator
      <4>2. ~ E(q)
          BY <4>1
      <4> HIDE DEF E
      <4> QED
          BY <3>1, <3>2, <4>1, <4>2
    <3>3. CASE n = c + 1 /\ AfterElement(t, o, s)
      <4>1. PICK q \in Int : PieceFrom(t, o, q, s) /\ \E j \in q + 1 .. s - 1 : t[j] \notin Blank
          BY <3>3 DEF AfterElement
      <4>2. E(q)
          BY <4>1
      <4> HIDE DEF E
      <4> QED
          BY <3>1, <3>3, <4>1, <4>2
    <3> QED
        BY <1>2, <3>2, <3>3
  <2>2. Pass(t, 1, Blank) = o
      BY DEF o, Begins
  <2>3. Seek(t, o + 1, {"]"}) = s /\ Max(Commas(t, o, s) \cup {o}) = q
      BY <1>1, <1>3, <1>7, <2>1, LastPiece
  <2>4. Len(value') = c + (IF E(q) THEN 1 ELSE 0)
      BY <1>3, <1>5, <2>1
  <2>5. {j \in o .. s - 1 : t[j] = ","} = Commas(t, o, s)
      BY Zenon DEF Commas, IsComma
  <2>6. Len(value') =
          LET open == Pass(t, 1, Blank)
              close == Seek(t, open + 1, {"]"})
              commas == {j \in open .. close - 1 : t[j] = ","}
              last == Max(commas \cup {open})
              more == IF \E j \in last + 1 .. close - 1 : t[j] \notin Blank THEN 1 ELSE 0
          IN  Cardinality(commas) + more
      BY <2>2, <2>3, <2>4, <2>5, Zenon DEF c
  <2> QED
      BY <2>6, Zenon DEF NoElementLost
<1> QED
    BY <1>9, <1>10 DEF Pieces

\* Neither an error nor a call that is over is about anything.
LEMMA ThrowPieces == ASSUME Throw PROVE Pieces'
  BY DEF Throw, Pieces, NoElementLost

LEMMA StaysPieces == ASSUME Pieces, UNCHANGED vars PROVE Pieces'
<1>1. NoElementLost'
    BY DEF Pieces, NoElementLost, vars
<1> QED
    BY <1>1 DEF Pieces, vars

LEMMA PiecesInit == Init => PiecesInv
<1> SUFFICES ASSUME Init PROVE Simple => Pieces
    BY InitInv DEF PiecesInv
<1> QED
    BY OnlyDone DEF Init, Pieces

LEMMA StepKeepsPieces == PiecesInv /\ [Next]_vars => PiecesInv'
<1> SUFFICES ASSUME PiecesInv, [Next]_vars, Simple' PROVE Pieces'
    BY StepKeepsInv DEF PiecesInv
<1>1. JsonInv /\ ReaderInv /\ Simple /\ Pieces /\ UNCHANGED input
  <2>1. UNCHANGED input
      BY DEF Next, Over, vars
  <2>2. Simple
      BY <2>1 DEF Simple
  <2> QED
      BY <2>1, <2>2, SimpleIs DEF PiecesInv
<1>2. CASE Construct
    BY <1>1, <1>2, ConstructPieces
<1>3. CASE ReadUint \/ ReadString
    BY <1>1, <1>3, ScalarPieces
<1>4. CASE OpenContainer
    BY <1>1, <1>4, OpenPieces
<1>5. CASE ReadKey
  <2>1. Depth = 1
      BY <1>1, <1>5 DEF ReadKey, Pieces, InIt, Depth
  <2> QED
      BY <1>1, <1>5, <2>1, SimpleIs DEF ReadKey, Kind
<1>6. CASE Colon
    BY <1>1, <1>6 DEF Colon, Pieces
<1>7. CASE Comma
    BY <1>1, <1>7, CommaPieces
<1>8. CASE CloseContainer
    BY <1>1, <1>8, ClosePieces
<1>9. CASE NoSeparator
    BY <1>9, ThrowPieces DEF NoSeparator
<1>10. CASE SkipOver
    BY <1>1, <1>10 DEF ReaderInv, AtCall, SkipOver, Skip, SkipComma, SkipLoop, SkipColon
<1>11. CASE UNCHANGED vars
    BY <1>1, <1>11, StaysPieces
<1> QED
    BY <1>2, <1>3, <1>4, <1>5, <1>6, <1>7, <1>8, <1>9, <1>10, <1>11 DEF Next, Read, Over

LEMMA PiecesGiveCount == PiecesInv => NoElementLost
<1> SUFFICES ASSUME PiecesInv PROVE NoElementLost
    OBVIOUS
<1>1. CASE Simple
    BY <1>1 DEF PiecesInv, Pieces
<1>2. CASE ~ Simple
  <2>1. ASSUME ToSet(input.text) \cap {"QUOTE", "BSL", "/"} = {}, InputOK PROVE Bare(input.text)
    <3> DEFINE t == input.text
    <3>1. DOMAIN t = 1 .. Len(t)
        BY <2>1 DEF InputOK
    <3>2. ASSUME NEW j \in 1 .. Len(t) PROVE t[j] \in ToSet(t)
        BY <3>1, Zenon DEF ToSet
    <3> HIDE DEF t
    <3>3. ASSUME NEW j \in 1 .. Len(t) PROVE t[j] \notin {"QUOTE", "BSL", "/"}
        BY <2>1, <3>2 DEF t
    <3> QED
        BY <3>3 DEF Bare, t
  <2>2. InputOK
      BY DEF PiecesInv, JsonInv
  <2> QED
      BY <1>2, <2>1, <2>2, Zenon DEF Simple, NoElementLost
<1> QED
    BY <1>1, <1>2

\* A sequence that is read from any text without strings, comments and escapes has an
\* element for each piece between its commas, whatever its length.
THEOREM NoElementIsLost == Spec => []NoElementLost
<1>1. Init => PiecesInv
    BY PiecesInit
<1>2. PiecesInv /\ [Next]_vars => PiecesInv'
    BY StepKeepsPieces
<1>3. PiecesInv => NoElementLost
    BY PiecesGiveCount
<1> QED
    BY <1>1, <1>2, <1>3, PTL DEF Spec
=============================================================================
