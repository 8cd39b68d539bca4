--------------------------- MODULE ChunkedDecoderProofs ---------------------------
(***************************************************************************)
(* Theorems about ChunkedDecoder, for bodies and pieces of any length.      *)
(***************************************************************************)
EXTENDS ChunkedDecoder, RecursionLemmas, SequenceTheorems

-----------------------------------------------------------------------------
(* Sizes. *)

\* Each digit gives sixteen times as many sizes.
LEMMA PowersOfSixteen ==
    /\ SixteenTo \in [0 .. HexDigits -> Nat]
    /\ \A n \in 0 .. HexDigits : SixteenTo[n] = IF n = 0 THEN 1 ELSE 16 * SixteenTo[n - 1]
<1> DEFINE D == 0 .. HexDigits
           Is(f) == f = [n \in D |-> IF n = 0 THEN 1 ELSE 16 * f[n - 1]]
           step == [n \in 1 .. HexDigits |-> [k \in Nat |-> 16 * k]]
<1>1. HexDigits \in Nat
    BY DigitsAssumption
<1>2. step \in [1 .. HexDigits -> [Nat -> Nat]] /\ 1 \in Nat
    OBVIOUS
<1>3. PICK f \in [D -> Nat] : Iterates(f, D, 1, step)
  <2> HIDE DEF step
  <2> QED
      BY <1>1, <1>2, RecursionUpTo
<1>4. ASSUME NEW n \in D PROVE f[n] = IF n = 0 THEN 1 ELSE 16 * f[n - 1]
  <2>1. f[n] = IF n = 0 THEN 1 ELSE step[n][f[n - 1]]
      BY <1>3 DEF Iterates
  <2>2. ASSUME n # 0 PROVE step[n][f[n - 1]] = 16 * f[n - 1]
    <3>1. n \in 1 .. HexDigits /\ n - 1 \in D
        BY <1>1, <2>2
    <3>2. f[n - 1] \in Nat
        BY <1>3, <3>1
    <3> QED
        BY <3>1, <3>2
  <2> QED
      BY <2>1, <2>2
<1>5. Is(f)
    BY <1>3, <1>4
<1>6. Is(SixteenTo)
  <2>1. SixteenTo = CHOOSE g : Is(g)
      BY DEF SixteenTo
  <2> HIDE DEF Is
  <2> QED
      BY <1>5, <2>1
<1>7. \A n \in D : SixteenTo[n] = IF n = 0 THEN 1 ELSE 16 * SixteenTo[n - 1]
    BY <1>6
<1>8. \A n \in D : SixteenTo[n] \in Nat
  <2> DEFINE S == {n \in D : SixteenTo[n] \in Nat}
  <2>1. 0 \in S
      BY <1>1, <1>7
  <2>2. ASSUME NEW n \in 0 .. HexDigits - 1, n \in S PROVE n + 1 \in S
    <3>1. n + 1 \in D /\ n + 1 # 0 /\ (n + 1) - 1 = n
        BY <1>1
    <3>2. SixteenTo[n + 1] = 16 * SixteenTo[n]
        BY <1>7, <3>1
    <3> QED
        BY <2>2, <3>1, <3>2
  <2>3. \A n \in D : n \in S
    <3> HIDE DEF S
    <3> QED
        BY <1>1, <2>1, <2>2, InductionUpTo
  <2> QED
      BY <2>3
<1>9. SixteenTo \in [D -> Nat]
    BY <1>6, <1>8
<1> QED
    BY <1>7, <1>9

\* The more digits, the more sizes.
LEMMA PowersGrow ==
    ASSUME NEW n \in 0 .. HexDigits
    PROVE  SixteenTo[n] \in Nat \ {0} /\ SixteenTo[n] <= SixteenTo[HexDigits]
<1>1. HexDigits \in Nat /\ \A k \in 0 .. HexDigits : SixteenTo[k] \in Nat
    BY DigitsAssumption, PowersOfSixteen
<1>2. ASSUME NEW k \in 1 .. HexDigits PROVE SixteenTo[k] = 16 * SixteenTo[k - 1]
    BY <1>1, <1>2, PowersOfSixteen
<1>3. \A k \in 0 .. HexDigits : SixteenTo[k] # 0
  <2> DEFINE S == {k \in 0 .. HexDigits : SixteenTo[k] # 0}
  <2>1. 0 \in S
      BY <1>1, PowersOfSixteen
  <2>2. ASSUME NEW k \in 0 .. HexDigits - 1, k \in S PROVE k + 1 \in S
    <3>1. k + 1 \in 1 .. HexDigits /\ (k + 1) - 1 = k
        BY <1>1
    <3>2. SixteenTo[k + 1] = 16 * SixteenTo[k]
        BY <1>2, <3>1
    <3> QED
        BY <1>1, <2>2, <3>1, <3>2
  <2> HIDE DEF S
  <2>3. \A k \in 0 .. HexDigits : k \in S
      BY <1>1, <2>1, <2>2, InductionUpTo
  <2> QED
      BY <2>3 DEF S
<1>4. \A k \in 0 .. HexDigits - n : SixteenTo[n] <= SixteenTo[n + k]
  <2> DEFINE S == {k \in 0 .. HexDigits - n : SixteenTo[n] <= SixteenTo[n + k]}
  <2>1. 0 \in S /\ HexDigits - n \in Nat
      BY <1>1
  <2>2. ASSUME NEW k \in 0 .. (HexDigits - n) - 1, k \in S PROVE k + 1 \in S
    <3>1. n + (k + 1) \in 1 .. HexDigits /\ n + (k + 1) - 1 = n + k /\ n + k \in 0 .. HexDigits
        BY <1>1
    <3>2. SixteenTo[n + (k + 1)] = 16 * SixteenTo[n + k]
        BY <1>2, <3>1
    <3>3. SixteenTo[n + k] \in Nat /\ SixteenTo[n] \in Nat
        BY <1>1, <3>1
    <3> QED
        BY <1>1, <2>2, <3>1, <3>2, <3>3
  <2> HIDE DEF S
  <2>3. \A k \in 0 .. HexDigits - n : k \in S
      BY <2>1, <2>2, InductionUpTo
  <2> QED
      BY <2>3 DEF S
<1>5. HexDigits - n \in 0 .. HexDigits - n /\ n + (HexDigits - n) = HexDigits
    BY <1>1
<1>6. SixteenTo[n] <= SixteenTo[n + (HexDigits - n)]
    BY <1>4, <1>5
<1> QED
    BY <1>1, <1>3, <1>5, <1>6

\* A digit more never takes the size beyond its width.
LEMMA NoOverflow ==
    ASSUME NEW n \in 0 .. HexDigits - 1, NEW a \in Nat, a < SixteenTo[n], NEW digit \in Digits
    PROVE  /\ Value[digit] \in Nat
           /\ (a * 16 + Value[digit]) % SixteenTo[HexDigits] = a * 16 + Value[digit]
           /\ a * 16 + Value[digit] < SixteenTo[n + 1]
<1>1. Value[digit] \in 0 .. 2
    BY DEF Value, Digits
<1>2. HexDigits \in Nat /\ n \in 0 .. HexDigits /\ n + 1 \in 0 .. HexDigits /\ n + 1 # 0 /\ (n + 1) - 1 = n
    BY DigitsAssumption
<1>3. SixteenTo[n + 1] = 16 * SixteenTo[n]
    BY <1>2, PowersOfSixteen
<1>4. /\ SixteenTo[n] \in Nat /\ SixteenTo[n + 1] \in Nat
      /\ SixteenTo[HexDigits] \in Nat \ {0} /\ SixteenTo[n + 1] <= SixteenTo[HexDigits]
    BY <1>2, PowersGrow
<1>5. a * 16 + Value[digit] \in Nat /\ a * 16 + Value[digit] < SixteenTo[n + 1]
    BY <1>1, <1>3, <1>4
<1> DEFINE w == SixteenTo[HexDigits]
           x == a * 16 + Value[digit]
<1>6. w \in Nat \ {0} /\ x \in Nat /\ x < w
    BY <1>4, <1>5
<1> HIDE DEF w, x
<1>7. x % w = x
    BY <1>6
<1> QED
    BY <1>1, <1>5, <1>7 DEF w, x

-----------------------------------------------------------------------------
(* Decoding in place. *)

\* What arrives is a sequence of units; the piece is its end.
Pieces ==
    /\ buf \in Seq(Unit)
    /\ stream \in Seq(Unit)
    /\ Len(buf) <= Len(stream)

Positions ==
    /\ src \in Nat
    /\ dst \in Nat
    /\ bytes_left_in_chunk \in Nat
    /\ calling \in BOOLEAN

DecoderInv == Pieces /\ Positions /\ UnreadIntact

\* A piece that arrives is the end of the stream, and nothing of it was read.
LEMMA ArriveKeepsInv ==
    ASSUME DecoderInv, Arrive
    PROVE  DecoderInv'
<1> USE DEF DecoderInv
<1>1. PICK n \in 0 .. MaxPiece : \E piece \in [1 .. n -> Unit] :
           buf' = piece /\ stream' = stream \o piece
  BY DEF Arrive
<1>2. PICK piece \in [1 .. n -> Unit] : buf' = piece /\ stream' = stream \o piece
  BY <1>1
<1>3. n \in Nat
  BY StreamAssumption
<1>4. piece \in Seq(Unit) /\ Len(piece) = n
  BY <1>3
<1>5. /\ stream' \in Seq(Unit)
      /\ Len(stream') = Len(stream) + n
      /\ \A i \in 1 .. n : stream'[Len(stream) + i] = piece[i]
  <2>1. stream \in Seq(Unit)
    BY DEF Pieces
  <2>2. Len(stream) \in Nat
    BY <2>1
  <2>3. stream' \in Seq(Unit) /\ Len(stream') = Len(stream) + n
    BY <1>2, <1>4, <2>1, ConcatProperties
  <2>4. ASSUME NEW i \in 1 .. n PROVE stream'[Len(stream) + i] = piece[i]
    <3>1. Len(stream) + i \in 1 .. Len(stream) + Len(piece)
      BY <1>3, <1>4, <2>2
    <3>2. (stream \o piece)[Len(stream) + i] = piece[Len(stream) + i - Len(stream)]
      BY <1>3, <1>4, <2>1, <2>2, <3>1, ConcatProperties
    <3> QED BY <1>2, <1>3, <2>2, <3>2
  <2> QED BY <2>3, <2>4
<1>6. Pieces'
  BY <1>2, <1>3, <1>4, <1>5 DEF Pieces
<1>7. src' = 0 /\ dst' = 0 /\ calling' = TRUE /\ bytes_left_in_chunk' = bytes_left_in_chunk
  BY DEF Arrive, decoder
<1>8. Positions'
  BY <1>7 DEF Positions
<1>9. UnreadIntact'
  BY <1>2, <1>3, <1>4, <1>5, <1>7 DEF UnreadIntact, bufsz, Pieces
<1> QED BY <1>6, <1>8, <1>9

\* The end of a call moves units within the piece, and what was not read lies no longer
\* in front of the reader.
LEMMA ExitKeepsInv ==
    ASSUME DecoderInv, NEW moved \in Seq(Unit), Len(moved) = bufsz,
           NEW s \in Nat, NEW d \in Nat, NEW r, d <= s, s <= bufsz,
           Exit(moved, s, d, r), bytes_left_in_chunk' \in Nat
    PROVE  DecoderInv'
<1> USE DEF DecoderInv
<1>1. bufsz \in Nat /\ bufsz = Len(buf)
  BY DEF Pieces, bufsz
<1>2. ASSUME NEW i \in 1 .. bufsz
      PROVE  (IF d < i /\ i <= d + bufsz - s THEN moved[i - d + s] ELSE moved[i]) \in Unit
  BY <1>1
<1>3. buf' \in [1 .. bufsz -> Unit]
  BY <1>1, <1>2 DEF Exit
<1>4. buf' \in Seq(Unit) /\ Len(buf') = bufsz
  BY <1>1, <1>3
<1>5. stream' = stream /\ src' = s /\ dst' = d /\ calling' = FALSE
  BY DEF Exit
<1> QED BY <1>1, <1>4, <1>5 DEF Pieces, Positions, UnreadIntact

\* Reading on leaves the piece alone.
LEMMA ContinueKeepsInv ==
    ASSUME DecoderInv, calling, NEW s \in Nat, src <= s, s <= bufsz,
           Continue(s), bytes_left_in_chunk' \in Nat
    PROVE  DecoderInv'
  BY DEF DecoderInv, Pieces, Positions, UnreadIntact, Continue, bufsz

\* Moving data that was read to a place before it touches nothing that was not read.
LEMMA MovedBehind ==
    ASSUME DecoderInv, calling, NEW n \in Nat, src + n <= bufsz
    PROVE  /\ Moved(dst, src, n) \in Seq(Unit)
           /\ Len(Moved(dst, src, n)) = bufsz
           /\ \A i \in src + n + 1 .. bufsz : Moved(dst, src, n)[i] = buf[i]
<1> USE DEF DecoderInv
<1>1. /\ bufsz \in Nat /\ bufsz = Len(buf)
      /\ src \in Nat /\ dst \in Nat /\ dst <= src
  BY DEF Pieces, Positions, UnreadIntact, bufsz
<1>2. ASSUME NEW i \in 1 .. bufsz
      PROVE  (IF dst < i /\ i <= dst + n THEN buf[i - dst + src] ELSE buf[i]) \in Unit
  BY <1>1 DEF Pieces
<1>3. Moved(dst, src, n) \in [1 .. bufsz -> Unit]
  BY <1>2 DEF Moved
<1>4. ASSUME NEW i \in src + n + 1 .. bufsz PROVE Moved(dst, src, n)[i] = buf[i]
  BY <1>1 DEF Moved
<1> QED BY <1>1, <1>3, <1>4

\* The size that the digits give is a natural number.
LEMMA SizeInNat ==
    ASSUME bytes_left_in_chunk \in Nat, NEW digit \in Digits
    PROVE  (bytes_left_in_chunk * 16 + Value[digit]) % SixteenTo[HexDigits] \in Nat
<1>1. Value[digit] \in Nat
  BY DEF Value, Digits
<1> DEFINE width == SixteenTo[HexDigits]
<1>2. width \in Nat \ {0}
  BY DigitsAssumption, PowersGrow
<1> HIDE DEF width
<1>3. \A a \in Nat : a % width \in Nat
  BY <1>2
<1>4. bytes_left_in_chunk * 16 + Value[digit] \in Nat
  BY <1>1
<1> QED BY <1>3, <1>4 DEF width

\* Every step of the loop keeps what is still to be read.
LEMMA LoopKeepsInv ==
    ASSUME DecoderInv, phr_decode_chunked
    PROVE  DecoderInv'
<1> USE DEF In
<1>0. /\ calling /\ src \in Nat /\ dst \in Nat /\ bufsz \in Nat
      /\ bytes_left_in_chunk \in Nat
      /\ buf \in Seq(Unit) /\ Len(buf) = bufsz /\ dst <= src /\ src <= bufsz
  BY DEF DecoderInv, Pieces, Positions, UnreadIntact, bufsz, phr_decode_chunked, OutOfInput,
     Digit, SizeEnds, ChunkExt, DataEndsPiece, ChunkData, ChunkCrlf, TrailersLineHead,
     TrailersLineMiddle
<1>1. CASE OutOfInput
  BY <1>0, <1>1, ExitKeepsInv DEF OutOfInput, decoder
<1>2. CASE Digit
  <2>1. CASE _hex_count = HexDigits
    BY <1>0, <1>2, <2>1, ExitKeepsInv DEF Digit, decoder
  <2>2. CASE _hex_count # HexDigits
    <3>1. bytes_left_in_chunk' \in Nat /\ Continue(src + 1)
      BY <1>0, <1>2, <2>2, SizeInNat DEF Digit
    <3> QED BY <1>0, <1>2, <3>1, ContinueKeepsInv DEF Digit
  <2> QED BY <2>1, <2>2
<1>3. CASE SizeEnds
  BY <1>0, <1>3, ExitKeepsInv, ContinueKeepsInv DEF SizeEnds, decoder
<1>4. CASE ChunkExt
  BY <1>0, <1>4, ExitKeepsInv, ContinueKeepsInv DEF ChunkExt
<1>5. CASE DataEndsPiece
  <2> DEFINE avail == bufsz - src
  <2>1. avail \in Nat /\ src + avail = bufsz /\ dst + avail <= src + avail
    BY <1>0
  <2>2. bytes_left_in_chunk' \in Nat
    BY <1>0, <1>5 DEF DataEndsPiece
  <2>3. Exit(Moved(dst, src, avail), src + avail, dst + avail, Incomplete)
    BY <1>5 DEF DataEndsPiece
  <2>4. Moved(dst, src, avail) \in Seq(Unit) /\ Len(Moved(dst, src, avail)) = bufsz
    BY <1>0, <2>1, MovedBehind
  <2> HIDE DEF avail
  <2> QED BY <1>0, <2>1, <2>2, <2>3, <2>4, ExitKeepsInv
<1>6. CASE ChunkData
  <2> DEFINE n == bytes_left_in_chunk
             m == Moved(dst, src, n)
  <2>1. n \in Nat /\ src + n <= bufsz
    BY <1>0, <1>6 DEF ChunkData
  <2>2. /\ m \in Seq(Unit) /\ Len(m) = bufsz
        /\ \A i \in src + n + 1 .. bufsz : m[i] = buf[i]
    BY <1>0, <2>1, MovedBehind
  <2>3. /\ buf' = m /\ src' = src + n /\ dst' = dst + n /\ bytes_left_in_chunk' = 0
        /\ stream' = stream /\ calling' = calling
    BY <1>6 DEF ChunkData
  <2> HIDE DEF n, m
  <2> QED BY <1>0, <2>1, <2>2, <2>3 DEF DecoderInv, Pieces, Positions, UnreadIntact, bufsz
<1>7. CASE ChunkCrlf
  BY <1>0, <1>7, ExitKeepsInv, ContinueKeepsInv DEF ChunkCrlf
<1>8. CASE TrailersLineHead
  BY <1>0, <1>8, ExitKeepsInv, ContinueKeepsInv DEF TrailersLineHead
<1>9. CASE TrailersLineMiddle
  BY <1>0, <1>9, ContinueKeepsInv DEF TrailersLineMiddle
<1> QED BY <1>1, <1>2, <1>3, <1>4, <1>5, <1>6, <1>7, <1>8, <1>9 DEF phr_decode_chunked

\* However long the body and however it is cut, decoding in place never overwrites
\* what was not read yet, nor does it read or write beyond the piece.
THEOREM UnreadStaysIntact == Spec => []UnreadIntact
<1>1. Init => DecoderInv
  <2>1. <<>> \in Seq(Unit) /\ Len(<<>>) = 0
    OBVIOUS
  <2>2. Init => Pieces
    BY <2>1 DEF Init, Pieces
  <2>3. Init => src \in Nat /\ dst \in Nat /\ bytes_left_in_chunk \in Nat
    BY DEF Init
  <2>4. Init => calling \in BOOLEAN /\ ~calling
    BY Zenon DEF Init
  <2> QED BY <2>2, <2>3, <2>4 DEF DecoderInv, Positions, UnreadIntact
<1>2. DecoderInv /\ [Next]_vars => DecoderInv'
  <2> SUFFICES ASSUME DecoderInv, [Next]_vars PROVE DecoderInv'
    OBVIOUS
  <2>1. CASE UNCHANGED vars
    BY <2>1 DEF vars, decoder, DecoderInv, Pieces, Positions, UnreadIntact, bufsz
  <2> QED BY <2>1, ArriveKeepsInv, LoopKeepsInv DEF Next, Stop
<1>3. DecoderInv => UnreadIntact
  BY DEF DecoderInv
<1> QED BY <1>1, <1>2, <1>3, PTL DEF Spec

-----------------------------------------------------------------------------
(* What ChunkedBody says of a body, unit by unit. *)

\* The least of a set of numbers, if one knows it.
LEMMA MinIs ==
    ASSUME NEW S, S \subseteq Int, NEW m \in S, \A k \in S : m <= k
    PROVE  Min(S) = m
<1>1. m \in S /\ \A k \in S : m <= k
    OBVIOUS
<1>2. Min(S) \in S /\ \A k \in S : Min(S) <= k
    BY <1>1, Zenon DEF Min
<1>3. m \in Int /\ Min(S) \in Int /\ m <= Min(S) /\ Min(S) <= m
    BY <1>1, <1>2
<1> QED
    BY <1>3

\* From i on, no unit of s before m is in `units', and the one at m is.
IsFirst(s, i, units, m) ==
    /\ m \in 1 .. Len(s) + 1
    /\ \A j \in i .. m - 1 : s[j] \notin units
    /\ m <= Len(s) => i <= m /\ s[m] \in units

\* The same for a unit that is not one of them.
IsFirstOther(s, i, units, m) ==
    /\ m \in 1 .. Len(s) + 1
    /\ \A j \in i .. m - 1 : s[j] \in units
    /\ m <= Len(s) => i <= m /\ s[m] \notin units

LEMMA FirstIs ==
    ASSUME NEW s \in Seq(Unit), NEW i \in Nat \ {0}, NEW units, NEW m, IsFirst(s, i, units, m)
    PROVE  First(s, i, units) = m
<1> DEFINE S == {j \in i .. Len(s) : s[j] \in units} \cup {Len(s) + 1}
<1>1. Len(s) \in Nat /\ m \in 1 .. Len(s) + 1
    BY DEF IsFirst
<1>2. S \subseteq Int
    BY <1>1
<1>3. m \in S
    BY <1>1 DEF IsFirst
<1>4. \A k \in S : m <= k
    BY <1>1 DEF IsFirst
<1> HIDE DEF S
<1>5. Min(S) = m
    BY <1>2, <1>3, <1>4, MinIs
<1> QED
    BY <1>5 DEF First, S

LEMMA FirstOtherIs ==
    ASSUME NEW s \in Seq(Unit), NEW i \in Nat \ {0}, NEW units, NEW m, IsFirstOther(s, i, units, m)
    PROVE  FirstOther(s, i, units) = m
<1> DEFINE S == {j \in i .. Len(s) : s[j] \notin units} \cup {Len(s) + 1}
<1>1. Len(s) \in Nat /\ m \in 1 .. Len(s) + 1
    BY DEF IsFirstOther
<1>2. S \subseteq Int
    BY <1>1
<1>3. m \in S
    BY <1>1 DEF IsFirstOther
<1>4. \A k \in S : m <= k
    BY <1>1 DEF IsFirstOther
<1> HIDE DEF S
<1>5. Min(S) = m
    BY <1>2, <1>3, <1>4, MinIs
<1> QED
    BY <1>5 DEF FirstOther, S

\* There is always such a place, if only the end.
LEMMA SomeFirst ==
    ASSUME NEW s \in Seq(Unit), NEW i \in Nat \ {0}, NEW units
    PROVE  IsFirst(s, i, units, First(s, i, units))
<1> DEFINE S == {j \in i .. Len(s) : s[j] \in units} \cup {Len(s) + 1}
<1>1. Len(s) \in Nat
    OBVIOUS
<1>2. S \subseteq Nat /\ Len(s) + 1 \in S
    BY <1>1
<1>3. PICK m \in S : \A k \in S : m <= k
  <2> HIDE DEF S
  <2> QED
      BY <1>2, LeastElement
<1>4. m \in 1 .. Len(s) + 1
    BY <1>1, <1>3
<1>5. ASSUME NEW j \in i .. m - 1 PROVE s[j] \notin units
    BY <1>1, <1>3, <1>4, <1>5
<1>6. m <= Len(s) => i <= m /\ s[m] \in units
    BY <1>1, <1>3
<1>7. IsFirst(s, i, units, m)
    BY <1>4, <1>5, <1>6 DEF IsFirst
<1> QED
    BY <1>7, FirstIs

LEMMA SomeFirstOther ==
    ASSUME NEW s \in Seq(Unit), NEW i \in Nat \ {0}, NEW units
    PROVE  IsFirstOther(s, i, units, FirstOther(s, i, units))
<1> DEFINE S == {j \in i .. Len(s) : s[j] \notin units} \cup {Len(s) + 1}
<1>1. Len(s) \in Nat
    OBVIOUS
<1>2. S \subseteq Nat /\ Len(s) + 1 \in S
    BY <1>1
<1>3. PICK m \in S : \A k \in S : m <= k
  <2> HIDE DEF S
  <2> QED
      BY <1>2, LeastElement
<1>4. m \in 1 .. Len(s) + 1
    BY <1>1, <1>3
<1>5. ASSUME NEW j \in i .. m - 1 PROVE s[j] \in units
    BY <1>1, <1>3, <1>4, <1>5
<1>6. m <= Len(s) => i <= m /\ s[m] \notin units
    BY <1>1, <1>3
<1>7. IsFirstOther(s, i, units, m)
    BY <1>4, <1>5, <1>6 DEF IsFirstOther
<1> QED
    BY <1>7, FirstOtherIs

-----------------------------------------------------------------------------
(* The number that digits give. *)

OnlyDigits(s, i, j) == \A k \in i .. j : s[k] \in Digits

\* f counts up the digits of s from i to j.
CountsUp(f, s, i, j) ==
    /\ f[i - 1] = 0
    /\ \A k \in i .. j : f[k] = f[k - 1] * 16 + Value[s[k]]

LEMMA NumberCountsUp ==
    ASSUME NEW s \in Seq(Unit), NEW i \in Nat \ {0}, NEW j \in i - 1 .. Len(s), OnlyDigits(s, i, j)
    PROVE  \E f \in [i - 1 .. j -> Nat] : CountsUp(f, s, i, j) /\ Number(s, i, j) = f[j]
<1> DEFINE D == i - 1 .. j
           Is(f) == f = [k \in D |-> IF k < i THEN 0 ELSE f[k - 1] * 16 + Value[s[k]]]
           Stops == {i - 1}
           value == [k \in D |-> 0]
           next == [k \in D |-> IF k < i THEN k ELSE k - 1]
           step == [k \in D |-> [n \in Nat |-> IF k < i THEN n ELSE n * 16 + Value[s[k]]]]
           left == [k \in D |-> k - (i - 1)]
<1>1. Len(s) \in Nat /\ i \in Nat /\ j \in Nat /\ D \subseteq Nat
    OBVIOUS
<1>2. ASSUME NEW k \in D, ~ k < i
      PROVE  k \in i .. j /\ k - 1 \in D /\ Value[s[k]] \in Nat
  <2>1. k \in i .. j /\ k - 1 \in D
      BY <1>1, <1>2
  <2>2. s[k] \in Digits
      BY <2>1 DEF OnlyDigits
  <2> QED
      BY <2>1, <2>2 DEF Value, Digits
<1>3. value \in [D -> Nat] /\ Nat # {}
    OBVIOUS
<1>4. next \in [D -> D]
    BY <1>2
<1>5. step \in [D -> [Nat -> Nat]]
  <2> SUFFICES ASSUME NEW k \in D, NEW n \in Nat
               PROVE  (IF k < i THEN n ELSE n * 16 + Value[s[k]]) \in Nat
      OBVIOUS
  <2> QED
      BY <1>2
<1>6. left \in [D -> Nat]
    BY <1>1
<1>7. ASSUME NEW k \in D, k \notin Stops PROVE left[next[k]] < left[k]
  <2>1. ~ k < i
      BY <1>1, <1>7
  <2>2. next[k] = k - 1 /\ k - 1 \in D
      BY <1>2, <2>1
  <2> QED
      BY <1>1, <2>2
<1>8. PICK f \in [D -> Nat] : Chained(f, D, Stops, value, next, step)
  <2> HIDE DEF D, Stops, value, next, step, left
  <2> QED
      BY <1>3, <1>4, <1>5, <1>6, <1>7, RecursionAlong
<1>9. ASSUME NEW k \in D
      PROVE  f[k] = IF k < i THEN 0 ELSE f[k - 1] * 16 + Value[s[k]]
  <2>1. f[k] = IF k \in Stops THEN value[k] ELSE step[k][f[next[k]]]
      BY <1>8 DEF Chained
  <2>2. CASE k < i
    <3>1. k \in Stops /\ value[k] = 0
        BY <1>1, <2>2
    <3> QED
        BY <2>1, <2>2, <3>1
  <2>3. CASE ~ k < i
    <3>1. k - 1 \in D
        BY <1>2, <2>3
    <3>2. k \notin Stops
        BY <1>1, <2>3
    <3>3. next[k] = k - 1
        BY <2>3
    <3>4. f[k - 1] \in Nat
        BY <1>8, <3>1
    <3>5. step[k][f[k - 1]] = f[k - 1] * 16 + Value[s[k]]
        BY <2>3, <3>4
    <3> QED
        BY <2>1, <2>3, <3>2, <3>3, <3>5
  <2> QED
      BY <2>2, <2>3
<1>10. Is(f)
    BY <1>8, <1>9
<1> DEFINE upto == CHOOSE g : Is(g)
<1>11. Is(upto)
  <2> HIDE DEF Is
  <2> QED
      BY <1>10
<1>12. Number(s, i, j) = upto[j]
    BY DEF Number
<1> HIDE DEF upto
<1>13. \A k \in D : upto[k] = IF k < i THEN 0 ELSE upto[k - 1] * 16 + Value[s[k]]
    BY <1>11
<1>14. CountsUp(upto, s, i, j)
  <2>1. i - 1 \in D /\ i - 1 < i
      BY <1>1
  <2>2. \A k \in i .. j : k \in D /\ ~ k < i
      BY <1>1
  <2> QED
      BY <1>13, <2>1, <2>2 DEF CountsUp
<1>15. upto = [k \in D |-> upto[k]]
    BY <1>11
<1>16. \A k \in D : upto[k] \in Nat
  <2> DEFINE S == {n \in 0 .. j - (i - 1) : upto[n + (i - 1)] \in Nat}
  <2>1. 0 \in S /\ j - (i - 1) \in Nat
      BY <1>1, <1>14 DEF CountsUp
  <2>2. ASSUME NEW n \in 0 .. (j - (i - 1)) - 1, n \in S PROVE n + 1 \in S
    <3>1. /\ (n + 1) + (i - 1) \in i .. j /\ (n + 1) + (i - 1) \in D
          /\ ~ (n + 1) + (i - 1) < i /\ (n + 1) + (i - 1) - 1 = n + (i - 1)
        BY <1>1
    <3>2. upto[(n + 1) + (i - 1)] = upto[n + (i - 1)] * 16 + Value[s[(n + 1) + (i - 1)]]
        BY <1>13, <3>1
    <3>3. Value[s[(n + 1) + (i - 1)]] \in Nat
        BY <1>2, <3>1
    <3>4. upto[n + (i - 1)] \in Nat
        BY <2>2
    <3>5. upto[(n + 1) + (i - 1)] \in Nat
        BY <3>2, <3>3, <3>4
    <3> QED
        BY <1>1, <3>5
  <2> HIDE DEF S
  <2>3. \A n \in 0 .. j - (i - 1) : n \in S
      BY <2>1, <2>2, InductionUpTo
  <2> SUFFICES ASSUME NEW k \in D PROVE upto[k] \in Nat
      OBVIOUS
  <2>4. k - (i - 1) \in 0 .. j - (i - 1) /\ (k - (i - 1)) + (i - 1) = k
      BY <1>1
  <2> QED
      BY <2>3, <2>4 DEF S
<1>17. upto \in [D -> Nat]
    BY <1>15, <1>16
<1> QED
    BY <1>12, <1>14, <1>17

SameDigits(s, t, i, j) == \A k \in i .. j : s[k] = t[k]

\* The same digits count up to the same number.
LEMMA SameNumber ==
    ASSUME NEW s, NEW t, NEW i \in Nat \ {0}, NEW j \in Nat, i - 1 <= j, NEW f, NEW g,
           SameDigits(s, t, i, j), CountsUp(f, s, i, j), CountsUp(g, t, i, j)
    PROVE  f[j] = g[j]
<1> DEFINE S == {n \in 0 .. j - (i - 1) : f[n + (i - 1)] = g[n + (i - 1)]}
<1>1. i \in Nat /\ j \in Nat
    OBVIOUS
<1>2. 0 \in S /\ j - (i - 1) \in Nat
    BY <1>1 DEF CountsUp
<1>3. ASSUME NEW n \in 0 .. (j - (i - 1)) - 1, n \in S PROVE n + 1 \in S
  <2>1. (n + 1) + (i - 1) \in i .. j /\ (n + 1) + (i - 1) - 1 = n + (i - 1)
      BY <1>1
  <2>2. f[n + (i - 1)] = g[n + (i - 1)]
      BY <1>3
  <2>3. f[(n + 1) + (i - 1)] = g[(n + 1) + (i - 1)]
      BY <2>1, <2>2 DEF CountsUp, SameDigits
  <2> QED
      BY <1>1, <2>3
<1> HIDE DEF S
<1>4. \A n \in 0 .. j - (i - 1) : n \in S
    BY <1>2, <1>3, InductionUpTo
<1>5. j - (i - 1) \in 0 .. j - (i - 1) /\ (j - (i - 1)) + (i - 1) = j
    BY <1>1
<1> QED
    BY <1>4, <1>5 DEF S

LEMMA NumberInNat ==
    ASSUME NEW s \in Seq(Unit), NEW i \in Nat \ {0}, NEW j \in i - 1 .. Len(s), OnlyDigits(s, i, j)
    PROVE  Number(s, i, j) \in Nat
<1>1. PICK f \in [i - 1 .. j -> Nat] : CountsUp(f, s, i, j) /\ Number(s, i, j) = f[j]
    BY NumberCountsUp
<1>2. j \in i - 1 .. j
    OBVIOUS
<1> QED
    BY <1>1, <1>2

LEMMA NumberOfNone ==
    ASSUME NEW s \in Seq(Unit), NEW i \in 1 .. Len(s) + 1
    PROVE  Number(s, i, i - 1) = 0
<1>1. i \in Nat \ {0} /\ i - 1 \in i - 1 .. Len(s)
    OBVIOUS
<1>2. OnlyDigits(s, i, i - 1)
    BY DEF OnlyDigits
<1>3. PICK f \in [i - 1 .. i - 1 -> Nat] : CountsUp(f, s, i, i - 1) /\ Number(s, i, i - 1) = f[i - 1]
    BY <1>1, <1>2, NumberCountsUp
<1> QED
    BY <1>3 DEF CountsUp

LEMMA NumberOfMore ==
    ASSUME NEW s \in Seq(Unit), NEW i \in Nat \ {0}, NEW j \in i - 1 .. Len(s) - 1,
           OnlyDigits(s, i, j + 1)
    PROVE  Number(s, i, j + 1) = Number(s, i, j) * 16 + Value[s[j + 1]]
<1>1. /\ j \in Nat /\ i - 1 <= j /\ j \in i - 1 .. Len(s) /\ j + 1 \in i - 1 .. Len(s)
      /\ j + 1 \in i .. j + 1 /\ (j + 1) - 1 = j /\ \A k \in i .. j : k \in i .. j + 1
    OBVIOUS
<1>2. OnlyDigits(s, i, j)
    BY <1>1 DEF OnlyDigits
<1>3. PICK f \in [i - 1 .. j + 1 -> Nat] : CountsUp(f, s, i, j + 1) /\ Number(s, i, j + 1) = f[j + 1]
    BY <1>1, NumberCountsUp
<1>4. PICK g \in [i - 1 .. j -> Nat] : CountsUp(g, s, i, j) /\ Number(s, i, j) = g[j]
    BY <1>1, <1>2, NumberCountsUp
<1>5. CountsUp(f, s, i, j)
    BY <1>1, <1>3 DEF CountsUp
<1>6. f[j] = g[j]
  <2>1. SameDigits(s, s, i, j)
      BY DEF SameDigits
  <2> QED
      BY <1>1, <1>4, <1>5, <2>1, SameNumber
<1>7. f[j + 1] = f[j] * 16 + Value[s[j + 1]]
    BY <1>1, <1>3 DEF CountsUp
<1> QED
    BY <1>3, <1>4, <1>6, <1>7

\* s and t begin with the same n units.
Agree(s, t, n) == n <= Len(s) /\ n <= Len(t) /\ \A j \in 1 .. n : s[j] = t[j]

LEMMA NumberAgrees ==
    ASSUME NEW s \in Seq(Unit), NEW t \in Seq(Unit), NEW i \in Nat \ {0}, NEW j \in Nat, i - 1 <= j,
           Agree(s, t, j), OnlyDigits(s, i, j)
    PROVE  OnlyDigits(t, i, j) /\ Number(t, i, j) = Number(s, i, j)
<1>1. /\ j \in i - 1 .. Len(s) /\ j \in i - 1 .. Len(t)
      /\ SameDigits(s, t, i, j)
    BY DEF Agree, SameDigits
<1>2. OnlyDigits(t, i, j)
    BY <1>1 DEF OnlyDigits, SameDigits
<1>3. PICK f \in [i - 1 .. j -> Nat] : CountsUp(f, s, i, j) /\ Number(s, i, j) = f[j]
    BY <1>1, NumberCountsUp
<1>4. PICK g \in [i - 1 .. j -> Nat] : CountsUp(g, t, i, j) /\ Number(t, i, j) = g[j]
    BY <1>1, <1>2, NumberCountsUp
<1>5. f[j] = g[j]
    BY <1>1, <1>3, <1>4, SameNumber
<1> QED
    BY <1>2, <1>3, <1>4, <1>5

-----------------------------------------------------------------------------
(* The chunks of a body.  The parts of the chunk at i: *)

NondigitOf(s, i) == FirstOther(s, i, Digits)

LineOf(s, i) == First(s, NondigitOf(s, i), {"LF"})

SizeOf(s, i) == Number(s, i, NondigitOf(s, i) - 1)

EndOf(s, i) == FirstOther(s, LineOf(s, i) + 1 + SizeOf(s, i), {"CR"})

DataOf(s, i) == SubSeq(s, LineOf(s, i) + 1, Min({LineOf(s, i) + SizeOf(s, i), Len(s)}))

\* Another chunk comes after it.
GoesOn(s, i) ==
    /\ ~ NondigitOf(s, i) - i > HexDigits
    /\ ~ NondigitOf(s, i) > Len(s)
    /\ NondigitOf(s, i) # i
    /\ ~ LineOf(s, i) > Len(s)
    /\ SizeOf(s, i) # 0
    /\ ~ EndOf(s, i) > Len(s)
    /\ s[EndOf(s, i)] = "LF"

\* What becomes of a body whose last chunk is the one at i.
StopsWith(s, trailer, i) ==
    IF NondigitOf(s, i) - i > HexDigits THEN Outcome("error", <<>>, i)
    ELSE IF NondigitOf(s, i) > Len(s) THEN Outcome("incomplete", <<>>, i)
    ELSE IF NondigitOf(s, i) = i THEN Outcome("error", <<>>, i)
    ELSE IF LineOf(s, i) > Len(s) THEN Outcome("incomplete", <<>>, i)
    ELSE IF SizeOf(s, i) = 0 THEN LastChunk(s, LineOf(s, i), trailer)
    ELSE IF EndOf(s, i) > Len(s) THEN Outcome("incomplete", DataOf(s, i), i)
    ELSE Outcome("error", DataOf(s, i), i)

Behind(data, outcome) == [outcome EXCEPT !.data = data \o @]

Outcomes == [verdict : {"incomplete", "error", "complete"}, data : Seq(Unit), end : Int]

IsChunks(f, s, trailer) ==
    \A i \in 1 .. Len(s) + 1 :
        f[i] = IF GoesOn(s, i) THEN Behind(DataOf(s, i), f[EndOf(s, i) + 1])
               ELSE StopsWith(s, trailer, i)

Chunks(s, trailer) ==
    CHOOSE f \in [1 .. Len(s) + 1 -> Outcomes] : IsChunks(f, s, trailer) /\ Decoded(s, trailer) = f[1]

LEMMA OutcomeIs ==
    ASSUME NEW verdict \in {"incomplete", "error", "complete"}, NEW data \in Seq(Unit), NEW end \in Int
    PROVE  Outcome(verdict, data, end) \in Outcomes
    BY DEF Outcome, Outcomes

LEMMA BehindIs ==
    ASSUME NEW data \in Seq(Unit), NEW o \in Outcomes
    PROVE  /\ Behind(data, o) \in Outcomes
           /\ Behind(data, o).verdict = o.verdict
           /\ Behind(data, o).data = data \o o.data
           /\ Behind(data, o).end = o.end
<1> DEFINE joined == data \o o.data
<1>1. /\ o = [o EXCEPT !.data = o.data] /\ DOMAIN o = {"verdict", "data", "end"}
      /\ o.verdict \in {"incomplete", "error", "complete"} /\ o.data \in Seq(Unit) /\ o.end \in Int
    BY DEF Outcomes
<1>2. Behind(data, o) = [o EXCEPT !.data = joined]
    BY DEF Behind
<1>3. joined \in Seq(Unit)
    BY <1>1, ConcatProperties
<1> HIDE DEF joined
<1>4. Behind(data, o) \in Outcomes
    BY <1>2, <1>3 DEF Outcomes
<1>5. /\ Behind(data, o).verdict = o.verdict /\ Behind(data, o).data = joined
      /\ Behind(data, o).end = o.end
    BY <1>1, <1>2
<1> QED
    BY <1>4, <1>5 DEF joined

\* The parts of a chunk lie one behind the other.
LEMMA PartsOf ==
    ASSUME NEW s \in Seq(Unit), NEW i \in 1 .. Len(s) + 1
    PROVE  /\ NondigitOf(s, i) \in i .. Len(s) + 1
           /\ OnlyDigits(s, i, NondigitOf(s, i) - 1)
           /\ LineOf(s, i) \in NondigitOf(s, i) .. Len(s) + 1
           /\ SizeOf(s, i) \in Nat
           /\ EndOf(s, i) \in 1 .. Len(s) + 1
           /\ EndOf(s, i) <= Len(s) => LineOf(s, i) + 1 + SizeOf(s, i) <= EndOf(s, i)
<1>1. Len(s) \in Nat /\ i \in Nat \ {0}
    OBVIOUS
<1>2. IsFirstOther(s, i, Digits, NondigitOf(s, i))
    BY <1>1, SomeFirstOther DEF NondigitOf
<1>3. NondigitOf(s, i) \in i .. Len(s) + 1 /\ OnlyDigits(s, i, NondigitOf(s, i) - 1)
    BY <1>1, <1>2 DEF IsFirstOther, OnlyDigits
<1>4. NondigitOf(s, i) \in Nat \ {0}
    BY <1>1, <1>3
<1>5. IsFirst(s, NondigitOf(s, i), {"LF"}, LineOf(s, i))
    BY <1>4, SomeFirst DEF LineOf
<1>6. LineOf(s, i) \in NondigitOf(s, i) .. Len(s) + 1
    BY <1>1, <1>3, <1>5 DEF IsFirst
<1>7. NondigitOf(s, i) - 1 \in i - 1 .. Len(s)
    BY <1>1, <1>3
<1>8. SizeOf(s, i) \in Nat
    BY <1>1, <1>3, <1>7, NumberInNat DEF SizeOf
<1>9. LineOf(s, i) + 1 + SizeOf(s, i) \in Nat \ {0}
    BY <1>4, <1>6, <1>8
<1>10. IsFirstOther(s, LineOf(s, i) + 1 + SizeOf(s, i), {"CR"}, EndOf(s, i))
    BY <1>9, SomeFirstOther DEF EndOf
<1> QED
    BY <1>3, <1>6, <1>8, <1>10 DEF IsFirstOther

LEMMA LesserIs ==
    ASSUME NEW a \in Int, NEW b \in Int
    PROVE  Min({a, b}) = IF a <= b THEN a ELSE b
<1> DEFINE m == IF a <= b THEN a ELSE b
<1>1. {a, b} \subseteq Int /\ m \in {a, b} /\ \A k \in {a, b} : m <= k
    OBVIOUS
<1> HIDE DEF m
<1>2. Min({a, b}) = m
    BY <1>1, MinIs
<1> QED
    BY <1>2 DEF m

\* The data is what of it there is.
LEMMA DataIs ==
    ASSUME NEW s \in Seq(Unit), NEW i \in 1 .. Len(s) + 1, LineOf(s, i) <= Len(s)
    PROVE  DataOf(s, i) \in Seq(Unit)
<1> DEFINE l == LineOf(s, i)
           z == SizeOf(s, i)
           n == IF l + z <= Len(s) THEN l + z ELSE Len(s)
<1>1. /\ Len(s) \in Nat /\ NondigitOf(s, i) \in i .. Len(s) + 1
      /\ l \in NondigitOf(s, i) .. Len(s) + 1 /\ z \in Nat /\ l <= Len(s)
    BY PartsOf
<1> HIDE DEF l, z
<1>2. Min({l + z, Len(s)}) = n
  <2>1. l + z \in Int /\ Len(s) \in Int
      BY <1>1
  <2> QED
      BY <2>1, LesserIs
<1>3. l + 1 \in 1 .. Len(s) + 1 /\ n \in (l + 1) - 1 .. Len(s)
    BY <1>1
<1> HIDE DEF n
<1>4. SubSeq(s, l + 1, n) \in Seq(Unit)
    BY <1>3, SubSeqIs
<1> QED
    BY <1>2, <1>4 DEF DataOf, l, z

BlankAt(s, i, j) ==
    /\ s[j] = "LF"
    /\ \E b \in i .. j : /\ b = i \/ s[b - 1] = "LF"
                         /\ \A k \in b .. j - 1 : s[k] = "CR"

\* m is the end of the first blank line from i on, or there is none.
IsBlankLine(s, i, m) ==
    /\ m \in 1 .. Len(s) + 1
    /\ \A j \in i .. m - 1 : ~ BlankAt(s, i, j)
    /\ m <= Len(s) => i <= m /\ BlankAt(s, i, m)

LEMMA BlankLineIs ==
    ASSUME NEW s \in Seq(Unit), NEW i \in Nat \ {0}, NEW m, IsBlankLine(s, i, m)
    PROVE  BlankLine(s, i) = m
<1> DEFINE S == {j \in i .. Len(s) : BlankAt(s, i, j)} \cup {Len(s) + 1}
<1>1. Len(s) \in Nat /\ m \in 1 .. Len(s) + 1
    BY DEF IsBlankLine
<1>2. S \subseteq Int
    BY <1>1
<1>3. m \in S
    BY <1>1 DEF IsBlankLine
<1>4. \A k \in S : m <= k
    BY <1>1 DEF IsBlankLine
<1>5. BlankLine(s, i) = Min(S)
    BY DEF BlankLine, BlankAt
<1> HIDE DEF S
<1>6. Min(S) = m
    BY <1>2, <1>3, <1>4, MinIs
<1> QED
    BY <1>5, <1>6

LEMMA BlankLineInInt ==
    ASSUME NEW s \in Seq(Unit), NEW i \in Nat \ {0}
    PROVE  BlankLine(s, i) \in Int
<1> DEFINE S == {j \in i .. Len(s) : BlankAt(s, i, j)} \cup {Len(s) + 1}
<1>1. Len(s) \in Nat
    OBVIOUS
<1>2. S \subseteq Nat /\ Len(s) + 1 \in S
    BY <1>1
<1>3. BlankLine(s, i) = Min(S)
    BY DEF BlankLine, BlankAt
<1>4. PICK m \in S : \A k \in S : m <= k
  <2> HIDE DEF S
  <2> QED
      BY <1>2, LeastElement
<1>5. S \subseteq Int
    BY <1>2
<1> HIDE DEF S
<1>6. Min(S) = m
    BY <1>4, <1>5, MinIs
<1> QED
    BY <1>3, <1>4, <1>5, <1>6

LEMMA StopsIn ==
    ASSUME NEW s \in Seq(Unit), NEW trailer \in BOOLEAN, NEW i \in 1 .. Len(s) + 1
    PROVE  StopsWith(s, trailer, i) \in Outcomes
<1>1. i \in Int /\ <<>> \in Seq(Unit)
    OBVIOUS
<1>2. Outcome("error", <<>>, i) \in Outcomes /\ Outcome("incomplete", <<>>, i) \in Outcomes
    BY <1>1, OutcomeIs
<1>3. ASSUME LineOf(s, i) <= Len(s)
      PROVE  /\ Outcome("error", DataOf(s, i), i) \in Outcomes
             /\ Outcome("incomplete", DataOf(s, i), i) \in Outcomes
  <2>1. DataOf(s, i) \in Seq(Unit)
      BY <1>3, DataIs
  <2> QED
      BY <1>1, <2>1, OutcomeIs
<1>4. LastChunk(s, LineOf(s, i), trailer) \in Outcomes
  <2> DEFINE end == IF trailer THEN BlankLine(s, LineOf(s, i) + 1) ELSE LineOf(s, i)
             verdict == IF end <= Len(s) THEN "complete" ELSE "incomplete"
  <2>1. LineOf(s, i) \in Nat /\ LineOf(s, i) + 1 \in Nat \ {0}
    <3>1. /\ Len(s) \in Nat /\ NondigitOf(s, i) \in i .. Len(s) + 1
          /\ LineOf(s, i) \in NondigitOf(s, i) .. Len(s) + 1
        BY PartsOf
    <3> QED
        BY <3>1
  <2>2. end \in Int
      BY <2>1, BlankLineInInt
  <2>3. verdict \in {"incomplete", "error", "complete"}
      OBVIOUS
  <2>4. LastChunk(s, LineOf(s, i), trailer) = Outcome(verdict, <<>>, end)
      BY DEF LastChunk
  <2> HIDE DEF end, verdict
  <2> QED
      BY <1>1, <2>2, <2>3, <2>4, OutcomeIs
<1>5. LineOf(s, i) \in Int /\ Len(s) \in Int
    BY PartsOf
<1> QED
    BY <1>2, <1>3, <1>4, <1>5 DEF StopsWith

\* A body is decoded chunk after chunk.
LEMMA ChunksExist ==
    ASSUME NEW s \in Seq(Unit), NEW trailer \in BOOLEAN
    PROVE  /\ Chunks(s, trailer) \in [1 .. Len(s) + 1 -> Outcomes]
           /\ IsChunks(Chunks(s, trailer), s, trailer)
           /\ Decoded(s, trailer) = Chunks(s, trailer)[1]
<1> DEFINE D == 1 .. Len(s) + 1
           R == Outcomes
           Body(f, i) ==
               IF NondigitOf(s, i) - i > HexDigits THEN Outcome("error", <<>>, i)
               ELSE IF NondigitOf(s, i) > Len(s) THEN Outcome("incomplete", <<>>, i)
               ELSE IF NondigitOf(s, i) = i THEN Outcome("error", <<>>, i)
               ELSE IF LineOf(s, i) > Len(s) THEN Outcome("incomplete", <<>>, i)
               ELSE IF SizeOf(s, i) = 0 THEN LastChunk(s, LineOf(s, i), trailer)
               ELSE IF EndOf(s, i) > Len(s) THEN Outcome("incomplete", DataOf(s, i), i)
               ELSE IF s[EndOf(s, i)] # "LF" THEN Outcome("error", DataOf(s, i), i)
               ELSE Behind(DataOf(s, i), f[EndOf(s, i) + 1])
           Is(f) == f = [i \in D |-> Body(f, i)]
           Stops == {i \in D : ~ GoesOn(s, i)}
           value == [i \in D |-> StopsWith(s, trailer, i)]
           next == [i \in D |-> IF GoesOn(s, i) THEN EndOf(s, i) + 1 ELSE i]
           step == [i \in D |-> [o \in R |-> IF GoesOn(s, i) THEN Behind(DataOf(s, i), o) ELSE o]]
           left == [i \in D |-> Len(s) + 1 - i]
<1>1. Decoded(s, trailer) = (CHOOSE f : Is(f))[1]
    BY DEF Decoded, NondigitOf, LineOf, SizeOf, EndOf, DataOf, Behind
<1>2. \A f : \A i \in D :
          Body(f, i) = IF GoesOn(s, i) THEN Behind(DataOf(s, i), f[EndOf(s, i) + 1])
                       ELSE StopsWith(s, trailer, i)
    BY Zenon DEF GoesOn, StopsWith
<1>3. Len(s) \in Nat
    OBVIOUS
<1>4. ASSUME NEW i \in D, GoesOn(s, i)
      PROVE  /\ EndOf(s, i) + 1 \in D /\ i < EndOf(s, i) + 1
             /\ DataOf(s, i) \in Seq(Unit)
  <2>1. /\ NondigitOf(s, i) \in i .. Len(s) + 1
        /\ LineOf(s, i) \in NondigitOf(s, i) .. Len(s) + 1
        /\ SizeOf(s, i) \in Nat
        /\ EndOf(s, i) \in 1 .. Len(s) + 1
        /\ EndOf(s, i) <= Len(s) => LineOf(s, i) + 1 + SizeOf(s, i) <= EndOf(s, i)
      BY PartsOf
  <2>2. EndOf(s, i) <= Len(s) /\ LineOf(s, i) <= Len(s)
      BY <1>3, <1>4, <2>1 DEF GoesOn
  <2>3. DataOf(s, i) \in Seq(Unit)
      BY <2>2, DataIs
  <2> QED
      BY <1>3, <2>1, <2>2, <2>3
<1>5. value \in [D -> R]
    BY StopsIn
<1>6. next \in [D -> D]
    BY <1>4
<1>7. step \in [D -> [R -> R]]
  <2> SUFFICES ASSUME NEW i \in D, NEW o \in R
               PROVE  (IF GoesOn(s, i) THEN Behind(DataOf(s, i), o) ELSE o) \in R
      OBVIOUS
  <2> QED
      BY <1>4, BehindIs
<1>8. left \in [D -> Nat]
    BY <1>3
<1>9. ASSUME NEW i \in D, i \notin Stops PROVE left[next[i]] < left[i]
  <2>1. GoesOn(s, i)
      BY <1>9
  <2>2. next[i] = EndOf(s, i) + 1 /\ EndOf(s, i) + 1 \in D /\ i < EndOf(s, i) + 1
      BY <1>4, <2>1
  <2>3. left[EndOf(s, i) + 1] = Len(s) + 1 - (EndOf(s, i) + 1) /\ left[i] = Len(s) + 1 - i
      BY <2>2
  <2> HIDE DEF next, left
  <2> QED
      BY <1>3, <2>2, <2>3
<1>10. R # {}
  <2>1. 1 \in D
      BY <1>3
  <2> QED
      BY <1>5, <2>1
<1>11. PICK f \in [D -> R] : Chained(f, D, Stops, value, next, step)
  <2> HIDE DEF D, R, Stops, value, next, step, left
  <2> QED
      BY <1>5, <1>6, <1>7, <1>8, <1>9, <1>10, RecursionAlong
<1>12. ASSUME NEW i \in D
       PROVE  f[i] = IF GoesOn(s, i) THEN Behind(DataOf(s, i), f[EndOf(s, i) + 1])
                     ELSE StopsWith(s, trailer, i)
  <2>1. f[i] = IF i \in Stops THEN value[i] ELSE step[i][f[next[i]]]
      BY <1>11 DEF Chained
  <2>2. CASE GoesOn(s, i)
    <3>1. i \notin Stops /\ next[i] = EndOf(s, i) + 1 /\ f[EndOf(s, i) + 1] \in R
      <4> HIDE DEF R
      <4> QED
          BY <1>4, <1>11, <2>2
    <3>2. step[i][f[EndOf(s, i) + 1]] = Behind(DataOf(s, i), f[EndOf(s, i) + 1])
      <4> HIDE DEF R
      <4> QED
          BY <2>2, <3>1
    <3> QED
        BY <2>1, <2>2, <3>1, <3>2
  <2>3. CASE ~ GoesOn(s, i)
      BY <2>1, <2>3
  <2> QED
      BY <2>2, <2>3
<1>13. Is(f)
  <2>1. \A i \in D : f[i] = Body(f, i)
    <3> HIDE DEF Body
    <3> QED
        BY <1>2, <1>12
  <2> HIDE DEF Body
  <2> QED
      BY <1>11, <2>1
<1> DEFINE g == CHOOSE h : Is(h)
<1>14. Is(g)
  <2> HIDE DEF Is
  <2> QED
      BY <1>13
<1>15. Decoded(s, trailer) = g[1]
    BY <1>1
<1> HIDE DEF g
<1>16. IsChunks(g, s, trailer)
  <2>1. \A i \in D : g[i] = Body(g, i)
    <3> HIDE DEF Body
    <3> QED
        BY <1>14
  <2> HIDE DEF Body
  <2> QED
      BY <1>2, <2>1 DEF IsChunks
<1>17. g \in [D -> R]
  <2> DEFINE S == {i \in D : g[i] \in R}
  <2>1. ASSUME NEW i \in D, \A j \in i + 1 .. Len(s) + 1 : j \in S PROVE i \in S
    <3>1. g[i] = IF GoesOn(s, i) THEN Behind(DataOf(s, i), g[EndOf(s, i) + 1])
                 ELSE StopsWith(s, trailer, i)
        BY <1>16 DEF IsChunks
    <3>2. CASE GoesOn(s, i)
      <4>1. EndOf(s, i) + 1 \in i + 1 .. Len(s) + 1 /\ DataOf(s, i) \in Seq(Unit)
          BY <1>3, <1>4, <3>2
      <4>2. g[EndOf(s, i) + 1] \in R
          BY <2>1, <4>1
      <4> HIDE DEF R
      <4>3. Behind(DataOf(s, i), g[EndOf(s, i) + 1]) \in R
          BY <4>1, <4>2, BehindIs DEF R
      <4> QED
          BY <3>1, <3>2, <4>3
    <3>3. CASE ~ GoesOn(s, i)
        BY <3>1, <3>3, StopsIn
    <3> QED
        BY <3>2, <3>3
  <2> HIDE DEF S
  <2>2. FromAbove(S, Len(s) + 1)
      BY <2>1 DEF FromAbove
  <2>3. \A i \in D : i \in S
      BY <1>3, <2>2, InductionFromAbove
  <2>4. g = [i \in D |-> g[i]]
    <3> HIDE DEF Body
    <3> QED
        BY <1>14
  <2>5. \A i \in D : g[i] \in R
      BY <2>3 DEF S
  <2> HIDE DEF R
  <2> QED
      BY <2>4, <2>5
<1> HIDE DEF R
<1> QED
    BY <1>15, <1>16, <1>17 DEF Chunks, R

\* The line of the chunk at i: digits up to n, a line feed at l.
HeadOf(s, i, n, l) ==
    /\ i \in Nat \ {0} /\ n \in Nat /\ l \in Nat
    /\ i < n /\ n - i <= HexDigits /\ n <= l /\ l <= Len(s)
    /\ OnlyDigits(s, i, n - 1)
    /\ s[n] \notin Digits
    /\ \A j \in n .. l - 1 : s[j] # "LF"
    /\ s[l] = "LF"

LEMMA HeadIs ==
    ASSUME NEW s \in Seq(Unit), NEW i, NEW n, NEW l, HeadOf(s, i, n, l)
    PROVE  /\ NondigitOf(s, i) = n
           /\ LineOf(s, i) = l
           /\ SizeOf(s, i) = Number(s, i, n - 1)
           /\ Number(s, i, n - 1) \in Nat
<1>1. /\ Len(s) \in Nat /\ i \in Nat \ {0} /\ n \in Nat \ {0} /\ l \in Nat
      /\ i < n /\ n <= l /\ l <= Len(s)
    BY DEF HeadOf
<1>2. IsFirstOther(s, i, Digits, n)
  <2>1. n \in 1 .. Len(s) + 1 /\ i <= n /\ s[n] \notin Digits
      BY <1>1 DEF HeadOf
  <2>2. \A j \in i .. n - 1 : s[j] \in Digits
      BY DEF HeadOf, OnlyDigits
  <2> QED
      BY <2>1, <2>2 DEF IsFirstOther
<1>3. NondigitOf(s, i) = n
    BY <1>1, <1>2, FirstOtherIs DEF NondigitOf
<1>4. IsFirst(s, n, {"LF"}, l)
  <2>1. l \in 1 .. Len(s) + 1 /\ s[l] \in {"LF"}
      BY <1>1 DEF HeadOf
  <2>2. \A j \in n .. l - 1 : s[j] \notin {"LF"}
      BY DEF HeadOf
  <2> QED
      BY <1>1, <2>1, <2>2 DEF IsFirst
<1>5. LineOf(s, i) = l
    BY <1>1, <1>3, <1>4, FirstIs DEF LineOf
<1>6. i \in 1 .. Len(s) + 1
    BY <1>1
<1> QED
    BY <1>3, <1>5, <1>6, PartsOf DEF SizeOf

LEMMA HeadAgrees ==
    ASSUME NEW s \in Seq(Unit), NEW t \in Seq(Unit), NEW i, NEW n, NEW l, HeadOf(s, i, n, l),
           Agree(s, t, l)
    PROVE  HeadOf(t, i, n, l) /\ Number(t, i, n - 1) = Number(s, i, n - 1)
<1>1. /\ Len(s) \in Nat /\ Len(t) \in Nat /\ i \in Nat \ {0} /\ n \in Nat \ {0} /\ l \in Nat
      /\ i < n /\ n <= l /\ l <= Len(s) /\ l <= Len(t)
    BY DEF HeadOf, Agree
<1>2. \A j \in 1 .. l : s[j] = t[j]
    BY DEF Agree
<1>3. n - 1 \in Nat /\ i - 1 <= n - 1 /\ Agree(s, t, n - 1)
    BY <1>1, <1>2 DEF Agree
<1>4. OnlyDigits(s, i, n - 1)
    BY DEF HeadOf
<1>5. OnlyDigits(t, i, n - 1) /\ Number(t, i, n - 1) = Number(s, i, n - 1)
    BY <1>1, <1>3, <1>4, NumberAgrees
<1>6. t[n] = s[n] /\ t[l] = s[l] /\ \A j \in n .. l - 1 : t[j] = s[j]
    BY <1>1, <1>2
<1> QED
    BY <1>1, <1>5, <1>6 DEF HeadOf

\* How the data of the chunk ends at e, behind nothing but carriage returns.
OnlyReturns(s, i, j) == \A k \in i .. j : s[k] = "CR"

LEMMA EndIs ==
    ASSUME NEW s \in Seq(Unit), NEW i, NEW n, NEW l, HeadOf(s, i, n, l),
           NEW e \in 1 .. Len(s) + 1, OnlyReturns(s, l + 1 + Number(s, i, n - 1), e - 1),
           e <= Len(s) => l + 1 + Number(s, i, n - 1) <= e /\ s[e] # "CR"
    PROVE  EndOf(s, i) = e
<1>1. /\ LineOf(s, i) = l /\ SizeOf(s, i) = Number(s, i, n - 1) /\ Number(s, i, n - 1) \in Nat
      /\ l \in Nat
    BY HeadIs DEF HeadOf
<1> DEFINE b == l + 1 + Number(s, i, n - 1)
<1>2. b \in Nat \ {0}
    BY <1>1
<1>3. EndOf(s, i) = FirstOther(s, b, {"CR"})
    BY <1>1 DEF EndOf
<1>4. \A j \in b .. e - 1 : s[j] \in {"CR"}
    BY DEF OnlyReturns
<1>5. e <= Len(s) => b <= e /\ s[e] \notin {"CR"}
    OBVIOUS
<1> HIDE DEF b
<1>6. IsFirstOther(s, b, {"CR"}, e)
    BY <1>4, <1>5 DEF IsFirstOther
<1> QED
    BY <1>2, <1>3, <1>6, FirstOtherIs

\* All the data of a chunk, if it is there.
LEMMA AllDataIs ==
    ASSUME NEW s \in Seq(Unit), NEW i, NEW n, NEW l, HeadOf(s, i, n, l)
    PROVE  DataOf(s, i) = SubSeq(s, l + 1, IF l + Number(s, i, n - 1) <= Len(s)
                                            THEN l + Number(s, i, n - 1) ELSE Len(s))
<1>1. /\ LineOf(s, i) = l /\ SizeOf(s, i) = Number(s, i, n - 1) /\ Number(s, i, n - 1) \in Nat
      /\ l \in Nat
    BY HeadIs DEF HeadOf
<1>2. l + Number(s, i, n - 1) \in Int /\ Len(s) \in Int
    BY <1>1
<1> QED
    BY <1>1, <1>2, LesserIs DEF DataOf

\* However s goes on, what it decodes to is `data' and what the chunks from i on decode to.
Reaches(s, trailer, i, data) ==
    /\ i \in 1 .. Len(s) + 1
    /\ data \in Seq(Unit)
    /\ \A t \in Seq(Unit) :
          Agree(s, t, i - 1) => Decoded(t, trailer) = Behind(data, Chunks(t, trailer)[i])

LEMMA ReachesFirst ==
    ASSUME NEW s \in Seq(Unit), NEW trailer \in BOOLEAN
    PROVE  Reaches(s, trailer, 1, <<>>)
<1>1. 1 \in 1 .. Len(s) + 1 /\ <<>> \in Seq(Unit)
    OBVIOUS
<1>2. ASSUME NEW t \in Seq(Unit)
      PROVE  Decoded(t, trailer) = Behind(<<>>, Chunks(t, trailer)[1])
  <2> DEFINE o == Chunks(t, trailer)[1]
  <2>1. Decoded(t, trailer) = o /\ o \in Outcomes
    <3>1. 1 \in 1 .. Len(t) + 1
        OBVIOUS
    <3> QED
        BY <3>1, ChunksExist
  <2> HIDE DEF o
  <2>2. o.data \in Seq(Unit) /\ o = [o EXCEPT !.data = o.data]
      BY <2>1 DEF Outcomes
  <2>3. <<>> \o o.data = o.data
      BY <2>2
  <2>4. Behind(<<>>, o) = [o EXCEPT !.data = <<>> \o o.data]
      BY DEF Behind
  <2>5. Decoded(t, trailer) = Behind(<<>>, o)
      BY <2>1, <2>2, <2>3, <2>4
  <2> QED
      BY <2>5 DEF o
<1> QED
    BY <1>1, <1>2 DEF Reaches

LEMMA ReachesMore ==
    ASSUME NEW s \in Seq(Unit), NEW t \in Seq(Unit), NEW trailer, NEW i, NEW data,
           Agree(s, t, Len(s)), Reaches(s, trailer, i, data)
    PROVE  Reaches(t, trailer, i, data)
<1>1. Len(s) \in Nat /\ Len(t) \in Nat /\ Len(s) <= Len(t) /\ \A j \in 1 .. Len(s) : s[j] = t[j]
    BY DEF Agree
<1>2. i \in 1 .. Len(s) + 1 /\ data \in Seq(Unit)
    BY DEF Reaches
<1>3. ASSUME NEW u \in Seq(Unit), Agree(t, u, i - 1) PROVE Agree(s, u, i - 1)
    BY <1>1, <1>2, <1>3 DEF Agree
<1> QED
    BY <1>1, <1>2, <1>3 DEF Reaches

LEMMA SameOutcome ==
    ASSUME NEW o \in Outcomes, NEW p \in Outcomes,
           o.verdict = p.verdict, o.data = p.data, o.end = p.end
    PROVE  o = p
<1>1. o = [verdict |-> o.verdict, data |-> o.data, end |-> o.end]
    BY DEF Outcomes
<1>2. p = [verdict |-> p.verdict, data |-> p.data, end |-> p.end]
    BY DEF Outcomes
<1> QED
    BY <1>1, <1>2

LEMMA BehindBoth ==
    ASSUME NEW a \in Seq(Unit), NEW b \in Seq(Unit), NEW o \in Outcomes
    PROVE  Behind(a, Behind(b, o)) = Behind(a \o b, o)
<1> DEFINE p == Behind(b, o)
           left == Behind(a, p)
           right == Behind(a \o b, o)
<1>1. a \o b \in Seq(Unit) /\ o.data \in Seq(Unit)
    BY ConcatProperties DEF Outcomes
<1>2. /\ p \in Outcomes /\ p.verdict = o.verdict /\ p.data = b \o o.data /\ p.end = o.end
    BY BehindIs
<1> HIDE DEF p
<1>3. /\ left \in Outcomes /\ left.verdict = p.verdict /\ left.data = a \o p.data
      /\ left.end = p.end
    BY <1>2, BehindIs
<1>4. /\ right \in Outcomes /\ right.verdict = o.verdict /\ right.data = (a \o b) \o o.data
      /\ right.end = o.end
    BY <1>1, BehindIs
<1>5. a \o (b \o o.data) = (a \o b) \o o.data
  <2> DEFINE d == o.data
  <2>1. d \in Seq(Unit)
      BY <1>1
  <2> HIDE DEF d
  <2>2. (a \o b) \o d = a \o (b \o d)
      BY <2>1, ConcatAssociative
  <2> QED
      BY <2>2 DEF d
<1> HIDE DEF left, right
<1>6. left = right
  <2>1. left.verdict = right.verdict /\ left.end = right.end
      BY <1>2, <1>3, <1>4
  <2>2. left.data = right.data
      BY <1>2, <1>3, <1>4, <1>5
  <2> QED
      BY <1>3, <1>4, <2>1, <2>2, SameOutcome
<1> QED
    BY <1>6 DEF left, right, p

\* A chunk whose data and line end are there: the next one starts behind it.
LEMMA ReachesNext ==
    ASSUME NEW s \in Seq(Unit), NEW trailer \in BOOLEAN, NEW i, NEW data, NEW n, NEW l,
           Reaches(s, trailer, i, data), HeadOf(s, i, n, l), Number(s, i, n - 1) # 0,
           NEW e \in 1 .. Len(s), l + 1 + Number(s, i, n - 1) <= e,
           OnlyReturns(s, l + 1 + Number(s, i, n - 1), e - 1), s[e] = "LF"
    PROVE  Reaches(s, trailer, e + 1, data \o SubSeq(s, l + 1, l + Number(s, i, n - 1)))
<1> DEFINE z == Number(s, i, n - 1)
           part == SubSeq(s, l + 1, l + z)
<1>1. /\ Len(s) \in Nat /\ l \in Nat /\ i \in Nat \ {0} /\ n \in Nat \ {0} /\ z \in Nat /\ z # 0
      /\ i < n /\ n <= l /\ l + z < e /\ e <= Len(s) /\ i <= e
  <2>1. z \in Nat /\ z # 0 /\ l + 1 + z <= e
      BY HeadIs
  <2>2. Len(s) \in Nat /\ l \in Nat /\ i \in Nat \ {0} /\ n \in Nat /\ i < n /\ n <= l
      BY DEF HeadOf
  <2> HIDE DEF z
  <2> QED
      BY <2>1, <2>2
<1>2. data \in Seq(Unit)
    BY DEF Reaches
<1>3. l + 1 \in 1 .. Len(s) + 1 /\ l + z \in (l + 1) - 1 .. Len(s) /\ (l + z) - (l + 1) + 1 = z
  <2> HIDE DEF z
  <2> QED
      BY <1>1
<1>4. part \in Seq(Unit) /\ Len(part) = z /\ \A k \in 1 .. z : part[k] = s[l + 1 + k - 1]
  <2> HIDE DEF z
  <2> QED
      BY <1>3, SubSeqIs
<1>5. data \o part \in Seq(Unit)
    BY <1>2, <1>4, ConcatProperties
<1>6. ASSUME NEW t \in Seq(Unit), Agree(s, t, (e + 1) - 1)
      PROVE  Decoded(t, trailer) = Behind(data \o part, Chunks(t, trailer)[e + 1])
  <2>1. Len(t) \in Nat /\ e <= Len(t) /\ \A j \in 1 .. e : s[j] = t[j]
      BY <1>1, <1>6 DEF Agree
  <2>2. Agree(s, t, l) /\ Agree(s, t, i - 1)
    <3> HIDE DEF z
    <3> QED
        BY <1>1, <2>1 DEF Agree
  <2>3. HeadOf(t, i, n, l) /\ Number(t, i, n - 1) = z
      BY <2>2, HeadAgrees
  <2>4. EndOf(t, i) = e
    <3> DEFINE y == Number(t, i, n - 1)
    <3>1. OnlyReturns(s, l + 1 + z, e - 1) /\ l + 1 + z <= e
        OBVIOUS
    <3>2. \A k \in l + 1 + z .. e - 1 : k \in 1 .. e
      <4> HIDE DEF z
      <4> QED
          BY <1>1
    <3>3. OnlyReturns(t, l + 1 + y, e - 1) /\ l + 1 + y <= e
        BY <2>1, <2>3, <3>1, <3>2 DEF OnlyReturns
    <3>4. e \in 1 .. Len(t) + 1 /\ t[e] # "CR"
        BY <1>1, <2>1
    <3> QED
        BY <2>3, <3>3, <3>4, EndIs
  <2>5. NondigitOf(t, i) = n /\ LineOf(t, i) = l /\ SizeOf(t, i) = z
      BY <2>3, HeadIs
  <2>6. t[e] = "LF"
      BY <1>1, <2>1
  <2>7. GoesOn(t, i)
    <3>1. n - i <= HexDigits /\ HexDigits \in Nat
        BY DigitsAssumption DEF HeadOf
    <3> HIDE DEF z
    <3> QED
        BY <1>1, <2>1, <2>4, <2>5, <2>6, <3>1 DEF GoesOn
  <2>8. DataOf(t, i) = part
    <3> DEFINE q == SubSeq(t, l + 1, l + z)
    <3>1. DataOf(t, i) = q
      <4>1. l + Number(t, i, n - 1) <= Len(t)
        <5> HIDE DEF z
        <5> QED
            BY <1>1, <2>1, <2>3
      <4> QED
          BY <2>3, <4>1, AllDataIs
    <3>2. l + 1 \in 1 .. Len(t) + 1 /\ l + z \in (l + 1) - 1 .. Len(t)
      <4> HIDE DEF z
      <4> QED
          BY <1>1, <2>1
    <3>3. q \in Seq(Unit) /\ Len(q) = z /\ \A k \in 1 .. z : q[k] = t[l + 1 + k - 1]
      <4> HIDE DEF z
      <4> QED
          BY <1>3, <3>2, SubSeqIs
    <3>4. \A k \in 1 .. z : l + 1 + k - 1 \in 1 .. e
      <4> HIDE DEF z
      <4> QED
          BY <1>1
    <3>5. \A k \in 1 .. Len(q) : q[k] = part[k]
        BY <1>4, <2>1, <3>3, <3>4
    <3> HIDE DEF q, part
    <3>6. q = part
        BY <1>4, <3>3, <3>5, SameSequences
    <3> QED
        BY <3>1, <3>6
  <2>9. i \in 1 .. Len(t) + 1 /\ e + 1 \in 1 .. Len(t) + 1
      BY <1>1, <2>1
  <2>10. Chunks(t, trailer)[i] = Behind(part, Chunks(t, trailer)[e + 1])
    <3>1. Chunks(t, trailer)[i] = Behind(DataOf(t, i), Chunks(t, trailer)[EndOf(t, i) + 1])
        BY <2>7, <2>9, ChunksExist DEF IsChunks
    <3> QED
        BY <2>4, <2>8, <3>1
  <2>11. Chunks(t, trailer)[e + 1] \in Outcomes
      BY <2>9, ChunksExist
  <2>12. Decoded(t, trailer) = Behind(data, Chunks(t, trailer)[i])
      BY <2>2 DEF Reaches
  <2> HIDE DEF part
  <2> QED
      BY <1>2, <1>4, <2>10, <2>11, <2>12, BehindBoth
<1>7. e + 1 \in 1 .. Len(s) + 1
    BY <1>1
<1> QED
    BY <1>5, <1>6, <1>7 DEF Reaches

-----------------------------------------------------------------------------
(* Bodies that end in the chunk that starts at i. *)

DecodesTo(s, trailer, verdict, data, end) ==
    /\ Decoded(s, trailer).verdict = verdict
    /\ Decoded(s, trailer).data = data
    /\ Decoded(s, trailer).end = end

LEMMA StopsThere ==
    ASSUME NEW s \in Seq(Unit), NEW trailer \in BOOLEAN, NEW i, NEW data,
           Reaches(s, trailer, i, data), ~ GoesOn(s, i),
           NEW verdict \in {"incomplete", "error", "complete"}, NEW more \in Seq(Unit), NEW end \in Int,
           StopsWith(s, trailer, i) = Outcome(verdict, more, end)
    PROVE  DecodesTo(s, trailer, verdict, data \o more, end)
<1> DEFINE o == Outcome(verdict, more, end)
<1>1. i \in 1 .. Len(s) + 1 /\ data \in Seq(Unit)
    BY DEF Reaches
<1>2. Agree(s, s, i - 1)
    BY <1>1 DEF Agree
<1>3. Decoded(s, trailer) = Behind(data, Chunks(s, trailer)[i])
    BY <1>2 DEF Reaches
<1>4. Chunks(s, trailer)[i] = o
    BY <1>1, ChunksExist DEF IsChunks
<1>5. o \in Outcomes
    BY OutcomeIs
<1>6. o.verdict = verdict /\ o.data = more /\ o.end = end
    BY DEF Outcome
<1> HIDE DEF o
<1>7. /\ Behind(data, o).verdict = o.verdict /\ Behind(data, o).data = data \o o.data
      /\ Behind(data, o).end = o.end
    BY <1>1, <1>5, BehindIs
<1>8. Decoded(s, trailer) = Behind(data, o)
    BY <1>3, <1>4
<1> QED
    BY <1>6, <1>7, <1>8 DEF DecodesTo

LEMMA NothingMore ==
    ASSUME NEW s \in Seq(Unit), NEW trailer \in BOOLEAN, NEW i, NEW data,
           Reaches(s, trailer, i, data), ~ GoesOn(s, i),
           NEW verdict \in {"incomplete", "error", "complete"}, NEW end \in Int,
           StopsWith(s, trailer, i) = Outcome(verdict, <<>>, end)
    PROVE  DecodesTo(s, trailer, verdict, data, end)
<1>1. data \in Seq(Unit) /\ <<>> \in Seq(Unit)
    BY DEF Reaches
<1>2. data \o <<>> = data
    BY <1>1, ConcatEmptySeq
<1>3. DecodesTo(s, trailer, verdict, data \o <<>>, end)
    BY <1>1, StopsThere
<1> QED
    BY <1>2, <1>3

\* A size with too many digits.
LEMMA TooManyDigits ==
    ASSUME NEW s \in Seq(Unit), NEW trailer \in BOOLEAN, NEW i, NEW data,
           Reaches(s, trailer, i, data), i + HexDigits <= Len(s), OnlyDigits(s, i, i + HexDigits)
    PROVE  DecodesTo(s, trailer, "error", data, i)
<1>1. i \in Nat \ {0} /\ i \in Int /\ HexDigits \in Nat /\ Len(s) \in Nat
    BY DigitsAssumption DEF Reaches
<1> DEFINE n == NondigitOf(s, i)
<1>2. IsFirstOther(s, i, Digits, n)
    BY <1>1, SomeFirstOther DEF NondigitOf
<1> HIDE DEF n
<1>3. n \in Int /\ n - i > HexDigits
  <2>1. n \in 1 .. Len(s) + 1
      BY <1>2 DEF IsFirstOther
  <2>2. ASSUME n <= i + HexDigits PROVE FALSE
    <3>1. n <= Len(s) /\ n \in i .. i + HexDigits
        BY <1>1, <1>2, <2>1, <2>2 DEF IsFirstOther
    <3>2. s[n] \in Digits
        BY <3>1 DEF OnlyDigits
    <3> QED
        BY <1>2, <3>1, <3>2 DEF IsFirstOther
  <2> QED
      BY <1>1, <2>1, <2>2
<1>4. ~ GoesOn(s, i) /\ StopsWith(s, trailer, i) = Outcome("error", <<>>, i)
    BY <1>3 DEF GoesOn, StopsWith, n
<1> QED
    BY <1>1, <1>4, NothingMore

\* A size that may go on.
LEMMA DigitsToTheEnd ==
    ASSUME NEW s \in Seq(Unit), NEW trailer \in BOOLEAN, NEW i, NEW data,
           Reaches(s, trailer, i, data), Len(s) + 1 - i <= HexDigits, OnlyDigits(s, i, Len(s))
    PROVE  DecodesTo(s, trailer, "incomplete", data, i)
<1>1. i \in Nat \ {0} /\ i \in Int /\ HexDigits \in Nat /\ Len(s) \in Nat
    BY DigitsAssumption DEF Reaches
<1>2. IsFirstOther(s, i, Digits, Len(s) + 1)
    BY <1>1 DEF IsFirstOther, OnlyDigits
<1>3. NondigitOf(s, i) = Len(s) + 1
    BY <1>1, <1>2, FirstOtherIs DEF NondigitOf
<1> DEFINE n == NondigitOf(s, i)
<1>4. ~ n - i > HexDigits /\ n > Len(s)
    BY <1>1, <1>3
<1>5. ~ GoesOn(s, i) /\ StopsWith(s, trailer, i) = Outcome("incomplete", <<>>, i)
    BY <1>4 DEF GoesOn, StopsWith
<1> QED
    BY <1>1, <1>5, NothingMore

\* No size at all.
LEMMA NoDigit ==
    ASSUME NEW s \in Seq(Unit), NEW trailer \in BOOLEAN, NEW i, NEW data,
           Reaches(s, trailer, i, data), i <= Len(s), s[i] \notin Digits
    PROVE  DecodesTo(s, trailer, "error", data, i)
<1>1. i \in Nat \ {0} /\ i \in Int /\ HexDigits \in Nat /\ Len(s) \in Nat
    BY DigitsAssumption DEF Reaches
<1>2. IsFirstOther(s, i, Digits, i)
    BY <1>1 DEF IsFirstOther
<1>3. NondigitOf(s, i) = i
    BY <1>1, <1>2, FirstOtherIs DEF NondigitOf
<1>4. ~ i - i > HexDigits /\ ~ i > Len(s)
    BY <1>1
<1>5. ~ GoesOn(s, i) /\ StopsWith(s, trailer, i) = Outcome("error", <<>>, i)
    BY <1>3, <1>4 DEF GoesOn, StopsWith
<1> QED
    BY <1>1, <1>5, NothingMore

\* A size whose line may go on.
SizeThere(s, i, n) ==
    /\ i \in Nat \ {0} /\ n \in Nat
    /\ i < n /\ n - i <= HexDigits /\ n <= Len(s)
    /\ OnlyDigits(s, i, n - 1)
    /\ s[n] \notin Digits

NoLineFeed(s, i, j) == \A k \in i .. j : s[k] # "LF"

LEMMA LineToTheEnd ==
    ASSUME NEW s \in Seq(Unit), NEW trailer \in BOOLEAN, NEW i, NEW data, NEW n,
           Reaches(s, trailer, i, data), SizeThere(s, i, n), NoLineFeed(s, n, Len(s))
    PROVE  DecodesTo(s, trailer, "incomplete", data, i)
<1>1. /\ i \in Nat \ {0} /\ i \in Int /\ n \in Nat \ {0} /\ HexDigits \in Nat /\ Len(s) \in Nat
      /\ i < n /\ n - i <= HexDigits /\ n <= Len(s)
    BY DigitsAssumption DEF SizeThere
<1>2. IsFirstOther(s, i, Digits, n)
  <2>1. n \in 1 .. Len(s) + 1 /\ i <= n /\ s[n] \notin Digits
      BY <1>1 DEF SizeThere
  <2>2. \A j \in i .. n - 1 : s[j] \in Digits
      BY DEF SizeThere, OnlyDigits
  <2> QED
      BY <2>1, <2>2 DEF IsFirstOther
<1>3. NondigitOf(s, i) = n
    BY <1>1, <1>2, FirstOtherIs DEF NondigitOf
<1>4. IsFirst(s, n, {"LF"}, Len(s) + 1)
    BY <1>1 DEF IsFirst, NoLineFeed
<1>5. LineOf(s, i) = Len(s) + 1
    BY <1>1, <1>3, <1>4, FirstIs DEF LineOf
<1>6. ~ n - i > HexDigits /\ ~ n > Len(s) /\ n # i /\ Len(s) + 1 > Len(s)
    BY <1>1
<1>7. ~ GoesOn(s, i) /\ StopsWith(s, trailer, i) = Outcome("incomplete", <<>>, i)
    BY <1>3, <1>5, <1>6 DEF GoesOn, StopsWith
<1> QED
    BY <1>1, <1>7, NothingMore

LEMMA HeadFits ==
    ASSUME NEW s \in Seq(Unit), NEW i, NEW n, NEW l, HeadOf(s, i, n, l)
    PROVE  /\ i \in Int /\ ~ n - i > HexDigits /\ ~ n > Len(s) /\ n # i /\ ~ l > Len(s)
           /\ l \in Nat /\ Len(s) \in Nat
<1>1. HexDigits \in Nat
    BY DigitsAssumption
<1> QED
    BY <1>1 DEF HeadOf

\* The last chunk, and no trailer is wanted.
LEMMA LastWithoutTrailer ==
    ASSUME NEW s \in Seq(Unit), NEW i, NEW data, NEW n, NEW l,
           Reaches(s, FALSE, i, data), HeadOf(s, i, n, l), Number(s, i, n - 1) = 0
    PROVE  DecodesTo(s, FALSE, "complete", data, l)
<1>1. NondigitOf(s, i) = n /\ LineOf(s, i) = l /\ SizeOf(s, i) = 0
    BY HeadIs
<1>2. LastChunk(s, l, FALSE) = Outcome("complete", <<>>, l)
  <2>1. l <= Len(s)
      BY DEF HeadOf
  <2> QED
      BY <2>1 DEF LastChunk
<1>3. /\ i \in Int /\ ~ n - i > HexDigits /\ ~ n > Len(s) /\ n # i /\ ~ l > Len(s) /\ l \in Int
    BY HeadFits
<1>4. ~ GoesOn(s, i) /\ StopsWith(s, FALSE, i) = Outcome("complete", <<>>, l)
    BY <1>1, <1>2, <1>3 DEF GoesOn, StopsWith
<1>5. FALSE \in BOOLEAN
    OBVIOUS
<1> QED
    BY <1>3, <1>4, <1>5, NothingMore

\* The last chunk and a trailer, whose blank line is at m.
LEMMA LastWithTrailer ==
    ASSUME NEW s \in Seq(Unit), NEW i, NEW data, NEW n, NEW l, NEW m,
           Reaches(s, TRUE, i, data), HeadOf(s, i, n, l), Number(s, i, n - 1) = 0,
           IsBlankLine(s, l + 1, m)
    PROVE  DecodesTo(s, TRUE, IF m <= Len(s) THEN "complete" ELSE "incomplete", data, m)
<1> DEFINE verdict == IF m <= Len(s) THEN "complete" ELSE "incomplete"
<1>1. NondigitOf(s, i) = n /\ LineOf(s, i) = l /\ SizeOf(s, i) = 0
    BY HeadIs
<1>2. /\ i \in Int /\ ~ n - i > HexDigits /\ ~ n > Len(s) /\ n # i /\ ~ l > Len(s)
      /\ l + 1 \in Nat \ {0}
    BY HeadFits
<1>3. BlankLine(s, l + 1) = m
    BY <1>2, BlankLineIs
<1>4. LastChunk(s, l, TRUE) = Outcome(verdict, <<>>, m)
    BY <1>3 DEF LastChunk
<1>5. ~ GoesOn(s, i) /\ StopsWith(s, TRUE, i) = Outcome(verdict, <<>>, m)
  <2> HIDE DEF verdict
  <2> QED
      BY <1>1, <1>2, <1>4 DEF GoesOn, StopsWith
<1>6. TRUE \in BOOLEAN /\ verdict \in {"incomplete", "error", "complete"} /\ m \in Int
    BY DEF IsBlankLine
<1> HIDE DEF verdict
<1>7. DecodesTo(s, TRUE, verdict, data, m)
    BY <1>5, <1>6, NothingMore
<1> QED
    BY <1>7 DEF verdict

LEMMA PartInSeq ==
    ASSUME NEW s \in Seq(Unit), NEW i, NEW n, NEW l, HeadOf(s, i, n, l), NEW j \in Nat, l <= j, j <= Len(s)
    PROVE  SubSeq(s, l + 1, j) \in Seq(Unit)
<1>1. l + 1 \in 1 .. Len(s) + 1 /\ j \in (l + 1) - 1 .. Len(s)
    BY DEF HeadOf
<1> QED
    BY <1>1, SubSeqIs

\* Data, or its line end, that may go on.
LEMMA DataToTheEnd ==
    ASSUME NEW s \in Seq(Unit), NEW trailer \in BOOLEAN, NEW i, NEW data, NEW n, NEW l,
           Reaches(s, trailer, i, data), HeadOf(s, i, n, l), Number(s, i, n - 1) # 0,
           OnlyReturns(s, l + 1 + Number(s, i, n - 1), Len(s)),
           NEW j, j = IF l + Number(s, i, n - 1) <= Len(s) THEN l + Number(s, i, n - 1) ELSE Len(s)
    PROVE  DecodesTo(s, trailer, "incomplete", data \o SubSeq(s, l + 1, j), i)
<1> DEFINE more == SubSeq(s, l + 1, j)
<1>1. NondigitOf(s, i) = n /\ LineOf(s, i) = l /\ SizeOf(s, i) = Number(s, i, n - 1)
      /\ Number(s, i, n - 1) \in Nat
    BY HeadIs
<1>2. /\ i \in Int /\ ~ n - i > HexDigits /\ ~ n > Len(s) /\ n # i /\ ~ l > Len(s)
      /\ l \in Nat /\ Len(s) \in Nat
    BY HeadFits
<1>3. EndOf(s, i) = Len(s) + 1
  <2>1. Len(s) + 1 \in 1 .. Len(s) + 1 /\ (Len(s) + 1) - 1 = Len(s) /\ ~ Len(s) + 1 <= Len(s)
      BY <1>2
  <2> QED
      BY <2>1, EndIs
<1>4. DataOf(s, i) = more
    BY AllDataIs
<1>5. more \in Seq(Unit)
  <2>1. j \in Nat /\ l <= j /\ j <= Len(s)
      BY <1>1, <1>2
  <2> QED
      BY <2>1, PartInSeq
<1>6. Len(s) + 1 > Len(s)
    BY <1>2
<1> HIDE DEF more
<1>7. ~ GoesOn(s, i) /\ StopsWith(s, trailer, i) = Outcome("incomplete", more, i)
    BY <1>1, <1>2, <1>3, <1>4, <1>6 DEF GoesOn, StopsWith
<1>8. DecodesTo(s, trailer, "incomplete", data \o more, i)
    BY <1>2, <1>5, <1>7, StopsThere
<1> QED
    BY <1>8 DEF more

\* Data that does not end with its line.
LEMMA NoLineEnd ==
    ASSUME NEW s \in Seq(Unit), NEW trailer \in BOOLEAN, NEW i, NEW data, NEW n, NEW l,
           Reaches(s, trailer, i, data), HeadOf(s, i, n, l), Number(s, i, n - 1) # 0,
           NEW e \in 1 .. Len(s), l + 1 + Number(s, i, n - 1) <= e,
           OnlyReturns(s, l + 1 + Number(s, i, n - 1), e - 1), s[e] \notin {"CR", "LF"}
    PROVE  DecodesTo(s, trailer, "error", data \o SubSeq(s, l + 1, l + Number(s, i, n - 1)), i)
<1> DEFINE z == Number(s, i, n - 1)
           more == SubSeq(s, l + 1, l + z)
<1>1. NondigitOf(s, i) = n /\ LineOf(s, i) = l /\ SizeOf(s, i) = z /\ z \in Nat /\ z # 0
    BY HeadIs
<1>2. /\ i \in Int /\ ~ n - i > HexDigits /\ ~ n > Len(s) /\ n # i /\ ~ l > Len(s)
      /\ l \in Nat /\ Len(s) \in Nat
    BY HeadFits
<1>3. EndOf(s, i) = e
  <2>1. e \in 1 .. Len(s) + 1 /\ s[e] # "CR"
      BY <1>2
  <2> QED
      BY <2>1, EndIs
<1>4. l + 1 + z <= e
    OBVIOUS
<1>5. DataOf(s, i) = more
  <2>1. l + z <= Len(s)
    <3> HIDE DEF z
    <3> QED
        BY <1>1, <1>2, <1>4
  <2> QED
      BY <2>1, AllDataIs
<1>6. more \in Seq(Unit)
  <2>1. l + z \in Nat /\ l <= l + z /\ l + z <= Len(s)
    <3> HIDE DEF z
    <3> QED
        BY <1>1, <1>2, <1>4
  <2> HIDE DEF z
  <2> QED
      BY <2>1, PartInSeq
<1>7. ~ e > Len(s) /\ s[e] # "LF"
    BY <1>2
<1> HIDE DEF more, z
<1>8. ~ GoesOn(s, i) /\ StopsWith(s, trailer, i) = Outcome("error", more, i)
    BY <1>1, <1>2, <1>3, <1>5, <1>7 DEF GoesOn, StopsWith
<1>9. DecodesTo(s, trailer, "error", data \o more, i)
    BY <1>2, <1>6, <1>8, StopsThere
<1> QED
    BY <1>9 DEF more, z

-----------------------------------------------------------------------------
(* Where the decoder is: `read' units of s were read, `got' is what was decoded.  It is *)
(* in the chunk that starts at i; the chunks before gave `data'.                        *)

InSize(s, read, count, left, i) ==
    /\ i = read + 1 - count
    /\ count \in 0 .. HexDigits
    /\ OnlyDigits(s, i, read)
    /\ left = Number(s, i, read)
    /\ left < SixteenTo[count]

InExt(s, read, left, i) ==
    \E n \in Nat : /\ SizeThere(s, i, n)
                   /\ n <= read + 1
                   /\ NoLineFeed(s, n, read)
                   /\ left = Number(s, i, n - 1)

DataFrom(s, read, left, got, i, data, n, l) ==
    /\ HeadOf(s, i, n, l)
    /\ left \in Nat \ {0}
    /\ l <= read
    /\ read + left = l + Number(s, i, n - 1)
    /\ got = data \o SubSeq(s, l + 1, read)

InData(s, read, left, got, i, data) ==
    \E n, l \in Nat : DataFrom(s, read, left, got, i, data, n, l)

ReturnsFrom(s, read, got, i, data, n, l) ==
    /\ HeadOf(s, i, n, l)
    /\ Number(s, i, n - 1) # 0
    /\ l + Number(s, i, n - 1) <= read
    /\ OnlyReturns(s, l + 1 + Number(s, i, n - 1), read)
    /\ got = data \o SubSeq(s, l + 1, l + Number(s, i, n - 1))

InCrlf(s, read, got, i, data) ==
    \E n, l \in Nat : ReturnsFrom(s, read, got, i, data, n, l)

NoBlank(s, i, j) == \A k \in i .. j : ~ BlankAt(s, i, k)

\* Only carriage returns between the start of a line and j.
LineStart(s, i, j) ==
    \E b \in i .. j : /\ b = i \/ s[b - 1] = "LF"
                      /\ OnlyReturns(s, b, j - 1)

\* Something else than that, and no line feed after it.
LineMiddle(s, i, j) ==
    \E m \in i .. j : s[m] \notin {"CR", "LF"} /\ NoLineFeed(s, m + 1, j)

TrailerFrom(s, read, i, n, l) ==
    /\ HeadOf(s, i, n, l)
    /\ Number(s, i, n - 1) = 0
    /\ l <= read
    /\ NoBlank(s, l + 1, read)

InHead(s, read, i) ==
    \E n, l \in Nat : TrailerFrom(s, read, i, n, l) /\ LineStart(s, l + 1, read + 1)

InMiddle(s, read, i) ==
    \E n, l \in Nat : TrailerFrom(s, read, i, n, l) /\ LineMiddle(s, l + 1, read)

At(state, s, read, count, left, trailer, got, i, data) ==
    \/ state = "CHUNK_SIZE" /\ InSize(s, read, count, left, i) /\ got = data
    \/ state = "CHUNK_EXT" /\ count = 0 /\ InExt(s, read, left, i) /\ got = data
    \/ state = "CHUNK_DATA" /\ count = 0 /\ InData(s, read, left, got, i, data)
    \/ state = "CHUNK_CRLF" /\ count = 0 /\ left = 0 /\ InCrlf(s, read, got, i, data)
    \/ state = "TRAILERS_LINE_HEAD" /\ trailer /\ InHead(s, read, i) /\ got = data
    \/ state = "TRAILERS_LINE_MIDDLE" /\ trailer /\ InMiddle(s, read, i) /\ got = data

ReadingAt(state, s, read, count, left, trailer, got, i, data) ==
    /\ read \in 0 .. Len(s)
    /\ Reaches(s, trailer, i, data)
    /\ At(state, s, read, count, left, trailer, got, i, data)

Reading(state, s, read, count, left, trailer, got) ==
    \E i \in Nat : \E data \in Seq(Unit) :
        ReadingAt(state, s, read, count, left, trailer, got, i, data)

LEMMA ReadingIs ==
    ASSUME NEW state, NEW s \in Seq(Unit), NEW read, NEW count, NEW left, NEW trailer, NEW got,
           NEW i, NEW data, ReadingAt(state, s, read, count, left, trailer, got, i, data)
    PROVE  Reading(state, s, read, count, left, trailer, got)
<1>1. i \in Nat /\ data \in Seq(Unit)
    BY DEF ReadingAt, Reaches
<1> QED
    BY <1>1 DEF Reading

\* At the start of the body.
LEMMA ReadingFirst ==
    ASSUME NEW s \in Seq(Unit), NEW trailer \in BOOLEAN
    PROVE  Reading("CHUNK_SIZE", s, 0, 0, 0, trailer, <<>>)
<1>1. 0 \in 0 .. Len(s) /\ 1 \in 1 .. Len(s) + 1 /\ 1 = 0 + 1 - 0 /\ 1 - 1 = 0
    OBVIOUS
<1>2. Number(s, 1, 1 - 1) = 0
    BY <1>1, NumberOfNone
<1>3. 0 \in 0 .. HexDigits /\ SixteenTo[0] = 1
    BY DigitsAssumption, PowersOfSixteen
<1>4. OnlyDigits(s, 1, 0)
    BY DEF OnlyDigits
<1>5. InSize(s, 0, 0, 0, 1)
    BY <1>1, <1>2, <1>3, <1>4 DEF InSize
<1>6. ReadingAt("CHUNK_SIZE", s, 0, 0, 0, trailer, <<>>, 1, <<>>)
    BY <1>1, <1>5, ReachesFirst DEF ReadingAt, At
<1> QED
    BY <1>6, ReadingIs

\* More arrives.
LEMMA ReadingMore ==
    ASSUME NEW state, NEW s \in Seq(Unit), NEW read, NEW count, NEW left, NEW trailer \in BOOLEAN, NEW got,
           Reading(state, s, read, count, left, trailer, got),
           NEW t \in Seq(Unit), Agree(s, t, Len(s))
    PROVE  Reading(state, t, read, count, left, trailer, got)
<1>1. PICK i \in Nat : \E data \in Seq(Unit) :
           ReadingAt(state, s, read, count, left, trailer, got, i, data)
    BY DEF Reading
<1>2. PICK data \in Seq(Unit) : ReadingAt(state, s, read, count, left, trailer, got, i, data)
    BY <1>1
<1>3. /\ Len(s) \in Nat /\ Len(t) \in Nat /\ Len(s) <= Len(t)
      /\ read \in 0 .. Len(s) /\ read \in 0 .. Len(t) /\ read \in Nat
      /\ \A j \in 1 .. Len(s) : s[j] = t[j]
    BY <1>2 DEF ReadingAt, Agree
<1>4. Reaches(t, trailer, i, data)
    BY <1>2, ReachesMore DEF ReadingAt
<1>5. i \in 1 .. Len(s) + 1
    BY <1>2 DEF ReadingAt, Reaches
<1>6. ASSUME NEW n, NEW l, HeadOf(s, i, n, l)
      PROVE  /\ HeadOf(t, i, n, l) /\ Number(t, i, n - 1) = Number(s, i, n - 1)
             /\ l \in Nat /\ n \in Nat
  <2>1. l \in Nat /\ n \in Nat /\ l <= Len(s)
      BY <1>6 DEF HeadOf
  <2>2. Agree(s, t, l)
      BY <1>3, <2>1 DEF Agree
  <2>3. HeadOf(t, i, n, l) /\ Number(t, i, n - 1) = Number(s, i, n - 1)
      BY <1>6, <2>2, HeadAgrees
  <2> QED
      BY <2>1, <2>3
<1>7. ASSUME NEW l \in Nat, NEW j \in Nat, l <= j, j <= Len(s)
      PROVE  SubSeq(t, l + 1, j) = SubSeq(s, l + 1, j)
  <2>1. /\ l + 1 \in 1 .. Len(s) + 1 /\ j \in (l + 1) - 1 .. Len(s)
        /\ l + 1 \in 1 .. Len(t) + 1 /\ j \in (l + 1) - 1 .. Len(t)
      BY <1>3, <1>7
  <2> DEFINE a == SubSeq(s, l + 1, j)
             b == SubSeq(t, l + 1, j)
             z == j - (l + 1) + 1
  <2>2. a \in Seq(Unit) /\ Len(a) = z /\ \A k \in 1 .. z : a[k] = s[l + 1 + k - 1]
      BY <2>1, SubSeqIs
  <2>3. b \in Seq(Unit) /\ Len(b) = z /\ \A k \in 1 .. z : b[k] = t[l + 1 + k - 1]
      BY <2>1, SubSeqIs
  <2>4. \A k \in 1 .. z : l + 1 + k - 1 \in 1 .. Len(s)
      BY <1>3, <1>7
  <2> HIDE DEF a, b, z
  <2>5. \A k \in 1 .. Len(b) : b[k] = a[k]
      BY <1>3, <2>2, <2>3, <2>4
  <2>6. b = a
      BY <2>2, <2>3, <2>5, SameSequences
  <2> QED
      BY <2>6 DEF a, b
<1>8. ASSUME NEW l \in Nat PROVE
           /\ NoBlank(s, l + 1, read) => NoBlank(t, l + 1, read)
           /\ LineStart(s, l + 1, read + 1) => LineStart(t, l + 1, read + 1)
           /\ LineMiddle(s, l + 1, read) => LineMiddle(t, l + 1, read)
  <2>1. \A j \in l + 1 .. read : s[j] = t[j]
      BY <1>3
  <2>2. ASSUME NEW k \in l + 1 .. read, BlankAt(t, l + 1, k) PROVE BlankAt(s, l + 1, k)
    <3>1. PICK b \in l + 1 .. k : /\ b = l + 1 \/ t[b - 1] = "LF"
                                  /\ \A m \in b .. k - 1 : t[m] = "CR"
        BY <2>2 DEF BlankAt
    <3>2. b # l + 1 => b - 1 \in l + 1 .. read
        BY <1>3
    <3>3. \A m \in b .. k - 1 : m \in l + 1 .. read
        BY <1>3
    <3>4. b = l + 1 \/ s[b - 1] = "LF"
        BY <2>1, <3>1, <3>2
    <3>5. \A m \in b .. k - 1 : s[m] = "CR"
        BY <2>1, <3>1, <3>3
    <3>6. s[k] = "LF"
        BY <2>1, <2>2 DEF BlankAt
    <3> QED
        BY <3>4, <3>5, <3>6 DEF BlankAt
  <2>3. ASSUME LineStart(s, l + 1, read + 1) PROVE LineStart(t, l + 1, read + 1)
    <3>1. PICK b \in l + 1 .. read + 1 : /\ b = l + 1 \/ s[b - 1] = "LF"
                                         /\ OnlyReturns(s, b, (read + 1) - 1)
        BY <2>3 DEF LineStart
    <3>2. b # l + 1 => b - 1 \in l + 1 .. read
        BY <1>3
    <3>3. \A m \in b .. (read + 1) - 1 : m \in l + 1 .. read
        BY <1>3
    <3>4. b = l + 1 \/ t[b - 1] = "LF"
        BY <2>1, <3>1, <3>2
    <3>5. OnlyReturns(t, b, (read + 1) - 1)
        BY <2>1, <3>1, <3>3 DEF OnlyReturns
    <3> QED
        BY <3>4, <3>5 DEF LineStart
  <2>4. ASSUME LineMiddle(s, l + 1, read) PROVE LineMiddle(t, l + 1, read)
    <3>1. PICK m \in l + 1 .. read : s[m] \notin {"CR", "LF"} /\ NoLineFeed(s, m + 1, read)
        BY <2>4 DEF LineMiddle
    <3>2. \A k \in m + 1 .. read : k \in l + 1 .. read
        BY <1>3
    <3>3. t[m] \notin {"CR", "LF"} /\ NoLineFeed(t, m + 1, read)
        BY <2>1, <3>1, <3>2 DEF NoLineFeed
    <3> QED
        BY <3>3 DEF LineMiddle
  <2> QED
      BY <2>2, <2>3, <2>4 DEF NoBlank
<1>9. At(state, t, read, count, left, trailer, got, i, data)
  <2>1. CASE state = "CHUNK_SIZE" /\ InSize(s, read, count, left, i) /\ got = data
    <3>1. /\ i = read + 1 - count /\ count \in 0 .. HexDigits /\ OnlyDigits(s, i, read)
          /\ left = Number(s, i, read) /\ left < SixteenTo[count]
        BY <2>1 DEF InSize
    <3>2. i \in Nat \ {0} /\ i - 1 <= read /\ Agree(s, t, read)
        BY <1>3, <1>5, <3>1, DigitsAssumption DEF Agree
    <3>3. OnlyDigits(t, i, read) /\ Number(t, i, read) = Number(s, i, read)
        BY <1>3, <3>1, <3>2, NumberAgrees
    <3> QED
        BY <2>1, <3>1, <3>3 DEF At, InSize
  <2>2. CASE state = "CHUNK_EXT" /\ count = 0 /\ InExt(s, read, left, i) /\ got = data
    <3>1. PICK n \in Nat : /\ SizeThere(s, i, n) /\ n <= read + 1
                           /\ NoLineFeed(s, n, read) /\ left = Number(s, i, n - 1)
        BY <2>2 DEF InExt
    <3>2. /\ i \in Nat \ {0} /\ i < n /\ n - i <= HexDigits /\ n <= Len(s)
          /\ OnlyDigits(s, i, n - 1) /\ s[n] \notin Digits
        BY <3>1 DEF SizeThere
    <3>3. n - 1 \in Nat /\ i - 1 <= n - 1 /\ Agree(s, t, n - 1) /\ n \in 1 .. Len(s)
        BY <1>3, <3>2 DEF Agree
    <3>4. OnlyDigits(t, i, n - 1) /\ Number(t, i, n - 1) = Number(s, i, n - 1)
        BY <3>2, <3>3, NumberAgrees
    <3>5. SizeThere(t, i, n)
      <4>1. t[n] \notin Digits /\ n <= Len(t)
          BY <1>3, <3>2, <3>3
      <4> QED
          BY <3>2, <3>4, <4>1 DEF SizeThere
    <3>6. NoLineFeed(t, n, read)
      <4>1. \A k \in n .. read : k \in 1 .. Len(s)
          BY <1>3, <3>3
      <4> QED
          BY <1>3, <3>1, <4>1 DEF NoLineFeed
    <3>7. InExt(t, read, left, i)
        BY <3>1, <3>4, <3>5, <3>6 DEF InExt
    <3> QED
        BY <2>2, <3>7 DEF At
  <2>3. CASE state = "CHUNK_DATA" /\ count = 0 /\ InData(s, read, left, got, i, data)
    <3>1. PICK n, l \in Nat : DataFrom(s, read, left, got, i, data, n, l)
        BY <2>3 DEF InData
    <3>2. /\ HeadOf(s, i, n, l) /\ left \in Nat \ {0} /\ l <= read
          /\ read + left = l + Number(s, i, n - 1) /\ got = data \o SubSeq(s, l + 1, read)
        BY <3>1 DEF DataFrom
    <3>3. HeadOf(t, i, n, l) /\ Number(t, i, n - 1) = Number(s, i, n - 1)
        BY <1>6, <3>2
    <3>4. read <= Len(s)
        BY <1>3
    <3>5. SubSeq(t, l + 1, read) = SubSeq(s, l + 1, read)
        BY <1>3, <1>7, <3>2, <3>4
    <3>6. DataFrom(t, read, left, got, i, data, n, l)
        BY <3>2, <3>3, <3>5 DEF DataFrom
    <3> QED
        BY <2>3, <3>6 DEF At, InData
  <2>4. CASE state = "CHUNK_CRLF" /\ count = 0 /\ left = 0 /\ InCrlf(s, read, got, i, data)
    <3>1. PICK n, l \in Nat : ReturnsFrom(s, read, got, i, data, n, l)
        BY <2>4 DEF InCrlf
    <3> DEFINE z == Number(s, i, n - 1)
    <3>2. /\ HeadOf(s, i, n, l) /\ z # 0 /\ l + z <= read
          /\ OnlyReturns(s, l + 1 + z, read) /\ got = data \o SubSeq(s, l + 1, l + z)
        BY <3>1 DEF ReturnsFrom
    <3>3. HeadOf(t, i, n, l) /\ Number(t, i, n - 1) = z
        BY <1>6, <3>2
    <3>4. z \in Nat
        BY <3>2, HeadIs
    <3> HIDE DEF z
    <3>5. l + z \in Nat /\ l <= l + z /\ l + z <= Len(s)
        BY <1>3, <3>2, <3>4
    <3>6. SubSeq(t, l + 1, l + z) = SubSeq(s, l + 1, l + z)
        BY <1>7, <3>5
    <3>7. OnlyReturns(t, l + 1 + z, read)
      <4>1. \A k \in l + 1 + z .. read : k \in 1 .. Len(s)
          BY <1>3, <3>4
      <4> QED
          BY <1>3, <3>2, <4>1 DEF OnlyReturns
    <3>8. ReturnsFrom(t, read, got, i, data, n, l)
        BY <3>2, <3>3, <3>6, <3>7 DEF ReturnsFrom
    <3> QED
        BY <2>4, <3>8 DEF At, InCrlf
  <2>5. CASE state = "TRAILERS_LINE_HEAD" /\ trailer /\ InHead(s, read, i) /\ got = data
    <3>1. PICK n, l \in Nat : TrailerFrom(s, read, i, n, l) /\ LineStart(s, l + 1, read + 1)
        BY <2>5 DEF InHead
    <3>2. TrailerFrom(t, read, i, n, l)
        BY <1>6, <1>8, <3>1 DEF TrailerFrom
    <3>3. LineStart(t, l + 1, read + 1)
        BY <1>8, <3>1
    <3>4. InHead(t, read, i)
        BY <3>2, <3>3 DEF InHead
    <3> QED
        BY <2>5, <3>4, Zenon DEF At
  <2>6. CASE state = "TRAILERS_LINE_MIDDLE" /\ trailer /\ InMiddle(s, read, i) /\ got = data
    <3>1. PICK n, l \in Nat : TrailerFrom(s, read, i, n, l) /\ LineMiddle(s, l + 1, read)
        BY <2>6 DEF InMiddle
    <3>2. TrailerFrom(t, read, i, n, l)
        BY <1>6, <1>8, <3>1 DEF TrailerFrom
    <3>3. LineMiddle(t, l + 1, read)
        BY <1>8, <3>1
    <3>4. InMiddle(t, read, i)
        BY <3>2, <3>3 DEF InMiddle
    <3> QED
        BY <2>6, <3>4, Zenon DEF At
  <2>7. At(state, s, read, count, left, trailer, got, i, data)
      BY <1>2 DEF ReadingAt
  <2> QED
      BY <2>1, <2>2, <2>3, <2>4, <2>5, <2>6, <2>7, Zenon DEF At
<1>10. ReadingAt(state, t, read, count, left, trailer, got, i, data)
    BY <1>3, <1>4, <1>9 DEF ReadingAt
<1> QED
    BY <1>10, ReadingIs

\* All was read: the body goes on, and its data is what was decoded.
LEMMA ReadingEnds ==
    ASSUME NEW state, NEW s \in Seq(Unit), NEW count, NEW left, NEW trailer \in BOOLEAN, NEW got,
           Reading(state, s, Len(s), count, left, trailer, got)
    PROVE  \E end : DecodesTo(s, trailer, "incomplete", got, end)
<1>1. PICK i \in Nat : \E data \in Seq(Unit) :
           ReadingAt(state, s, Len(s), count, left, trailer, got, i, data)
    BY DEF Reading
<1>2. PICK data \in Seq(Unit) : ReadingAt(state, s, Len(s), count, left, trailer, got, i, data)
    BY <1>1
<1>3. Len(s) \in Nat /\ Reaches(s, trailer, i, data) /\ i \in 1 .. Len(s) + 1
    BY <1>2 DEF ReadingAt, Reaches
<1>4. CASE state = "CHUNK_SIZE" /\ InSize(s, Len(s), count, left, i) /\ got = data
  <2>1. Len(s) + 1 - i <= HexDigits /\ OnlyDigits(s, i, Len(s))
      BY <1>3, <1>4, DigitsAssumption DEF InSize
  <2> QED
      BY <1>3, <1>4, <2>1, DigitsToTheEnd
<1>5. CASE state = "CHUNK_EXT" /\ count = 0 /\ InExt(s, Len(s), left, i) /\ got = data
  <2>1. PICK n \in Nat : SizeThere(s, i, n) /\ NoLineFeed(s, n, Len(s))
      BY <1>5 DEF InExt
  <2> QED
      BY <1>3, <1>5, <2>1, LineToTheEnd
<1>6. CASE state = "CHUNK_DATA" /\ count = 0 /\ InData(s, Len(s), left, got, i, data)
  <2>1. PICK n, l \in Nat : DataFrom(s, Len(s), left, got, i, data, n, l)
      BY <1>6 DEF InData
  <2> DEFINE z == Number(s, i, n - 1)
  <2>2. /\ HeadOf(s, i, n, l) /\ left \in Nat \ {0} /\ l <= Len(s)
        /\ Len(s) + left = l + z /\ got = data \o SubSeq(s, l + 1, Len(s))
      BY <2>1 DEF DataFrom
  <2>3. z \in Nat
      BY <2>2, HeadIs
  <2>4. z # 0 /\ ~ l + z <= Len(s) /\ OnlyReturns(s, l + 1 + z, Len(s))
    <3> HIDE DEF z
    <3> QED
        BY <1>3, <2>2, <2>3 DEF OnlyReturns
  <2>5. Len(s) = IF l + z <= Len(s) THEN l + z ELSE Len(s)
      BY <2>4
  <2>6. DecodesTo(s, trailer, "incomplete", data \o SubSeq(s, l + 1, Len(s)), i)
      BY <1>3, <2>2, <2>4, <2>5, DataToTheEnd
  <2> QED
      BY <2>2, <2>6
<1>7. CASE state = "CHUNK_CRLF" /\ count = 0 /\ left = 0 /\ InCrlf(s, Len(s), got, i, data)
  <2>1. PICK n, l \in Nat : ReturnsFrom(s, Len(s), got, i, data, n, l)
      BY <1>7 DEF InCrlf
  <2> DEFINE z == Number(s, i, n - 1)
  <2>2. /\ HeadOf(s, i, n, l) /\ z # 0 /\ l + z <= Len(s)
        /\ OnlyReturns(s, l + 1 + z, Len(s)) /\ got = data \o SubSeq(s, l + 1, l + z)
      BY <2>1 DEF ReturnsFrom
  <2>3. l + z = IF l + z <= Len(s) THEN l + z ELSE Len(s)
      BY <2>2
  <2>4. DecodesTo(s, trailer, "incomplete", data \o SubSeq(s, l + 1, l + z), i)
      BY <1>3, <2>2, <2>3, DataToTheEnd
  <2> QED
      BY <2>2, <2>4
<1>8. ASSUME trailer, NEW n, NEW l, TrailerFrom(s, Len(s), i, n, l)
      PROVE  DecodesTo(s, trailer, "incomplete", data, Len(s) + 1)
  <2>1. /\ HeadOf(s, i, n, l) /\ Number(s, i, n - 1) = 0 /\ NoBlank(s, l + 1, Len(s))
      BY <1>8 DEF TrailerFrom
  <2>2. trailer = TRUE
      BY <1>8, Zenon
  <2>3. Reaches(s, TRUE, i, data)
      BY <1>3, <2>2, Zenon
  <2> DEFINE m == Len(s) + 1
  <2>4. m \in 1 .. Len(s) + 1 /\ m - 1 = Len(s) /\ ~ m <= Len(s)
      BY <1>3
  <2>5. IsBlankLine(s, l + 1, m)
    <3> HIDE DEF m
    <3> QED
        BY <2>1, <2>4 DEF IsBlankLine, NoBlank
  <2> HIDE DEF m
  <2>6. DecodesTo(s, TRUE, IF m <= Len(s) THEN "complete" ELSE "incomplete", data, m)
      BY <2>1, <2>3, <2>5, LastWithTrailer
  <2>7. DecodesTo(s, TRUE, "incomplete", data, m)
      BY <2>4, <2>6
  <2> QED
      BY <2>2, <2>7, Zenon DEF m
<1>9. CASE state = "TRAILERS_LINE_HEAD" /\ trailer /\ InHead(s, Len(s), i) /\ got = data
  <2>1. PICK n, l \in Nat : TrailerFrom(s, Len(s), i, n, l)
      BY <1>9 DEF InHead
  <2> QED
      BY <1>8, <1>9, <2>1, Zenon
<1>10. CASE state = "TRAILERS_LINE_MIDDLE" /\ trailer /\ InMiddle(s, Len(s), i) /\ got = data
  <2>1. PICK n, l \in Nat : TrailerFrom(s, Len(s), i, n, l)
      BY <1>10 DEF InMiddle
  <2> QED
      BY <1>8, <1>10, <2>1, Zenon
<1>11. At(state, s, Len(s), count, left, trailer, got, i, data)
    BY <1>2 DEF ReadingAt
<1> QED
    BY <1>4, <1>5, <1>6, <1>7, <1>9, <1>10, <1>11, Zenon DEF At

-----------------------------------------------------------------------------
(* The steps of the decoder. *)

\* In which chunk the decoder is, and what its state says of it.
LEMMA SizeAt ==
    ASSUME NEW s \in Seq(Unit), NEW read, NEW count, NEW left, NEW trailer, NEW got,
           Reading("CHUNK_SIZE", s, read, count, left, trailer, got)
    PROVE  \E i \in Nat : /\ ReadingAt("CHUNK_SIZE", s, read, count, left, trailer, got, i, got)
                          /\ InSize(s, read, count, left, i)
                          /\ Reaches(s, trailer, i, got)
<1>1. PICK i \in Nat : \E data \in Seq(Unit) :
           ReadingAt("CHUNK_SIZE", s, read, count, left, trailer, got, i, data)
    BY DEF Reading
<1>2. PICK data \in Seq(Unit) :
           ReadingAt("CHUNK_SIZE", s, read, count, left, trailer, got, i, data)
    BY <1>1
<1>3. InSize(s, read, count, left, i) /\ got = data
    BY <1>2 DEF ReadingAt, At
<1> QED
    BY <1>2, <1>3 DEF ReadingAt

\* One more digit.
LEMMA DigitStep ==
    ASSUME NEW s \in Seq(Unit), NEW read, NEW count, NEW left, NEW trailer, NEW got,
           Reading("CHUNK_SIZE", s, read, count, left, trailer, got),
           read < Len(s), s[read + 1] \in Digits, count # HexDigits
    PROVE  Reading("CHUNK_SIZE", s, read + 1, count + 1,
                   (left * 16 + Value[s[read + 1]]) % SixteenTo[HexDigits], trailer, got)
<1>1. PICK i \in Nat : /\ ReadingAt("CHUNK_SIZE", s, read, count, left, trailer, got, i, got)
                       /\ InSize(s, read, count, left, i)
                       /\ Reaches(s, trailer, i, got)
    BY SizeAt
<1>2. /\ i = read + 1 - count /\ count \in 0 .. HexDigits /\ OnlyDigits(s, i, read)
      /\ left = Number(s, i, read) /\ left < SixteenTo[count]
    BY <1>1 DEF InSize
<1>3. read \in 0 .. Len(s) /\ i \in 1 .. Len(s) + 1 /\ Len(s) \in Nat /\ HexDigits \in Nat
    BY <1>1, DigitsAssumption DEF ReadingAt, Reaches
<1>4. /\ read + 1 \in 0 .. Len(s) /\ i \in Nat \ {0} /\ read \in i - 1 .. Len(s) - 1
      /\ read \in i - 1 .. Len(s)
      /\ count \in 0 .. HexDigits - 1 /\ count + 1 \in 0 .. HexDigits
      /\ i = (read + 1) + 1 - (count + 1)
    BY <1>2, <1>3
<1>5. OnlyDigits(s, i, read + 1)
  <2>1. \A k \in i .. read + 1 : k \in i .. read \/ k = read + 1
      BY <1>3
  <2> QED
      BY <1>2, <2>1 DEF OnlyDigits
<1>6. left \in Nat
    BY <1>2, <1>4, NumberInNat
<1> DEFINE more == left * 16 + Value[s[read + 1]]
<1>7. more % SixteenTo[HexDigits] = more /\ more < SixteenTo[count + 1]
    BY <1>2, <1>4, <1>6, NoOverflow
<1>8. Number(s, i, read + 1) = more
    BY <1>2, <1>4, <1>5, NumberOfMore
<1> HIDE DEF more
<1>9. InSize(s, read + 1, count + 1, more, i)
    BY <1>4, <1>5, <1>7, <1>8 DEF InSize
<1>10. ReadingAt("CHUNK_SIZE", s, read + 1, count + 1, more, trailer, got, i, got)
    BY <1>1, <1>4, <1>9 DEF ReadingAt, At
<1>11. Reading("CHUNK_SIZE", s, read + 1, count + 1, more, trailer, got)
    BY <1>10, ReadingIs
<1> QED
    BY <1>7, <1>11 DEF more

\* One digit too many.
LEMMA DigitFails ==
    ASSUME NEW s \in Seq(Unit), NEW read, NEW left, NEW trailer \in BOOLEAN, NEW got,
           Reading("CHUNK_SIZE", s, read, HexDigits, left, trailer, got),
           read < Len(s), s[read + 1] \in Digits
    PROVE  \E end : DecodesTo(s, trailer, "error", got, end)
<1>1. PICK i \in Nat : /\ ReadingAt("CHUNK_SIZE", s, read, HexDigits, left, trailer, got, i, got)
                       /\ InSize(s, read, HexDigits, left, i)
                       /\ Reaches(s, trailer, i, got)
    BY SizeAt
<1>2. i = read + 1 - HexDigits /\ OnlyDigits(s, i, read)
    BY <1>1 DEF InSize
<1>3. read \in 0 .. Len(s) /\ Len(s) \in Nat /\ HexDigits \in Nat
    BY <1>1, DigitsAssumption DEF ReadingAt
<1>4. i + HexDigits = read + 1 /\ read + 1 <= Len(s)
    BY <1>2, <1>3
<1>5. OnlyDigits(s, i, read + 1)
  <2>1. \A k \in i .. read + 1 : k \in i .. read \/ k = read + 1
      BY <1>3
  <2> QED
      BY <1>2, <2>1 DEF OnlyDigits
<1>6. i + HexDigits <= Len(s) /\ OnlyDigits(s, i, i + HexDigits)
    BY <1>4, <1>5
<1>7. DecodesTo(s, trailer, "error", got, i)
    BY <1>1, <1>6, TooManyDigits
<1> QED
    BY <1>7

\* The digits end.
LEMMA SizeStep ==
    ASSUME NEW s \in Seq(Unit), NEW read, NEW count, NEW left, NEW trailer, NEW got,
           Reading("CHUNK_SIZE", s, read, count, left, trailer, got),
           read < Len(s), s[read + 1] \notin Digits, count # 0
    PROVE  Reading("CHUNK_EXT", s, read, 0, left, trailer, got)
<1>1. PICK i \in Nat : /\ ReadingAt("CHUNK_SIZE", s, read, count, left, trailer, got, i, got)
                       /\ InSize(s, read, count, left, i)
                       /\ Reaches(s, trailer, i, got)
    BY SizeAt
<1>2. /\ i = read + 1 - count /\ count \in 0 .. HexDigits /\ OnlyDigits(s, i, read)
      /\ left = Number(s, i, read)
    BY <1>1 DEF InSize
<1>3. read \in 0 .. Len(s) /\ i \in 1 .. Len(s) + 1 /\ Len(s) \in Nat /\ HexDigits \in Nat
    BY <1>1, DigitsAssumption DEF ReadingAt, Reaches
<1> DEFINE n == read + 1
<1>4. /\ n \in Nat /\ i \in Nat \ {0} /\ i < n /\ n - i <= HexDigits /\ n <= Len(s) /\ n - 1 = read
      /\ n <= read + 1 /\ read < n /\ s[n] \notin Digits
    BY <1>2, <1>3
<1> HIDE DEF n
<1>5. SizeThere(s, i, n) /\ left = Number(s, i, n - 1)
    BY <1>2, <1>4 DEF SizeThere
<1>6. NoLineFeed(s, n, read)
    BY <1>3, <1>4 DEF NoLineFeed
<1>7. InExt(s, read, left, i)
    BY <1>4, <1>5, <1>6 DEF InExt
<1>8. ReadingAt("CHUNK_EXT", s, read, 0, left, trailer, got, i, got)
    BY <1>1, <1>3, <1>7 DEF ReadingAt, At
<1> QED
    BY <1>8, ReadingIs

\* There was none.
LEMMA SizeFails ==
    ASSUME NEW s \in Seq(Unit), NEW read, NEW left, NEW trailer \in BOOLEAN, NEW got,
           Reading("CHUNK_SIZE", s, read, 0, left, trailer, got),
           read < Len(s), s[read + 1] \notin Digits
    PROVE  \E end : DecodesTo(s, trailer, "error", got, end)
<1>1. PICK i \in Nat : /\ ReadingAt("CHUNK_SIZE", s, read, 0, left, trailer, got, i, got)
                       /\ InSize(s, read, 0, left, i)
                       /\ Reaches(s, trailer, i, got)
    BY SizeAt
<1>2. read \in 0 .. Len(s) /\ Len(s) \in Nat /\ i = read + 1 - 0
    BY <1>1 DEF ReadingAt, InSize
<1>3. i <= Len(s) /\ s[i] \notin Digits
    BY <1>2
<1>4. DecodesTo(s, trailer, "error", got, i)
    BY <1>1, <1>3, NoDigit
<1> QED
    BY <1>4

LEMMA ExtAt ==
    ASSUME NEW s \in Seq(Unit), NEW read, NEW count, NEW left, NEW trailer, NEW got,
           Reading("CHUNK_EXT", s, read, count, left, trailer, got)
    PROVE  /\ count = 0 /\ read \in 0 .. Len(s)
           /\ \E i \in Nat : Reaches(s, trailer, i, got) /\ InExt(s, read, left, i)
<1>1. PICK i \in Nat : \E data \in Seq(Unit) :
           ReadingAt("CHUNK_EXT", s, read, count, left, trailer, got, i, data)
    BY DEF Reading
<1>2. PICK data \in Seq(Unit) :
           ReadingAt("CHUNK_EXT", s, read, count, left, trailer, got, i, data)
    BY <1>1
<1>3. count = 0 /\ InExt(s, read, left, i) /\ got = data
    BY <1>2 DEF ReadingAt, At
<1> QED
    BY <1>2, <1>3 DEF ReadingAt

\* The line of the size goes on.
LEMMA ExtStep ==
    ASSUME NEW s \in Seq(Unit), NEW read, NEW count, NEW left, NEW trailer, NEW got,
           Reading("CHUNK_EXT", s, read, count, left, trailer, got),
           read < Len(s), s[read + 1] # "LF"
    PROVE  Reading("CHUNK_EXT", s, read + 1, count, left, trailer, got)
<1>1. count = 0 /\ read \in 0 .. Len(s) /\ Len(s) \in Nat
    BY ExtAt
<1>2. PICK i \in Nat : Reaches(s, trailer, i, got) /\ InExt(s, read, left, i)
    BY ExtAt
<1>3. PICK n \in Nat : /\ SizeThere(s, i, n) /\ n <= read + 1
                       /\ NoLineFeed(s, n, read) /\ left = Number(s, i, n - 1)
    BY <1>2 DEF InExt
<1>4. NoLineFeed(s, n, read + 1)
  <2>1. \A k \in n .. read + 1 : k \in n .. read \/ k = read + 1
      BY <1>1
  <2> QED
      BY <1>3, <2>1 DEF NoLineFeed
<1>5. n <= (read + 1) + 1 /\ read + 1 \in 0 .. Len(s)
    BY <1>1, <1>3
<1>6. InExt(s, read + 1, left, i)
    BY <1>3, <1>4, <1>5 DEF InExt
<1>7. ReadingAt("CHUNK_EXT", s, read + 1, count, left, trailer, got, i, got)
    BY <1>1, <1>2, <1>5, <1>6 DEF ReadingAt, At
<1> QED
    BY <1>7, ReadingIs

\* It ends.
LEMMA ExtEnds ==
    ASSUME NEW s \in Seq(Unit), NEW read, NEW count, NEW left, NEW trailer, NEW got,
           Reading("CHUNK_EXT", s, read, count, left, trailer, got),
           read < Len(s), s[read + 1] = "LF"
    PROVE  /\ count = 0 /\ read + 1 \in 0 .. Len(s)
           /\ \E i \in Nat : \E n \in Nat :
                 /\ Reaches(s, trailer, i, got)
                 /\ HeadOf(s, i, n, read + 1)
                 /\ left = Number(s, i, n - 1)
<1>1. count = 0 /\ read \in 0 .. Len(s) /\ Len(s) \in Nat
    BY ExtAt
<1>2. PICK i \in Nat : Reaches(s, trailer, i, got) /\ InExt(s, read, left, i)
    BY ExtAt
<1>3. PICK n \in Nat : /\ SizeThere(s, i, n) /\ n <= read + 1
                       /\ NoLineFeed(s, n, read) /\ left = Number(s, i, n - 1)
    BY <1>2 DEF InExt
<1>4. /\ read + 1 \in 0 .. Len(s) /\ read + 1 \in Nat /\ read + 1 <= Len(s) /\ (read + 1) - 1 = read
    BY <1>1
<1>5. HeadOf(s, i, n, read + 1)
    BY <1>3, <1>4 DEF HeadOf, SizeThere, NoLineFeed
<1> QED
    BY <1>1, <1>2, <1>3, <1>4, <1>5

LEMMA EmptyPart ==
    ASSUME NEW s, NEW data \in Seq(Unit), NEW n \in Nat
    PROVE  data = data \o SubSeq(s, n + 1, n)
<1>1. SubSeq(s, n + 1, n) = <<>>
    OBVIOUS
<1>2. data \o <<>> = data
    BY ConcatEmptySeq
<1> QED
    BY <1>1, <1>2

\* Data comes.
LEMMA ExtToData ==
    ASSUME NEW s \in Seq(Unit), NEW read, NEW count, NEW left, NEW trailer, NEW got,
           Reading("CHUNK_EXT", s, read, count, left, trailer, got),
           read < Len(s), s[read + 1] = "LF", left # 0
    PROVE  Reading("CHUNK_DATA", s, read + 1, count, left, trailer, got)
<1> DEFINE l == read + 1
<1>1. count = 0 /\ l \in 0 .. Len(s)
    BY ExtEnds
<1>2. PICK i \in Nat : \E n \in Nat :
          /\ Reaches(s, trailer, i, got) /\ HeadOf(s, i, n, l) /\ left = Number(s, i, n - 1)
    BY ExtEnds
<1>3. PICK n \in Nat :
          /\ Reaches(s, trailer, i, got) /\ HeadOf(s, i, n, l) /\ left = Number(s, i, n - 1)
    BY <1>2
<1> HIDE DEF l
<1>4. l \in Nat /\ l <= l /\ got \in Seq(Unit)
    BY <1>1, <1>3 DEF Reaches
<1>5. left \in Nat \ {0}
    BY <1>3, HeadIs
<1>6. got = got \o SubSeq(s, l + 1, l)
    BY <1>4, EmptyPart
<1>7. DataFrom(s, l, left, got, i, got, n, l)
    BY <1>3, <1>4, <1>5, <1>6 DEF DataFrom
<1>8. InData(s, l, left, got, i, got)
    BY <1>3, <1>4, <1>7 DEF InData
<1>9. ReadingAt("CHUNK_DATA", s, l, count, left, trailer, got, i, got)
    BY <1>1, <1>3, <1>8 DEF ReadingAt, At
<1>10. Reading("CHUNK_DATA", s, l, count, left, trailer, got)
    BY <1>9, ReadingIs
<1> QED
    BY <1>10 DEF l

\* The last chunk, and no trailer is wanted.
LEMMA ExtCompletes ==
    ASSUME NEW s \in Seq(Unit), NEW read, NEW count, NEW left, NEW trailer, NEW got,
           Reading("CHUNK_EXT", s, read, count, left, trailer, got),
           read < Len(s), s[read + 1] = "LF", left = 0, trailer = FALSE
    PROVE  DecodesTo(s, trailer, "complete", got, read + 1)
<1>1. PICK i \in Nat : \E n \in Nat :
          /\ Reaches(s, trailer, i, got) /\ HeadOf(s, i, n, read + 1) /\ left = Number(s, i, n - 1)
    BY ExtEnds
<1>2. PICK n \in Nat :
          /\ Reaches(s, trailer, i, got) /\ HeadOf(s, i, n, read + 1) /\ left = Number(s, i, n - 1)
    BY <1>1
<1>3. Reaches(s, FALSE, i, got)
    BY <1>2, Zenon
<1>4. DecodesTo(s, FALSE, "complete", got, read + 1)
    BY <1>2, <1>3, LastWithoutTrailer
<1> QED
    BY <1>4, Zenon

\* The last chunk, and a trailer comes.
LEMMA ExtToTrailer ==
    ASSUME NEW s \in Seq(Unit), NEW read, NEW count, NEW left, NEW trailer, NEW got,
           Reading("CHUNK_EXT", s, read, count, left, trailer, got),
           read < Len(s), s[read + 1] = "LF", left = 0
    PROVE  trailer = TRUE => Reading("TRAILERS_LINE_HEAD", s, read + 1, count, left, trailer, got)
<1> DEFINE l == read + 1
<1>1. count = 0 /\ l \in 0 .. Len(s)
    BY ExtEnds
<1>2. PICK i \in Nat : \E n \in Nat :
          /\ Reaches(s, trailer, i, got) /\ HeadOf(s, i, n, l) /\ left = Number(s, i, n - 1)
    BY ExtEnds
<1>3. PICK n \in Nat :
          /\ Reaches(s, trailer, i, got) /\ HeadOf(s, i, n, l) /\ left = Number(s, i, n - 1)
    BY <1>2
<1> HIDE DEF l
<1>4. l \in Nat /\ l <= l
    BY <1>1
<1>5. NoBlank(s, l + 1, l)
    BY <1>4 DEF NoBlank
<1>6. LineStart(s, l + 1, l + 1)
  <2>1. OnlyReturns(s, l + 1, (l + 1) - 1) /\ l + 1 \in l + 1 .. l + 1
      BY <1>4 DEF OnlyReturns
  <2> QED
      BY <2>1 DEF LineStart
<1>7. TrailerFrom(s, l, i, n, l)
    BY <1>3, <1>4, <1>5 DEF TrailerFrom
<1>8. InHead(s, l, i)
    BY <1>3, <1>4, <1>6, <1>7 DEF InHead
<1>9. trailer = TRUE => At("TRAILERS_LINE_HEAD", s, l, count, left, trailer, got, i, got)
    BY <1>8, Zenon DEF At
<1>10. trailer = TRUE => ReadingAt("TRAILERS_LINE_HEAD", s, l, count, left, trailer, got, i, got)
    BY <1>1, <1>3, <1>9, Zenon DEF ReadingAt
<1>11. trailer = TRUE => Reading("TRAILERS_LINE_HEAD", s, l, count, left, trailer, got)
    BY <1>10, ReadingIs, Zenon
<1> QED
    BY <1>11, Zenon DEF l

\* n units of data.
LEMMA DataAt ==
    ASSUME NEW s \in Seq(Unit), NEW read, NEW count, NEW left, NEW trailer, NEW got,
           Reading("CHUNK_DATA", s, read, count, left, trailer, got)
    PROVE  /\ count = 0 /\ read \in 0 .. Len(s) /\ left \in Nat \ {0}
           /\ \E i \in Nat : \E data \in Seq(Unit) :
                 Reaches(s, trailer, i, data) /\ InData(s, read, left, got, i, data)
<1>1. PICK i \in Nat : \E data \in Seq(Unit) :
           ReadingAt("CHUNK_DATA", s, read, count, left, trailer, got, i, data)
    BY DEF Reading
<1>2. PICK data \in Seq(Unit) :
           ReadingAt("CHUNK_DATA", s, read, count, left, trailer, got, i, data)
    BY <1>1
<1>3. count = 0 /\ InData(s, read, left, got, i, data)
    BY <1>2 DEF ReadingAt, At
<1>4. left \in Nat \ {0}
    BY <1>3 DEF InData, DataFrom
<1> QED
    BY <1>2, <1>3, <1>4 DEF ReadingAt

Joined(s, data, l, j, k) ==
    (data \o SubSeq(s, l + 1, j)) \o SubSeq(s, j + 1, k) = data \o SubSeq(s, l + 1, k)

LEMMA DataJoined ==
    ASSUME NEW s \in Seq(Unit), NEW data \in Seq(Unit), NEW l \in Nat, NEW j \in Nat, NEW k \in Nat,
           l <= j, j <= k, k <= Len(s)
    PROVE  Joined(s, data, l, j, k)
<1>1. /\ l + 1 \in 1 .. Len(s) + 1 /\ j \in (l + 1) - 1 .. Len(s) /\ k \in j .. Len(s)
      /\ j + 1 \in 1 .. Len(s) + 1 /\ k \in (j + 1) - 1 .. Len(s)
    OBVIOUS
<1> DEFINE a == SubSeq(s, l + 1, j)
           b == SubSeq(s, j + 1, k)
<1>2. a \o b = SubSeq(s, l + 1, k)
    BY <1>1, ConcatAdjacentSubSeq
<1>3. a \in Seq(Unit) /\ b \in Seq(Unit)
    BY <1>1, SubSeqIs
<1> HIDE DEF a, b
<1>4. (data \o a) \o b = data \o (a \o b)
    BY <1>3, ConcatAssociative
<1> QED
    BY <1>2, <1>4 DEF a, b, Joined

\* Less than is left.
LEMMA DataStep ==
    ASSUME NEW s \in Seq(Unit), NEW read, NEW count, NEW left, NEW trailer, NEW got,
           Reading("CHUNK_DATA", s, read, count, left, trailer, got),
           NEW k \in Nat, k < left, read + k <= Len(s)
    PROVE  Reading("CHUNK_DATA", s, read + k, count, left - k, trailer,
                   got \o SubSeq(s, read + 1, read + k))
<1>1. count = 0 /\ read \in 0 .. Len(s) /\ left \in Nat \ {0} /\ Len(s) \in Nat
    BY DataAt
<1>2. PICK i \in Nat : \E data \in Seq(Unit) :
           Reaches(s, trailer, i, data) /\ InData(s, read, left, got, i, data)
    BY DataAt
<1>3. PICK data \in Seq(Unit) :
           Reaches(s, trailer, i, data) /\ InData(s, read, left, got, i, data)
    BY <1>2
<1>4. PICK n, l \in Nat : DataFrom(s, read, left, got, i, data, n, l)
    BY <1>3 DEF InData
<1> DEFINE z == Number(s, i, n - 1)
           more == got \o SubSeq(s, read + 1, read + k)
<1>5. HeadOf(s, i, n, l) /\ l <= read /\ read + left = l + z /\ got = data \o SubSeq(s, l + 1, read)
    BY <1>4 DEF DataFrom
<1>6. z \in Nat
    BY <1>5, HeadIs
<1>7. /\ read \in Nat /\ read + k \in Nat /\ read <= read + k
      /\ left - k \in Nat \ {0} /\ read + k \in 0 .. Len(s) /\ l <= read + k
      /\ (read + k) + (left - k) = l + z
  <2> HIDE DEF z
  <2> QED
      BY <1>1, <1>5, <1>6
<1>8. more = data \o SubSeq(s, l + 1, read + k)
  <2> DEFINE e == read + k
  <2>1. l <= read /\ e \in Nat /\ read <= e /\ e <= Len(s)
      BY <1>5, <1>7
  <2> HIDE DEF e
  <2>2. Joined(s, data, l, read, e)
      BY <1>7, <2>1, DataJoined
  <2> QED
      BY <1>5, <2>2 DEF e, Joined
<1> HIDE DEF more
<1>9. DataFrom(s, read + k, left - k, more, i, data, n, l)
    BY <1>5, <1>7, <1>8 DEF DataFrom
<1>10. InData(s, read + k, left - k, more, i, data)
    BY <1>9 DEF InData
<1>11. ReadingAt("CHUNK_DATA", s, read + k, count, left - k, trailer, more, i, data)
    BY <1>1, <1>3, <1>7, <1>10 DEF ReadingAt, At
<1>12. Reading("CHUNK_DATA", s, read + k, count, left - k, trailer, more)
    BY <1>11, ReadingIs
<1> QED
    BY <1>12 DEF more

\* All that is left.
LEMMA DataEnds ==
    ASSUME NEW s \in Seq(Unit), NEW read, NEW count, NEW left, NEW trailer, NEW got,
           Reading("CHUNK_DATA", s, read, count, left, trailer, got), read + left <= Len(s)
    PROVE  Reading("CHUNK_CRLF", s, read + left, count, 0, trailer,
                   got \o SubSeq(s, read + 1, read + left))
<1>1. count = 0 /\ read \in 0 .. Len(s) /\ left \in Nat \ {0} /\ Len(s) \in Nat
    BY DataAt
<1>2. PICK i \in Nat : \E data \in Seq(Unit) :
           Reaches(s, trailer, i, data) /\ InData(s, read, left, got, i, data)
    BY DataAt
<1>3. PICK data \in Seq(Unit) :
           Reaches(s, trailer, i, data) /\ InData(s, read, left, got, i, data)
    BY <1>2
<1>4. PICK n, l \in Nat : DataFrom(s, read, left, got, i, data, n, l)
    BY <1>3 DEF InData
<1> DEFINE z == Number(s, i, n - 1)
           e == read + left
           more == got \o SubSeq(s, read + 1, e)
<1>5. HeadOf(s, i, n, l) /\ l <= read /\ e = l + z /\ got = data \o SubSeq(s, l + 1, read)
    BY <1>4 DEF DataFrom
<1>6. z \in Nat
    BY <1>5, HeadIs
<1>7. read \in Nat /\ e \in Nat /\ read <= e /\ e \in 0 .. Len(s) /\ e <= Len(s)
    BY <1>1
<1>8. z # 0
  <2>1. l + z = read + left
      BY <1>5
  <2> HIDE DEF z
  <2> QED
      BY <1>1, <1>5, <1>6, <2>1
<1> HIDE DEF e
<1>9. more = data \o SubSeq(s, l + 1, e)
  <2>1. Joined(s, data, l, read, e)
    <3>1. l <= read
        BY <1>5
    <3> QED
        BY <1>7, <3>1, DataJoined
  <2> QED
      BY <1>5, <2>1 DEF Joined
<1>10. OnlyReturns(s, l + 1 + z, e)
  <2> HIDE DEF z
  <2> QED
      BY <1>5, <1>6, <1>7 DEF OnlyReturns
<1>11. l + z <= e /\ more = data \o SubSeq(s, l + 1, l + z)
  <2>1. e <= e
      BY <1>7
  <2> HIDE DEF more
  <2> QED
      BY <1>5, <1>9, <2>1
<1> HIDE DEF more
<1>12. ReturnsFrom(s, e, more, i, data, n, l)
    BY <1>5, <1>8, <1>10, <1>11 DEF ReturnsFrom
<1>13. InCrlf(s, e, more, i, data)
    BY <1>12 DEF InCrlf
<1>14. ReadingAt("CHUNK_CRLF", s, e, count, 0, trailer, more, i, data)
    BY <1>1, <1>3, <1>7, <1>13 DEF ReadingAt, At
<1>15. Reading("CHUNK_CRLF", s, e, count, 0, trailer, more)
    BY <1>14, ReadingIs
<1> QED
    BY <1>15 DEF e, more

LEMMA CrlfAt ==
    ASSUME NEW s \in Seq(Unit), NEW read, NEW count, NEW left, NEW trailer, NEW got,
           Reading("CHUNK_CRLF", s, read, count, left, trailer, got), read < Len(s)
    PROVE  /\ count = 0 /\ left = 0 /\ read \in 0 .. Len(s)
           /\ \E i \in Nat : \E data \in Seq(Unit) :
                 Reaches(s, trailer, i, data) /\ InCrlf(s, read, got, i, data)
<1>1. PICK i \in Nat : \E data \in Seq(Unit) :
           ReadingAt("CHUNK_CRLF", s, read, count, left, trailer, got, i, data)
    BY DEF Reading
<1>2. PICK data \in Seq(Unit) :
           ReadingAt("CHUNK_CRLF", s, read, count, left, trailer, got, i, data)
    BY <1>1
<1>3. count = 0 /\ left = 0 /\ InCrlf(s, read, got, i, data)
    BY <1>2 DEF ReadingAt, At
<1> QED
    BY <1>2, <1>3 DEF ReadingAt

\* A carriage return.
LEMMA CrlfStep ==
    ASSUME NEW s \in Seq(Unit), NEW read, NEW count, NEW left, NEW trailer, NEW got,
           Reading("CHUNK_CRLF", s, read, count, left, trailer, got), read < Len(s), s[read + 1] = "CR"
    PROVE  Reading("CHUNK_CRLF", s, read + 1, count, left, trailer, got)
<1>1. count = 0 /\ left = 0 /\ read \in 0 .. Len(s) /\ Len(s) \in Nat
    BY CrlfAt
<1>2. PICK i \in Nat : \E data \in Seq(Unit) :
           Reaches(s, trailer, i, data) /\ InCrlf(s, read, got, i, data)
    BY CrlfAt
<1>3. PICK data \in Seq(Unit) : Reaches(s, trailer, i, data) /\ InCrlf(s, read, got, i, data)
    BY <1>2
<1>4. PICK n, l \in Nat : ReturnsFrom(s, read, got, i, data, n, l)
    BY <1>3 DEF InCrlf
<1> DEFINE z == Number(s, i, n - 1)
<1>5. /\ HeadOf(s, i, n, l) /\ z # 0 /\ l + z <= read
      /\ OnlyReturns(s, l + 1 + z, read) /\ got = data \o SubSeq(s, l + 1, l + z)
    BY <1>4 DEF ReturnsFrom
<1>6. z \in Nat
    BY <1>5, HeadIs
<1>7. OnlyReturns(s, l + 1 + z, read + 1)
  <2> HIDE DEF z
  <2>1. \A k \in l + 1 + z .. read + 1 : k \in l + 1 + z .. read \/ k = read + 1
      BY <1>1, <1>6
  <2> QED
      BY <1>5, <2>1 DEF OnlyReturns
<1>8. l + z <= read + 1 /\ read + 1 \in 0 .. Len(s)
  <2> HIDE DEF z
  <2> QED
      BY <1>1, <1>5, <1>6
<1>9. ReturnsFrom(s, read + 1, got, i, data, n, l)
    BY <1>5, <1>7, <1>8 DEF ReturnsFrom
<1>10. InCrlf(s, read + 1, got, i, data)
    BY <1>9 DEF InCrlf
<1>11. ReadingAt("CHUNK_CRLF", s, read + 1, count, left, trailer, got, i, data)
    BY <1>1, <1>3, <1>8, <1>10 DEF ReadingAt, At
<1> QED
    BY <1>11, ReadingIs

\* A line feed: the next chunk.
LEMMA CrlfEnds ==
    ASSUME NEW s \in Seq(Unit), NEW read, NEW count, NEW left, NEW trailer \in BOOLEAN, NEW got,
           Reading("CHUNK_CRLF", s, read, count, left, trailer, got), read < Len(s), s[read + 1] = "LF"
    PROVE  Reading("CHUNK_SIZE", s, read + 1, count, left, trailer, got)
<1>1. count = 0 /\ left = 0 /\ read \in 0 .. Len(s) /\ Len(s) \in Nat
    BY CrlfAt
<1>2. PICK i \in Nat : \E data \in Seq(Unit) :
           Reaches(s, trailer, i, data) /\ InCrlf(s, read, got, i, data)
    BY CrlfAt
<1>3. PICK data \in Seq(Unit) : Reaches(s, trailer, i, data) /\ InCrlf(s, read, got, i, data)
    BY <1>2
<1>4. PICK n, l \in Nat : ReturnsFrom(s, read, got, i, data, n, l)
    BY <1>3 DEF InCrlf
<1> DEFINE z == Number(s, i, n - 1)
           e == read + 1
<1>5. /\ HeadOf(s, i, n, l) /\ z # 0 /\ l + z <= read
      /\ OnlyReturns(s, l + 1 + z, read) /\ got = data \o SubSeq(s, l + 1, l + z)
    BY <1>4 DEF ReturnsFrom
<1>6. z \in Nat
    BY <1>5, HeadIs
<1>7. /\ e \in 1 .. Len(s) /\ l + 1 + z <= e /\ e - 1 = read /\ s[e] = "LF"
      /\ e \in 0 .. Len(s) /\ e + 1 \in 1 .. Len(s) + 1 /\ (e + 1) - 1 = e /\ e + 1 = e + 1 - 0
  <2> HIDE DEF z
  <2> QED
      BY <1>1, <1>5, <1>6
<1> HIDE DEF e
<1>8. Reaches(s, trailer, e + 1, got)
  <2>1. Reaches(s, trailer, e + 1, data \o SubSeq(s, l + 1, l + z))
      BY <1>3, <1>5, <1>7, ReachesNext
  <2> QED
      BY <1>5, <2>1
<1>9. Number(s, e + 1, e) = 0
    BY <1>7, NumberOfNone
<1>10. OnlyDigits(s, e + 1, e)
    BY <1>7 DEF OnlyDigits
<1>11. 0 \in 0 .. HexDigits /\ SixteenTo[0] = 1
    BY DigitsAssumption, PowersOfSixteen
<1>12. InSize(s, e, 0, 0, e + 1)
    BY <1>7, <1>9, <1>10, <1>11 DEF InSize
<1>13. ReadingAt("CHUNK_SIZE", s, e, 0, 0, trailer, got, e + 1, got)
    BY <1>7, <1>8, <1>12 DEF ReadingAt, At
<1>14. Reading("CHUNK_SIZE", s, e, 0, 0, trailer, got)
    BY <1>13, ReadingIs
<1> QED
    BY <1>1, <1>14 DEF e

\* Anything else.
LEMMA CrlfFails ==
    ASSUME NEW s \in Seq(Unit), NEW read, NEW count, NEW left, NEW trailer \in BOOLEAN, NEW got,
           Reading("CHUNK_CRLF", s, read, count, left, trailer, got), read < Len(s),
           s[read + 1] \notin {"CR", "LF"}
    PROVE  \E end : DecodesTo(s, trailer, "error", got, end)
<1>1. count = 0 /\ left = 0 /\ read \in 0 .. Len(s) /\ Len(s) \in Nat
    BY CrlfAt
<1>2. PICK i \in Nat : \E data \in Seq(Unit) :
           Reaches(s, trailer, i, data) /\ InCrlf(s, read, got, i, data)
    BY CrlfAt
<1>3. PICK data \in Seq(Unit) : Reaches(s, trailer, i, data) /\ InCrlf(s, read, got, i, data)
    BY <1>2
<1>4. PICK n, l \in Nat : ReturnsFrom(s, read, got, i, data, n, l)
    BY <1>3 DEF InCrlf
<1> DEFINE z == Number(s, i, n - 1)
           e == read + 1
<1>5. /\ HeadOf(s, i, n, l) /\ z # 0 /\ l + z <= read
      /\ OnlyReturns(s, l + 1 + z, read) /\ got = data \o SubSeq(s, l + 1, l + z)
    BY <1>4 DEF ReturnsFrom
<1>6. z \in Nat
    BY <1>5, HeadIs
<1>7. e \in 1 .. Len(s) /\ l + 1 + z <= e /\ e - 1 = read /\ s[e] \notin {"CR", "LF"}
  <2> HIDE DEF z
  <2> QED
      BY <1>1, <1>5, <1>6
<1> HIDE DEF e
<1>8. DecodesTo(s, trailer, "error", data \o SubSeq(s, l + 1, l + z), i)
    BY <1>3, <1>5, <1>7, NoLineEnd
<1> QED
    BY <1>5, <1>8

LEMMA HeadAt ==
    ASSUME NEW s \in Seq(Unit), NEW read, NEW count, NEW left, NEW trailer, NEW got,
           Reading("TRAILERS_LINE_HEAD", s, read, count, left, trailer, got)
    PROVE  /\ trailer /\ read \in 0 .. Len(s)
           /\ \E i \in Nat : Reaches(s, trailer, i, got) /\ InHead(s, read, i)
<1>1. PICK i \in Nat : \E data \in Seq(Unit) :
           ReadingAt("TRAILERS_LINE_HEAD", s, read, count, left, trailer, got, i, data)
    BY DEF Reading
<1>2. PICK data \in Seq(Unit) :
           ReadingAt("TRAILERS_LINE_HEAD", s, read, count, left, trailer, got, i, data)
    BY <1>1
<1>3. trailer
    BY <1>2 DEF ReadingAt, At
<1>4. InHead(s, read, i) /\ got = data
    BY <1>2 DEF ReadingAt, At
<1>5. read \in 0 .. Len(s) /\ Reaches(s, trailer, i, data)
    BY <1>2 DEF ReadingAt
<1> QED
    BY <1>3, <1>4, <1>5, Zenon

LEMMA MiddleAt ==
    ASSUME NEW s \in Seq(Unit), NEW read, NEW count, NEW left, NEW trailer, NEW got,
           Reading("TRAILERS_LINE_MIDDLE", s, read, count, left, trailer, got)
    PROVE  /\ trailer /\ read \in 0 .. Len(s)
           /\ \E i \in Nat : Reaches(s, trailer, i, got) /\ InMiddle(s, read, i)
<1>1. PICK i \in Nat : \E data \in Seq(Unit) :
           ReadingAt("TRAILERS_LINE_MIDDLE", s, read, count, left, trailer, got, i, data)
    BY DEF Reading
<1>2. PICK data \in Seq(Unit) :
           ReadingAt("TRAILERS_LINE_MIDDLE", s, read, count, left, trailer, got, i, data)
    BY <1>1
<1>3. trailer
    BY <1>2 DEF ReadingAt, At
<1>4. InMiddle(s, read, i) /\ got = data
    BY <1>2 DEF ReadingAt, At
<1>5. read \in 0 .. Len(s) /\ Reaches(s, trailer, i, data)
    BY <1>2 DEF ReadingAt
<1> QED
    BY <1>3, <1>4, <1>5, Zenon

LEMMA TrailerMore ==
    ASSUME NEW s \in Seq(Unit), NEW read \in Nat, NEW i, NEW n, NEW l,
           TrailerFrom(s, read, i, n, l), ~ BlankAt(s, l + 1, read + 1)
    PROVE  TrailerFrom(s, read + 1, i, n, l)
<1>1. /\ HeadOf(s, i, n, l) /\ Number(s, i, n - 1) = 0 /\ l <= read
      /\ NoBlank(s, l + 1, read) /\ l \in Nat
    BY DEF TrailerFrom, HeadOf
<1>2. \A k \in l + 1 .. read + 1 : k \in l + 1 .. read \/ k = read + 1
    BY <1>1
<1>3. NoBlank(s, l + 1, read + 1)
    BY <1>1, <1>2 DEF NoBlank
<1>4. l <= read + 1
    BY <1>1
<1> QED
    BY <1>1, <1>3, <1>4 DEF TrailerFrom

LEMMA HeadToReading ==
    ASSUME NEW s \in Seq(Unit), NEW read \in 0 .. Len(s), NEW count, NEW left, NEW trailer, NEW got,
           NEW i, Reaches(s, trailer, i, got), InHead(s, read, i)
    PROVE  trailer => Reading("TRAILERS_LINE_HEAD", s, read, count, left, trailer, got)
<1>1. trailer => At("TRAILERS_LINE_HEAD", s, read, count, left, trailer, got, i, got)
    BY Zenon DEF At
<1>2. trailer => ReadingAt("TRAILERS_LINE_HEAD", s, read, count, left, trailer, got, i, got)
    BY <1>1, Zenon DEF ReadingAt
<1> QED
    BY <1>2, ReadingIs, Zenon

LEMMA MiddleToReading ==
    ASSUME NEW s \in Seq(Unit), NEW read \in 0 .. Len(s), NEW count, NEW left, NEW trailer, NEW got,
           NEW i, Reaches(s, trailer, i, got), InMiddle(s, read, i)
    PROVE  trailer => Reading("TRAILERS_LINE_MIDDLE", s, read, count, left, trailer, got)
<1>1. trailer => At("TRAILERS_LINE_MIDDLE", s, read, count, left, trailer, got, i, got)
    BY Zenon DEF At
<1>2. trailer => ReadingAt("TRAILERS_LINE_MIDDLE", s, read, count, left, trailer, got, i, got)
    BY <1>1, Zenon DEF ReadingAt
<1> QED
    BY <1>2, ReadingIs, Zenon

\* A carriage return at the start of a line of the trailer.
LEMMA HeadStep ==
    ASSUME NEW s \in Seq(Unit), NEW read, NEW count, NEW left, NEW trailer, NEW got,
           Reading("TRAILERS_LINE_HEAD", s, read, count, left, trailer, got),
           read < Len(s), s[read + 1] = "CR"
    PROVE  Reading("TRAILERS_LINE_HEAD", s, read + 1, count, left, trailer, got)
<1>1. trailer
    BY HeadAt
<1>2. read \in 0 .. Len(s) /\ Len(s) \in Nat
    BY HeadAt
<1>3. PICK i \in Nat : Reaches(s, trailer, i, got) /\ InHead(s, read, i)
    BY HeadAt
<1>4. PICK n, l \in Nat : TrailerFrom(s, read, i, n, l) /\ LineStart(s, l + 1, read + 1)
    BY <1>3 DEF InHead
<1>5. TrailerFrom(s, read + 1, i, n, l)
  <2>1. ~ BlankAt(s, l + 1, read + 1) /\ read \in Nat
      BY <1>2 DEF BlankAt
  <2> QED
      BY <1>4, <2>1, TrailerMore
<1>6. LineStart(s, l + 1, (read + 1) + 1)
  <2>1. PICK b \in l + 1 .. read + 1 : /\ b = l + 1 \/ s[b - 1] = "LF"
                                       /\ OnlyReturns(s, b, (read + 1) - 1)
      BY <1>4 DEF LineStart
  <2>2. /\ b \in l + 1 .. (read + 1) + 1
        /\ \A k \in b .. ((read + 1) + 1) - 1 : k \in b .. (read + 1) - 1 \/ k = read + 1
      BY <1>2
  <2>3. OnlyReturns(s, b, ((read + 1) + 1) - 1)
      BY <2>1, <2>2 DEF OnlyReturns
  <2> QED
      BY <2>1, <2>2, <2>3 DEF LineStart
<1>7. InHead(s, read + 1, i)
    BY <1>5, <1>6 DEF InHead
<1>8. read + 1 \in 0 .. Len(s)
    BY <1>2
<1>9. trailer => Reading("TRAILERS_LINE_HEAD", s, read + 1, count, left, trailer, got)
    BY <1>3, <1>7, <1>8, HeadToReading
<1> QED
    BY <1>1, <1>9, Zenon

\* A line that is not blank.
LEMMA HeadToMiddle ==
    ASSUME NEW s \in Seq(Unit), NEW read, NEW count, NEW left, NEW trailer, NEW got,
           Reading("TRAILERS_LINE_HEAD", s, read, count, left, trailer, got),
           read < Len(s), s[read + 1] \notin {"CR", "LF"}
    PROVE  Reading("TRAILERS_LINE_MIDDLE", s, read + 1, count, left, trailer, got)
<1>1. trailer
    BY HeadAt
<1>2. read \in 0 .. Len(s) /\ Len(s) \in Nat
    BY HeadAt
<1>3. PICK i \in Nat : Reaches(s, trailer, i, got) /\ InHead(s, read, i)
    BY HeadAt
<1>4. PICK n, l \in Nat : TrailerFrom(s, read, i, n, l) /\ LineStart(s, l + 1, read + 1)
    BY <1>3 DEF InHead
<1>5. TrailerFrom(s, read + 1, i, n, l)
  <2>1. ~ BlankAt(s, l + 1, read + 1) /\ read \in Nat
      BY <1>2 DEF BlankAt
  <2> QED
      BY <1>4, <2>1, TrailerMore
<1>6. LineMiddle(s, l + 1, read + 1)
  <2> DEFINE m == read + 1
  <2>1. m \in l + 1 .. m
      BY <1>2, <1>4 DEF TrailerFrom
  <2>2. NoLineFeed(s, m + 1, m)
      BY <1>2 DEF NoLineFeed
  <2>3. s[m] \notin {"CR", "LF"}
      OBVIOUS
  <2> HIDE DEF m
  <2>4. LineMiddle(s, l + 1, m)
      BY <2>1, <2>2, <2>3 DEF LineMiddle
  <2> QED
      BY <2>4 DEF m
<1>7. InMiddle(s, read + 1, i)
    BY <1>5, <1>6 DEF InMiddle
<1>8. read + 1 \in 0 .. Len(s)
    BY <1>2
<1>9. trailer => Reading("TRAILERS_LINE_MIDDLE", s, read + 1, count, left, trailer, got)
    BY <1>3, <1>7, <1>8, MiddleToReading
<1> QED
    BY <1>1, <1>9, Zenon

\* The blank line.
LEMMA HeadCompletes ==
    ASSUME NEW s \in Seq(Unit), NEW read, NEW count, NEW left, NEW trailer \in BOOLEAN, NEW got,
           Reading("TRAILERS_LINE_HEAD", s, read, count, left, trailer, got),
           read < Len(s), s[read + 1] = "LF"
    PROVE  DecodesTo(s, trailer, "complete", got, read + 1)
<1>1. trailer
    BY HeadAt
<1>2. read \in 0 .. Len(s) /\ Len(s) \in Nat
    BY HeadAt
<1>3. PICK i \in Nat : Reaches(s, trailer, i, got) /\ InHead(s, read, i)
    BY HeadAt
<1>4. PICK n, l \in Nat : TrailerFrom(s, read, i, n, l) /\ LineStart(s, l + 1, read + 1)
    BY <1>3 DEF InHead
<1> DEFINE m == read + 1
<1>5. /\ HeadOf(s, i, n, l) /\ Number(s, i, n - 1) = 0 /\ l <= read /\ NoBlank(s, l + 1, read)
    BY <1>4 DEF TrailerFrom
<1>6. m \in 1 .. Len(s) + 1 /\ m <= Len(s) /\ l + 1 <= m /\ m - 1 = read /\ s[m] = "LF"
    BY <1>2, <1>5
<1>7. LineStart(s, l + 1, m)
    BY <1>4
<1> HIDE DEF m
<1>8. BlankAt(s, l + 1, m)
  <2>1. PICK b \in l + 1 .. m : /\ b = l + 1 \/ s[b - 1] = "LF"
                                /\ OnlyReturns(s, b, m - 1)
      BY <1>7 DEF LineStart
  <2> QED
      BY <1>6, <2>1 DEF BlankAt, OnlyReturns
<1>9. IsBlankLine(s, l + 1, m)
    BY <1>5, <1>6, <1>8 DEF IsBlankLine, NoBlank
<1>10. Reaches(s, TRUE, i, got)
  <2>1. trailer = TRUE
      BY <1>1, Zenon
  <2> QED
      BY <1>3, <2>1, Zenon
<1>11. DecodesTo(s, TRUE, IF m <= Len(s) THEN "complete" ELSE "incomplete", got, m)
    BY <1>5, <1>9, <1>10, LastWithTrailer
<1>12. DecodesTo(s, TRUE, "complete", got, m)
    BY <1>6, <1>11
<1> QED
    BY <1>1, <1>12, Zenon DEF m

\* The end of a line that is not blank.
LEMMA MiddleEnds ==
    ASSUME NEW s \in Seq(Unit), NEW read, NEW count, NEW left, NEW trailer, NEW got,
           Reading("TRAILERS_LINE_MIDDLE", s, read, count, left, trailer, got),
           read < Len(s), s[read + 1] = "LF"
    PROVE  Reading("TRAILERS_LINE_HEAD", s, read + 1, count, left, trailer, got)
<1>1. trailer
    BY MiddleAt
<1>2. read \in 0 .. Len(s) /\ Len(s) \in Nat
    BY MiddleAt
<1>3. PICK i \in Nat : Reaches(s, trailer, i, got) /\ InMiddle(s, read, i)
    BY MiddleAt
<1>4. PICK n, l \in Nat : TrailerFrom(s, read, i, n, l) /\ LineMiddle(s, l + 1, read)
    BY <1>3 DEF InMiddle
<1>5. PICK m \in l + 1 .. read : s[m] \notin {"CR", "LF"} /\ NoLineFeed(s, m + 1, read)
    BY <1>4 DEF LineMiddle
<1>6. ~ BlankAt(s, l + 1, read + 1)
  <2> SUFFICES ASSUME BlankAt(s, l + 1, read + 1) PROVE FALSE
      OBVIOUS
  <2>1. PICK b \in l + 1 .. read + 1 : /\ b = l + 1 \/ s[b - 1] = "LF"
                                       /\ \A k \in b .. (read + 1) - 1 : s[k] = "CR"
      BY DEF BlankAt
  <2>2. b <= m => m \in b .. (read + 1) - 1
      BY <1>2
  <2>3. m < b
      BY <1>2, <1>5, <2>1, <2>2
  <2>4. b # l + 1 /\ b - 1 \in m .. read
      BY <1>2, <2>3
  <2>5. s[b - 1] = "LF"
      BY <2>1, <2>4
  <2>6. b - 1 = m \/ b - 1 \in m + 1 .. read
      BY <1>2, <2>4
  <2> QED
      BY <1>5, <2>5, <2>6 DEF NoLineFeed
<1>7. TrailerFrom(s, read + 1, i, n, l)
  <2>1. read \in Nat
      BY <1>2
  <2> QED
      BY <1>4, <1>6, <2>1, TrailerMore
<1>8. LineStart(s, l + 1, (read + 1) + 1)
  <2> DEFINE b == (read + 1) + 1
  <2>1. b \in l + 1 .. b /\ s[b - 1] = "LF"
      BY <1>2, <1>5
  <2>2. OnlyReturns(s, b, b - 1)
      BY <1>2 DEF OnlyReturns
  <2> HIDE DEF b
  <2>3. LineStart(s, l + 1, b)
      BY <2>1, <2>2 DEF LineStart
  <2> QED
      BY <2>3 DEF b
<1>9. InHead(s, read + 1, i)
    BY <1>7, <1>8 DEF InHead
<1>10. read + 1 \in 0 .. Len(s)
    BY <1>2
<1>11. trailer => Reading("TRAILERS_LINE_HEAD", s, read + 1, count, left, trailer, got)
    BY <1>3, <1>9, <1>10, HeadToReading
<1> QED
    BY <1>1, <1>11, Zenon

\* It goes on.
LEMMA MiddleStep ==
    ASSUME NEW s \in Seq(Unit), NEW read, NEW count, NEW left, NEW trailer, NEW got,
           Reading("TRAILERS_LINE_MIDDLE", s, read, count, left, trailer, got),
           read < Len(s), s[read + 1] # "LF"
    PROVE  Reading("TRAILERS_LINE_MIDDLE", s, read + 1, count, left, trailer, got)
<1>1. trailer
    BY MiddleAt
<1>2. read \in 0 .. Len(s) /\ Len(s) \in Nat
    BY MiddleAt
<1>3. PICK i \in Nat : Reaches(s, trailer, i, got) /\ InMiddle(s, read, i)
    BY MiddleAt
<1>4. PICK n, l \in Nat : TrailerFrom(s, read, i, n, l) /\ LineMiddle(s, l + 1, read)
    BY <1>3 DEF InMiddle
<1>5. PICK m \in l + 1 .. read : s[m] \notin {"CR", "LF"} /\ NoLineFeed(s, m + 1, read)
    BY <1>4 DEF LineMiddle
<1>6. TrailerFrom(s, read + 1, i, n, l)
  <2>1. ~ BlankAt(s, l + 1, read + 1) /\ read \in Nat
      BY <1>2 DEF BlankAt
  <2> QED
      BY <1>4, <2>1, TrailerMore
<1>7. LineMiddle(s, l + 1, read + 1)
  <2>1. m \in l + 1 .. read + 1 /\ \A k \in m + 1 .. read + 1 : k \in m + 1 .. read \/ k = read + 1
      BY <1>2
  <2>2. NoLineFeed(s, m + 1, read + 1)
      BY <1>5, <2>1 DEF NoLineFeed
  <2> QED
      BY <1>5, <2>1, <2>2 DEF LineMiddle
<1>8. InMiddle(s, read + 1, i)
    BY <1>6, <1>7 DEF InMiddle
<1>9. read + 1 \in 0 .. Len(s)
    BY <1>2
<1>10. trailer => Reading("TRAILERS_LINE_MIDDLE", s, read + 1, count, left, trailer, got)
    BY <1>3, <1>8, <1>9, MiddleToReading
<1> QED
    BY <1>1, <1>10, Zenon

-----------------------------------------------------------------------------
(* The calls. *)

\* How much of all that arrived was read, and what was decoded of it.
Read == Len(stream) - bufsz + src

Got == IF calling THEN output \o SubSeq(buf, 1, dst) ELSE output

\* While the body is neither complete nor wrong, the decoder's state is that of what it read.
Progress ==
    ret = Incomplete =>
        /\ Reading(_state, stream, Read, _hex_count, bytes_left_in_chunk, consume_trailer, Got)
        /\ ~calling => src = bufsz

Results ==
    /\ consume_trailer \in BOOLEAN
    /\ output \in Seq(Unit)
    /\ calling => ret = Incomplete

DecodingInv == DecoderInv /\ Results /\ Progress /\ DecodesWholeStream

LEMMA BoundsAre ==
    ASSUME DecoderInv
    PROVE  /\ bufsz \in Nat /\ bufsz = Len(buf) /\ buf \in Seq(Unit) /\ Len(buf) <= Len(stream)
           /\ stream \in Seq(Unit) /\ Len(stream) \in Nat /\ src \in Nat /\ dst \in Nat
           /\ bytes_left_in_chunk \in Nat
           /\ calling => dst <= src /\ src <= bufsz
    BY DEF DecoderInv, Pieces, Positions, UnreadIntact, bufsz

\* The next unit of the piece is the next unit of the body.
LEMMA NextIs ==
    ASSUME DecoderInv, calling, src < bufsz
    PROVE  Next1 = stream[Read + 1] /\ Read < Len(stream) /\ Read \in Nat
<1>1. /\ bufsz \in Nat /\ Len(stream) \in Nat /\ src \in Nat /\ bufsz <= Len(stream)
    BY BoundsAre
<1>2. src + 1 \in src + 1 .. bufsz
    BY <1>1
<1>3. buf[src + 1] = stream[Len(stream) - bufsz + (src + 1)]
    BY <1>2 DEF DecoderInv, UnreadIntact
<1>4. Len(stream) - bufsz + (src + 1) = Len(stream) - bufsz + src + 1
    BY <1>1
<1> QED
    BY <1>1, <1>3, <1>4 DEF Read, Next1

SameFrom(a, i, b, j, n) == \A k \in 1 .. n : a[i + k] = b[j + k]

SamePart(a, i, b, j, n) == SubSeq(a, i + 1, i + n) = SubSeq(b, j + 1, j + n)

\* The same units make the same part.
LEMMA SameParts ==
    ASSUME NEW a \in Seq(Unit), NEW b \in Seq(Unit), NEW i \in Nat, NEW j \in Nat, NEW n \in Nat,
           i + n <= Len(a), j + n <= Len(b), SameFrom(a, i, b, j, n)
    PROVE  SamePart(a, i, b, j, n)
<1> DEFINE p == SubSeq(a, i + 1, i + n)
           q == SubSeq(b, j + 1, j + n)
           m == i + 1
           o == j + 1
           e == i + n
           f == j + n
<1>1. m \in 1 .. Len(a) + 1 /\ e \in m - 1 .. Len(a) /\ e - m + 1 = n
    OBVIOUS
<1>2. o \in 1 .. Len(b) + 1 /\ f \in o - 1 .. Len(b) /\ f - o + 1 = n
    OBVIOUS
<1>3. \A k \in 1 .. n : m + k - 1 = i + k /\ o + k - 1 = j + k
    OBVIOUS
<1>4. p = SubSeq(a, m, e) /\ q = SubSeq(b, o, f)
    OBVIOUS
<1> HIDE DEF p, q, m, o, e, f
<1>5. p \in Seq(Unit) /\ Len(p) = n /\ \A k \in 1 .. n : p[k] = a[m + k - 1]
    BY <1>1, <1>4, SubSeqIs
<1>6. q \in Seq(Unit) /\ Len(q) = n /\ \A k \in 1 .. n : q[k] = b[o + k - 1]
    BY <1>2, <1>4, SubSeqIs
<1>7. ASSUME NEW k \in 1 .. Len(p) PROVE p[k] = q[k]
  <2>1. p[k] = a[i + k] /\ q[k] = b[j + k]
      BY <1>3, <1>5, <1>6
  <2> QED
      BY <1>5, <2>1 DEF SameFrom
<1>8. p = q
    BY <1>5, <1>6, <1>7, SameSequences
<1> QED
    BY <1>8 DEF p, q, SamePart

\* What a call leaves in the piece: the decoded data, and behind it what was not read.
LEMMA ExitLeaves ==
    ASSUME DecoderInv, calling, NEW moved \in Seq(Unit), Len(moved) = bufsz,
           NEW s \in Nat, NEW d \in Nat, NEW r, d <= s, s <= bufsz, Exit(moved, s, d, r)
    PROVE  /\ output' = output \o SubSeq(moved, 1, d)
           /\ SubSeq(buf', d + 1, d + (bufsz - s)) = SubSeq(moved, s + 1, bufsz)
           /\ bufsz' = bufsz /\ src' = s /\ dst' = d /\ calling' = FALSE /\ ret' = r
           /\ stream' = stream
<1>1. bufsz \in Nat /\ bufsz = Len(buf)
    BY BoundsAre
<1>2. /\ buf' = [i \in 1 .. bufsz |-> IF d < i /\ i <= d + bufsz - s THEN moved[i - d + s] ELSE moved[i]]
      /\ src' = s /\ dst' = d /\ calling' = FALSE /\ ret' = r /\ stream' = stream
      /\ output' = output \o SubSeq(buf', 1, d)
    BY DEF Exit
<1>3. ASSUME NEW i \in 1 .. bufsz
      PROVE  (IF d < i /\ i <= d + bufsz - s THEN moved[i - d + s] ELSE moved[i]) \in Unit
    BY <1>1
<1>4. buf' \in [1 .. bufsz -> Unit]
    BY <1>2, <1>3
<1>5. buf' \in Seq(Unit) /\ Len(buf') = bufsz
    BY <1>1, <1>4
<1> DEFINE b == buf'
<1>6. b \in Seq(Unit) /\ Len(b) = bufsz
    BY <1>5
<1>7. \A i \in 1 .. d : b[i] = moved[i]
    BY <1>1, <1>2
<1>8. \A k \in 1 .. bufsz - s : b[d + k] = moved[s + k]
  <2> SUFFICES ASSUME NEW k \in 1 .. bufsz - s PROVE b[d + k] = moved[s + k]
      OBVIOUS
  <2>1. d + k \in 1 .. bufsz /\ d < d + k /\ d + k <= d + bufsz - s /\ (d + k) - d + s = s + k
      BY <1>1
  <2>2. b[d + k] = moved[(d + k) - d + s]
      BY <1>2, <2>1
  <2> QED
      BY <2>1, <2>2
<1> HIDE DEF b
<1>9. SubSeq(b, 1, d) = SubSeq(moved, 1, d)
  <2>1. d \in 0 .. Len(b) /\ d \in 0 .. Len(moved)
      BY <1>1, <1>6
  <2> DEFINE p == SubSeq(b, 1, d)
             q == SubSeq(moved, 1, d)
  <2>2. p \in Seq(Unit) /\ Len(p) = d /\ \A i \in 1 .. d : p[i] = b[i]
      BY <1>6, <2>1, PrefixIs
  <2>3. q \in Seq(Unit) /\ Len(q) = d /\ \A i \in 1 .. d : q[i] = moved[i]
      BY <2>1, PrefixIs
  <2> HIDE DEF p, q
  <2>4. \A i \in 1 .. Len(p) : p[i] = q[i]
      BY <1>7, <2>2, <2>3
  <2>5. p = q
      BY <2>2, <2>3, <2>4, SameSequences
  <2> QED
      BY <2>5 DEF p, q
<1>10. SubSeq(b, d + 1, d + (bufsz - s)) = SubSeq(moved, s + 1, bufsz)
  <2> DEFINE z == bufsz - s
  <2>1. z \in Nat /\ d + z <= Len(b) /\ s + z <= Len(moved) /\ s + z = bufsz
      BY <1>1, <1>6
  <2>2. SameFrom(b, d, moved, s, z)
      BY <1>8 DEF SameFrom
  <2> HIDE DEF z
  <2>3. SamePart(b, d, moved, s, z)
      BY <1>6, <2>1, <2>2, SameParts
  <2> QED
      BY <2>1, <2>3 DEF SamePart, z
<1>11. bufsz' = bufsz
    BY <1>5 DEF bufsz
<1> QED
    BY <1>2, <1>9, <1>10, <1>11 DEF b

LEMMA OutputIs ==
    ASSUME NEW moved \in Seq(Unit), NEW d \in Nat, d <= Len(moved), output \in Seq(Unit)
    PROVE  output \o SubSeq(moved, 1, d) \in Seq(Unit)
<1>1. d \in 0 .. Len(moved)
    OBVIOUS
<1>2. SubSeq(moved, 1, d) \in Seq(Unit)
    BY <1>1, PrefixIs
<1> QED
    BY <1>2, ConcatProperties

\* A call ends because the piece does.
LEMMA ExitIncomplete ==
    ASSUME DecoderInv, Results, calling, NEW moved \in Seq(Unit), Len(moved) = bufsz,
           NEW s \in Nat, NEW d \in Nat, d <= s, s = bufsz, Exit(moved, s, d, Incomplete),
           consume_trailer' = consume_trailer,
           Reading(_state', stream, Len(stream), _hex_count', bytes_left_in_chunk', consume_trailer,
                   output \o SubSeq(moved, 1, d))
    PROVE  (Results /\ Progress /\ DecodesWholeStream)'
<1> DEFINE out == output \o SubSeq(moved, 1, d)
<1>1. /\ bufsz \in Nat /\ stream \in Seq(Unit) /\ Len(stream) \in Nat /\ s <= bufsz
    BY BoundsAre
<1>2. /\ output' = out /\ bufsz' = bufsz /\ src' = s /\ calling' = FALSE /\ ret' = Incomplete
      /\ stream' = stream
    BY <1>1, ExitLeaves
<1>3. consume_trailer \in BOOLEAN /\ output \in Seq(Unit)
    BY DEF Results
<1>4. out \in Seq(Unit)
    BY <1>1, <1>3, OutputIs
<1>5. Reading(_state', stream, Len(stream), _hex_count', bytes_left_in_chunk', consume_trailer, out)
    OBVIOUS
<1> HIDE DEF out
<1>6. Results'
    BY <1>2, <1>3, <1>4 DEF Results
<1>7. Read' = Len(stream) /\ Got' = out
  <2>1. Read' = Len(stream') - bufsz' + src'
      BY DEF Read
  <2>2. Got' = output'
      BY <1>2 DEF Got
  <2> QED
      BY <1>1, <1>2, <2>1, <2>2
<1>8. Progress'
    BY <1>2, <1>5, <1>7 DEF Progress
<1>9. PICK end : DecodesTo(stream, consume_trailer, "incomplete", out, end)
    BY <1>1, <1>3, <1>5, ReadingEnds
<1>10. DecodesWholeStream'
    BY <1>2, <1>9 DEF DecodesWholeStream, DecodesTo
<1> QED
    BY <1>6, <1>8, <1>10

\* A call ends with an error.
LEMMA ExitError ==
    ASSUME DecoderInv, Results, calling, Exit(buf, src, dst, Error),
           consume_trailer' = consume_trailer,
           \E end : DecodesTo(stream, consume_trailer, "error", Got, end)
    PROVE  (Results /\ Progress /\ DecodesWholeStream)'
<1> DEFINE out == output \o SubSeq(buf, 1, dst)
<1>1. /\ bufsz \in Nat /\ bufsz = Len(buf) /\ buf \in Seq(Unit) /\ src \in Nat /\ dst \in Nat
      /\ dst <= src /\ src <= bufsz
    BY BoundsAre
<1>2. output' = out /\ calling' = FALSE /\ ret' = Error /\ stream' = stream
    BY <1>1, ExitLeaves
<1>3. consume_trailer \in BOOLEAN /\ output \in Seq(Unit)
    BY DEF Results
<1>4. out \in Seq(Unit)
    BY <1>1, <1>3, OutputIs
<1>5. Got = out
    BY DEF Got
<1> HIDE DEF out
<1>6. Results'
    BY <1>2, <1>3, <1>4 DEF Results
<1>7. Progress'
    BY <1>2 DEF Progress, Error, Incomplete
<1>8. PICK end : DecodesTo(stream, consume_trailer, "error", out, end)
    BY <1>5
<1>9. DecodesWholeStream'
    BY <1>2, <1>8 DEF DecodesWholeStream, DecodesTo
<1> QED
    BY <1>6, <1>7, <1>9

\* The body is complete with the unit that is read.
LEMMA ExitComplete ==
    ASSUME DecoderInv, Results, calling, src < bufsz,
           Exit(buf, src + 1, dst, bufsz - (src + 1)), consume_trailer' = consume_trailer,
           DecodesTo(stream, consume_trailer, "complete", Got, Read + 1)
    PROVE  (Results /\ Progress /\ DecodesWholeStream)'
<1> DEFINE out == output \o SubSeq(buf, 1, dst)
           s == src + 1
<1>1. /\ bufsz \in Nat /\ bufsz = Len(buf) /\ buf \in Seq(Unit) /\ src \in Nat /\ dst \in Nat
      /\ dst <= src /\ src <= bufsz /\ Len(buf) <= Len(stream) /\ stream \in Seq(Unit)
      /\ Len(stream) \in Nat
    BY BoundsAre
<1>2. s \in Nat /\ dst <= s /\ s <= bufsz
    BY <1>1
<1>3. Exit(buf, s, dst, bufsz - s)
    OBVIOUS
<1> HIDE DEF s
<1>4. /\ output' = out /\ calling' = FALSE /\ ret' = bufsz - s /\ stream' = stream /\ dst' = dst
      /\ SubSeq(buf', dst + 1, dst + (bufsz - s)) = SubSeq(buf, s + 1, bufsz)
    BY <1>1, <1>2, <1>3, ExitLeaves
<1>5. consume_trailer \in BOOLEAN /\ output \in Seq(Unit)
    BY DEF Results
<1>6. out \in Seq(Unit)
    BY <1>1, <1>5, OutputIs
<1>7. Got = out
    BY DEF Got
<1> HIDE DEF out
<1>8. Results'
    BY <1>4, <1>5, <1>6 DEF Results
<1>9. Progress'
  <2>1. ret' # Incomplete
      BY <1>1, <1>2, <1>4 DEF Incomplete
  <2> QED
      BY <2>1 DEF Progress
<1> DEFINE end == Read + 1
<1>10. end = Len(stream) - bufsz + s /\ end \in Nat /\ bufsz - s = Len(stream) - end
    BY <1>1, <1>2 DEF Read, s
<1>11. SubSeq(buf, s + 1, bufsz) = SubSeq(stream, end + 1, Len(stream))
  <2> DEFINE z == bufsz - s
  <2>1. /\ z \in Nat /\ s + z = bufsz /\ s + z <= Len(buf)
        /\ end + z = Len(stream) /\ end + z <= Len(stream)
    <3> HIDE DEF end
    <3> QED
        BY <1>1, <1>2, <1>10
  <2>2. \A k \in 1 .. z : s + k \in src + 1 .. bufsz /\ end + k = Len(stream) - bufsz + (s + k)
    <3> HIDE DEF end
    <3> QED
        BY <1>1, <1>2, <1>10 DEF s
  <2>3. \A j \in src + 1 .. bufsz : buf[j] = stream[Len(stream) - bufsz + j]
      BY DEF DecoderInv, UnreadIntact
  <2> HIDE DEF end, z
  <2>4. SameFrom(buf, s, stream, end, z)
      BY <2>2, <2>3 DEF SameFrom
  <2>5. SamePart(buf, s, stream, end, z)
      BY <1>1, <1>2, <1>10, <2>1, <2>4, SameParts
  <2> QED
      BY <2>1, <2>5 DEF SamePart
<1>12. DecodesTo(stream, consume_trailer, "complete", out, end)
    BY <1>7
<1> HIDE DEF end
<1>13. DecodesWholeStream'
  <2> DEFINE whole == Decoded(stream, consume_trailer)
  <2>1. whole.verdict = "complete" /\ whole.data = out /\ whole.end = end
      BY <1>12 DEF DecodesTo
  <2>2. ret' = Len(stream') - end
      BY <1>4, <1>10
  <2>3. SubSeq(buf', dst' + 1, dst' + ret') = SubSeq(stream', end + 1, Len(stream'))
      BY <1>4, <1>11
  <2>4. Decoded(stream', consume_trailer') = whole
      BY <1>4
  <2> HIDE DEF whole
  <2> QED
      BY <1>4, <2>1, <2>2, <2>3, <2>4 DEF DecodesWholeStream
<1> QED
    BY <1>8, <1>9, <1>13

\* The call goes on.
LEMMA CallGoesOn ==
    ASSUME DecoderInv, Results, calling, NEW s \in Nat, Continue(s),
           consume_trailer' = consume_trailer,
           Reading(_state', stream, Len(stream) - bufsz + s, _hex_count', bytes_left_in_chunk',
                   consume_trailer, Got)
    PROVE  (Results /\ Progress /\ DecodesWholeStream)'
<1>1. /\ src' = s /\ buf' = buf /\ dst' = dst /\ calling' = calling /\ ret' = ret
      /\ stream' = stream /\ output' = output
    BY DEF Continue
<1>2. calling'
    BY <1>1, Zenon
<1>3. consume_trailer \in BOOLEAN /\ output \in Seq(Unit) /\ ret = Incomplete
    BY DEF Results
<1>4. Results'
    BY <1>1, <1>3 DEF Results
<1>5. Read' = Len(stream) - bufsz + s
  <2>1. Read' = Len(stream') - Len(buf') + src'
      BY DEF Read, bufsz
  <2> QED
      BY <1>1, <2>1 DEF bufsz
<1>6. Got' = Got
    BY <1>1, <1>2 DEF Got
<1>7. Reading(_state', stream', Read', _hex_count', bytes_left_in_chunk', consume_trailer', Got')
    BY <1>1, <1>5, <1>6
<1>8. Progress'
    BY <1>2, <1>7 DEF Progress
<1>9. DecodesWholeStream'
    BY <1>2 DEF DecodesWholeStream
<1> QED
    BY <1>4, <1>8, <1>9

\* Moving data behind what was decoded decodes it.
LEMMA MovedIsDecoded ==
    ASSUME DecoderInv, Results, calling, NEW n \in Nat, src + n <= bufsz
    PROVE  output \o SubSeq(Moved(dst, src, n), 1, dst + n) = Got \o SubSeq(stream, Read + 1, Read + n)
<1> DEFINE m == Moved(dst, src, n)
           a == SubSeq(buf, 1, dst)
           b == SubSeq(stream, Read + 1, Read + n)
           c == SubSeq(m, 1, dst + n)
<1>1. /\ bufsz \in Nat /\ bufsz = Len(buf) /\ buf \in Seq(Unit) /\ src \in Nat /\ dst \in Nat
      /\ dst <= src /\ src <= bufsz /\ Len(buf) <= Len(stream) /\ stream \in Seq(Unit)
      /\ Len(stream) \in Nat
    BY BoundsAre
<1>2. m \in Seq(Unit) /\ Len(m) = bufsz
    BY <1>1, MovedBehind
<1>3. \A i \in 1 .. dst : m[i] = buf[i]
    BY <1>1 DEF Moved
<1>4. \A k \in 1 .. n : m[dst + k] = buf[src + k]
  <2> SUFFICES ASSUME NEW k \in 1 .. n PROVE m[dst + k] = buf[src + k]
      OBVIOUS
  <2>1. dst + k \in 1 .. bufsz /\ dst < dst + k /\ dst + k <= dst + n /\ (dst + k) - dst + src = src + k
      BY <1>1
  <2>2. m[dst + k] = buf[(dst + k) - dst + src]
      BY <2>1 DEF Moved
  <2> QED
      BY <2>1, <2>2
<1> DEFINE r == Read
<1>5. r \in Nat /\ r + n <= Len(stream) /\ \A k \in 1 .. n : /\ src + k \in src + 1 .. bufsz
                                                            /\ Len(stream) - bufsz + (src + k) = r + k
    BY <1>1 DEF Read
<1> HIDE DEF r
<1>6. \A j \in src + 1 .. bufsz : buf[j] = stream[Len(stream) - bufsz + j]
    BY DEF DecoderInv, UnreadIntact
<1> HIDE DEF m
<1>7. \A k \in 1 .. n : m[dst + k] = stream[r + k]
    BY <1>4, <1>5, <1>6
<1>8. b = SubSeq(stream, r + 1, r + n)
    BY DEF r
<1> HIDE DEF b
<1>9. a \in Seq(Unit) /\ Len(a) = dst /\ \A i \in 1 .. dst : a[i] = buf[i]
  <2>1. dst \in 0 .. Len(buf)
      BY <1>1
  <2> QED
      BY <1>1, <2>1, PrefixIs
<1>10. b \in Seq(Unit) /\ Len(b) = n /\ \A k \in 1 .. n : b[k] = stream[r + k]
  <2> DEFINE o == r + 1
             f == r + n
  <2>1. o \in 1 .. Len(stream) + 1 /\ f \in o - 1 .. Len(stream) /\ f - o + 1 = n
      BY <1>1, <1>5
  <2>2. \A k \in 1 .. n : o + k - 1 = r + k
      BY <1>5
  <2>3. b = SubSeq(stream, o, f)
      BY <1>8
  <2> HIDE DEF o, f
  <2>4. b \in Seq(Unit) /\ Len(b) = n /\ \A k \in 1 .. n : b[k] = stream[o + k - 1]
      BY <1>1, <2>1, <2>3, SubSeqIs
  <2> QED
      BY <2>2, <2>4
<1>11. c \in Seq(Unit) /\ Len(c) = dst + n /\ \A i \in 1 .. dst + n : c[i] = m[i]
  <2>1. dst + n \in 0 .. Len(m)
      BY <1>1, <1>2
  <2> QED
      BY <1>2, <2>1, PrefixIs
<1> HIDE DEF a, c
<1>12. c = a \o b
  <2>1. /\ a \o b \in Seq(Unit) /\ Len(a \o b) = dst + n
        /\ \A i \in 1 .. dst + n : (a \o b)[i] = IF i <= dst THEN a[i] ELSE b[i - dst]
      BY <1>9, <1>10, ConcatProperties
  <2> DEFINE d == a \o b
  <2>2. /\ d \in Seq(Unit) /\ Len(d) = dst + n
        /\ \A i \in 1 .. dst + n : d[i] = IF i <= dst THEN a[i] ELSE b[i - dst]
      BY <2>1
  <2> HIDE DEF d
  <2>3. ASSUME NEW i \in 1 .. Len(c) PROVE c[i] = d[i]
    <3>1. i \in 1 .. dst + n
        BY <1>11
    <3>2. CASE i <= dst
      <4>1. i \in 1 .. dst
          BY <1>1, <3>1, <3>2
      <4> QED
          BY <1>3, <1>9, <1>11, <2>2, <3>1, <4>1
    <3>3. CASE ~ i <= dst
      <4>1. i - dst \in 1 .. n /\ dst + (i - dst) = i
          BY <1>1, <3>1, <3>3
      <4>2. m[dst + (i - dst)] = stream[r + (i - dst)] /\ b[i - dst] = stream[r + (i - dst)]
          BY <1>7, <1>10, <4>1
      <4> QED
          BY <1>11, <2>2, <3>1, <3>3, <4>1, <4>2
    <3> QED
        BY <3>2, <3>3
  <2>4. c = d
      BY <1>11, <2>2, <2>3, SameSequences
  <2> QED
      BY <2>4 DEF d
<1>13. output \in Seq(Unit)
    BY DEF Results
<1>14. (output \o a) \o b = output \o (a \o b)
    BY <1>9, <1>10, <1>13, ConcatAssociative
<1>15. Got = output \o a
    BY DEF Got, a
<1> QED
    BY <1>12, <1>14, <1>15 DEF b, c, m

Kept == (Results /\ Progress /\ DecodesWholeStream)'

\* What the state says of the stream while a call is under way.
LEMMA CallReads ==
    ASSUME DecodingInv, calling
    PROVE  /\ DecoderInv /\ Results /\ consume_trailer \in BOOLEAN
           /\ Reading(_state, stream, Read, _hex_count, bytes_left_in_chunk, consume_trailer, Got)
    BY DEF DecodingInv, Results, Progress

LEMMA DigitKeeps == ASSUME DecodingInv, Digit PROVE Kept
<1>1. calling /\ _state = "CHUNK_SIZE" /\ src < bufsz /\ Next1 \in Digits
    BY DEF Digit, In
<1>2. /\ DecoderInv /\ Results /\ consume_trailer \in BOOLEAN
      /\ Reading("CHUNK_SIZE", stream, Read, _hex_count, bytes_left_in_chunk, consume_trailer, Got)
  <2>1. Reading(_state, stream, Read, _hex_count, bytes_left_in_chunk, consume_trailer, Got)
      BY <1>1, CallReads
  <2> QED
      BY <1>1, <2>1, CallReads
<1>3. /\ stream \in Seq(Unit) /\ src \in Nat /\ bufsz \in Nat /\ Len(stream) \in Nat
    BY <1>2, BoundsAre
<1>4. Next1 = stream[Read + 1] /\ Read < Len(stream) /\ Read \in Nat
    BY <1>1, <1>2, NextIs
<1>5. CASE _hex_count = HexDigits
  <2>1. Exit(buf, src, dst, Error) /\ consume_trailer' = consume_trailer
      BY <1>5 DEF Digit, decoder
  <2>2. \E end : DecodesTo(stream, consume_trailer, "error", Got, end)
      BY <1>1, <1>2, <1>3, <1>4, <1>5, DigitFails
  <2> QED
      BY <1>1, <1>2, <2>1, <2>2, ExitError DEF Kept
<1>6. CASE _hex_count # HexDigits
  <2> DEFINE more == (bytes_left_in_chunk * 16 + Value[stream[Read + 1]]) % SixteenTo[HexDigits]
  <2>1. /\ bytes_left_in_chunk' = more /\ _hex_count' = _hex_count + 1 /\ _state' = "CHUNK_SIZE"
        /\ Continue(src + 1) /\ consume_trailer' = consume_trailer
      BY <1>1, <1>4, <1>6 DEF Digit
  <2>2. Reading("CHUNK_SIZE", stream, Read + 1, _hex_count + 1, more, consume_trailer, Got)
      BY <1>1, <1>2, <1>3, <1>4, <1>6, DigitStep
  <2> HIDE DEF more
  <2>3. Read + 1 = Len(stream) - bufsz + (src + 1)
      BY <1>3 DEF Read
  <2>4. Reading(_state', stream, Len(stream) - bufsz + (src + 1), _hex_count', bytes_left_in_chunk',
                consume_trailer, Got)
      BY <2>1, <2>2, <2>3
  <2>5. src + 1 \in Nat
      BY <1>3
  <2> QED
      BY <1>1, <1>2, <2>1, <2>4, <2>5, CallGoesOn DEF Kept
<1> QED
    BY <1>5, <1>6

LEMMA SizeEndsKeeps == ASSUME DecodingInv, SizeEnds PROVE Kept
<1>1. calling /\ _state = "CHUNK_SIZE" /\ src < bufsz /\ Next1 \notin Digits
    BY DEF SizeEnds, In
<1>2. /\ DecoderInv /\ Results /\ consume_trailer \in BOOLEAN
      /\ Reading("CHUNK_SIZE", stream, Read, _hex_count, bytes_left_in_chunk, consume_trailer, Got)
  <2>1. Reading(_state, stream, Read, _hex_count, bytes_left_in_chunk, consume_trailer, Got)
      BY <1>1, CallReads
  <2> QED
      BY <1>1, <2>1, CallReads
<1>3. /\ stream \in Seq(Unit) /\ src \in Nat /\ bufsz \in Nat /\ Len(stream) \in Nat
    BY <1>2, BoundsAre
<1>4. Next1 = stream[Read + 1] /\ Read < Len(stream) /\ Read \in Nat
    BY <1>1, <1>2, NextIs
<1>5. CASE _hex_count = 0
  <2>1. Exit(buf, src, dst, Error) /\ consume_trailer' = consume_trailer
      BY <1>5 DEF SizeEnds, decoder
  <2>2. \E end : DecodesTo(stream, consume_trailer, "error", Got, end)
      BY <1>1, <1>2, <1>3, <1>4, <1>5, SizeFails
  <2> QED
      BY <1>1, <1>2, <2>1, <2>2, ExitError DEF Kept
<1>6. CASE _hex_count # 0
  <2>1. /\ bytes_left_in_chunk' = bytes_left_in_chunk /\ _hex_count' = 0 /\ _state' = "CHUNK_EXT"
        /\ Continue(src) /\ consume_trailer' = consume_trailer
      BY <1>6 DEF SizeEnds
  <2>2. Reading("CHUNK_EXT", stream, Read, 0, bytes_left_in_chunk, consume_trailer, Got)
      BY <1>1, <1>2, <1>3, <1>4, <1>6, SizeStep
  <2>3. Reading(_state', stream, Len(stream) - bufsz + src, _hex_count', bytes_left_in_chunk',
                consume_trailer, Got)
      BY <2>1, <2>2 DEF Read
  <2> QED
      BY <1>1, <1>2, <1>3, <2>1, <2>3, CallGoesOn DEF Kept
<1> QED
    BY <1>5, <1>6

LEMMA ChunkExtKeeps == ASSUME DecodingInv, ChunkExt PROVE Kept
<1>1. calling /\ _state = "CHUNK_EXT" /\ src < bufsz
    BY DEF ChunkExt, In
<1>2. /\ DecoderInv /\ Results /\ consume_trailer \in BOOLEAN
      /\ Reading("CHUNK_EXT", stream, Read, _hex_count, bytes_left_in_chunk, consume_trailer, Got)
  <2>1. Reading(_state, stream, Read, _hex_count, bytes_left_in_chunk, consume_trailer, Got)
      BY <1>1, CallReads
  <2> QED
      BY <1>1, <2>1, CallReads
<1>3. /\ stream \in Seq(Unit) /\ src \in Nat /\ bufsz \in Nat /\ Len(stream) \in Nat
      /\ src + 1 \in Nat /\ Read + 1 = Len(stream) - bufsz + (src + 1)
  <2>1. /\ stream \in Seq(Unit) /\ src \in Nat /\ bufsz \in Nat /\ Len(stream) \in Nat
      BY <1>2, BoundsAre
  <2> QED
      BY <2>1 DEF Read
<1>4. Next1 = stream[Read + 1] /\ Read < Len(stream) /\ Read \in Nat
    BY <1>1, <1>2, NextIs
<1>5. /\ consume_trailer' = consume_trailer /\ bytes_left_in_chunk' = bytes_left_in_chunk
      /\ _hex_count' = _hex_count /\ bytes_left_in_chunk \in Nat
    BY <1>2, BoundsAre DEF ChunkExt
<1>6. CASE Next1 # "LF"
  <2>1. Continue(src + 1) /\ _state' = "CHUNK_EXT"
      BY <1>1, <1>6 DEF ChunkExt
  <2>2. Reading("CHUNK_EXT", stream, Read + 1, _hex_count, bytes_left_in_chunk, consume_trailer, Got)
      BY <1>2, <1>3, <1>4, <1>6, ExtStep
  <2>3. Reading(_state', stream, Len(stream) - bufsz + (src + 1), _hex_count', bytes_left_in_chunk',
                consume_trailer, Got)
      BY <1>3, <1>5, <2>1, <2>2
  <2> QED
      BY <1>1, <1>2, <1>3, <1>5, <2>1, <2>3, CallGoesOn DEF Kept
<1>7. CASE Next1 = "LF" /\ bytes_left_in_chunk # 0
  <2>1. Continue(src + 1) /\ _state' = "CHUNK_DATA"
      BY <1>5, <1>7 DEF ChunkExt
  <2>2. Reading("CHUNK_DATA", stream, Read + 1, _hex_count, bytes_left_in_chunk, consume_trailer, Got)
      BY <1>2, <1>3, <1>4, <1>7, ExtToData
  <2>3. Reading(_state', stream, Len(stream) - bufsz + (src + 1), _hex_count', bytes_left_in_chunk',
                consume_trailer, Got)
      BY <1>3, <1>5, <2>1, <2>2
  <2> QED
      BY <1>1, <1>2, <1>3, <1>5, <2>1, <2>3, CallGoesOn DEF Kept
<1>8. CASE Next1 = "LF" /\ bytes_left_in_chunk = 0 /\ consume_trailer
  <2>1. Continue(src + 1) /\ _state' = "TRAILERS_LINE_HEAD"
      BY <1>5, <1>8 DEF ChunkExt
  <2>2. consume_trailer = TRUE
      BY <1>8, Zenon
  <2>3. consume_trailer = TRUE =>
            Reading("TRAILERS_LINE_HEAD", stream, Read + 1, _hex_count, bytes_left_in_chunk,
                    consume_trailer, Got)
    <3>1. stream[Read + 1] = "LF" /\ bytes_left_in_chunk = 0
        BY <1>4, <1>8
    <3> QED
        BY <1>2, <1>3, <1>4, <3>1, ExtToTrailer
  <2>4. Reading("TRAILERS_LINE_HEAD", stream, Read + 1, _hex_count, bytes_left_in_chunk,
                consume_trailer, Got)
      BY <2>2, <2>3, Zenon
  <2>5. Reading(_state', stream, Len(stream) - bufsz + (src + 1), _hex_count', bytes_left_in_chunk',
                consume_trailer, Got)
      BY <1>3, <1>5, <2>1, <2>4
  <2> QED
      BY <1>1, <1>2, <1>3, <1>5, <2>1, <2>5, CallGoesOn DEF Kept
<1>9. CASE Next1 = "LF" /\ bytes_left_in_chunk = 0 /\ ~ consume_trailer
  <2>1. Exit(buf, src + 1, dst, bufsz - (src + 1))
      BY <1>9 DEF ChunkExt
  <2>2. consume_trailer = FALSE
      BY <1>2, <1>9, Zenon
  <2>3. DecodesTo(stream, consume_trailer, "complete", Got, Read + 1)
    <3>1. stream[Read + 1] = "LF" /\ bytes_left_in_chunk = 0
        BY <1>4, <1>9
    <3> QED
        BY <1>2, <1>3, <1>4, <2>2, <3>1, ExtCompletes
  <2> QED
      BY <1>1, <1>2, <1>5, <2>1, <2>3, ExitComplete DEF Kept
<1> QED
    BY <1>6, <1>7, <1>8, <1>9

LEMMA DataEndsPieceKeeps == ASSUME DecodingInv, DataEndsPiece PROVE Kept
<1>1. calling /\ _state = "CHUNK_DATA"
    BY DEF DataEndsPiece, In
<1>2. /\ DecoderInv /\ Results /\ consume_trailer \in BOOLEAN
      /\ Reading("CHUNK_DATA", stream, Read, _hex_count, bytes_left_in_chunk, consume_trailer, Got)
  <2>1. Reading(_state, stream, Read, _hex_count, bytes_left_in_chunk, consume_trailer, Got)
      BY <1>1, CallReads
  <2> QED
      BY <1>1, <2>1, CallReads
<1>3. /\ stream \in Seq(Unit) /\ src \in Nat /\ bufsz \in Nat /\ Len(stream) \in Nat
      /\ src + 1 \in Nat /\ Read + 1 = Len(stream) - bufsz + (src + 1)
  <2>1. /\ stream \in Seq(Unit) /\ src \in Nat /\ bufsz \in Nat /\ Len(stream) \in Nat
      BY <1>2, BoundsAre
  <2> QED
      BY <2>1 DEF Read
<1> DEFINE n == bufsz - src
<1>4. /\ n < bytes_left_in_chunk /\ bytes_left_in_chunk' = bytes_left_in_chunk - n
      /\ Exit(Moved(dst, src, n), src + n, dst + n, Incomplete)
      /\ consume_trailer' = consume_trailer /\ _hex_count' = _hex_count /\ _state' = "CHUNK_DATA"
    BY <1>1 DEF DataEndsPiece
<1>5. /\ n \in Nat /\ src + n = bufsz /\ src + n <= bufsz /\ dst \in Nat /\ dst + n \in Nat
      /\ dst + n <= src + n /\ src + n \in Nat /\ Read + n = Len(stream) /\ Read + n <= Len(stream)
  <2>1. dst \in Nat /\ dst <= src /\ src <= bufsz
      BY <1>1, <1>2, BoundsAre
  <2> QED
      BY <1>3, <2>1 DEF Read
<1> HIDE DEF n
<1> DEFINE m == Moved(dst, src, n)
           out == output \o SubSeq(m, 1, dst + n)
<1>6. m \in Seq(Unit) /\ Len(m) = bufsz
    BY <1>1, <1>2, <1>5, MovedBehind
<1>7. out = Got \o SubSeq(stream, Read + 1, Read + n)
    BY <1>1, <1>2, <1>5, MovedIsDecoded
<1>8. Reading("CHUNK_DATA", stream, Read + n, _hex_count, bytes_left_in_chunk - n, consume_trailer,
              Got \o SubSeq(stream, Read + 1, Read + n))
    BY <1>2, <1>3, <1>4, <1>5, DataStep
<1>9. Reading(_state', stream, Len(stream), _hex_count', bytes_left_in_chunk', consume_trailer, out)
  <2> HIDE DEF out
  <2> QED
      BY <1>4, <1>5, <1>7, <1>8
<1>10. Exit(m, src + n, dst + n, Incomplete)
    BY <1>4
<1> HIDE DEF m
<1> QED
    BY <1>1, <1>2, <1>4, <1>5, <1>6, <1>9, <1>10, ExitIncomplete DEF Kept

LEMMA ChunkDataKeeps == ASSUME DecodingInv, ChunkData PROVE Kept
<1>1. calling /\ _state = "CHUNK_DATA"
    BY DEF ChunkData, In
<1>2. /\ DecoderInv /\ Results /\ consume_trailer \in BOOLEAN
      /\ Reading("CHUNK_DATA", stream, Read, _hex_count, bytes_left_in_chunk, consume_trailer, Got)
  <2>1. Reading(_state, stream, Read, _hex_count, bytes_left_in_chunk, consume_trailer, Got)
      BY <1>1, CallReads
  <2> QED
      BY <1>1, <2>1, CallReads
<1>3. /\ stream \in Seq(Unit) /\ src \in Nat /\ bufsz \in Nat /\ Len(stream) \in Nat
      /\ src + 1 \in Nat /\ Read + 1 = Len(stream) - bufsz + (src + 1)
  <2>1. /\ stream \in Seq(Unit) /\ src \in Nat /\ bufsz \in Nat /\ Len(stream) \in Nat
      BY <1>2, BoundsAre
  <2> QED
      BY <2>1 DEF Read
<1> DEFINE n == bytes_left_in_chunk
<1>4. /\ buf' = Moved(dst, src, n) /\ src' = src + n /\ dst' = dst + n /\ bytes_left_in_chunk' = 0
      /\ _state' = "CHUNK_CRLF" /\ consume_trailer' = consume_trailer /\ _hex_count' = _hex_count
      /\ calling' = calling /\ ret' = ret /\ stream' = stream /\ output' = output
    BY DEF ChunkData
<1>5. n \in Nat /\ src + n <= bufsz /\ Read + n <= Len(stream) /\ Read + n = Len(stream) - bufsz + (src + n)
  <2>1. bytes_left_in_chunk \in Nat /\ bufsz = Len(buf) /\ Len(buf) <= Len(stream)
      BY <1>2, BoundsAre
  <2>2. bufsz - src >= bytes_left_in_chunk
      BY DEF ChunkData
  <2> QED
      BY <1>3, <2>1, <2>2 DEF Read
<1>6. output \o SubSeq(Moved(dst, src, n), 1, dst + n) = Got \o SubSeq(stream, Read + 1, Read + n)
    BY <1>1, <1>2, <1>5, MovedIsDecoded
<1>7. Reading("CHUNK_CRLF", stream, Read + n, _hex_count, 0, consume_trailer,
              Got \o SubSeq(stream, Read + 1, Read + n))
    BY <1>2, <1>3, <1>5, DataEnds
<1>8. calling'
    BY <1>1, <1>4, Zenon
<1>9. Results'
  <2>1. consume_trailer \in BOOLEAN /\ output \in Seq(Unit) /\ ret = Incomplete
      BY <1>1, <1>2 DEF Results
  <2> QED
      BY <1>4, <2>1 DEF Results
<1>10. bufsz' = bufsz
  <2>1. Len(Moved(dst, src, n)) = bufsz
      BY <1>1, <1>2, <1>5, MovedBehind
  <2>2. bufsz' = Len(buf')
      BY DEF bufsz
  <2> QED
      BY <1>4, <2>1, <2>2
<1>11. Read' = Read + n
  <2>1. Read' = Len(stream') - bufsz' + src'
      BY DEF Read
  <2> QED
      BY <1>4, <1>5, <1>10, <2>1
<1>12. Got' = Got \o SubSeq(stream, Read + 1, Read + n)
  <2>1. Got' = output' \o SubSeq(buf', 1, dst')
      BY <1>8 DEF Got
  <2> QED
      BY <1>4, <1>6, <2>1
<1>13. Reading(_state', stream', Read', _hex_count', bytes_left_in_chunk', consume_trailer', Got')
    BY <1>4, <1>7, <1>11, <1>12
<1>14. Progress'
    BY <1>8, <1>13 DEF Progress
<1>15. DecodesWholeStream'
    BY <1>8 DEF DecodesWholeStream
<1> QED
    BY <1>9, <1>14, <1>15 DEF Kept

LEMMA ChunkCrlfKeeps == ASSUME DecodingInv, ChunkCrlf PROVE Kept
<1>1. calling /\ _state = "CHUNK_CRLF" /\ src < bufsz
    BY DEF ChunkCrlf, In
<1>2. /\ DecoderInv /\ Results /\ consume_trailer \in BOOLEAN
      /\ Reading("CHUNK_CRLF", stream, Read, _hex_count, bytes_left_in_chunk, consume_trailer, Got)
  <2>1. Reading(_state, stream, Read, _hex_count, bytes_left_in_chunk, consume_trailer, Got)
      BY <1>1, CallReads
  <2> QED
      BY <1>1, <2>1, CallReads
<1>3. /\ stream \in Seq(Unit) /\ src \in Nat /\ bufsz \in Nat /\ Len(stream) \in Nat
      /\ src + 1 \in Nat /\ Read + 1 = Len(stream) - bufsz + (src + 1)
  <2>1. /\ stream \in Seq(Unit) /\ src \in Nat /\ bufsz \in Nat /\ Len(stream) \in Nat
      BY <1>2, BoundsAre
  <2> QED
      BY <2>1 DEF Read
<1>4. Next1 = stream[Read + 1] /\ Read < Len(stream) /\ Read \in Nat
    BY <1>1, <1>2, NextIs
<1>5. /\ consume_trailer' = consume_trailer /\ bytes_left_in_chunk' = bytes_left_in_chunk
      /\ _hex_count' = _hex_count
    BY DEF ChunkCrlf
<1>6. CASE Next1 \notin {"CR", "LF"}
  <2>1. Exit(buf, src, dst, Error)
      BY <1>6 DEF ChunkCrlf
  <2>2. \E end : DecodesTo(stream, consume_trailer, "error", Got, end)
      BY <1>2, <1>3, <1>4, <1>6, CrlfFails
  <2> QED
      BY <1>1, <1>2, <1>5, <2>1, <2>2, ExitError DEF Kept
<1>7. CASE Next1 = "CR"
  <2>1. Continue(src + 1) /\ _state' = "CHUNK_CRLF"
      BY <1>1, <1>7 DEF ChunkCrlf
  <2>2. Reading("CHUNK_CRLF", stream, Read + 1, _hex_count, bytes_left_in_chunk, consume_trailer, Got)
      BY <1>2, <1>3, <1>4, <1>7, CrlfStep
  <2>3. Reading(_state', stream, Len(stream) - bufsz + (src + 1), _hex_count', bytes_left_in_chunk',
                consume_trailer, Got)
      BY <1>3, <1>5, <2>1, <2>2
  <2> QED
      BY <1>1, <1>2, <1>3, <1>5, <2>1, <2>3, CallGoesOn DEF Kept
<1>8. CASE Next1 = "LF"
  <2>1. Continue(src + 1) /\ _state' = "CHUNK_SIZE"
      BY <1>8 DEF ChunkCrlf
  <2>2. Reading("CHUNK_SIZE", stream, Read + 1, _hex_count, bytes_left_in_chunk, consume_trailer, Got)
      BY <1>2, <1>3, <1>4, <1>8, CrlfEnds
  <2>3. Reading(_state', stream, Len(stream) - bufsz + (src + 1), _hex_count', bytes_left_in_chunk',
                consume_trailer, Got)
      BY <1>3, <1>5, <2>1, <2>2
  <2> QED
      BY <1>1, <1>2, <1>3, <1>5, <2>1, <2>3, CallGoesOn DEF Kept
<1> QED
    BY <1>6, <1>7, <1>8

LEMMA TrailersLineHeadKeeps == ASSUME DecodingInv, TrailersLineHead PROVE Kept
<1>1. calling /\ _state = "TRAILERS_LINE_HEAD" /\ src < bufsz
    BY DEF TrailersLineHead, In
<1>2. /\ DecoderInv /\ Results /\ consume_trailer \in BOOLEAN
      /\ Reading("TRAILERS_LINE_HEAD", stream, Read, _hex_count, bytes_left_in_chunk, consume_trailer, Got)
  <2>1. Reading(_state, stream, Read, _hex_count, bytes_left_in_chunk, consume_trailer, Got)
      BY <1>1, CallReads
  <2> QED
      BY <1>1, <2>1, CallReads
<1>3. /\ stream \in Seq(Unit) /\ src \in Nat /\ bufsz \in Nat /\ Len(stream) \in Nat
      /\ src + 1 \in Nat /\ Read + 1 = Len(stream) - bufsz + (src + 1)
  <2>1. /\ stream \in Seq(Unit) /\ src \in Nat /\ bufsz \in Nat /\ Len(stream) \in Nat
      BY <1>2, BoundsAre
  <2> QED
      BY <2>1 DEF Read
<1>4. Next1 = stream[Read + 1] /\ Read < Len(stream) /\ Read \in Nat
    BY <1>1, <1>2, NextIs
<1>5. /\ consume_trailer' = consume_trailer /\ bytes_left_in_chunk' = bytes_left_in_chunk
      /\ _hex_count' = _hex_count
    BY DEF TrailersLineHead
<1>6. CASE Next1 = "LF"
  <2>1. Exit(buf, src + 1, dst, bufsz - (src + 1))
      BY <1>6 DEF TrailersLineHead
  <2>2. DecodesTo(stream, consume_trailer, "complete", Got, Read + 1)
      BY <1>2, <1>3, <1>4, <1>6, HeadCompletes
  <2> QED
      BY <1>1, <1>2, <1>5, <2>1, <2>2, ExitComplete DEF Kept
<1>7. CASE Next1 = "CR"
  <2>1. Continue(src + 1) /\ _state' = "TRAILERS_LINE_HEAD"
      BY <1>1, <1>7 DEF TrailersLineHead
  <2>2. Reading("TRAILERS_LINE_HEAD", stream, Read + 1, _hex_count, bytes_left_in_chunk,
                consume_trailer, Got)
      BY <1>2, <1>3, <1>4, <1>7, HeadStep
  <2>3. Reading(_state', stream, Len(stream) - bufsz + (src + 1), _hex_count', bytes_left_in_chunk',
                consume_trailer, Got)
      BY <1>3, <1>5, <2>1, <2>2
  <2> QED
      BY <1>1, <1>2, <1>3, <1>5, <2>1, <2>3, CallGoesOn DEF Kept
<1>8. CASE Next1 \notin {"CR", "LF"}
  <2>1. Continue(src + 1) /\ _state' = "TRAILERS_LINE_MIDDLE"
      BY <1>8 DEF TrailersLineHead
  <2>2. Reading("TRAILERS_LINE_MIDDLE", stream, Read + 1, _hex_count, bytes_left_in_chunk,
                consume_trailer, Got)
      BY <1>2, <1>3, <1>4, <1>8, HeadToMiddle
  <2>3. Reading(_state', stream, Len(stream) - bufsz + (src + 1), _hex_count', bytes_left_in_chunk',
                consume_trailer, Got)
      BY <1>3, <1>5, <2>1, <2>2
  <2> QED
      BY <1>1, <1>2, <1>3, <1>5, <2>1, <2>3, CallGoesOn DEF Kept
<1> QED
    BY <1>6, <1>7, <1>8

LEMMA TrailersLineMiddleKeeps == ASSUME DecodingInv, TrailersLineMiddle PROVE Kept
<1>1. calling /\ _state = "TRAILERS_LINE_MIDDLE" /\ src < bufsz
    BY DEF TrailersLineMiddle, In
<1>2. /\ DecoderInv /\ Results /\ consume_trailer \in BOOLEAN
      /\ Reading("TRAILERS_LINE_MIDDLE", stream, Read, _hex_count, bytes_left_in_chunk, consume_trailer, Got)
  <2>1. Reading(_state, stream, Read, _hex_count, bytes_left_in_chunk, consume_trailer, Got)
      BY <1>1, CallReads
  <2> QED
      BY <1>1, <2>1, CallReads
<1>3. /\ stream \in Seq(Unit) /\ src \in Nat /\ bufsz \in Nat /\ Len(stream) \in Nat
      /\ src + 1 \in Nat /\ Read + 1 = Len(stream) - bufsz + (src + 1)
  <2>1. /\ stream \in Seq(Unit) /\ src \in Nat /\ bufsz \in Nat /\ Len(stream) \in Nat
      BY <1>2, BoundsAre
  <2> QED
      BY <2>1 DEF Read
<1>4. Next1 = stream[Read + 1] /\ Read < Len(stream) /\ Read \in Nat
    BY <1>1, <1>2, NextIs
<1>5. /\ consume_trailer' = consume_trailer /\ bytes_left_in_chunk' = bytes_left_in_chunk
      /\ _hex_count' = _hex_count /\ Continue(src + 1)
    BY DEF TrailersLineMiddle
<1>6. Reading(_state', stream, Read + 1, _hex_count, bytes_left_in_chunk, consume_trailer, Got)
  <2>1. CASE Next1 = "LF"
    <3>1. _state' = "TRAILERS_LINE_HEAD"
        BY <2>1 DEF TrailersLineMiddle
    <3>2. Reading("TRAILERS_LINE_HEAD", stream, Read + 1, _hex_count, bytes_left_in_chunk,
                  consume_trailer, Got)
        BY <1>2, <1>3, <1>4, <2>1, MiddleEnds
    <3> QED
        BY <3>1, <3>2
  <2>2. CASE Next1 # "LF"
    <3>1. _state' = "TRAILERS_LINE_MIDDLE"
        BY <1>1, <2>2 DEF TrailersLineMiddle
    <3>2. Reading("TRAILERS_LINE_MIDDLE", stream, Read + 1, _hex_count, bytes_left_in_chunk,
                  consume_trailer, Got)
        BY <1>2, <1>3, <1>4, <2>2, MiddleStep
    <3> QED
        BY <3>1, <3>2
  <2> QED
      BY <2>1, <2>2
<1>7. Reading(_state', stream, Len(stream) - bufsz + (src + 1), _hex_count', bytes_left_in_chunk',
              consume_trailer, Got)
    BY <1>3, <1>5, <1>6
<1> QED
    BY <1>1, <1>2, <1>3, <1>5, <1>7, CallGoesOn DEF Kept

LEMMA OutOfInputKeeps == ASSUME DecodingInv, OutOfInput PROVE Kept
<1>1. /\ calling /\ src = bufsz /\ Exit(buf, src, dst, Incomplete)
      /\ consume_trailer' = consume_trailer /\ bytes_left_in_chunk' = bytes_left_in_chunk
      /\ _hex_count' = _hex_count /\ _state' = _state
    BY DEF OutOfInput, decoder
<1>2. /\ DecoderInv /\ Results
      /\ Reading(_state, stream, Read, _hex_count, bytes_left_in_chunk, consume_trailer, Got)
    BY <1>1, CallReads
<1>3. /\ bufsz \in Nat /\ bufsz = Len(buf) /\ buf \in Seq(Unit) /\ src \in Nat /\ dst \in Nat
      /\ dst <= src /\ Len(stream) \in Nat
    BY <1>1, <1>2, BoundsAre
<1>4. Read = Len(stream)
    BY <1>1, <1>3 DEF Read
<1>5. Got = output \o SubSeq(buf, 1, dst)
    BY <1>1 DEF Got
<1>6. Reading(_state', stream, Len(stream), _hex_count', bytes_left_in_chunk', consume_trailer,
              output \o SubSeq(buf, 1, dst))
    BY <1>1, <1>2, <1>4, <1>5
<1> QED
    BY <1>1, <1>2, <1>3, <1>6, ExitIncomplete DEF Kept

\* A piece arrives behind all that was read.
LEMMA ArriveKeeps == ASSUME DecodingInv, Arrive PROVE Kept
<1>1. /\ ~calling /\ ret = Incomplete /\ src' = 0 /\ dst' = 0 /\ ret' = ret /\ output' = output
      /\ _state' = _state /\ _hex_count' = _hex_count /\ bytes_left_in_chunk' = bytes_left_in_chunk
      /\ consume_trailer' = consume_trailer
    BY DEF Arrive, decoder
<1>2. calling'
    BY Zenon DEF Arrive
<1>3. /\ DecoderInv /\ consume_trailer \in BOOLEAN /\ output \in Seq(Unit) /\ src = bufsz
      /\ Reading(_state, stream, Read, _hex_count, bytes_left_in_chunk, consume_trailer, Got)
    BY <1>1 DEF DecodingInv, Results, Progress
<1>4. bufsz \in Nat /\ stream \in Seq(Unit) /\ Len(stream) \in Nat
    BY <1>3, BoundsAre
<1>5. Read = Len(stream) /\ Got = output
    BY <1>1, <1>3, <1>4 DEF Read, Got
<1>6. PICK n \in 0 .. MaxPiece : \E piece \in [1 .. n -> Unit] :
           buf' = piece /\ stream' = stream \o piece
    BY DEF Arrive
<1>7. PICK piece \in [1 .. n -> Unit] : buf' = piece /\ stream' = stream \o piece
    BY <1>6
<1>8. n \in Nat /\ piece \in Seq(Unit) /\ Len(piece) = n
    BY StreamAssumption
<1>9. /\ stream' \in Seq(Unit) /\ Len(stream') = Len(stream) + n
      /\ \A j \in 1 .. Len(stream) : stream'[j] = stream[j]
  <2>1. Len(stream \o piece) = Len(stream) + Len(piece) /\ stream \o piece \in Seq(Unit)
      BY <1>4, <1>8, ConcatProperties
  <2>2. ASSUME NEW j \in 1 .. Len(stream) PROVE (stream \o piece)[j] = stream[j]
    <3>1. j \in 1 .. Len(stream) + Len(piece) /\ j <= Len(stream)
        BY <1>4, <1>8
    <3> QED
        BY <1>4, <1>8, <3>1, ConcatProperties
  <2> QED
      BY <1>7, <1>8, <2>1, <2>2
<1>10. Agree(stream, stream', Len(stream))
    BY <1>4, <1>8, <1>9 DEF Agree
<1>11. Reading(_state, stream', Len(stream), _hex_count, bytes_left_in_chunk, consume_trailer, output)
  <2>1. Reading(_state, stream, Len(stream), _hex_count, bytes_left_in_chunk, consume_trailer, output)
      BY <1>3, <1>5
  <2> QED
      BY <1>3, <1>4, <1>9, <1>10, <2>1, ReadingMore
<1>12. Read' = Len(stream) /\ Got' = output
  <2>1. Read' = Len(stream') - Len(buf') + src'
      BY DEF Read, bufsz
  <2>2. Got' = output' \o SubSeq(buf', 1, dst')
      BY <1>2 DEF Got
  <2>3. SubSeq(buf', 1, dst') = <<>>
      BY <1>1, <1>7, <1>8
  <2> QED
      BY <1>1, <1>3, <1>4, <1>7, <1>8, <1>9, <2>1, <2>2, <2>3, ConcatEmptySeq
<1>13. Results'
    BY <1>1, <1>3 DEF Results
<1>14. Progress'
    BY <1>1, <1>2, <1>11, <1>12 DEF Progress
<1>15. DecodesWholeStream'
    BY <1>2 DEF DecodesWholeStream
<1> QED
    BY <1>13, <1>14, <1>15 DEF Kept

\* At the start nothing arrived, which decodes to nothing yet.
LEMMA InitDecodes == ASSUME Init PROVE DecodingInv
<1>1. <<>> \in Seq(Unit) /\ Len(<<>>) = 0
    OBVIOUS
<1>2. /\ bytes_left_in_chunk = 0 /\ _hex_count = 0 /\ _state = "CHUNK_SIZE" /\ buf = <<>>
      /\ src = 0 /\ dst = 0 /\ ret = Incomplete /\ stream = <<>> /\ output = <<>>
    BY DEF Init
<1>3. calling \in BOOLEAN /\ ~calling /\ consume_trailer \in BOOLEAN
    BY Zenon DEF Init
<1>4. DecoderInv
    BY <1>1, <1>2, <1>3 DEF DecoderInv, Pieces, Positions, UnreadIntact
<1>5. Results
    BY <1>1, <1>2, <1>3 DEF Results
<1>6. Reading("CHUNK_SIZE", <<>>, 0, 0, 0, consume_trailer, <<>>)
    BY <1>1, <1>3, ReadingFirst
<1>7. Read = 0 /\ Got = <<>> /\ bufsz = 0
    BY <1>1, <1>2, <1>3 DEF Read, Got, bufsz
<1>8. Progress
    BY <1>2, <1>6, <1>7 DEF Progress
<1>9. PICK end : DecodesTo(<<>>, consume_trailer, "incomplete", <<>>, end)
  <2>1. Reading("CHUNK_SIZE", <<>>, Len(<<>>), 0, 0, consume_trailer, <<>>)
      BY <1>1, <1>6
  <2> QED
      BY <1>1, <1>3, <2>1, ReadingEnds
<1>10. DecodesWholeStream
    BY <1>2, <1>9 DEF DecodesWholeStream, DecodesTo
<1> QED
    BY <1>4, <1>5, <1>8, <1>10 DEF DecodingInv

\* Every step keeps what was decoded that of all that was read.
LEMMA StepDecodes == ASSUME DecodingInv, [Next]_vars PROVE DecodingInv'
<1>1. CASE UNCHANGED vars
  <2>1. /\ consume_trailer' = consume_trailer /\ bytes_left_in_chunk' = bytes_left_in_chunk
        /\ _hex_count' = _hex_count /\ _state' = _state /\ buf' = buf /\ src' = src /\ dst' = dst
        /\ calling' = calling /\ ret' = ret /\ stream' = stream /\ output' = output
      BY <1>1 DEF vars, decoder
  <2>2. DecoderInv' /\ Results'
      BY <2>1 DEF DecodingInv, DecoderInv, Pieces, Positions, UnreadIntact, Results, bufsz
  <2>3. Read' = Read /\ Got' = Got /\ bufsz' = bufsz
      BY <2>1 DEF Read, Got, bufsz
  <2>4. Progress'
      BY <2>1, <2>3 DEF DecodingInv, Progress
  <2>5. DecodesWholeStream'
      BY <2>1 DEF DecodingInv, DecodesWholeStream
  <2> QED
      BY <2>2, <2>4, <2>5 DEF DecodingInv
<1>2. CASE Arrive
    BY <1>2, ArriveKeepsInv, ArriveKeeps DEF DecodingInv, Kept
<1>3. CASE phr_decode_chunked
  <2>1. DecoderInv'
      BY <1>3, LoopKeepsInv DEF DecodingInv
  <2>2. Kept
      BY <1>3, OutOfInputKeeps, DigitKeeps, SizeEndsKeeps, ChunkExtKeeps, DataEndsPieceKeeps,
         ChunkDataKeeps, ChunkCrlfKeeps, TrailersLineHeadKeeps, TrailersLineMiddleKeeps
      DEF phr_decode_chunked
  <2> QED
      BY <2>1, <2>2 DEF DecodingInv, Kept
<1> QED
    BY <1>1, <1>2, <1>3 DEF Next, Stop

\* Wherever a body of any length is cut into pieces, what the calls hand over and what
\* they return is what all that arrived decodes to at once.
THEOREM WholeStreamIsDecoded == Spec => []DecodesWholeStream
<1>1. Init => DecodingInv
    BY InitDecodes
<1>2. DecodingInv /\ [Next]_vars => DecodingInv'
    BY StepDecodes
<1>3. DecodingInv => DecodesWholeStream
    BY DEF DecodingInv
<1> QED
    BY <1>1, <1>2, <1>3, PTL DEF Spec
=============================================================================
