---------------------------- MODULE RequestHeadProofs ----------------------------
(***************************************************************************)
(* Theorems about RequestHead, for heads of any length, however they are     *)
(* split.                                                                    *)
(***************************************************************************)
EXTENDS RequestHead, RecursionLemmas, SequenceTheorems

-----------------------------------------------------------------------------
(* Where the functions of the parser stop. *)

LEMMA MinIs ==
    ASSUME NEW D, D \subseteq Nat, D # {}
    PROVE  Min(D) \in D /\ \A x \in D : Min(D) <= x
<1>1. PICK m \in D : \A n \in D : m <= n
    BY LeastElement
<1> QED
    BY <1>1 DEF Min

LEMMA FindCharIs ==
    ASSUME NEW b \in Seq(Unit), NEW i \in 1 .. Len(b) + 1, NEW S
    PROVE  /\ FindChar(b, i, S) \in i .. Len(b) + 1
           /\ \A k \in i .. FindChar(b, i, S) - 1 : b[k] \notin S
           /\ FindChar(b, i, S) <= Len(b) => b[FindChar(b, i, S)] \in S
<1> DEFINE D == {j \in i .. Len(b) : b[j] \in S} \cup {Len(b) + 1}
<1>1. D \subseteq Nat /\ D # {} /\ Len(b) \in Nat
    OBVIOUS
<1>2. Min(D) \in D /\ \A x \in D : Min(D) <= x
    BY <1>1, MinIs
<1>3. FindChar(b, i, S) = Min(D)
    BY DEF FindChar
<1> DEFINE m == Min(D)
<1> HIDE DEF m
<1>4. m \in D /\ \A x \in D : m <= x
    BY <1>2 DEF m
<1>5. ASSUME NEW k \in i .. m - 1 PROVE b[k] \notin S
    BY <1>1, <1>4
<1>6. m \in i .. Len(b) + 1 /\ (m <= Len(b) => b[m] \in S)
    BY <1>1, <1>4
<1> QED
    BY <1>3, <1>5, <1>6 DEF m

\* It is the only such position.
LEMMA FindCharAt ==
    ASSUME NEW b \in Seq(Unit), NEW i \in 1 .. Len(b) + 1, NEW S, NEW m \in i .. Len(b) + 1,
           \A k \in i .. m - 1 : b[k] \notin S,
           m <= Len(b) => b[m] \in S
    PROVE  FindChar(b, i, S) = m
<1> DEFINE f == FindChar(b, i, S)
<1>1. /\ f \in i .. Len(b) + 1
      /\ \A k \in i .. f - 1 : b[k] \notin S
      /\ f <= Len(b) => b[f] \in S
    BY FindCharIs
<1> HIDE DEF f
<1>2. Len(b) \in Nat
    OBVIOUS
<1>3. ~ (f < m)
    BY <1>1, <1>2
<1>4. ~ (m < f)
    BY <1>1, <1>2
<1> QED
    BY <1>1, <1>2, <1>3, <1>4 DEF f

LEMMA EndOfLineIs ==
    ASSUME NEW b \in Seq(Unit), NEW i \in 1 .. Len(b) + 1
    PROVE  /\ EndOfLine(b, i) \in {Partial, Error} \cup (i + 1 .. Len(b) + 1)
           /\ i > Len(b) => EndOfLine(b, i) = Partial
           /\ i <= Len(b) /\ b[i] \notin {"CR", "LF"} => EndOfLine(b, i) = Error
    BY DEF EndOfLine, ExpectChar, Partial, Error

\* Between i and j no line ends.
Quiet(b, i, j) == \A k \in i .. j - 1 : b[k] \notin {"CR", "LF"}

\* What passes over the text from i on, up to v, or up to the end of the buffer.
Passes(b, i, v) == v # Error => Quiet(b, i, IF v = Partial THEN Len(b) + 1 ELSE v)

\* The line from i on ends before t, or with the buffer.
Line(b, i, t) ==
    \E stop \in i .. Len(b) + 1 : Quiet(b, i, stop) /\ EndOfLine(b, stop) = t

LEMMA TokenLine ==
    ASSUME NEW b \in Seq(Unit), NEW i \in 1 .. Len(b) + 1
    PROVE  /\ get_token_to_eol(b, i) \in {Partial, Error} \cup (i + 1 .. Len(b) + 1)
           /\ Line(b, i, get_token_to_eol(b, i))
<1> DEFINE stop == FindChar(b, i, {"CR", "LF", "CTL"})
<1>1. /\ stop \in i .. Len(b) + 1 /\ Len(b) \in Nat
      /\ \A k \in i .. stop - 1 : b[k] \notin {"CR", "LF", "CTL"}
    BY FindCharIs
<1>2. get_token_to_eol(b, i) = EndOfLine(b, stop)
    BY DEF get_token_to_eol
<1> HIDE DEF stop
<1>3. stop \in 1 .. Len(b) + 1
    BY <1>1
<1>4. EndOfLine(b, stop) \in {Partial, Error} \cup (stop + 1 .. Len(b) + 1)
    BY <1>3, EndOfLineIs
<1>5. Quiet(b, i, stop)
    BY <1>1 DEF Quiet
<1> QED
    BY <1>1, <1>2, <1>4, <1>5 DEF Line

\* The value of a header begins with the first unit after the colon that is no space.
LEMMA ValueStartIs ==
    ASSUME NEW b \in Seq(Unit), NEW i \in 1 .. Len(b), NEW n \in Nat
    PROVE  LET colon == FindChar(b, i, {"COLON", "SP", "CR", "LF", "CTL", "VER"})
               first == FindChar(b, colon + 1, Unit \ {"SP"})
           IN  /\ n # 0 /\ b[i] = "SP" => ValueStart(b, i, n) = i
               /\ ~ (n # 0 /\ b[i] = "SP") =>
                     ValueStart(b, i, n) =
                        IF colon > Len(b) THEN Partial
                        ELSE IF b[colon] # "COLON" \/ colon = i THEN Error
                        ELSE IF first > Len(b) THEN Partial
                        ELSE first
<1> DEFINE colon == FindChar(b, i, {"COLON", "SP", "CR", "LF", "CTL", "VER"})
           first == FindChar(b, colon + 1, Unit \ {"SP"})
           Is(j) == /\ j > colon
                    /\ j > Len(b) \/ b[j] # "SP"
                    /\ \A k \in colon + 1 .. j - 1 : b[k] = "SP"
<1>1. CASE colon > Len(b)
    BY <1>1 DEF ValueStart
<1>2. CASE ~ (colon > Len(b))
  <2>1. colon \in i .. Len(b) /\ colon + 1 \in 1 .. Len(b) + 1 /\ Len(b) \in Nat
      BY <1>2, FindCharIs
  <2>2. first = CHOOSE j \in i .. Len(b) + 1 : Is(j)
    <3> HIDE DEF colon
    <3>1. /\ first \in colon + 1 .. Len(b) + 1
          /\ \A k \in colon + 1 .. first - 1 : b[k] \notin Unit \ {"SP"}
          /\ first <= Len(b) => b[first] \in Unit \ {"SP"}
        BY <2>1, FindCharIs
    <3>2. first \in i .. Len(b) + 1 /\ Is(first)
      <4> HIDE DEF first
      <4>1. \A k \in colon + 1 .. first - 1 : b[k] \in Unit
          BY <2>1, <3>1
      <4> QED
          BY <2>1, <3>1, <4>1
    <3>3. ASSUME NEW j \in i .. Len(b) + 1, Is(j) PROVE j = first
      <4>1. \A k \in colon + 1 .. j - 1 : b[k] \notin Unit \ {"SP"}
          BY <3>3
      <4>2. j <= Len(b) => b[j] \in Unit \ {"SP"}
          BY <2>1, <3>3
      <4>3. j \in colon + 1 .. Len(b) + 1
          BY <2>1, <3>3
      <4> QED
          BY <2>1, <4>1, <4>2, <4>3, FindCharAt
    <3> HIDE DEF first, Is
    <3> QED
        BY <3>2, <3>3
  <2> QED
      BY <2>2 DEF ValueStart
<1> QED
    BY <1>1, <1>2

LEMMA ValueStartPasses ==
    ASSUME NEW b \in Seq(Unit), NEW i \in 1 .. Len(b), NEW n \in Nat
    PROVE  /\ ValueStart(b, i, n) \in {Partial, Error} \cup (i .. Len(b))
           /\ Passes(b, i, ValueStart(b, i, n))
<1> DEFINE colon == FindChar(b, i, {"COLON", "SP", "CR", "LF", "CTL", "VER"})
           first == FindChar(b, colon + 1, Unit \ {"SP"})
           v == ValueStart(b, i, n)
<1> SUFFICES v \in {Partial, Error} \cup (i .. Len(b)) /\ Passes(b, i, v)
    OBVIOUS
<1>1. /\ n # 0 /\ b[i] = "SP" => v = i
      /\ ~ (n # 0 /\ b[i] = "SP") =>
            v = IF colon > Len(b) THEN Partial
                ELSE IF b[colon] # "COLON" \/ colon = i THEN Error
                ELSE IF first > Len(b) THEN Partial
                ELSE first
    BY ValueStartIs
<1>2. /\ colon \in i .. Len(b) + 1 /\ Len(b) \in Nat
      /\ \A k \in i .. colon - 1 : b[k] \notin {"CR", "LF"}
    BY FindCharIs
<1>3. ASSUME colon <= Len(b)
      PROVE  /\ first \in colon + 1 .. Len(b) + 1
             /\ \A k \in colon + 1 .. first - 1 : b[k] = "SP"
  <2>1. colon + 1 \in 1 .. Len(b) + 1
      BY <1>2, <1>3
  <2> HIDE DEF colon
  <2>2. /\ first \in colon + 1 .. Len(b) + 1
        /\ \A k \in colon + 1 .. first - 1 : b[k] \notin Unit \ {"SP"}
      BY <2>1, FindCharIs
  <2> HIDE DEF first
  <2>3. \A k \in colon + 1 .. first - 1 : b[k] \in Unit
      BY <1>2, <1>3, <2>2
  <2> QED
      BY <2>2, <2>3
<1> HIDE DEF colon, first, v
<1>4. v \in {Partial, Error} \cup (i .. Len(b))
    BY <1>1, <1>2, <1>3 DEF Partial, Error
<1>5. CASE v = i
    BY <1>2, <1>5 DEF Passes, Quiet, Partial
<1>6. CASE v = Partial
    BY <1>1, <1>2, <1>3, <1>6 DEF Passes, Quiet, Partial, Error
<1>7. CASE v = first /\ colon <= Len(b) /\ first <= Len(b) /\ b[colon] = "COLON"
  <2>1. v \in i .. Len(b) /\ first \in colon + 1 .. Len(b)
      BY <1>2, <1>3, <1>7
  <2>2. \A k \in i .. first - 1 : k \in i .. colon - 1 \/ k = colon \/ k \in colon + 1 .. first - 1
      BY <1>2, <2>1
  <2>3. Quiet(b, i, v)
      BY <1>2, <1>3, <1>7, <2>2 DEF Quiet
  <2> QED
      BY <1>2, <2>1, <2>3 DEF Passes, Partial
<1>8. CASE v = Error
    BY <1>8 DEF Passes
<1> QED
    BY <1>1, <1>2, <1>3, <1>5, <1>6, <1>7, <1>8

LEMMA HeaderLineIs ==
    ASSUME NEW b \in Seq(Unit), NEW i \in 1 .. Len(b), NEW n \in Nat, b[i] \notin {"CR", "LF"}
    PROVE  /\ HeaderLine(b, i, n) \in {Partial, Error} \cup (i + 1 .. Len(b) + 1)
           /\ HeaderLine(b, i, n) # Error => Line(b, i, HeaderLine(b, i, n))
<1> DEFINE v == ValueStart(b, i, n)
           t == HeaderLine(b, i, n)
<1>1. v \in {Partial, Error} \cup (i .. Len(b)) /\ Passes(b, i, v)
    BY ValueStartPasses
<1>2. t = IF v < 0 THEN v ELSE get_token_to_eol(b, v)
    BY DEF HeaderLine, Then
<1> SUFFICES t \in {Partial, Error} \cup (i + 1 .. Len(b) + 1) /\ (t # Error => Line(b, i, t))
    OBVIOUS
<1> HIDE DEF v, t
<1>3. CASE v = Partial
  <2>1. t = Partial /\ Quiet(b, i, Len(b) + 1)
      BY <1>1, <1>2, <1>3 DEF Partial, Error, Passes
  <2>2. Len(b) + 1 \in 1 .. Len(b) + 1 /\ Len(b) + 1 \in i .. Len(b) + 1
      OBVIOUS
  <2>3. EndOfLine(b, Len(b) + 1) = Partial
      BY <2>2, EndOfLineIs
  <2> QED
      BY <2>1, <2>2, <2>3 DEF Line
<1>4. CASE v = Error
    BY <1>2, <1>4 DEF Error
<1>5. CASE v \in i .. Len(b)
  <2>1. v \in 1 .. Len(b) + 1 /\ t = get_token_to_eol(b, v) /\ Quiet(b, i, v)
      BY <1>1, <1>2, <1>5 DEF Passes, Partial, Error
  <2>2. t \in {Partial, Error} \cup (v + 1 .. Len(b) + 1) /\ Line(b, v, t)
      BY <2>1, TokenLine
  <2>3. PICK stop \in v .. Len(b) + 1 : Quiet(b, v, stop) /\ EndOfLine(b, stop) = t
      BY <2>2 DEF Line
  <2>4. Quiet(b, i, stop) /\ stop \in i .. Len(b) + 1
      BY <1>5, <2>1, <2>3 DEF Quiet
  <2>5. t \in {Partial, Error} \cup (i + 1 .. Len(b) + 1)
      BY <1>5, <2>2
  <2> QED
      BY <2>3, <2>4, <2>5 DEF Line
<1> QED
    BY <1>1, <1>3, <1>4, <1>5

LEMMA AdvanceTokenIs ==
    ASSUME NEW b \in Seq(Unit), NEW i \in 1 .. Len(b) + 1
    PROVE  /\ AdvanceToken(b, i) \in {Partial, Error} \cup (i .. Len(b))
           /\ Passes(b, i, AdvanceToken(b, i))
           /\ AdvanceToken(b, i) > 0 => b[AdvanceToken(b, i)] = "SP"
<1> DEFINE j == FindChar(b, i, {"SP", "CR", "LF", "CTL"})
           v == AdvanceToken(b, i)
<1>1. /\ j \in i .. Len(b) + 1 /\ Len(b) \in Nat
      /\ \A k \in i .. j - 1 : b[k] \notin {"SP", "CR", "LF", "CTL"}
    BY FindCharIs
<1>2. v = IF j > Len(b) THEN Partial ELSE IF b[j] # "SP" THEN Error ELSE j
    BY DEF AdvanceToken
<1> SUFFICES /\ v \in {Partial, Error} \cup (i .. Len(b))
             /\ Passes(b, i, v)
             /\ v > 0 => b[v] = "SP"
    OBVIOUS
<1> HIDE DEF j, v
<1>3. CASE j > Len(b)
    BY <1>1, <1>2, <1>3 DEF Passes, Quiet, Partial
<1>4. CASE j <= Len(b) /\ b[j] # "SP"
    BY <1>1, <1>2, <1>4 DEF Passes, Error
<1>5. CASE j <= Len(b) /\ b[j] = "SP"
    BY <1>1, <1>2, <1>5 DEF Passes, Quiet, Partial
<1> QED
    BY <1>1, <1>3, <1>4, <1>5

LEMMA ParseIntIs ==
    ASSUME NEW b \in Seq(Unit), NEW i \in 1 .. Len(b) + 1
    PROVE  LET j == FindChar(b, i, Unit \ {"NUM"})
           IN  parse_int(b, i) = IF j > Len(b) THEN Partial ELSE IF j = i THEN Error ELSE j
<1> DEFINE S == {b[k] : k \in i .. Len(b)} \ {"NUM"}
           j == FindChar(b, i, Unit \ {"NUM"})
<1>1. /\ j \in i .. Len(b) + 1 /\ Len(b) \in Nat
      /\ \A k \in i .. j - 1 : b[k] \notin Unit \ {"NUM"}
      /\ j <= Len(b) => b[j] \in Unit \ {"NUM"}
    BY FindCharIs
<1> HIDE DEF j
<1>2. \A k \in i .. j - 1 : b[k] \notin S
    BY <1>1
<1>3. j <= Len(b) => b[j] \in S
    BY <1>1
<1> HIDE DEF S
<1>4. FindChar(b, i, S) = j
    BY <1>1, <1>2, <1>3, FindCharAt
<1> QED
    BY <1>4 DEF parse_int, S, j

LEMMA ParseIntPasses ==
    ASSUME NEW b \in Seq(Unit), NEW i \in 1 .. Len(b) + 1
    PROVE  /\ parse_int(b, i) \in {Partial, Error} \cup (i + 1 .. Len(b))
           /\ Passes(b, i, parse_int(b, i))
           /\ parse_int(b, i) = Error => i <= Len(b)
<1> DEFINE j == FindChar(b, i, Unit \ {"NUM"})
           v == parse_int(b, i)
<1>1. /\ j \in i .. Len(b) + 1 /\ Len(b) \in Nat
      /\ \A k \in i .. j - 1 : b[k] \notin Unit \ {"NUM"}
    BY FindCharIs
<1>2. v = IF j > Len(b) THEN Partial ELSE IF j = i THEN Error ELSE j
    BY ParseIntIs
<1> SUFFICES /\ v \in {Partial, Error} \cup (i + 1 .. Len(b))
             /\ Passes(b, i, v)
             /\ v = Error => i <= Len(b)
    OBVIOUS
<1> HIDE DEF j, v
<1>3. Quiet(b, i, j)
  <2>1. \A k \in i .. j - 1 : b[k] \in Unit
      BY <1>1
  <2> QED
      BY <1>1, <2>1 DEF Quiet
<1>4. CASE j > Len(b)
  <2>1. j = Len(b) + 1
      BY <1>1, <1>4
  <2> QED
      BY <1>1, <1>2, <1>3, <2>1 DEF Passes, Partial, Error
<1>5. CASE j <= Len(b)
    BY <1>1, <1>2, <1>3, <1>5 DEF Passes, Partial, Error
<1> QED
    BY <1>1, <1>4, <1>5

LEMMA VersionIs ==
    ASSUME NEW b \in Seq(Unit), NEW i \in 1 .. Len(b) + 1
    PROVE  /\ parse_http_version(b, i) \in {Partial, Error} \cup (i + 1 .. Len(b))
           /\ Passes(b, i, parse_http_version(b, i))
<1> DEFINE v == parse_http_version(b, i)
           j == parse_int(b, i + 1)
<1> SUFFICES v \in {Partial, Error} \cup (i + 1 .. Len(b)) /\ Passes(b, i, v)
    OBVIOUS
<1>1. v = IF i > Len(b) THEN Partial ELSE IF b[i] # "VER" THEN Error
          ELSE IF j = Error THEN i + 1 ELSE j
    BY DEF parse_http_version
<1>2. Len(b) \in Nat
    OBVIOUS
<1>3. CASE i > Len(b)
    BY <1>1, <1>2, <1>3 DEF Passes, Quiet, Partial
<1>4. CASE i <= Len(b) /\ b[i] # "VER"
    BY <1>1, <1>4 DEF Passes
<1>5. CASE i <= Len(b) /\ b[i] = "VER"
  <2>1. i + 1 \in 1 .. Len(b) + 1
      BY <1>5
  <2>2. j \in {Partial, Error} \cup (i + 2 .. Len(b)) /\ Passes(b, i + 1, j) /\ (j = Error => i + 1 <= Len(b))
      BY <2>1, ParseIntPasses
  <2>3. v = IF j = Error THEN i + 1 ELSE j
      BY <1>1, <1>5
  <2> HIDE DEF v, j
  <2>4. CASE j = Error
      BY <1>2, <1>5, <2>2, <2>3, <2>4 DEF Passes, Quiet, Partial, Error
  <2>5. CASE j # Error
      BY <1>2, <1>5, <2>2, <2>3, <2>5 DEF Passes, Quiet, Partial, Error
  <2> QED
      BY <2>4, <2>5
<1> QED
    BY <1>2, <1>3, <1>4, <1>5

-----------------------------------------------------------------------------
(* What parse_headers and is_complete compute. *)

Places(b, m) == (1 .. Len(b) + 1) \X (0 .. m)

Results(b) == {Partial, Error} \cup (1 .. Len(b) + 1)

\* The value at one place, of a function that is right at those behind it.
HeadersAt(h, b, at) ==
    LET i == at[1]
        num_headers == at[2]
    IN  IF i > Len(b) THEN Partial
        ELSE IF b[i] \in {"CR", "LF"} THEN EndOfLine(b, i)
        ELSE IF num_headers = MaxHeaders THEN Error
        ELSE Then(HeaderLine(b, i, num_headers),
                  LAMBDA next : h[<<next, num_headers + 1>>])

ScanAt(s, b, at) ==
    LET i == at[1]
        ret_cnt == at[2]
    IN  IF ret_cnt = 2 THEN i
        ELSE IF i > Len(b) THEN Partial
        ELSE IF b[i] \in {"CR", "LF"}
                THEN Then(EndOfLine(b, i), LAMBDA next : s[<<next, ret_cnt + 1>>])
        ELSE s[<<i + 1, 0>>]

IsHeaders(h, b) == h = [at \in Places(b, MaxHeaders) |-> HeadersAt(h, b, at)]

IsScan(s, b) == s = [at \in Places(b, 2) |-> ScanAt(s, b, at)]

HeadersOf(b) == CHOOSE h : IsHeaders(h, b)

ScanOf(b) == CHOOSE s : IsScan(s, b)

LEMMA ParseHeadersIs ==
    ASSUME NEW b, NEW i
    PROVE  parse_headers(b, i) = HeadersOf(b)[<<i, 0>>]
BY DEF parse_headers, HeadersOf, IsHeaders, HeadersAt, Places

LEMMA IsCompleteIs ==
    ASSUME NEW b, NEW last
    PROVE  is_complete(b, last) = ScanOf(b)[<<ResumeAt(last), 0>>]
BY DEF is_complete, ScanOf, IsScan, ScanAt, Places

LEMMA PlaceIs ==
    ASSUME NEW b \in Seq(Unit), NEW m \in Nat, NEW at \in Places(b, m)
    PROVE  at[1] \in 1 .. Len(b) + 1 /\ at[2] \in 0 .. m /\ at = <<at[1], at[2]>>
BY DEF Places

LEMMA HeadersExist ==
    ASSUME NEW b \in Seq(Unit)
    PROVE  \E h \in [Places(b, MaxHeaders) -> Results(b)] : IsHeaders(h, b)
<1> DEFINE D == Places(b, MaxHeaders)
           R == Results(b)
           Goes(at) == /\ at[1] <= Len(b) /\ b[at[1]] \notin {"CR", "LF"} /\ at[2] # MaxHeaders
                       /\ HeaderLine(b, at[1], at[2]) > 0
           Stops == {at \in D : ~ Goes(at)}
           value == [at \in D |->
                        IF at[1] > Len(b) THEN Partial
                        ELSE IF b[at[1]] \in {"CR", "LF"} THEN EndOfLine(b, at[1])
                        ELSE IF at[2] = MaxHeaders THEN Error
                        ELSE IF HeaderLine(b, at[1], at[2]) \in R THEN HeaderLine(b, at[1], at[2])
                        ELSE Error]
           after == [at \in D |-> IF Goes(at) THEN <<HeaderLine(b, at[1], at[2]), at[2] + 1>> ELSE at]
           step == [at \in D |-> [r \in R |-> r]]
           left == [at \in D |-> Len(b) + 1 - at[1]]
<1>1. MaxHeaders \in Nat /\ Len(b) \in Nat
    BY MaxHeadersAssumption
<1>2. ASSUME NEW at \in D
      PROVE  /\ at[1] \in 1 .. Len(b) + 1 /\ at[2] \in 0 .. MaxHeaders
             /\ at[1] <= Len(b) /\ b[at[1]] \notin {"CR", "LF"} =>
                    HeaderLine(b, at[1], at[2]) \in {Partial, Error} \cup (at[1] + 1 .. Len(b) + 1)
  <2>1. at[1] \in 1 .. Len(b) + 1 /\ at[2] \in 0 .. MaxHeaders
      BY <1>1, PlaceIs
  <2>2. ASSUME at[1] <= Len(b), b[at[1]] \notin {"CR", "LF"}
        PROVE  HeaderLine(b, at[1], at[2]) \in {Partial, Error} \cup (at[1] + 1 .. Len(b) + 1)
    <3>1. at[1] \in 1 .. Len(b) /\ at[2] \in Nat
        BY <1>1, <2>1, <2>2
    <3> QED
        BY <2>2, <3>1, HeaderLineIs
  <2> QED
      BY <2>1, <2>2
<1>3. value \in [D -> R]
  <2> SUFFICES ASSUME NEW at \in D PROVE value[at] \in R
      OBVIOUS
  <2>1. at[1] \in 1 .. Len(b) + 1
      BY <1>2
  <2>2. EndOfLine(b, at[1]) \in R
      BY <1>1, <2>1, EndOfLineIs DEF Results
  <2>3. Partial \in R /\ Error \in R
      BY DEF Results
  <2> HIDE DEF D, R
  <2> QED
      BY <2>2, <2>3
<1>4. ASSUME NEW at \in D, Goes(at)
      PROVE  /\ HeaderLine(b, at[1], at[2]) \in at[1] + 1 .. Len(b) + 1
             /\ after[at] = <<HeaderLine(b, at[1], at[2]), at[2] + 1>> /\ after[at] \in D
             /\ left[after[at]] < left[at]
  <2>1. HeaderLine(b, at[1], at[2]) \in at[1] + 1 .. Len(b) + 1
      BY <1>2, <1>4 DEF Partial, Error
  <2>2. after[at] = <<HeaderLine(b, at[1], at[2]), at[2] + 1>>
      BY <1>4
  <2>3. after[at] \in D
    <3>1. HeaderLine(b, at[1], at[2]) \in 1 .. Len(b) + 1 /\ at[2] + 1 \in 0 .. MaxHeaders
        BY <1>1, <1>2, <1>4, <2>1
    <3> QED
        BY <2>2, <3>1 DEF Places
  <2>4. left[after[at]] = Len(b) + 1 - after[at][1] /\ left[at] = Len(b) + 1 - at[1]
      BY <2>3
  <2>5. after[at][1] = HeaderLine(b, at[1], at[2])
      BY <2>2
  <2> HIDE DEF after, left
  <2>6. left[after[at]] < left[at]
      BY <1>1, <1>2, <2>1, <2>4, <2>5
  <2> QED
      BY <2>1, <2>2, <2>3, <2>6
<1>5. after \in [D -> D] /\ step \in [D -> [R -> R]]
    BY <1>4
<1>6. left \in [D -> Nat] /\ R # {}
    BY <1>1, <1>2 DEF Results
<1>7. \A at \in D : at \notin Stops => left[after[at]] < left[at]
    BY <1>4
<1>8. PICK h \in [D -> R] : Chained(h, D, Stops, value, after, step)
  <2> HIDE DEF D, R, Stops, value, after, step, left
  <2> QED
      BY <1>3, <1>5, <1>6, <1>7, RecursionAlong
<1>9. ASSUME NEW at \in D PROVE h[at] = HeadersAt(h, b, at)
  <2>1. CASE Goes(at)
    <3>1. h[at] = h[after[at]]
      <4>1. at \notin Stops /\ after[at] \in D /\ h[after[at]] \in R
          BY <1>4, <2>1
      <4>2. step[at][h[after[at]]] = h[after[at]]
        <5> HIDE DEF after, D, R
        <5> QED
            BY <4>1
      <4> HIDE DEF Stops, value, after, step, D, R
      <4> QED
          BY <4>1, <4>2, <1>8 DEF Chained
    <3>2. HeadersAt(h, b, at) = h[<<HeaderLine(b, at[1], at[2]), at[2] + 1>>]
      <4> DEFINE t == HeaderLine(b, at[1], at[2])
      <4>0. t \in Int /\ t > 0 /\ at[1] \in Int /\ at[1] <= Len(b)
          BY <1>1, <1>2, <1>4, <2>1 DEF Partial, Error
      <4>1. ~ (at[1] > Len(b)) /\ ~ (t < 0)
        <5> HIDE DEF t, D, R, after
        <5> QED
            BY <1>1, <4>0
      <4>2. b[at[1]] \notin {"CR", "LF"} /\ at[2] # MaxHeaders
          BY <2>1
      <4> HIDE DEF t, D, R, after
      <4> QED
          BY <4>1, <4>2 DEF HeadersAt, Then, t
    <3> QED
        BY <1>4, <2>1, <3>1, <3>2
  <2>2. CASE ~ Goes(at)
    <3>1. h[at] = value[at]
      <4>1. at \in Stops
          BY <2>2
      <4> HIDE DEF Stops, value, after, step, D, R
      <4> QED
          BY <4>1, <1>8 DEF Chained
    <3>2. value[at] = IF at[1] > Len(b) THEN Partial
                      ELSE IF b[at[1]] \in {"CR", "LF"} THEN EndOfLine(b, at[1])
                      ELSE IF at[2] = MaxHeaders THEN Error
                      ELSE HeaderLine(b, at[1], at[2])
      <4>1. at[1] <= Len(b) /\ b[at[1]] \notin {"CR", "LF"} /\ at[2] # MaxHeaders
                => HeaderLine(b, at[1], at[2]) \in R
          BY <1>1, <1>2 DEF Results
      <4> HIDE DEF R
      <4> QED
          BY <1>1, <1>2, <4>1
    <3>3. HeadersAt(h, b, at) = IF at[1] > Len(b) THEN Partial
                      ELSE IF b[at[1]] \in {"CR", "LF"} THEN EndOfLine(b, at[1])
                      ELSE IF at[2] = MaxHeaders THEN Error
                      ELSE HeaderLine(b, at[1], at[2])
      <4>1. at[1] <= Len(b) /\ b[at[1]] \notin {"CR", "LF"} /\ at[2] # MaxHeaders
                => HeaderLine(b, at[1], at[2]) < 0
          BY <1>1, <1>2, <2>2 DEF Partial, Error
      <4> QED
          BY <1>1, <1>2, <4>1 DEF HeadersAt, Then
    <3> QED
        BY <3>1, <3>2, <3>3
  <2> QED
      BY <2>1, <2>2
<1> QED
    BY <1>9 DEF IsHeaders

LEMMA ScanExists ==
    ASSUME NEW b \in Seq(Unit)
    PROVE  \E s \in [Places(b, 2) -> Results(b)] : IsScan(s, b)
<1> DEFINE D == Places(b, 2)
           R == Results(b)
           Ends(at) == b[at[1]] \in {"CR", "LF"}
           Goes(at) == /\ at[2] # 2 /\ at[1] <= Len(b)
                       /\ Ends(at) => EndOfLine(b, at[1]) > 0
           Stops == {at \in D : ~ Goes(at)}
           value == [at \in D |->
                        IF at[2] = 2 THEN at[1]
                        ELSE IF at[1] > Len(b) THEN Partial ELSE EndOfLine(b, at[1])]
           after == [at \in D |->
                        IF ~ Goes(at) THEN at
                        ELSE IF Ends(at) THEN <<EndOfLine(b, at[1]), at[2] + 1>>
                        ELSE <<at[1] + 1, 0>>]
           step == [at \in D |-> [r \in R |-> r]]
           left == [at \in D |-> Len(b) + 1 - at[1]]
<1>1. Len(b) \in Nat
    OBVIOUS
<1>2. ASSUME NEW at \in D
      PROVE  /\ at[1] \in 1 .. Len(b) + 1 /\ at[2] \in 0 .. 2
             /\ EndOfLine(b, at[1]) \in {Partial, Error} \cup (at[1] + 1 .. Len(b) + 1)
  <2>1. at[1] \in 1 .. Len(b) + 1 /\ at[2] \in 0 .. 2
      BY PlaceIs
  <2> QED
      BY <2>1, EndOfLineIs
<1>3. value \in [D -> R]
  <2> SUFFICES ASSUME NEW at \in D PROVE value[at] \in R
      OBVIOUS
  <2>1. at[1] \in R /\ EndOfLine(b, at[1]) \in R /\ Partial \in R
      BY <1>1, <1>2 DEF Results
  <2> HIDE DEF D, R
  <2> QED
      BY <2>1
<1>4. ASSUME NEW at \in D, Goes(at)
      PROVE  /\ Ends(at) => after[at] = <<EndOfLine(b, at[1]), at[2] + 1>>
             /\ ~ Ends(at) => after[at] = <<at[1] + 1, 0>>
             /\ after[at] \in D
             /\ left[after[at]] < left[at]
  <2>1. /\ Ends(at) => after[at] = <<EndOfLine(b, at[1]), at[2] + 1>>
        /\ ~ Ends(at) => after[at] = <<at[1] + 1, 0>>
      BY <1>4
  <2>2. /\ Ends(at) => EndOfLine(b, at[1]) \in at[1] + 1 .. Len(b) + 1
        /\ at[1] + 1 \in at[1] + 1 .. Len(b) + 1 /\ at[2] + 1 \in 0 .. 2
      BY <1>1, <1>2, <1>4 DEF Partial, Error
  <2>3. after[at] \in D /\ after[at][1] \in at[1] + 1 .. Len(b) + 1
    <3> HIDE DEF after
    <3> QED
        BY <1>1, <1>2, <2>1, <2>2 DEF Places
  <2>4. left[after[at]] = Len(b) + 1 - after[at][1] /\ left[at] = Len(b) + 1 - at[1]
      BY <2>3
  <2> HIDE DEF after, left, Ends
  <2>5. left[after[at]] < left[at]
      BY <1>1, <1>2, <2>3, <2>4
  <2> QED
      BY <2>1, <2>3, <2>5
<1>5. after \in [D -> D] /\ step \in [D -> [R -> R]]
    BY <1>4
<1>6. left \in [D -> Nat] /\ R # {}
    BY <1>1, <1>2 DEF Results
<1>7. \A at \in D : at \notin Stops => left[after[at]] < left[at]
    BY <1>4
<1>8. PICK s \in [D -> R] : Chained(s, D, Stops, value, after, step)
  <2> HIDE DEF D, R, Stops, value, after, step, left
  <2> QED
      BY <1>3, <1>5, <1>6, <1>7, RecursionAlong
<1>9. ASSUME NEW at \in D PROVE s[at] = ScanAt(s, b, at)
  <2>0. /\ at[1] \in 1 .. Len(b) + 1 /\ at[2] \in 0 .. 2
        /\ EndOfLine(b, at[1]) \in Int
      BY <1>1, <1>2 DEF Partial, Error
  <2>1. CASE Goes(at)
    <3>1. s[at] = s[after[at]]
      <4>1. at \notin Stops /\ after[at] \in D /\ s[after[at]] \in R
          BY <1>4, <2>1
      <4>2. step[at][s[after[at]]] = s[after[at]]
        <5> HIDE DEF after, D, R
        <5> QED
            BY <4>1
      <4> HIDE DEF Stops, value, after, step, D, R
      <4> QED
          BY <4>1, <4>2, <1>8 DEF Chained
    <3>2. CASE Ends(at)
      <4>1. after[at] = <<EndOfLine(b, at[1]), at[2] + 1>> /\ ~ (EndOfLine(b, at[1]) < 0)
            /\ at[2] # 2 /\ ~ (at[1] > Len(b)) /\ b[at[1]] \in {"CR", "LF"}
          BY <1>1, <1>4, <2>0, <2>1, <3>2
      <4> HIDE DEF after, D, R
      <4> QED
          BY <3>1, <4>1 DEF ScanAt, Then
    <3>3. CASE ~ Ends(at)
      <4>1. after[at] = <<at[1] + 1, 0>>
            /\ at[2] # 2 /\ ~ (at[1] > Len(b)) /\ b[at[1]] \notin {"CR", "LF"}
          BY <1>1, <1>4, <2>0, <2>1, <3>3
      <4> HIDE DEF after, D, R
      <4> QED
          BY <3>1, <4>1 DEF ScanAt
    <3> QED
        BY <3>2, <3>3
  <2>2. CASE ~ Goes(at)
    <3>1. s[at] = value[at]
      <4>1. at \in Stops
          BY <2>2
      <4> HIDE DEF Stops, value, after, step, D, R
      <4> QED
          BY <4>1, <1>8 DEF Chained
    <3>2. value[at] = IF at[2] = 2 THEN at[1]
                      ELSE IF at[1] > Len(b) THEN Partial ELSE EndOfLine(b, at[1])
        OBVIOUS
    <3>3. at[2] = 2 \/ at[1] > Len(b) \/ (b[at[1]] \in {"CR", "LF"} /\ EndOfLine(b, at[1]) < 0)
      <4>1. EndOfLine(b, at[1]) \in {Partial, Error} \cup (at[1] + 1 .. Len(b) + 1)
          BY <1>2
      <4> QED
          BY <1>1, <2>0, <2>2, <4>1 DEF Partial, Error
    <3> HIDE DEF value, D, R
    <3> QED
        BY <2>0, <3>1, <3>2, <3>3 DEF ScanAt, Then
  <2> QED
      BY <2>1, <2>2
<1> QED
    BY <1>9 DEF IsScan

\* parse_headers from one line on: h is its value at every place.
HeadersFrom(h, b, i, n) ==
    /\ i = Len(b) + 1 => h[<<i, n>>] = Partial
    /\ i <= Len(b) /\ b[i] \in {"CR", "LF"} => h[<<i, n>>] = EndOfLine(b, i)
    /\ i <= Len(b) /\ b[i] \notin {"CR", "LF"} /\ n = MaxHeaders => h[<<i, n>>] = Error
    /\ i <= Len(b) /\ b[i] \notin {"CR", "LF"} /\ n # MaxHeaders =>
          h[<<i, n>>] = IF HeaderLine(b, i, n) < 0 THEN HeaderLine(b, i, n)
                        ELSE h[<<HeaderLine(b, i, n), n + 1>>]

LEMMA HeadersStep ==
    ASSUME NEW b \in Seq(Unit), NEW i \in 1 .. Len(b) + 1, NEW n \in 0 .. MaxHeaders
    PROVE  HeadersFrom(HeadersOf(b), b, i, n)
<1> DEFINE h == HeadersOf(b)
<1>1. \E g : IsHeaders(g, b)
    BY HeadersExist
<1>2. IsHeaders(h, b)
    BY <1>1 DEF HeadersOf
<1>3. <<i, n>> \in Places(b, MaxHeaders) /\ <<i, n>>[1] = i /\ <<i, n>>[2] = n
    BY DEF Places
<1> HIDE DEF h
<1>4. h[<<i, n>>] = HeadersAt(h, b, <<i, n>>)
    BY <1>2, <1>3 DEF IsHeaders
<1>5. HeadersFrom(h, b, i, n)
    BY <1>3, <1>4 DEF HeadersAt, HeadersFrom, Then
<1> QED
    BY <1>5 DEF h

LEMMA HeadersRange ==
    ASSUME NEW b \in Seq(Unit), NEW i \in 1 .. Len(b) + 1, NEW n \in 0 .. MaxHeaders
    PROVE  HeadersOf(b)[<<i, n>>] \in {Partial, Error} \cup (i + 1 .. Len(b) + 1)
<1> DEFINE h == HeadersOf(b)
           N == Len(b) + 1
           Beyond(k) == {Partial, Error} \cup (k + 1 .. Len(b) + 1)
           S == {k \in 1 .. N : \A m \in 0 .. MaxHeaders : h[<<k, m>>] \in Beyond(k)}
<1>1. N \in Nat /\ MaxHeaders \in Nat
    BY MaxHeadersAssumption
<1>2. FromAbove(S, N)
  <2> SUFFICES ASSUME NEW k \in 1 .. N, \A j \in k + 1 .. N : j \in S PROVE k \in S
      BY DEF FromAbove
  <2>1. ASSUME NEW m \in 0 .. MaxHeaders PROVE h[<<k, m>>] \in Beyond(k)
    <3>1. HeadersFrom(h, b, k, m)
        BY HeadersStep
    <3>2. EndOfLine(b, k) \in Beyond(k) /\ Partial \in Beyond(k) /\ Error \in Beyond(k)
        BY <1>1, EndOfLineIs
    <3>3. ASSUME k <= Len(b), b[k] \notin {"CR", "LF"}, m # MaxHeaders
          PROVE  h[<<k, m>>] \in Beyond(k)
      <4> DEFINE t == HeaderLine(b, k, m)
      <4>1. k \in 1 .. Len(b) /\ m \in Nat /\ m + 1 \in 0 .. MaxHeaders
          BY <1>1, <3>3
      <4>2. t \in {Partial, Error} \cup (k + 1 .. Len(b) + 1)
          BY <3>3, <4>1, HeaderLineIs
      <4>3. h[<<k, m>>] = IF t < 0 THEN t ELSE h[<<t, m + 1>>]
          BY <3>1, <3>3 DEF HeadersFrom
      <4> HIDE DEF t, h
      <4>4. CASE t \in {Partial, Error}
          BY <3>2, <4>3, <4>4 DEF Partial, Error
      <4>5. CASE t \in k + 1 .. Len(b) + 1
        <5>1. t \in S /\ ~ (t < 0)
            BY <1>1, <4>5
        <5>2. h[<<t, m + 1>>] \in Beyond(t)
            BY <4>1, <5>1
        <5>3. h[<<t, m + 1>>] \in Beyond(k)
            BY <1>1, <4>5, <5>2
        <5> QED
            BY <4>3, <5>1, <5>3
      <4> QED
          BY <4>2, <4>4, <4>5
    <3> HIDE DEF h
    <3> QED
        BY <1>1, <3>1, <3>2, <3>3 DEF HeadersFrom
  <2> QED
      BY <2>1
<1>3. \A k \in 1 .. N : k \in S
  <2> HIDE DEF S, N
  <2> QED
      BY <1>1, <1>2, InductionFromAbove
<1> QED
    BY <1>3

\* is_complete from one place on.
ScanFrom(s, b, i, n) ==
    /\ n = 2 => s[<<i, n>>] = i
    /\ n # 2 /\ i = Len(b) + 1 => s[<<i, n>>] = Partial
    /\ n # 2 /\ i <= Len(b) /\ b[i] \in {"CR", "LF"} =>
          s[<<i, n>>] = IF EndOfLine(b, i) < 0 THEN EndOfLine(b, i)
                        ELSE s[<<EndOfLine(b, i), n + 1>>]
    /\ n # 2 /\ i <= Len(b) /\ b[i] \notin {"CR", "LF"} => s[<<i, n>>] = s[<<i + 1, 0>>]

LEMMA ScanStep ==
    ASSUME NEW b \in Seq(Unit), NEW i \in 1 .. Len(b) + 1, NEW n \in 0 .. 2
    PROVE  ScanFrom(ScanOf(b), b, i, n)
<1> DEFINE s == ScanOf(b)
<1>1. \E g : IsScan(g, b)
    BY ScanExists
<1>2. IsScan(s, b)
    BY <1>1 DEF ScanOf
<1>3. <<i, n>> \in Places(b, 2) /\ <<i, n>>[1] = i /\ <<i, n>>[2] = n
    BY DEF Places
<1> HIDE DEF s
<1>4. s[<<i, n>>] = ScanAt(s, b, <<i, n>>)
    BY <1>2, <1>3 DEF IsScan
<1>5. ScanFrom(s, b, i, n)
    BY <1>3, <1>4 DEF ScanAt, ScanFrom, Then
<1> QED
    BY <1>5 DEF s

LEMMA ScanRange ==
    ASSUME NEW b \in Seq(Unit), NEW i \in 1 .. Len(b) + 1, NEW n \in 0 .. 2
    PROVE  ScanOf(b)[<<i, n>>] \in {Partial, Error} \cup (i .. Len(b) + 1)
<1> DEFINE s == ScanOf(b)
           N == Len(b) + 1
           S == {k \in 1 .. N : \A m \in 0 .. 2 : s[<<k, m>>] \in {Partial, Error} \cup (k .. N)}
<1>1. N \in Nat
    OBVIOUS
<1>2. FromAbove(S, N)
  <2> SUFFICES ASSUME NEW k \in 1 .. N, \A j \in k + 1 .. N : j \in S PROVE k \in S
      BY DEF FromAbove
  <2>1. ASSUME NEW m \in 0 .. 2 PROVE s[<<k, m>>] \in {Partial, Error} \cup (k .. N)
    <3>1. ScanFrom(s, b, k, m)
        BY ScanStep
    <3> DEFINE t == EndOfLine(b, k)
    <3>2. t \in {Partial, Error} \cup (k + 1 .. Len(b) + 1)
        BY EndOfLineIs
    <3> HIDE DEF t
    <3>3. ASSUME NEW j \in k + 1 .. N, NEW c \in 0 .. 2
          PROVE  s[<<j, c>>] \in {Partial, Error} \cup (k .. N)
      <4>1. s[<<j, c>>] \in {Partial, Error} \cup (j .. N)
          OBVIOUS
      <4> QED
          BY <1>1, <4>1
    <3>4. CASE m # 2 /\ k <= Len(b) /\ b[k] \in {"CR", "LF"}
      <4>1. s[<<k, m>>] = IF t < 0 THEN t ELSE s[<<t, m + 1>>]
          BY <3>1, <3>4 DEF ScanFrom, t
      <4> HIDE DEF s
      <4>2. CASE t \in {Partial, Error}
          BY <4>1, <4>2 DEF Partial, Error
      <4>3. CASE t \in k + 1 .. Len(b) + 1
        <5>1. m + 1 \in 0 .. 2 /\ ~ (t < 0)
            BY <3>4, <4>3
        <5> QED
            BY <3>3, <4>1, <4>3, <5>1
      <4> QED
          BY <3>2, <4>2, <4>3
    <3>5. CASE m # 2 /\ k <= Len(b) /\ b[k] \notin {"CR", "LF"}
      <4>1. s[<<k, m>>] = s[<<k + 1, 0>>] /\ k + 1 \in k + 1 .. N /\ 0 \in 0 .. 2
          BY <3>1, <3>5 DEF ScanFrom
      <4> HIDE DEF s
      <4>2. s[<<k + 1, 0>>] \in {Partial, Error} \cup (k .. N)
          BY <3>3, <4>1
      <4> QED
          BY <4>1, <4>2
    <3> HIDE DEF s
    <3> QED
        BY <1>1, <3>1, <3>4, <3>5 DEF ScanFrom
  <2> QED
      BY <2>1
<1>3. \A k \in 1 .. N : k \in S
  <2> HIDE DEF S, N
  <2> QED
      BY <1>1, <1>2, InductionFromAbove
<1> QED
    BY <1>3

-----------------------------------------------------------------------------
(* is_complete counts the line ends that the parser finds. *)

LEMMA ScanQuiet ==
    ASSUME NEW b \in Seq(Unit), NEW i \in 1 .. Len(b) + 1, NEW j \in i .. Len(b) + 1,
           Quiet(b, i, j), NEW n \in 0 .. 1, i = j => n = 0
    PROVE  ScanOf(b)[<<i, n>>] = ScanOf(b)[<<j, 0>>]
<1> DEFINE s == ScanOf(b)
           S == {k \in 1 .. j : k >= i => s[<<k, 0>>] = s[<<j, 0>>]}
<1>1. i \in Nat /\ j \in Nat /\ Len(b) \in Nat /\ i <= j /\ j <= Len(b) + 1
    OBVIOUS
<1>2. ASSUME NEW k \in i .. j - 1, NEW m \in 0 .. 1 PROVE s[<<k, m>>] = s[<<k + 1, 0>>]
  <2>1. k \in 1 .. Len(b) + 1 /\ m \in 0 .. 2 /\ k <= Len(b) /\ m # 2 /\ b[k] \notin {"CR", "LF"}
      BY <1>1 DEF Quiet
  <2>2. ScanFrom(s, b, k, m)
      BY <2>1, ScanStep
  <2> HIDE DEF s
  <2> QED
      BY <2>1, <2>2 DEF ScanFrom
<1>3. FromAbove(S, j)
  <2> SUFFICES ASSUME NEW k \in 1 .. j, \A l \in k + 1 .. j : l \in S PROVE k \in S
      BY DEF FromAbove
  <2> SUFFICES ASSUME k >= i, k # j PROVE s[<<k, 0>>] = s[<<j, 0>>]
      BY <1>1
  <2>1. k \in i .. j - 1 /\ k + 1 \in k + 1 .. j /\ k + 1 >= i /\ 0 \in 0 .. 1
      BY <1>1
  <2>2. s[<<k, 0>>] = s[<<k + 1, 0>>]
      BY <1>2, <2>1
  <2>3. k + 1 \in S
      BY <2>1
  <2> QED
      BY <2>1, <2>2, <2>3
<1>4. \A k \in 1 .. j : k \in S
  <2> HIDE DEF S
  <2> QED
      BY <1>1, <1>3, InductionFromAbove
<1>5. CASE i = j
    BY <1>5
<1>6. CASE i # j
  <2>1. i \in i .. j - 1 /\ i + 1 \in 1 .. j /\ i + 1 >= i
      BY <1>1, <1>6
  <2>2. s[<<i, n>>] = s[<<i + 1, 0>>]
      BY <1>2, <2>1
  <2>3. s[<<i + 1, 0>>] = s[<<j, 0>>]
      BY <1>4, <2>1
  <2> QED
      BY <2>2, <2>3
<1> QED
    BY <1>5, <1>6

\* A line that is no empty one ends the count of those before it.
LEMMA ScanLine ==
    ASSUME NEW b \in Seq(Unit), NEW i \in 1 .. Len(b) + 1, NEW t, Line(b, i, t), t # Error,
           i <= Len(b) => b[i] \notin {"CR", "LF"}, NEW n \in 0 .. 1
    PROVE  ScanOf(b)[<<i, n>>] = IF t = Partial THEN Partial ELSE ScanOf(b)[<<t, 1>>]
<1> DEFINE s == ScanOf(b)
<1>1. PICK stop \in i .. Len(b) + 1 : Quiet(b, i, stop) /\ EndOfLine(b, stop) = t
    BY DEF Line
<1>2. stop \in 1 .. Len(b) + 1 /\ Len(b) \in Nat /\ 0 \in 0 .. 2 /\ 0 # 2 /\ n \in 0 .. 2 /\ n # 2
    OBVIOUS
<1>3. /\ t \in {Partial, Error} \cup (stop + 1 .. Len(b) + 1)
      /\ stop > Len(b) => t = Partial
      /\ stop <= Len(b) => b[stop] \in {"CR", "LF"}
    BY <1>1, <1>2, EndOfLineIs
<1>4. ScanFrom(s, b, stop, 0) /\ ScanFrom(s, b, i, n)
    BY <1>2, ScanStep
<1>5. stop # i => s[<<i, n>>] = s[<<stop, 0>>]
    BY <1>1, ScanQuiet
<1> HIDE DEF s
<1>6. CASE stop <= Len(b)
  <2>1. stop # i
      BY <1>1, <1>3, <1>6
  <2>2. s[<<stop, 0>>] = IF t < 0 THEN t ELSE s[<<t, 0 + 1>>]
      BY <1>1, <1>2, <1>3, <1>4, <1>6 DEF ScanFrom
  <2> QED
      BY <1>2, <1>3, <1>5, <2>1, <2>2 DEF s, Partial
<1>7. CASE stop > Len(b)
  <2>1. stop = Len(b) + 1 /\ t = Partial
      BY <1>2, <1>3, <1>7
  <2>2. s[<<stop, 0>>] = Partial
      BY <1>2, <1>4, <2>1 DEF ScanFrom
  <2>3. stop = i => s[<<i, n>>] = Partial
      BY <1>2, <1>4, <2>1 DEF ScanFrom
  <2> QED
      BY <1>5, <2>1, <2>2, <2>3 DEF s
<1> QED
    BY <1>2, <1>6, <1>7

\* From the first line of the headers on, unless they are in error.
LEMMA ScanHeaders ==
    ASSUME NEW b \in Seq(Unit), NEW i \in 1 .. Len(b) + 1, NEW n \in 0 .. MaxHeaders,
           HeadersOf(b)[<<i, n>>] # Error
    PROVE  ScanOf(b)[<<i, 1>>] = HeadersOf(b)[<<i, n>>]
<1> DEFINE h == HeadersOf(b)
           s == ScanOf(b)
           N == Len(b) + 1
           S == {k \in 1 .. N : \A m \in 0 .. MaxHeaders :
                                   h[<<k, m>>] # Error => s[<<k, 1>>] = h[<<k, m>>]}
<1>1. N \in Nat /\ Len(b) \in Nat /\ MaxHeaders \in Nat
    BY MaxHeadersAssumption
<1>2. FromAbove(S, N)
  <2> SUFFICES ASSUME NEW k \in 1 .. N, \A j \in k + 1 .. N : j \in S,
                      NEW m \in 0 .. MaxHeaders, h[<<k, m>>] # Error
               PROVE  s[<<k, 1>>] = h[<<k, m>>]
      BY DEF FromAbove
  <2>1. HeadersFrom(h, b, k, m)
      BY HeadersStep
  <2>2. ScanFrom(s, b, k, 1) /\ 1 \in 0 .. 1
      BY ScanStep
  <2>3. CASE k = Len(b) + 1
    <3> HIDE DEF h, s
    <3> QED
        BY <2>1, <2>2, <2>3 DEF HeadersFrom, ScanFrom
  <2>4. CASE k <= Len(b) /\ b[k] \in {"CR", "LF"}
    <3> DEFINE t == EndOfLine(b, k)
    <3>1. h[<<k, m>>] = t
        BY <2>1, <2>4 DEF HeadersFrom
    <3>2. s[<<k, 1>>] = IF t < 0 THEN t ELSE s[<<t, 1 + 1>>]
        BY <2>2, <2>4 DEF ScanFrom
    <3>3. t \in {Partial, Error} \cup (k + 1 .. Len(b) + 1)
        BY EndOfLineIs
    <3>4. ASSUME t \in k + 1 .. Len(b) + 1 PROVE s[<<t, 1 + 1>>] = t
      <4>1. t \in 1 .. Len(b) + 1 /\ 1 + 1 \in 0 .. 2 /\ 1 + 1 = 2
          BY <1>1, <3>4
      <4> HIDE DEF t
      <4>2. ScanFrom(s, b, t, 1 + 1)
          BY <4>1, ScanStep
      <4> QED
          BY <4>1, <4>2 DEF ScanFrom
    <3> HIDE DEF t, h, s
    <3> QED
        BY <1>1, <3>1, <3>2, <3>3, <3>4 DEF Partial, Error
  <2>5. CASE k <= Len(b) /\ b[k] \notin {"CR", "LF"}
    <3> DEFINE t == HeaderLine(b, k, m)
    <3>1. m # MaxHeaders /\ h[<<k, m>>] = IF t < 0 THEN t ELSE h[<<t, m + 1>>]
        BY <2>1, <2>5 DEF HeadersFrom
    <3>2. k \in 1 .. Len(b) /\ m \in Nat /\ m + 1 \in 0 .. MaxHeaders
        BY <1>1, <2>5, <3>1
    <3>3. t \in {Partial, Error} \cup (k + 1 .. Len(b) + 1) /\ (t # Error => Line(b, k, t))
        BY <2>5, <3>2, HeaderLineIs
    <3> HIDE DEF t, h
    <3>4. t # Error
        BY <3>1 DEF Error
    <3>5. s[<<k, 1>>] = IF t = Partial THEN Partial ELSE s[<<t, 1>>]
        BY <2>2, <2>5, <3>3, <3>4, ScanLine
    <3> HIDE DEF s
    <3>6. CASE t = Partial
        BY <3>1, <3>5, <3>6 DEF Partial
    <3>7. CASE t \in k + 1 .. Len(b) + 1
      <4>1. ~ (t < 0) /\ t # Partial /\ t \in S
          BY <1>1, <3>7 DEF Partial
      <4> QED
          BY <3>1, <3>2, <3>5, <4>1
    <3> QED
        BY <3>3, <3>4, <3>6, <3>7
  <2> QED
      BY <1>1, <2>3, <2>4, <2>5
<1>3. \A k \in 1 .. N : k \in S
  <2> HIDE DEF S, N
  <2> QED
      BY <1>1, <1>2, InductionFromAbove
<1> QED
    BY <1>3

LEMMA PassesOn ==
    ASSUME NEW b \in Seq(Unit), NEW i \in 1 .. Len(b) + 1, NEW v \in i .. Len(b),
           Passes(b, i, v), b[v] = "SP", NEW w, Passes(b, v + 1, w),
           w \in {Partial, Error} \cup (v + 1 .. Len(b) + 1)
    PROVE  Passes(b, i, w)
<1> DEFINE end == IF w = Partial THEN Len(b) + 1 ELSE w
<1> SUFFICES ASSUME w # Error, NEW k \in i .. end - 1 PROVE b[k] \notin {"CR", "LF"}
    BY DEF Passes, Quiet
<1>1. v \in Nat /\ i \in Nat /\ v # Partial /\ v # Error /\ Len(b) \in Nat
    BY DEF Partial, Error
<1>2. Quiet(b, i, v) /\ Quiet(b, v + 1, end)
    BY <1>1 DEF Passes
<1>3. end \in v + 1 .. Len(b) + 1
    BY <1>1 DEF Partial, Error
<1> HIDE DEF end
<1>4. k \in i .. v - 1 \/ k = v \/ k \in v + 1 .. end - 1
    BY <1>1, <1>3
<1> QED
    BY <1>2, <1>4 DEF Quiet

\* A line whose first part is passed over.
LEMMA PassesLine ==
    ASSUME NEW b \in Seq(Unit), NEW i \in 1 .. Len(b) + 1, NEW v, Passes(b, i, v),
           v \in {Partial} \cup (i .. Len(b) + 1)
    PROVE  /\ v = Partial => Line(b, i, Partial)
           /\ v # Partial => Line(b, i, EndOfLine(b, v))
           /\ v # Partial => \A t : Line(b, v, t) => Line(b, i, t)
<1>1. Len(b) \in Nat /\ i \in Nat /\ v # Error
    BY DEF Partial, Error
<1>2. CASE v = Partial
  <2>1. Quiet(b, i, Len(b) + 1) /\ Len(b) + 1 \in i .. Len(b) + 1 /\ Len(b) + 1 \in 1 .. Len(b) + 1
      BY <1>1, <1>2 DEF Passes
  <2>2. EndOfLine(b, Len(b) + 1) = Partial
      BY <1>1, <2>1, EndOfLineIs
  <2> QED
      BY <1>2, <2>1, <2>2 DEF Line
<1>3. CASE v # Partial
  <2>1. v \in i .. Len(b) + 1 /\ Quiet(b, i, v)
      BY <1>1, <1>3 DEF Passes
  <2>2. ASSUME NEW t, Line(b, v, t) PROVE Line(b, i, t)
    <3>1. PICK stop \in v .. Len(b) + 1 : Quiet(b, v, stop) /\ EndOfLine(b, stop) = t
        BY <2>2 DEF Line
    <3>2. \A k \in i .. stop - 1 : k \in i .. v - 1 \/ k \in v .. stop - 1
        BY <1>1, <2>1, <3>1
    <3>3. Quiet(b, i, stop) /\ stop \in i .. Len(b) + 1
        BY <1>1, <2>1, <3>1, <3>2 DEF Quiet
    <3> QED
        BY <3>1, <3>3 DEF Line
  <2> QED
      BY <1>3, <2>1, <2>2 DEF Line
<1> QED
    BY <1>2, <1>3

\* The request line after the empty line that may come before it.
RestOfRequestLine(b, method) ==
    Then(AdvanceToken(b, method),
         LAMBDA path : Then(AdvanceToken(b, path + 1),
             LAMBDA version : Then(parse_http_version(b, version + 1),
                 LAMBDA rest : EndOfLine(b, rest))))

LEMMA RestOfRequestLineIs ==
    ASSUME NEW b \in Seq(Unit), NEW m \in 1 .. Len(b) + 1
    PROVE  LET r == RestOfRequestLine(b, m)
           IN  /\ r \in {Partial, Error} \cup (m + 1 .. Len(b) + 1)
               /\ r # Error => Line(b, m, r)
               /\ r # Error /\ m <= Len(b) => b[m] \notin {"CR", "LF"}
<1> DEFINE p == AdvanceToken(b, m)
           v == AdvanceToken(b, p + 1)
           q == parse_http_version(b, v + 1)
           t == EndOfLine(b, q)
           r == RestOfRequestLine(b, m)
<1> SUFFICES /\ r \in {Partial, Error} \cup (m + 1 .. Len(b) + 1)
             /\ r # Error => Line(b, m, r)
             /\ r # Error /\ m <= Len(b) => b[m] \notin {"CR", "LF"}
    OBVIOUS
<1>1. r = IF p < 0 THEN p ELSE IF v < 0 THEN v ELSE IF q < 0 THEN q ELSE t
    BY DEF RestOfRequestLine, Then
<1>2. Len(b) \in Nat /\ m \in Nat
    OBVIOUS
<1>3. p \in {Partial, Error} \cup (m .. Len(b)) /\ Passes(b, m, p) /\ (p > 0 => b[p] = "SP")
    BY AdvanceTokenIs
<1> HIDE DEF r
<1>4. CASE p = Partial
  <2>1. r = Partial /\ Line(b, m, Partial)
      BY <1>1, <1>3, <1>4, PassesLine DEF Partial
  <2>2. m <= Len(b) => b[m] \notin {"CR", "LF"}
      BY <1>2, <1>3, <1>4 DEF Passes, Quiet, Partial, Error
  <2> QED
      BY <2>1, <2>2
<1>5. CASE p = Error
    BY <1>1, <1>5 DEF Error
<1>6. CASE p \in m .. Len(b)
  <2>0. ~ (p < 0) /\ p + 1 \in 1 .. Len(b) + 1 /\ b[p] = "SP"
      BY <1>2, <1>3, <1>6
  <2>1. b[m] \notin {"CR", "LF"}
      BY <1>2, <1>3, <1>6, <2>0 DEF Passes, Quiet, Partial, Error
  <2>2. v \in {Partial, Error} \cup (p + 1 .. Len(b)) /\ Passes(b, p + 1, v) /\ (v > 0 => b[v] = "SP")
      BY <2>0, AdvanceTokenIs
  <2>3. Passes(b, m, v)
    <3> HIDE DEF p, v
    <3>1. v \in {Partial, Error} \cup (p + 1 .. Len(b) + 1)
        BY <1>2, <1>6, <2>2
    <3> QED
        BY <1>3, <1>6, <2>0, <2>2, <3>1, PassesOn
  <2> HIDE DEF p
  <2>4. CASE v = Partial
      BY <1>1, <2>0, <2>1, <2>3, <2>4, PassesLine DEF Partial
  <2>5. CASE v = Error
      BY <1>1, <2>0, <2>5 DEF Error
  <2>6. CASE v \in p + 1 .. Len(b)
    <3>0. ~ (v < 0) /\ v + 1 \in 1 .. Len(b) + 1 /\ b[v] = "SP" /\ v \in m .. Len(b)
        BY <1>2, <1>6, <2>2, <2>6
    <3>1. q \in {Partial, Error} \cup (v + 2 .. Len(b)) /\ Passes(b, v + 1, q)
      <4> HIDE DEF v
      <4>1. q \in {Partial, Error} \cup ((v + 1) + 1 .. Len(b)) /\ Passes(b, v + 1, q)
          BY <3>0, VersionIs
      <4> QED
          BY <3>0, <4>1
    <3> HIDE DEF v, q
    <3>2. Passes(b, m, q)
      <4>1. q \in {Partial, Error} \cup (v + 1 .. Len(b) + 1)
          BY <1>2, <3>0, <3>1
      <4> QED
          BY <2>3, <3>0, <3>1, <4>1, PassesOn
    <3>3. CASE q = Partial
        BY <1>1, <2>0, <2>1, <3>0, <3>2, <3>3, PassesLine DEF Partial
    <3>4. CASE q = Error
        BY <1>1, <2>0, <3>0, <3>4 DEF Error
    <3>5. CASE q \in v + 2 .. Len(b)
      <4>1. ~ (q < 0) /\ q # Partial /\ q \in {Partial} \cup (m .. Len(b) + 1) /\ q \in 1 .. Len(b) + 1
            /\ q >= m
          BY <1>2, <1>6, <3>0, <3>5 DEF Partial
      <4>2. r = t
          BY <1>1, <2>0, <3>0, <4>1
      <4>3. Line(b, m, t)
          BY <3>2, <4>1, PassesLine
      <4>4. t \in {Partial, Error} \cup (q + 1 .. Len(b) + 1)
          BY <4>1, EndOfLineIs
      <4> HIDE DEF t
      <4>5. t \in {Partial, Error} \cup (m + 1 .. Len(b) + 1)
          BY <1>2, <4>1, <4>4
      <4> QED
          BY <2>1, <4>2, <4>3, <4>5
    <3> QED
        BY <3>1, <3>3, <3>4, <3>5
  <2> QED
      BY <2>2, <2>4, <2>5, <2>6
<1> QED
    BY <1>3, <1>4, <1>5, <1>6

\* The first line of a request, where it is not in error, ends the count of lines
\* with nothing on them, and so does that of a response.
LEMMA RequestLineIs ==
    ASSUME NEW b \in Seq(Unit), b # <<>>
    PROVE  LET r == RequestLine(b)
               s == ScanOf(b)
           IN  /\ r \in {Partial, Error} \cup (1 .. Len(b) + 1)
               /\ r # Error => s[<<1, 0>>] = IF r = Partial THEN Partial ELSE s[<<r, 1>>]
<1> DEFINE m == IF b[1] \in {"CR", "LF"} THEN EndOfLine(b, 1) ELSE 1
           t == RestOfRequestLine(b, m)
           r == RequestLine(b)
           s == ScanOf(b)
<1> SUFFICES /\ r \in {Partial, Error} \cup (1 .. Len(b) + 1)
             /\ r # Error => s[<<1, 0>>] = IF r = Partial THEN Partial ELSE s[<<r, 1>>]
    OBVIOUS
<1>1. r = IF m < 0 THEN m ELSE t
    BY DEF RequestLine, RestOfRequestLine, Then
<1>2. Len(b) \in Nat /\ Len(b) # 0 /\ 1 \in 1 .. Len(b) + 1 /\ 0 \in 0 .. 2 /\ 0 \in 0 .. 1 /\ 1 \in 0 .. 1
    OBVIOUS
<1>3. EndOfLine(b, 1) \in {Partial, Error} \cup (1 + 1 .. Len(b) + 1)
    BY <1>2, EndOfLineIs
<1>4. ScanFrom(s, b, 1, 0)
    BY <1>2, ScanStep
<1>5. m \in {Partial, Error} \cup (1 .. Len(b) + 1)
    BY <1>2, <1>3
<1>6. b[1] \in {"CR", "LF"} => s[<<1, 0>>] = IF m < 0 THEN m ELSE s[<<m, 1>>]
  <2> HIDE DEF s
  <2> QED
      BY <1>2, <1>4 DEF ScanFrom
<1>7. b[1] \notin {"CR", "LF"} => m = 1
    OBVIOUS
<1> HIDE DEF r, m
<1>8. CASE m \in {Partial, Error}
  <2>1. m < 0 /\ r = m /\ b[1] \in {"CR", "LF"}
      BY <1>1, <1>7, <1>8 DEF Partial, Error
  <2> HIDE DEF s
  <2> QED
      BY <1>5, <1>6, <1>8, <2>1 DEF Partial, Error
<1>9. CASE m \in 1 .. Len(b) + 1
  <2>1. ~ (m < 0) /\ r = t
      BY <1>1, <1>9
  <2>2. /\ t \in {Partial, Error} \cup (m + 1 .. Len(b) + 1)
        /\ t # Error => Line(b, m, t)
        /\ t # Error /\ m <= Len(b) => b[m] \notin {"CR", "LF"}
      BY <1>9, RestOfRequestLineIs
  <2> HIDE DEF t
  <2>3. ASSUME t # Error, NEW n \in 0 .. 1
        PROVE  s[<<m, n>>] = IF t = Partial THEN Partial ELSE s[<<t, 1>>]
      BY <1>9, <2>2, <2>3, ScanLine
  <2> HIDE DEF s
  <2>4. t # Error => s[<<1, 0>>] = IF t = Partial THEN Partial ELSE s[<<t, 1>>]
      BY <1>2, <1>6, <1>7, <2>1, <2>3
  <2> QED
      BY <1>2, <1>9, <2>1, <2>2, <2>4
<1> QED
    BY <1>5, <1>8, <1>9

LEMMA StatusLineIs ==
    ASSUME NEW b \in Seq(Unit), b # <<>>
    PROVE  LET r == StatusLine(b)
               s == ScanOf(b)
           IN  /\ r \in {Partial, Error} \cup (1 .. Len(b) + 1)
               /\ r # Error => s[<<1, 0>>] = IF r = Partial THEN Partial ELSE s[<<r, 1>>]
<1> DEFINE v == parse_http_version(b, 1)
           p == parse_int(b, v + 1)
           t == get_token_to_eol(b, p + 1)
           r == StatusLine(b)
           s == ScanOf(b)
<1> SUFFICES /\ r \in {Partial, Error} \cup (1 .. Len(b) + 1)
             /\ r # Error => s[<<1, 0>>] = IF r = Partial THEN Partial ELSE s[<<r, 1>>]
    OBVIOUS
<1>1. Len(b) \in Nat /\ Len(b) # 0 /\ 1 \in 1 .. Len(b) + 1 /\ 0 \in 0 .. 1
    OBVIOUS
<1>2. v \in {Partial, Error} \cup (1 + 1 .. Len(b)) /\ Passes(b, 1, v)
    BY <1>1, VersionIs
<1>3. r = IF v < 0 THEN v
          ELSE IF (IF b[v] # "SP" THEN Error ELSE v + 1) < 0
                  THEN IF b[v] # "SP" THEN Error ELSE v + 1
          ELSE LET number == IF b[v] # "SP" THEN Error ELSE v + 1
                   status == parse_int(b, number)
                   blank == IF b[status] # "SP" THEN Error ELSE status + 1
               IN  IF status < 0 THEN status
                   ELSE IF blank < 0 THEN blank ELSE get_token_to_eol(b, blank)
    BY DEF StatusLine, Then
<1>4. v \in 1 + 1 .. Len(b) => r = IF b[v] # "SP" THEN Error
                                   ELSE IF p < 0 THEN p
                                   ELSE IF b[p] # "SP" THEN Error
                                   ELSE IF p + 1 < 0 THEN p + 1 ELSE t
    BY <1>1, <1>3 DEF Error
<1>5. v \in {Partial, Error} => r = v
    BY <1>3 DEF Partial, Error
<1>6. v # Error => b[1] \notin {"CR", "LF"}
  <2>1. v # Error => b[1] = "VER"
      BY <1>1 DEF parse_http_version
  <2> QED
      BY <2>1
<1> HIDE DEF r
<1>7. ASSUME r # Error, Line(b, 1, r) PROVE s[<<1, 0>>] = IF r = Partial THEN Partial ELSE s[<<r, 1>>]
  <2>1. v # Error
      BY <1>5, <1>7
  <2> HIDE DEF v
  <2>2. 1 <= Len(b) => b[1] \notin {"CR", "LF"}
      BY <1>6, <2>1
  <2> QED
      BY <1>1, <1>7, <2>2, ScanLine
<1> SUFFICES r \in {Partial, Error} \cup (1 .. Len(b) + 1) /\ (r # Error => Line(b, 1, r))
    BY <1>7
<1>8. CASE v \in {Partial, Error}
  <2>1. v = Partial => Line(b, 1, Partial)
      BY <1>1, <1>2, PassesLine
  <2> QED
      BY <1>5, <1>8, <2>1
<1>9. CASE v \in 1 + 1 .. Len(b) /\ b[v] # "SP"
    BY <1>4, <1>9
<1>10. CASE v \in 1 + 1 .. Len(b) /\ b[v] = "SP"
  <2> HIDE DEF v
  <2>1. v + 1 \in 1 .. Len(b) + 1 /\ v \in 1 .. Len(b) /\ v + 1 \in Nat
      BY <1>1, <1>10
  <2>2. p \in {Partial, Error} \cup ((v + 1) + 1 .. Len(b)) /\ Passes(b, v + 1, p)
      BY <2>1, ParseIntPasses
  <2>3. r = IF p < 0 THEN p ELSE IF b[p] # "SP" THEN Error ELSE IF p + 1 < 0 THEN p + 1 ELSE t
      BY <1>4, <1>10
  <2> HIDE DEF p
  <2>4. Passes(b, 1, p)
    <3>1. p \in {Partial, Error} \cup (v + 1 .. Len(b) + 1)
        BY <1>1, <2>1, <2>2
    <3> QED
        BY <1>1, <1>2, <1>10, <2>1, <2>2, <3>1, PassesOn
  <2>5. CASE p \in {Partial, Error}
    <3>1. r = p
        BY <2>3, <2>5 DEF Partial, Error
    <3>2. p = Partial => Line(b, 1, Partial)
        BY <1>1, <2>4, PassesLine
    <3> QED
        BY <2>5, <3>1, <3>2
  <2>6. CASE p \in (v + 1) + 1 .. Len(b)
    <3>1. p \in 1 .. Len(b) /\ p + 1 \in 1 .. Len(b) + 1 /\ ~ (p < 0) /\ ~ (p + 1 < 0)
        BY <1>1, <2>1, <2>6
    <3>2. t \in {Partial, Error} \cup ((p + 1) + 1 .. Len(b) + 1) /\ Line(b, p + 1, t)
        BY <3>1, TokenLine
    <3>3. CASE b[p] # "SP"
        BY <2>3, <3>1, <3>3
    <3>4. CASE b[p] = "SP"
      <4>1. r = t
          BY <2>3, <3>1, <3>4
      <4>2. Passes(b, 1, p + 1)
        <5>1. Passes(b, p + 1, p + 1) /\ p + 1 \in {Partial, Error} \cup (p + 1 .. Len(b) + 1)
            BY <1>1, <3>1 DEF Passes, Quiet, Partial
        <5> QED
            BY <1>1, <2>4, <3>1, <3>4, <5>1, PassesOn
      <4>3. p + 1 # Partial /\ p + 1 \in {Partial} \cup (1 .. Len(b) + 1)
          BY <3>1 DEF Partial
      <4> HIDE DEF t
      <4>4. Line(b, 1, t)
          BY <1>1, <3>2, <4>2, <4>3, PassesLine
      <4>5. t \in {Partial, Error} \cup (1 .. Len(b) + 1)
          BY <1>1, <3>1, <3>2
      <4> QED
          BY <4>1, <4>4, <4>5
    <3> QED
        BY <3>3, <3>4
  <2> QED
      BY <2>2, <2>5, <2>6
<1> QED
    BY <1>2, <1>8, <1>9, <1>10

-----------------------------------------------------------------------------
(* Resuming the search. *)

\* c is what b begins with.
Begins(c, b) == Len(c) <= Len(b) /\ \A k \in 1 .. Len(c) : c[k] = b[k]

LEMMA EndOfLineStands ==
    ASSUME NEW b \in Seq(Unit), NEW c \in Seq(Unit), Begins(c, b), NEW i \in 1 .. Len(c) + 1,
           EndOfLine(c, i) # Partial
    PROVE  EndOfLine(b, i) = EndOfLine(c, i)
<1>1. Len(b) \in Nat /\ Len(c) \in Nat /\ Len(c) <= Len(b)
    BY DEF Begins
<1>2. i <= Len(c) /\ c[i] = b[i] /\ i <= Len(b)
    BY <1>1 DEF EndOfLine, Begins
<1>3. c[i] = "CR" => i + 1 <= Len(c) /\ c[i + 1] = b[i + 1] /\ i + 1 <= Len(b)
    BY <1>1, <1>2 DEF EndOfLine, ExpectChar, Begins
<1> QED
    BY <1>1, <1>2, <1>3 DEF EndOfLine, ExpectChar

\* Where no end was found so far, none begins before the place where the search resumes:
\* from each place up to p, two units before the end of c, it comes by p in b.
LEMMA ScanComesBy ==
    ASSUME NEW b \in Seq(Unit), NEW c \in Seq(Unit), Begins(c, b), Len(c) >= 3,
           NEW i \in 1 .. Len(c) - 2, NEW n \in 0 .. 1,
           ScanOf(c)[<<i, n>>] = Partial
    PROVE  ScanOf(b)[<<i, n>>] = ScanOf(b)[<<Len(c) - 2, 0>>]
<1> DEFINE sb == ScanOf(b)
           sc == ScanOf(c)
           p == Len(c) - 2
           S == {k \in 1 .. p : \A m \in 0 .. 1 : sc[<<k, m>>] = Partial => sb[<<k, m>>] = sb[<<p, 0>>]}
<1>1. Len(b) \in Nat /\ Len(c) \in Nat /\ Len(c) <= Len(b) /\ p \in Nat /\ p + 2 = Len(c) /\ p >= 1
    BY DEF Begins
<1> HIDE DEF p
<1>2. FromAbove(S, p)
  <2> SUFFICES ASSUME NEW k \in 1 .. p, \A j \in k + 1 .. p : j \in S,
                      NEW m \in 0 .. 1, sc[<<k, m>>] = Partial
               PROVE  sb[<<k, m>>] = sb[<<p, 0>>]
      BY DEF FromAbove
  <2> DEFINE t == EndOfLine(c, k)
  <2>1. /\ k \in 1 .. Len(c) + 1 /\ k \in 1 .. Len(b) + 1 /\ k <= Len(c) /\ k <= Len(b)
        /\ k + 1 <= Len(c) /\ k + 1 <= Len(b)
        /\ m \in 0 .. 2 /\ m # 2 /\ b[k] = c[k] /\ b[k + 1] = c[k + 1]
    <3>1. /\ k \in 1 .. Len(c) + 1 /\ k \in 1 .. Len(b) + 1 /\ k <= Len(c) /\ k <= Len(b)
          /\ k + 1 <= Len(c) /\ k + 1 <= Len(b) /\ k + 1 \in 1 .. Len(c) /\ k \in 1 .. Len(c)
          /\ m \in 0 .. 2 /\ m # 2
        BY <1>1
    <3> QED
        BY <3>1 DEF Begins
  <2>2. ScanFrom(sc, c, k, m) /\ ScanFrom(sb, b, k, m)
      BY <2>1, ScanStep
  <2>3. CASE c[k] \notin {"CR", "LF"}
    <3>1. sc[<<k, m>>] = sc[<<k + 1, 0>>] /\ sb[<<k, m>>] = sb[<<k + 1, 0>>]
      <4> HIDE DEF sb, sc
      <4> QED
          BY <2>1, <2>2, <2>3 DEF ScanFrom
    <3>2. CASE k = p
      <4>1. ScanFrom(sb, b, k, 0) /\ 0 # 2
          BY <2>1, ScanStep
      <4> HIDE DEF sb
      <4>2. sb[<<k, 0>>] = sb[<<k + 1, 0>>]
          BY <2>1, <2>3, <4>1 DEF ScanFrom
      <4> QED
          BY <3>1, <3>2, <4>2
    <3>3. CASE k # p
      <4>0. k + 1 \in k + 1 .. p
          BY <1>1, <3>3
      <4>1. k + 1 \in S /\ 0 \in 0 .. 1
        <5> HIDE DEF S
        <5> QED
            BY <4>0
      <4> HIDE DEF sb, sc
      <4> QED
          BY <3>1, <4>1
    <3> QED
        BY <3>2, <3>3
  <2>4. CASE c[k] \in {"CR", "LF"}
    <3>1. t \in {Error} \cup (k + 1 .. k + 2) /\ (t = k + 2 => c[k + 1] = "LF")
      <4>1. ~ (k > Len(c)) /\ ~ (k + 1 > Len(c)) /\ (k + 1) + 1 = k + 2 /\ k \in Nat
          BY <1>1, <2>1
      <4>2. c[k] = "CR" => t = IF c[k + 1] # "LF" THEN Error ELSE k + 2
          BY <4>1 DEF EndOfLine, ExpectChar
      <4>3. c[k] = "LF" => t = k + 1
          BY <4>1 DEF EndOfLine
      <4> HIDE DEF t
      <4> QED
          BY <2>4, <4>1, <4>2, <4>3 DEF Error
    <3>2. sc[<<k, m>>] = IF t < 0 THEN t ELSE sc[<<t, m + 1>>]
      <4> HIDE DEF sc
      <4> QED
          BY <2>1, <2>2, <2>4 DEF ScanFrom
    <3>3. t # Error
      <4> HIDE DEF sc, t
      <4> QED
          BY <3>2 DEF Partial, Error
    <3>4. t \in k + 1 .. k + 2 /\ ~ (t < 0) /\ t # Partial /\ t \in 1 .. Len(c) + 1
      <4> HIDE DEF t
      <4> QED
          BY <1>1, <2>1, <3>1, <3>3 DEF Partial
    <3>5. EndOfLine(b, k) = t
        BY <2>1, <3>4, EndOfLineStands
    <3>6. sb[<<k, m>>] = sb[<<t, m + 1>>] /\ sc[<<t, m + 1>>] = Partial
      <4> HIDE DEF sb, sc, t
      <4> QED
          BY <2>1, <2>2, <2>4, <3>2, <3>4, <3>5 DEF ScanFrom
    <3> HIDE DEF t
    <3>7. m = 0
      <4>1. m # 0 => m + 1 = 2 /\ m + 1 \in 0 .. 2
          OBVIOUS
      <4>2. m # 0 => ScanFrom(sc, c, t, m + 1)
          BY <3>4, <4>1, ScanStep
      <4> HIDE DEF sb, sc
      <4>3. m # 0 => sc[<<t, m + 1>>] = t
          BY <4>1, <4>2 DEF ScanFrom
      <4> QED
          BY <3>4, <3>6, <4>3
    <3>8. m + 1 = 1 /\ 1 \in 0 .. 1
        BY <3>7
    <3>9. CASE t <= p
      <4>0. t \in k + 1 .. p
          BY <1>1, <2>1, <3>4, <3>9
      <4>1. t \in S
        <5> HIDE DEF S
        <5> QED
            BY <4>0
      <4> HIDE DEF sb, sc
      <4> QED
          BY <3>6, <3>8, <4>1
    <3>10. CASE t > p /\ k = p
        BY <3>7, <3>10
    <3>11. CASE t > p /\ k # p
      <4>1. k + 1 = p /\ t = p + 1 /\ c[p] = "LF" /\ b[p] = "LF" /\ p \in 1 .. Len(b) + 1 /\ p <= Len(b)
            /\ 0 \in 0 .. 2 /\ 0 # 2
          BY <1>1, <2>1, <3>1, <3>4, <3>11
      <4>2. ScanFrom(sb, b, p, 0)
          BY <4>1, ScanStep
      <4>3. EndOfLine(b, p) = p + 1 /\ ~ (p + 1 < 0)
          BY <1>1, <4>1 DEF EndOfLine
      <4> HIDE DEF sb, sc
      <4>4. sb[<<p, 0>>] = sb[<<p + 1, 0 + 1>>]
          BY <4>1, <4>2, <4>3 DEF ScanFrom
      <4>5. <<t, m + 1>> = <<p + 1, 0 + 1>>
          BY <3>7, <4>1
      <4> QED
          BY <3>6, <4>4, <4>5
    <3> QED
        BY <1>1, <3>4, <3>9, <3>10, <3>11
  <2> QED
      BY <2>3, <2>4
<1>3. \A k \in 1 .. p : k \in S
  <2> HIDE DEF S
  <2> QED
      BY <1>1, <1>2, InductionFromAbove
<1> QED
    BY <1>3 DEF p

\* A search that resumes finds what one from the beginning finds.
LEMMA ResumeFinds ==
    ASSUME NEW b \in Seq(Unit), NEW c \in Seq(Unit), Begins(c, b), is_complete(c, 0) = Partial
    PROVE  is_complete(b, Len(c)) = is_complete(b, 0)
<1>0. ResumeAt(0) = 1
    BY DEF ResumeAt
<1>1. Len(c) \in Nat
    OBVIOUS
<1>2. ScanOf(c)[<<1, 0>>] = Partial
    BY <1>0, IsCompleteIs
<1>3. is_complete(b, 0) = ScanOf(b)[<<1, 0>>]
    BY <1>0, IsCompleteIs
<1>4. is_complete(b, Len(c)) = ScanOf(b)[<<IF Len(c) < 3 THEN 1 ELSE Len(c) - 2, 0>>]
    BY IsCompleteIs DEF ResumeAt
<1>5. CASE Len(c) < 3
    BY <1>3, <1>4, <1>5
<1>6. CASE ~ (Len(c) < 3)
  <2>1. Len(c) >= 3 /\ 1 \in 1 .. Len(c) - 2 /\ 0 \in 0 .. 1
      BY <1>1, <1>6
  <2>2. ScanOf(b)[<<1, 0>>] = ScanOf(b)[<<Len(c) - 2, 0>>]
      BY <1>2, <2>1, ScanComesBy
  <2> QED
      BY <1>3, <1>4, <1>6, <2>2
<1> QED
    BY <1>5, <1>6

-----------------------------------------------------------------------------
(* The three entries. *)

\* What the parser of an entry returns for the whole of b.
Parsed(e, b) ==
    CASE e = "request" -> parse_request(b)
      [] e = "response" -> parse_response(b)
      [] e = "headers" -> parse_headers(b, 1)

Answer(e, b, last) ==
    LET complete == IF last = 0 THEN 1 ELSE is_complete(b, last)
    IN  IF complete < 0 THEN complete
        ELSE IF Parsed(e, b) < 0 THEN Parsed(e, b) ELSE Parsed(e, b) - 1

LEMMA VerdictIs ==
    ASSUME entry \in Entry, NEW b, NEW last
    PROVE  Verdict(b, last) = Answer(entry, b, last)
<1>1. CASE entry = "request"
    BY <1>1 DEF Verdict, phr_parse_request, Attempt, Then, Answer, Parsed
<1>2. CASE entry = "response"
    BY <1>2 DEF Verdict, phr_parse_response, Attempt, Then, Answer, Parsed
<1>3. CASE entry = "headers"
    BY <1>3 DEF Verdict, phr_parse_headers, Attempt, Then, Answer, Parsed
<1> QED
    BY <1>1, <1>2, <1>3 DEF Entry

\* No entry reads a block of headers that has none: its first line is not empty.
NoEmptyBlock(e, b) == e = "headers" /\ b # <<>> => b[1] \notin {"CR", "LF"}

\* A head that is not in error is complete exactly where its parser says so.
LEMMA ParsedIsComplete ==
    ASSUME NEW e \in Entry, NEW b \in Seq(Unit), b # <<>>, NoEmptyBlock(e, b)
    PROVE  /\ Parsed(e, b) \in {Partial, Error} \cup (1 .. Len(b) + 1)
           /\ Parsed(e, b) # Error => is_complete(b, 0) = Parsed(e, b)
<1> DEFINE s == ScanOf(b)
           h == HeadersOf(b)
           p == Parsed(e, b)
<1>1. is_complete(b, 0) = s[<<1, 0>>]
    BY IsCompleteIs DEF ResumeAt
<1>2. Len(b) \in Nat /\ Len(b) # 0 /\ 1 \in 1 .. Len(b) + 1 /\ 0 \in 0 .. MaxHeaders /\ 0 \in 0 .. 2
      /\ 1 \in 0 .. 2
    BY MaxHeadersAssumption
<1>3. ASSUME NEW r, r \in {Partial, Error} \cup (1 .. Len(b) + 1),
             r # Error => s[<<1, 0>>] = IF r = Partial THEN Partial ELSE s[<<r, 1>>],
             p = IF r < 0 THEN r ELSE h[<<r, 0>>]
      PROVE  p \in {Partial, Error} \cup (1 .. Len(b) + 1) /\ (p # Error => s[<<1, 0>>] = p)
  <2>1. CASE r \in {Partial, Error}
    <3>1. p = r
        BY <1>3, <2>1 DEF Partial, Error
    <3> HIDE DEF p, s
    <3> QED
        BY <1>3, <2>1, <3>1
  <2>2. CASE r \in 1 .. Len(b) + 1
    <3>1. r # Partial /\ r # Error /\ ~ (r < 0)
        BY <2>2 DEF Partial, Error
    <3>2. h[<<r, 0>>] \in Results(b)
      <4>1. h[<<r, 0>>] \in {Partial, Error} \cup (r + 1 .. Len(b) + 1)
          BY <1>2, <2>2, HeadersRange
      <4> HIDE DEF h
      <4> QED
          BY <1>2, <2>2, <4>1 DEF Results
    <3>3. h[<<r, 0>>] # Error => s[<<r, 1>>] = h[<<r, 0>>]
        BY <1>2, <2>2, ScanHeaders
    <3> HIDE DEF p, s, h
    <3> QED
        BY <1>3, <3>1, <3>2, <3>3 DEF Results
  <2> QED
      BY <1>3, <2>1, <2>2
<1>4. CASE e = "request"
  <2> DEFINE r == RequestLine(b)
  <2>1. p = IF r < 0 THEN r ELSE h[<<r, 0>>]
      BY <1>4, ParseHeadersIs DEF Parsed, parse_request, Then
  <2>2. /\ r \in {Partial, Error} \cup (1 .. Len(b) + 1)
        /\ r # Error => s[<<1, 0>>] = IF r = Partial THEN Partial ELSE s[<<r, 1>>]
      BY RequestLineIs
  <2> HIDE DEF r, s, h, p
  <2>3. p \in {Partial, Error} \cup (1 .. Len(b) + 1) /\ (p # Error => s[<<1, 0>>] = p)
      BY <1>3, <2>1, <2>2
  <2> QED
      BY <1>1, <2>3 DEF p
<1>5. CASE e = "response"
  <2> DEFINE r == StatusLine(b)
  <2>1. p = IF r < 0 THEN r ELSE h[<<r, 0>>]
      BY <1>5, ParseHeadersIs DEF Parsed, parse_response, Then
  <2>2. /\ r \in {Partial, Error} \cup (1 .. Len(b) + 1)
        /\ r # Error => s[<<1, 0>>] = IF r = Partial THEN Partial ELSE s[<<r, 1>>]
      BY StatusLineIs
  <2> HIDE DEF r, s, h, p
  <2>3. p \in {Partial, Error} \cup (1 .. Len(b) + 1) /\ (p # Error => s[<<1, 0>>] = p)
      BY <1>3, <2>1, <2>2
  <2> QED
      BY <1>1, <2>3 DEF p
<1>6. CASE e = "headers"
  <2>1. p = h[<<1, 0>>]
      BY <1>6, ParseHeadersIs DEF Parsed
  <2>2. h[<<1, 0>>] \in Results(b)
    <3>1. h[<<1, 0>>] \in {Partial, Error} \cup (1 + 1 .. Len(b) + 1)
        BY <1>2, HeadersRange
    <3> HIDE DEF h
    <3> QED
        BY <1>2, <3>1 DEF Results
  <2>3. h[<<1, 0>>] # Error => s[<<1, 1>>] = h[<<1, 0>>]
      BY <1>2, ScanHeaders
  <2>4. s[<<1, 1>>] = s[<<1, 0>>]
    <3>1. 1 <= Len(b) /\ b[1] \notin {"CR", "LF"}
        BY <1>2, <1>6 DEF NoEmptyBlock
    <3>2. ScanFrom(s, b, 1, 0) /\ ScanFrom(s, b, 1, 1)
        BY <1>2, ScanStep
    <3> HIDE DEF s
    <3> QED
        BY <3>1, <3>2 DEF ScanFrom
  <2> HIDE DEF s, h, p
  <2>5. p \in {Partial, Error} \cup (1 .. Len(b) + 1) /\ (p # Error => s[<<1, 0>>] = p)
      BY <2>1, <2>2, <2>3, <2>4 DEF Results
  <2> QED
      BY <1>1, <2>5 DEF p
<1> QED
    BY <1>4, <1>5, <1>6 DEF Entry

LEMMA ParsedNothing ==
    ASSUME NEW e \in Entry
    PROVE  Parsed(e, <<>>) = Partial
<1> DEFINE b == <<>>
<1>1. b \in Seq(Unit) /\ Len(b) = 0 /\ 1 \in 1 .. Len(b) + 1 /\ 0 \in 0 .. MaxHeaders
    BY MaxHeadersAssumption
<1>2. CASE e = "request"
    BY <1>2 DEF Parsed, parse_request, RequestLine, Then, Partial
<1>3. CASE e = "response"
  <2>1. StatusLine(b) = Partial
      BY DEF StatusLine, parse_http_version, Then, Partial
  <2> QED
      BY <1>3, <2>1 DEF Parsed, parse_response, Then, Partial
<1>4. CASE e = "headers"
  <2>1. HeadersFrom(HeadersOf(b), b, 1, 0)
      BY <1>1, HeadersStep
  <2>2. HeadersOf(b)[<<1, 0>>] = Partial
      BY <1>1, <2>1 DEF HeadersFrom
  <2> QED
      BY <1>4, <2>2, ParseHeadersIs DEF Parsed
<1> QED
    BY <1>2, <1>3, <1>4 DEF Entry

\* What a call answers when the search it begins with finds the same as one from the
\* beginning.
LEMMA AnswerIs ==
    ASSUME NEW e \in Entry, NEW b \in Seq(Unit), b # <<>>, NoEmptyBlock(e, b), NEW last \in Nat,
           last > 0 => is_complete(b, last) = is_complete(b, 0)
    PROVE  LET r == Answer(e, b, last)
               whole == Answer(e, b, 0)
               complete == is_complete(b, 0)
           IN  /\ r = Partial => complete = Partial
               /\ r = whole \/ (r = Partial /\ whole = Error /\ complete < 0)
               /\ whole > 0 => complete # Partial
<1> DEFINE p == Parsed(e, b)
           complete == is_complete(b, 0)
           Ans(l) == LET c == IF l = 0 THEN 1 ELSE complete
                     IN  IF c < 0 THEN c ELSE IF p < 0 THEN p ELSE p - 1
<1>1. /\ p \in {Partial, Error} \cup (1 .. Len(b) + 1)
      /\ p # Error => complete = p
    BY ParsedIsComplete
<1>2. complete \in {Partial, Error} \cup (1 .. Len(b) + 1)
  <2>1. complete = ScanOf(b)[<<1, 0>>]
      BY IsCompleteIs DEF ResumeAt
  <2>2. 1 \in 1 .. Len(b) + 1 /\ 0 \in 0 .. 2
      OBVIOUS
  <2> HIDE DEF complete
  <2> QED
      BY <2>1, <2>2, ScanRange
<1>3. Len(b) \in Nat
    OBVIOUS
<1>4. Answer(e, b, last) = Ans(last) /\ Answer(e, b, 0) = Ans(0)
    BY DEF Answer
<1> HIDE DEF p, complete
<1>5. p = Error => Ans(0) = Error
    BY DEF Error
<1>6. p = Partial => Ans(0) = Partial /\ complete = Partial /\ Ans(last) = Partial
    BY <1>1 DEF Partial, Error
<1>7. p \in 1 .. Len(b) + 1 => complete > 0 /\ Ans(0) = p - 1 /\ Ans(last) = p - 1
  <2> SUFFICES ASSUME p \in 1 .. Len(b) + 1
               PROVE  complete > 0 /\ Ans(0) = p - 1 /\ Ans(last) = p - 1
      OBVIOUS
  <2>1. p \in Nat /\ p > 0 /\ p # Error
      BY <1>3 DEF Error
  <2>2. complete = p
      BY <1>1, <2>1
  <2> QED
      BY <2>1, <2>2
<1>8. p = Error => \/ Ans(last) = Error
                   \/ complete = Partial /\ Ans(last) = Partial
    BY <1>2, <1>3 DEF Partial, Error
<1>9. /\ Ans(last) = Partial => complete = Partial
      /\ Ans(last) = Ans(0) \/ (Ans(last) = Partial /\ Ans(0) = Error /\ complete < 0)
      /\ Ans(0) > 0 => complete # Partial
  <2> HIDE DEF Ans
  <2> QED
      BY <1>1, <1>3, <1>5, <1>6, <1>7, <1>8 DEF Partial, Error
<1> QED
    BY <1>4, <1>9 DEF complete

-----------------------------------------------------------------------------
(* However the head is split. *)

\* A head is partial only while no end was found in it, and the search for the end
\* found what one from the beginning finds.
HeadInv ==
    /\ entry \in Entry
    /\ buf \in Seq(Unit)
    /\ NoEmptyBlock(entry, buf)
    /\ last_len \in Nat
    /\ last_len > 0 => buf # <<>> /\ is_complete(buf, last_len) = is_complete(buf, 0)
    /\ buf # <<>> /\ result = Partial => is_complete(buf, 0) = Partial

LEMMA CallReturns ==
    ASSUME entry \in Entry, NEW b, NEW last, Call(b, last), result' = Partial
    PROVE  Answer(entry, b, last) = Partial
<1> DEFINE v == Verdict(b, last)
<1>1. v = Answer(entry, b, last)
    BY VerdictIs
<1>2. v = Partial
  <2> HIDE DEF v
  <2>1. ASSUME NEW r, NEW map, NEW length, Finish(r, map, length) PROVE r = Partial
      BY <2>1 DEF Finish, Partial, Error
  <2>2. CASE parse(b, last)
      BY <2>1, <2>2 DEF parse, v
  <2>3. CASE ParseOther(b, last)
      BY <2>3 DEF ParseOther, v
  <2> QED
      BY <2>2, <2>3 DEF Call
<1> QED
    BY <1>1, <1>2

\* A first call, or one for a buffer that grew.
LEMMA CallKeepsInv ==
    ASSUME HeadInv, NEW b \in Seq(Unit), b # <<>>, NoEmptyBlock(entry, b), NEW last \in Nat,
           last > 0 => is_complete(b, last) = is_complete(b, 0),
           Call(b, last)
    PROVE  HeadInv'
<1>1. entry \in Entry /\ entry' = entry /\ buf' = b /\ last_len' = last
    BY DEF HeadInv, Call
<1>2. result' = Partial => is_complete(b, 0) = Partial
    BY <1>1, CallReturns, AnswerIs
<1> QED
    BY <1>1, <1>2 DEF HeadInv

LEMMA HeadInvariant ==
    ASSUME \A b \in FirstRead["headers"] : NoEmptyBlock("headers", b)
    PROVE  Spec => []HeadInv
<1>1. Init => HeadInv
    BY DEF Init, HeadInv, NoEmptyBlock
<1>2. HeadInv /\ [Next]_vars => HeadInv'
  <2> SUFFICES ASSUME HeadInv, [Next]_vars PROVE HeadInv'
      OBVIOUS
  <2>1. CASE Begin
    <3>1. PICK b \in FirstRead[entry] : b # <<>> /\ Call(b, 0)
        BY <2>1 DEF Begin
    <3>2. b \in Seq(Unit)
        BY <3>1, UnitAssumption DEF HeadInv
    <3>3. NoEmptyBlock(entry, b)
        BY <3>1 DEF NoEmptyBlock
    <3> QED
        BY <3>1, <3>2, <3>3, CallKeepsInv
  <2>2. CASE Continue
    <3>0. PICK n \in 1 .. 3 : \E units \in [1 .. n -> Unit] : Call(buf \o units, Len(buf))
        BY <2>2 DEF Continue
    <3>1. PICK units \in [1 .. n -> Unit] : Call(buf \o units, Len(buf))
        BY <3>0
    <3> DEFINE b == buf \o units
    <3>2. units \in Seq(Unit) /\ Len(units) = n /\ buf \in Seq(Unit) /\ Len(buf) \in Nat
        BY DEF HeadInv
    <3>3. b \in Seq(Unit) /\ Len(b) = Len(buf) + n /\ \A k \in 1 .. Len(buf) : b[k] = buf[k]
        BY <3>2
    <3>4. buf # <<>> /\ result = Partial
        BY <2>2 DEF Continue
    <3>5. is_complete(buf, 0) = Partial
        BY <3>4 DEF HeadInv
    <3> HIDE DEF b
    <3>6. Begins(buf, b) /\ b # <<>> /\ b[1] = buf[1]
        BY <3>2, <3>3, <3>4 DEF Begins
    <3>7. is_complete(b, Len(buf)) = is_complete(b, 0)
        BY <3>2, <3>3, <3>5, <3>6, ResumeFinds
    <3>8. NoEmptyBlock(entry, b)
        BY <3>4, <3>6 DEF NoEmptyBlock, HeadInv
    <3>9. Call(b, Len(buf))
        BY <3>1 DEF b
    <3> QED
        BY <3>2, <3>3, <3>6, <3>7, <3>8, <3>9, CallKeepsInv
  <2>3. CASE Stop \/ UNCHANGED vars
      BY <2>3 DEF Stop, vars, HeadInv
  <2> QED
      BY <2>1, <2>2, <2>3 DEF Next
<1> QED
    BY <1>1, <1>2, PTL DEF Spec

\* However a head is split into reads, the resumed search of is_complete
\* (picohttpparser.c:203) neither misses its end nor finds one that is none, provided
\* that no block of headers is empty: an empty one is read as complete at once only
\* when it comes in one piece.
THEOREM SplitNeverMatters ==
    ASSUME \A b \in FirstRead["headers"] : NoEmptyBlock("headers", b)
    PROVE  Spec => []SplitIndependent
<1>1. HeadInv => SplitIndependent
  <2> SUFFICES ASSUME HeadInv PROVE SplitIndependent
      OBVIOUS
  <2>1. /\ Verdict(buf, 0) = Answer(entry, buf, 0)
        /\ Verdict(buf, last_len) = Answer(entry, buf, last_len)
      BY VerdictIs DEF HeadInv
  <2>2. CASE buf = <<>>
    <3>1. Answer(entry, buf, 0) = Partial
        BY <2>2, ParsedNothing DEF HeadInv, Answer, Partial
    <3> QED
        BY <2>1, <2>2, <3>1 DEF SplitIndependent
  <2>3. CASE buf # <<>>
    <3> DEFINE r == Answer(entry, buf, last_len)
               whole == Answer(entry, buf, 0)
    <3>1. r = whole \/ (r = Partial /\ whole = Error /\ is_complete(buf, 0) < 0)
        BY <2>3, AnswerIs DEF HeadInv
    <3> QED
        BY <2>1, <2>3, <3>1 DEF SplitIndependent
  <2> QED
      BY <2>2, <2>3
<1> QED
    BY <1>1, HeadInvariant, PTL

\* Under the same condition a head that would be accepted in one piece is never
\* reported as partial, which picohttpparser.h:51 says of it without the condition.
THEOREM CompleteHeadIsReported ==
    ASSUME \A b \in FirstRead["headers"] : NoEmptyBlock("headers", b)
    PROVE  Spec => []CompleteIsReported
<1>1. HeadInv => CompleteIsReported
  <2> SUFFICES ASSUME HeadInv, buf # <<>>, Verdict(buf, 0) > 0 PROVE result # Partial
      BY DEF CompleteIsReported
  <2>1. Answer(entry, buf, 0) > 0
      BY VerdictIs DEF HeadInv
  <2>2. is_complete(buf, 0) # Partial
      BY <2>1, AnswerIs DEF HeadInv
  <2> QED
      BY <2>2 DEF HeadInv
<1> QED
    BY <1>1, HeadInvariant, PTL

-----------------------------------------------------------------------------
(* What is read of the beginning of a buffer stands, whatever comes after it. *)

LEMMA FindCharStands ==
    ASSUME NEW b \in Seq(Unit), NEW c \in Seq(Unit), Begins(c, b), NEW i \in 1 .. Len(c) + 1, NEW S
    PROVE  LET f == FindChar(c, i, S)
           IN  /\ f \in i .. Len(c) + 1
               /\ f <= Len(c) => FindChar(b, i, S) = f /\ f <= Len(b) /\ b[f] = c[f]
<1> DEFINE f == FindChar(c, i, S)
<1>1. /\ f \in i .. Len(c) + 1
      /\ \A k \in i .. f - 1 : c[k] \notin S
      /\ f <= Len(c) => c[f] \in S
    BY FindCharIs
<1>2. Len(b) \in Nat /\ Len(c) \in Nat /\ Len(c) <= Len(b) /\ i \in 1 .. Len(b) + 1
    BY DEF Begins
<1> HIDE DEF f
<1>3. ASSUME f <= Len(c) PROVE FindChar(b, i, S) = f /\ f <= Len(b) /\ b[f] = c[f]
  <2>1. f \in i .. Len(b) + 1 /\ f \in 1 .. Len(c) /\ f <= Len(b)
      BY <1>1, <1>2, <1>3
  <2>2. \A k \in i .. f - 1 : k \in 1 .. Len(c)
      BY <1>2, <2>1
  <2>3. b[f] = c[f] /\ \A k \in i .. f - 1 : b[k] = c[k]
      BY <2>1, <2>2 DEF Begins
  <2>4. (\A k \in i .. f - 1 : b[k] \notin S) /\ (f <= Len(b) => b[f] \in S)
      BY <1>1, <1>3, <2>3
  <2> QED
      BY <1>2, <2>1, <2>3, <2>4, FindCharAt
<1> QED
    BY <1>1, <1>3 DEF f

LEMMA TokenStands ==
    ASSUME NEW b \in Seq(Unit), NEW c \in Seq(Unit), Begins(c, b), NEW i \in 1 .. Len(c) + 1
    PROVE  /\ AdvanceToken(c, i) # Partial => AdvanceToken(b, i) = AdvanceToken(c, i)
           /\ get_token_to_eol(c, i) # Partial => get_token_to_eol(b, i) = get_token_to_eol(c, i)
<1>1. Len(b) \in Nat /\ Len(c) \in Nat /\ Len(c) <= Len(b)
    BY DEF Begins
<1>2. ASSUME AdvanceToken(c, i) # Partial PROVE AdvanceToken(b, i) = AdvanceToken(c, i)
  <2> DEFINE S == {"SP", "CR", "LF", "CTL"}
             f == FindChar(c, i, S)
  <2>1. /\ f \in i .. Len(c) + 1
        /\ f <= Len(c) => FindChar(b, i, S) = f /\ f <= Len(b) /\ b[f] = c[f]
      BY FindCharStands
  <2>2. AdvanceToken(c, i) = IF f > Len(c) THEN Partial ELSE IF c[f] # "SP" THEN Error ELSE f
      BY DEF AdvanceToken
  <2>3. AdvanceToken(b, i) = IF FindChar(b, i, S) > Len(b) THEN Partial
                             ELSE IF b[FindChar(b, i, S)] # "SP" THEN Error ELSE FindChar(b, i, S)
      BY DEF AdvanceToken
  <2> HIDE DEF f, S
  <2> QED
      BY <1>1, <1>2, <2>1, <2>2, <2>3
<1>3. ASSUME get_token_to_eol(c, i) # Partial
      PROVE  get_token_to_eol(b, i) = get_token_to_eol(c, i)
  <2> DEFINE S == {"CR", "LF", "CTL"}
             f == FindChar(c, i, S)
  <2>1. /\ f \in i .. Len(c) + 1
        /\ f <= Len(c) => FindChar(b, i, S) = f /\ f <= Len(b) /\ b[f] = c[f]
      BY FindCharStands
  <2>2. get_token_to_eol(c, i) = EndOfLine(c, f) /\ get_token_to_eol(b, i) = EndOfLine(b, FindChar(b, i, S))
      BY DEF get_token_to_eol
  <2> HIDE DEF f, S
  <2>3. f \in 1 .. Len(c) + 1
      BY <1>1, <2>1
  <2>4. EndOfLine(c, f) # Partial
      BY <1>3, <2>2
  <2>5. f <= Len(c)
      BY <1>1, <2>3, <2>4, EndOfLineIs
  <2>6. EndOfLine(b, f) = EndOfLine(c, f)
      BY <2>3, <2>4, EndOfLineStands
  <2> QED
      BY <2>1, <2>2, <2>5, <2>6
<1> QED
    BY <1>2, <1>3

LEMMA HeaderLineStands ==
    ASSUME NEW b \in Seq(Unit), NEW c \in Seq(Unit), Begins(c, b), NEW i \in 1 .. Len(c), NEW n \in Nat,
           HeaderLine(c, i, n) # Partial
    PROVE  HeaderLine(b, i, n) = HeaderLine(c, i, n)
<1>1. Len(b) \in Nat /\ Len(c) \in Nat /\ Len(c) <= Len(b) /\ i \in 1 .. Len(b) /\ b[i] = c[i]
      /\ i \in 1 .. Len(c) + 1 /\ i \in 1 .. Len(b) + 1
    BY DEF Begins
<1> DEFINE S == {"COLON", "SP", "CR", "LF", "CTL", "VER"}
           T == Unit \ {"SP"}
           vc == ValueStart(c, i, n)
           vb == ValueStart(b, i, n)
           fc == FindChar(c, i, S)
           fb == FindChar(b, i, S)
           gc == FindChar(c, fc + 1, T)
           gb == FindChar(b, fb + 1, T)
<1>2. /\ n # 0 /\ c[i] = "SP" => vc = i
      /\ ~ (n # 0 /\ c[i] = "SP") =>
            vc = IF fc > Len(c) THEN Partial
                 ELSE IF c[fc] # "COLON" \/ fc = i THEN Error
                 ELSE IF gc > Len(c) THEN Partial ELSE gc
    BY ValueStartIs
<1>3. /\ n # 0 /\ b[i] = "SP" => vb = i
      /\ ~ (n # 0 /\ b[i] = "SP") =>
            vb = IF fb > Len(b) THEN Partial
                 ELSE IF b[fb] # "COLON" \/ fb = i THEN Error
                 ELSE IF gb > Len(b) THEN Partial ELSE gb
    BY <1>1, ValueStartIs
<1>4. HeaderLine(c, i, n) = (IF vc < 0 THEN vc ELSE get_token_to_eol(c, vc))
      /\ HeaderLine(b, i, n) = (IF vb < 0 THEN vb ELSE get_token_to_eol(b, vb))
    BY DEF HeaderLine, Then
<1>5. fc \in i .. Len(c) + 1 /\ (fc <= Len(c) => fb = fc /\ fc <= Len(b) /\ b[fc] = c[fc])
    BY <1>1, FindCharStands
<1>6. fc <= Len(c) => gc \in fc + 1 .. Len(c) + 1
                      /\ (gc <= Len(c) => gb = gc /\ gc <= Len(b) /\ b[gc] = c[gc])
  <2> HIDE DEF fc
  <2>1. fc <= Len(c) => fc + 1 \in 1 .. Len(c) + 1
      BY <1>1, <1>5
  <2> HIDE DEF T
  <2>2. fc <= Len(c) => gc \in fc + 1 .. Len(c) + 1
          /\ (gc <= Len(c) => FindChar(b, fc + 1, T) = gc /\ gc <= Len(b) /\ b[gc] = c[gc])
      BY <2>1, FindCharStands
  <2> QED
      BY <1>5, <2>2
<1>7. vc \in {Partial, Error} \cup (i .. Len(c))
    BY ValueStartPasses
<1> HIDE DEF S, T, vc, vb, fc, fb, gc, gb
<1>8. vc # Partial
    BY <1>4 DEF Partial
<1>9. vb = vc
    BY <1>1, <1>2, <1>3, <1>5, <1>6, <1>8
<1>10. vc \in i .. Len(c) => get_token_to_eol(b, vc) = get_token_to_eol(c, vc)
  <2> SUFFICES ASSUME vc \in i .. Len(c) PROVE get_token_to_eol(b, vc) = get_token_to_eol(c, vc)
      OBVIOUS
  <2>1. vc \in 1 .. Len(c) + 1 /\ ~ (vc < 0)
      BY <1>1
  <2>2. get_token_to_eol(c, vc) # Partial
      BY <1>4, <2>1
  <2> QED
      BY <2>1, <2>2, TokenStands
<1> QED
    BY <1>4, <1>7, <1>8, <1>9, <1>10 DEF Error

LEMMA HeadersStand ==
    ASSUME NEW b \in Seq(Unit), NEW c \in Seq(Unit), Begins(c, b),
           NEW i \in 1 .. Len(c) + 1, NEW n \in 0 .. MaxHeaders,
           HeadersOf(c)[<<i, n>>] # Partial
    PROVE  HeadersOf(b)[<<i, n>>] = HeadersOf(c)[<<i, n>>]
<1> DEFINE hb == HeadersOf(b)
           hc == HeadersOf(c)
           N == Len(c) + 1
           S == {k \in 1 .. N : \A m \in 0 .. MaxHeaders : hc[<<k, m>>] # Partial => hb[<<k, m>>] = hc[<<k, m>>]}
<1>1. N \in Nat /\ Len(b) \in Nat /\ Len(c) \in Nat /\ Len(c) <= Len(b) /\ MaxHeaders \in Nat
    BY MaxHeadersAssumption DEF Begins
<1>2. FromAbove(S, N)
  <2> SUFFICES ASSUME NEW k \in 1 .. N, \A j \in k + 1 .. N : j \in S,
                      NEW m \in 0 .. MaxHeaders, hc[<<k, m>>] # Partial
               PROVE  hb[<<k, m>>] = hc[<<k, m>>]
      BY DEF FromAbove
  <2>1. HeadersFrom(hc, c, k, m)
      BY HeadersStep
  <2>2. k \in 1 .. Len(b) + 1
      BY <1>1
  <2>3. HeadersFrom(hb, b, k, m)
      BY <2>2, HeadersStep
  <2>4. k # Len(c) + 1
    <3> HIDE DEF hc
    <3> QED
        BY <2>1 DEF HeadersFrom
  <2>5. k \in 1 .. Len(c) /\ k <= Len(c) /\ k <= Len(b)
      BY <1>1, <2>4
  <2>6. b[k] = c[k]
      BY <2>5 DEF Begins
  <2>7. CASE c[k] \in {"CR", "LF"}
    <3>1. hc[<<k, m>>] = EndOfLine(c, k) /\ hb[<<k, m>>] = EndOfLine(b, k)
      <4> HIDE DEF hc, hb
      <4> QED
          BY <2>1, <2>3, <2>5, <2>6, <2>7 DEF HeadersFrom
    <3>2. EndOfLine(c, k) # Partial
        BY <3>1
    <3> HIDE DEF hc, hb
    <3> QED
        BY <3>1, <3>2, EndOfLineStands
  <2>8. CASE c[k] \notin {"CR", "LF"} /\ m = MaxHeaders
    <3> HIDE DEF hc, hb
    <3> QED
        BY <2>1, <2>3, <2>5, <2>6, <2>8 DEF HeadersFrom
  <2>9. CASE c[k] \notin {"CR", "LF"} /\ m # MaxHeaders
    <3> DEFINE tc == HeaderLine(c, k, m)
               tb == HeaderLine(b, k, m)
    <3>1. hc[<<k, m>>] = IF tc < 0 THEN tc ELSE hc[<<tc, m + 1>>]
      <4> HIDE DEF hc
      <4> QED
          BY <2>1, <2>5, <2>9 DEF HeadersFrom
    <3>2. hb[<<k, m>>] = IF tb < 0 THEN tb ELSE hb[<<tb, m + 1>>]
      <4> HIDE DEF hb
      <4> QED
          BY <2>3, <2>5, <2>6, <2>9 DEF HeadersFrom
    <3>3. m \in Nat /\ m + 1 \in 0 .. MaxHeaders
        BY <1>1, <2>9
    <3>4. tc \in {Partial, Error} \cup (k + 1 .. Len(c) + 1)
        BY <2>5, <2>9, <3>3, HeaderLineIs
    <3>5. tc # Partial
      <4> HIDE DEF tc, hc
      <4> QED
          BY <3>1 DEF Partial
    <3>6. tb = tc
        BY <2>5, <3>3, <3>5, HeaderLineStands
    <3> HIDE DEF tc, tb
    <3>7. CASE tc = Error
      <4> HIDE DEF hc, hb
      <4> QED
          BY <3>1, <3>2, <3>6, <3>7 DEF Error
    <3>8. CASE tc \in k + 1 .. Len(c) + 1
      <4>1. ~ (tc < 0) /\ tc \in k + 1 .. N
          BY <1>1, <3>8
      <4>2. tc \in S
        <5> HIDE DEF S
        <5> QED
            BY <4>1
      <4>3. hc[<<tc, m + 1>>] # Partial => hb[<<tc, m + 1>>] = hc[<<tc, m + 1>>]
        <5> HIDE DEF hc, hb
        <5> QED
            BY <3>3, <4>2
      <4> HIDE DEF hc, hb, S
      <4> QED
          BY <3>1, <3>2, <3>6, <4>1, <4>3
    <3> QED
        BY <3>4, <3>5, <3>7, <3>8
  <2> QED
      BY <2>7, <2>8, <2>9
<1>3. \A k \in 1 .. N : k \in S
  <2> HIDE DEF S, N
  <2> QED
      BY <1>1, <1>2, InductionFromAbove
<1> QED
    BY <1>3

LEMMA VersionStands ==
    ASSUME NEW b \in Seq(Unit), NEW c \in Seq(Unit), Begins(c, b), NEW i \in 1 .. Len(c) + 1
    PROVE  /\ parse_int(c, i) # Partial => parse_int(b, i) = parse_int(c, i)
           /\ parse_http_version(c, i) # Partial => parse_http_version(b, i) = parse_http_version(c, i)
<1>1. Len(b) \in Nat /\ Len(c) \in Nat /\ Len(c) <= Len(b)
    BY DEF Begins
<1>2. ASSUME NEW j \in 1 .. Len(c) + 1, parse_int(c, j) # Partial
      PROVE  parse_int(b, j) = parse_int(c, j)
  <2> DEFINE T == Unit \ {"NUM"}
             fc == FindChar(c, j, T)
             fb == FindChar(b, j, T)
  <2>1. j \in 1 .. Len(b) + 1
      BY <1>1
  <2>2. parse_int(c, j) = IF fc > Len(c) THEN Partial ELSE IF fc = j THEN Error ELSE fc
      BY ParseIntIs
  <2>3. parse_int(b, j) = IF fb > Len(b) THEN Partial ELSE IF fb = j THEN Error ELSE fb
      BY <2>1, ParseIntIs
  <2>4. fc \in j .. Len(c) + 1 /\ (fc <= Len(c) => fb = fc /\ fc <= Len(b))
    <3> HIDE DEF T
    <3> QED
        BY FindCharStands
  <2> HIDE DEF fc, fb
  <2> QED
      BY <1>1, <1>2, <2>2, <2>3, <2>4
<1>3. ASSUME parse_http_version(c, i) # Partial
      PROVE  parse_http_version(b, i) = parse_http_version(c, i)
  <2> DEFINE pc == parse_int(c, i + 1)
             pb == parse_int(b, i + 1)
  <2>1. i <= Len(c) /\ c[i] = b[i] /\ i <= Len(b)
    <3>1. i <= Len(c)
        BY <1>1, <1>3 DEF parse_http_version
    <3>2. i \in 1 .. Len(c)
        BY <1>1, <3>1
    <3> QED
        BY <1>1, <3>1, <3>2 DEF Begins
  <2>2. ~ (i > Len(c)) /\ ~ (i > Len(b)) /\ i + 1 \in 1 .. Len(c) + 1
      BY <1>1, <2>1
  <2>3. /\ parse_http_version(c, i) = (IF c[i] # "VER" THEN Error ELSE IF pc = Error THEN i + 1 ELSE pc)
        /\ parse_http_version(b, i) = (IF c[i] # "VER" THEN Error ELSE IF pb = Error THEN i + 1 ELSE pb)
      BY <2>1, <2>2 DEF parse_http_version
  <2>4. pc # Partial => pb = pc
      BY <1>2, <2>2
  <2>5. Partial # Error
      BY DEF Partial, Error
  <2>6. CASE c[i] # "VER"
      BY <2>3, <2>6
  <2>7. CASE c[i] = "VER"
    <3> HIDE DEF pc, pb
    <3>1. pc # Partial
        BY <1>3, <2>3, <2>5, <2>7
    <3> QED
        BY <2>3, <2>4, <2>7, <3>1
  <2> QED
      BY <2>6, <2>7
<1> QED
    BY <1>2, <1>3

LEMMA RequestLineStands ==
    ASSUME NEW b \in Seq(Unit), NEW c \in Seq(Unit), Begins(c, b), RequestLine(c) # Partial
    PROVE  RequestLine(b) = RequestLine(c)
<1>1. Len(b) \in Nat /\ Len(c) \in Nat /\ Len(c) <= Len(b)
    BY DEF Begins
<1>2. c # <<>>
    BY DEF RequestLine, Then, Partial
<1>3. b # <<>> /\ b[1] = c[1] /\ 1 \in 1 .. Len(c) + 1
    BY <1>1, <1>2 DEF Begins
<1> DEFINE mc == IF c[1] \in {"CR", "LF"} THEN EndOfLine(c, 1) ELSE 1
           mb == IF b[1] \in {"CR", "LF"} THEN EndOfLine(b, 1) ELSE 1
           rc == RestOfRequestLine(c, mc)
           rb == RestOfRequestLine(b, mb)
<1>4. /\ RequestLine(c) = (IF mc < 0 THEN mc ELSE rc)
      /\ RequestLine(b) = (IF mb < 0 THEN mb ELSE rb)
    BY <1>2, <1>3 DEF RequestLine, RestOfRequestLine, Then
<1>5. mc # Partial => mb = mc
    BY <1>3, EndOfLineStands
<1>6. mc \in {Partial, Error} \cup (1 .. Len(c) + 1)
  <2>1. EndOfLine(c, 1) \in {Partial, Error} \cup (1 + 1 .. Len(c) + 1)
      BY <1>3, EndOfLineIs
  <2> QED
      BY <1>3, <2>1
<1>7. ASSUME NEW m \in 1 .. Len(c) + 1, RestOfRequestLine(c, m) # Partial
      PROVE  RestOfRequestLine(b, m) = RestOfRequestLine(c, m)
  <2> DEFINE pc == AdvanceToken(c, m)
             vc == AdvanceToken(c, pc + 1)
             qc == parse_http_version(c, vc + 1)
             tc == EndOfLine(c, qc)
             pb == AdvanceToken(b, m)
             vb == AdvanceToken(b, pb + 1)
             qb == parse_http_version(b, vb + 1)
             tb == EndOfLine(b, qb)
  <2>1. RestOfRequestLine(c, m) = IF pc < 0 THEN pc ELSE IF vc < 0 THEN vc ELSE IF qc < 0 THEN qc ELSE tc
      BY DEF RestOfRequestLine, Then
  <2>2. RestOfRequestLine(b, m) = IF pb < 0 THEN pb ELSE IF vb < 0 THEN vb ELSE IF qb < 0 THEN qb ELSE tb
      BY DEF RestOfRequestLine, Then
  <2>3. pc \in {Partial, Error} \cup (m .. Len(c)) /\ (pc # Partial => pb = pc)
      BY AdvanceTokenIs, TokenStands
  <2> SUFFICES ASSUME pc \in m .. Len(c), pb = pc
               PROVE  RestOfRequestLine(b, m) = RestOfRequestLine(c, m)
      BY <1>7, <2>1, <2>2, <2>3 DEF Partial, Error
  <2>4. pc + 1 \in 1 .. Len(c) + 1 /\ ~ (pc < 0)
      BY <1>1
  <2>5. vc \in {Partial, Error} \cup (pc + 1 .. Len(c)) /\ (vc # Partial => vb = vc)
      BY <2>4, AdvanceTokenIs, TokenStands
  <2> SUFFICES ASSUME vc \in pc + 1 .. Len(c), vb = vc
               PROVE  RestOfRequestLine(b, m) = RestOfRequestLine(c, m)
    <3> HIDE DEF pc, pb, vc, vb
    <3> QED
        BY <1>7, <2>1, <2>2, <2>4, <2>5 DEF Partial, Error
  <2>6. vc + 1 \in 1 .. Len(c) + 1 /\ ~ (vc < 0)
    <3> HIDE DEF pc, vc
    <3> QED
        BY <1>1, <2>4
  <2>7. qc \in {Partial, Error} \cup ((vc + 1) + 1 .. Len(c)) /\ (qc # Partial => qb = qc)
    <3> HIDE DEF vc, vb
    <3> QED
        BY <2>6, VersionIs, VersionStands
  <2> SUFFICES ASSUME qc \in (vc + 1) + 1 .. Len(c), qb = qc
               PROVE  RestOfRequestLine(b, m) = RestOfRequestLine(c, m)
    <3> HIDE DEF pc, pb, vc, vb, qc, qb
    <3> QED
        BY <1>7, <2>1, <2>2, <2>4, <2>6, <2>7 DEF Partial, Error
  <2> HIDE DEF pc, pb, vc, vb, qc, qb
  <2>8. qc \in 1 .. Len(c) + 1 /\ ~ (qc < 0)
      BY <1>1, <2>6
  <2>9. RestOfRequestLine(c, m) = tc /\ RestOfRequestLine(b, m) = tb
      BY <2>1, <2>2, <2>4, <2>6, <2>8
  <2> QED
      BY <1>7, <2>8, <2>9, EndOfLineStands
<1> HIDE DEF mc, mb
<1>8. mc # Partial
    BY <1>4 DEF Partial
<1>9. mc = Error => RequestLine(b) = RequestLine(c)
    BY <1>4, <1>5, <1>8 DEF Error
<1>10. mc \in 1 .. Len(c) + 1 => RequestLine(b) = RequestLine(c)
  <2> SUFFICES ASSUME mc \in 1 .. Len(c) + 1 PROVE RequestLine(b) = RequestLine(c)
      OBVIOUS
  <2>1. RequestLine(c) = rc /\ RequestLine(b) = rb /\ mb = mc
      BY <1>1, <1>4, <1>5, <1>8
  <2> QED
      BY <1>7, <2>1
<1> QED
    BY <1>6, <1>8, <1>9, <1>10

LEMMA StatusLineStands ==
    ASSUME NEW b \in Seq(Unit), NEW c \in Seq(Unit), Begins(c, b), StatusLine(c) # Partial
    PROVE  StatusLine(b) = StatusLine(c)
<1>1. Len(b) \in Nat /\ Len(c) \in Nat /\ Len(c) <= Len(b) /\ 1 \in 1 .. Len(c) + 1
    BY DEF Begins
<1> DEFINE Blank(s, i) == IF s[i] # "SP" THEN Error ELSE i + 1
           vc == parse_http_version(c, 1)
           nc == Blank(c, vc)
           pc == parse_int(c, nc)
           kc == Blank(c, pc)
           tc == get_token_to_eol(c, kc)
           vb == parse_http_version(b, 1)
           nb == Blank(b, vb)
           pb == parse_int(b, nb)
           kb == Blank(b, pb)
           tb == get_token_to_eol(b, kb)
<1>2. StatusLine(c) = IF vc < 0 THEN vc ELSE IF nc < 0 THEN nc ELSE IF pc < 0 THEN pc
                      ELSE IF kc < 0 THEN kc ELSE tc
    BY DEF StatusLine, Then
<1>3. StatusLine(b) = IF vb < 0 THEN vb ELSE IF nb < 0 THEN nb ELSE IF pb < 0 THEN pb
                      ELSE IF kb < 0 THEN kb ELSE tb
    BY DEF StatusLine, Then
<1>4. vc \in {Partial, Error} \cup (1 + 1 .. Len(c)) /\ (vc # Partial => vb = vc)
    BY <1>1, VersionIs, VersionStands
<1>5. ASSUME NEW v \in 1 .. Len(c)
      PROVE  Blank(b, v) = Blank(c, v) /\ Blank(c, v) \in {Error} \cup (1 .. Len(c) + 1)
  <2>1. b[v] = c[v] /\ v + 1 \in 1 .. Len(c) + 1
      BY <1>1 DEF Begins
  <2> QED
      BY <2>1
<1> SUFFICES ASSUME vc \in 1 + 1 .. Len(c), vb = vc
             PROVE  StatusLine(b) = StatusLine(c)
  <2> HIDE DEF vc, vb
  <2> QED
      BY <1>2, <1>3, <1>4 DEF Partial, Error
<1>6. vc \in 1 .. Len(c) /\ ~ (vc < 0)
    BY <1>1
<1>7. nb = nc /\ nc \in {Error} \cup (1 .. Len(c) + 1)
  <2> HIDE DEF vc, vb, Blank
  <2> QED
      BY <1>5, <1>6
<1> SUFFICES ASSUME nc \in 1 .. Len(c) + 1, nb = nc
             PROVE  StatusLine(b) = StatusLine(c)
  <2> HIDE DEF vc, vb, nc, nb
  <2> QED
      BY <1>2, <1>3, <1>6, <1>7 DEF Error
<1>8. ~ (nc < 0)
  <2> HIDE DEF nc
  <2> QED
      BY <1>1
<1>9. pc \in {Partial, Error} \cup (nc + 1 .. Len(c)) /\ (pc # Partial => pb = pc)
  <2> HIDE DEF nc, nb
  <2> QED
      BY ParseIntPasses, VersionStands
<1> SUFFICES ASSUME pc \in nc + 1 .. Len(c), pb = pc
             PROVE  StatusLine(b) = StatusLine(c)
  <2> HIDE DEF vc, vb, nc, nb, pc, pb
  <2> QED
      BY <1>2, <1>3, <1>6, <1>8, <1>9 DEF Partial, Error
<1>10. pc \in 1 .. Len(c) /\ ~ (pc < 0)
  <2> HIDE DEF nc, pc
  <2> QED
      BY <1>1, <1>8
<1>11. kb = kc /\ kc \in {Error} \cup (1 .. Len(c) + 1)
  <2> HIDE DEF pc, pb, Blank
  <2> QED
      BY <1>5, <1>10
<1> HIDE DEF vc, vb, nc, nb, pc, pb, kc, kb
<1>12. CASE kc = Error
    BY <1>2, <1>3, <1>6, <1>8, <1>10, <1>11, <1>12 DEF Error
<1>13. CASE kc \in 1 .. Len(c) + 1
  <2>1. StatusLine(c) = tc /\ StatusLine(b) = tb
      BY <1>1, <1>2, <1>3, <1>6, <1>8, <1>10, <1>11, <1>13
  <2> QED
      BY <1>11, <1>13, <2>1, TokenStands
<1> QED
    BY <1>11, <1>12, <1>13

LEMMA ParsedStands ==
    ASSUME NEW e \in Entry, NEW b \in Seq(Unit), NEW c \in Seq(Unit), Begins(c, b),
           Parsed(e, c) # Partial
    PROVE  Parsed(e, b) = Parsed(e, c)
<1> DEFINE hb == HeadersOf(b)
           hc == HeadersOf(c)
<1>1. Len(c) \in Nat /\ 1 \in 1 .. Len(c) + 1 /\ 0 \in 0 .. MaxHeaders
    BY MaxHeadersAssumption
<1>2. ASSUME NEW fb, NEW fc, fc # Partial => fb = fc, fc \in {Partial, Error} \cup (1 .. Len(c) + 1),
             Parsed(e, c) = IF fc < 0 THEN fc ELSE hc[<<fc, 0>>],
             Parsed(e, b) = IF fb < 0 THEN fb ELSE hb[<<fb, 0>>]
      PROVE  Parsed(e, b) = Parsed(e, c)
  <2>1. CASE fc \in 1 .. Len(c) + 1
    <3>1. ~ (fc < 0) /\ fb = fc
        BY <1>1, <1>2, <2>1 DEF Partial
    <3>2. hc[<<fc, 0>>] # Partial => hb[<<fc, 0>>] = hc[<<fc, 0>>]
        BY <1>1, <2>1, HeadersStand
    <3> QED
        BY <1>2, <3>1, <3>2
  <2>2. CASE fc \in {Partial, Error}
    <3> HIDE DEF hb, hc
    <3> QED
        BY <1>2, <2>2 DEF Partial, Error
  <2> QED
      BY <1>2, <2>1, <2>2
<1>4. c # <<>>
    BY ParsedNothing
<1>5. CASE e = "request"
  <2> DEFINE fb == RequestLine(b)
             fc == RequestLine(c)
  <2>1. /\ Parsed(e, c) = (IF fc < 0 THEN fc ELSE hc[<<fc, 0>>])
        /\ Parsed(e, b) = (IF fb < 0 THEN fb ELSE hb[<<fb, 0>>])
      BY <1>5, ParseHeadersIs DEF Parsed, parse_request, Then
  <2>2. fc \in {Partial, Error} \cup (1 .. Len(c) + 1) /\ (fc # Partial => fb = fc)
      BY <1>4, RequestLineIs, RequestLineStands
  <2> HIDE DEF fb, fc, hb, hc
  <2> QED
      BY <1>2, <2>1, <2>2
<1>6. CASE e = "response"
  <2> DEFINE fb == StatusLine(b)
             fc == StatusLine(c)
  <2>1. /\ Parsed(e, c) = (IF fc < 0 THEN fc ELSE hc[<<fc, 0>>])
        /\ Parsed(e, b) = (IF fb < 0 THEN fb ELSE hb[<<fb, 0>>])
      BY <1>6, ParseHeadersIs DEF Parsed, parse_response, Then
  <2>2. fc \in {Partial, Error} \cup (1 .. Len(c) + 1) /\ (fc # Partial => fb = fc)
      BY <1>4, StatusLineIs, StatusLineStands
  <2> HIDE DEF fb, fc, hb, hc
  <2> QED
      BY <1>2, <2>1, <2>2
<1>7. CASE e = "headers"
  <2>1. Parsed(e, c) = hc[<<1, 0>>] /\ Parsed(e, b) = hb[<<1, 0>>]
      BY <1>7, ParseHeadersIs DEF Parsed
  <2> QED
      BY <1>1, <2>1, HeadersStand
<1> QED
    BY <1>5, <1>6, <1>7 DEF Entry

\* A verdict is never taken back: what the parser says of a head, or of an error in it,
\* it says of every longer buffer, with whatever follows (a pipelined request).
THEOREM VerdictsStand == Spec => []VerdictStands
<1> DEFINE Inv == entry \in Entry /\ buf \in Seq(Unit)
<1>1. Init => Inv
    BY DEF Init
<1>2. Inv /\ [Next]_vars => Inv'
  <2> SUFFICES ASSUME Inv, [Next]_vars PROVE Inv'
      OBVIOUS
  <2>1. ASSUME NEW b \in Seq(Unit), NEW last, Call(b, last) PROVE Inv'
      BY <2>1 DEF Call
  <2>2. CASE Begin
    <3>1. PICK b \in FirstRead[entry] : Call(b, 0)
        BY <2>2 DEF Begin
    <3>2. b \in Seq(Unit)
        BY <3>1, UnitAssumption
    <3> QED
        BY <2>1, <3>1, <3>2
  <2>3. CASE Continue
    <3>1. PICK n \in 1 .. 3 : \E units \in [1 .. n -> Unit] : Call(buf \o units, Len(buf))
        BY <2>3 DEF Continue
    <3>2. PICK units \in [1 .. n -> Unit] : Call(buf \o units, Len(buf))
        BY <3>1
    <3>3. buf \o units \in Seq(Unit)
        OBVIOUS
    <3> QED
        BY <2>1, <3>2, <3>3
  <2>4. CASE Stop \/ UNCHANGED vars
      BY <2>4 DEF Stop, vars
  <2> QED
      BY <2>2, <2>3, <2>4 DEF Next
<1>3. Inv => VerdictStands
  <2> SUFFICES ASSUME Inv, NEW n \in 1 .. Len(buf) - 1, Verdict(SubSeq(buf, 1, n), 0) # Partial
               PROVE  Verdict(buf, 0) = Verdict(SubSeq(buf, 1, n), 0)
      BY DEF VerdictStands
  <2> DEFINE c == SubSeq(buf, 1, n)
  <2>1. c \in Seq(Unit) /\ Begins(c, buf)
    <3>1. n \in 0 .. Len(buf) /\ Len(buf) \in Nat
        OBVIOUS
    <3>2. c \in Seq(Unit) /\ Len(c) = n /\ \A k \in 1 .. n : c[k] = buf[k]
        BY <3>1, PrefixIs
    <3> HIDE DEF c
    <3> QED
        BY <3>1, <3>2 DEF Begins
  <2> HIDE DEF c
  <2>2. /\ Verdict(c, 0) = Answer(entry, c, 0)
        /\ Verdict(buf, 0) = Answer(entry, buf, 0)
      BY VerdictIs
  <2>3. Answer(entry, c, 0) # Partial
      BY <2>2 DEF c
  <2>4. Parsed(entry, c) # Partial
      BY <2>3 DEF Answer, Partial
  <2>5. Parsed(entry, buf) = Parsed(entry, c)
      BY <2>1, <2>4, ParsedStands
  <2> QED
      BY <2>2, <2>5 DEF Answer, c
<1> QED
    BY <1>1, <1>2, <1>3, PTL DEF Spec

-----------------------------------------------------------------------------
(* The fields of a head, and the length of the body. *)

\* The field of the header line at i.
FieldAt(b, i, n) ==
    LET value == ValueStart(b, i, n)
        colon == FindChar(b, i, {"COLON"})
        name == IF value = i THEN <<>> ELSE SubSeq(b, i, colon - 1)
        stop == FindChar(b, value, {"CR", "LF"})
    IN  [name |-> name, value |-> SubSeq(b, value, stop - 1)]

\* There is no field for the line at i.
NoField(b, i, n) == i > Len(b) \/ n = MaxHeaders \/ HeaderLine(b, i, n) < 0

FieldsFrom(f, b, i, n) ==
    f[<<i, n>>] = IF NoField(b, i, n) THEN <<>>
                  ELSE <<FieldAt(b, i, n)>> \o f[<<HeaderLine(b, i, n), n + 1>>]

IsFields(f, b) ==
    f = [at \in Places(b, MaxHeaders) |->
            IF NoField(b, at[1], at[2]) THEN <<>>
            ELSE <<FieldAt(b, at[1], at[2])>> \o f[<<HeaderLine(b, at[1], at[2]), at[2] + 1>>]]

FieldsOf(b) == CHOOSE f : IsFields(f, b)

LEMMA FieldsIs ==
    ASSUME NEW b
    PROVE  Fields(b) = FieldsOf(b)[<<RequestLine(b), 0>>]
BY DEF Fields, FieldsOf, IsFields, FieldAt, NoField, Places

\* Something put before a sequence.
LEMMA PrependIs ==
    ASSUME NEW S, NEW s \in Seq(S), NEW e \in S
    PROVE  /\ <<e>> \o s \in Seq(S)
           /\ Len(<<e>> \o s) = Len(s) + 1
           /\ (<<e>> \o s)[1] = e
           /\ \A i \in 1 .. Len(s) : (<<e>> \o s)[i + 1] = s[i]
<1> DEFINE p == <<e>>
           q == p \o s
<1>1. p \in Seq(S) /\ Len(p) = 1 /\ p[1] = e /\ Len(s) \in Nat
    OBVIOUS
<1>2. /\ q \in Seq(S)
      /\ Len(q) = Len(p) + Len(s)
      /\ \A k \in 1 .. Len(p) + Len(s) : q[k] = IF k <= Len(p) THEN p[k] ELSE s[k - Len(p)]
  <2> HIDE DEF p
  <2> QED
      BY <1>1, ConcatProperties
<1> HIDE DEF p, q
<1>3. Len(q) = Len(s) + 1 /\ q[1] = e
    BY <1>1, <1>2
<1>4. ASSUME NEW i \in 1 .. Len(s) PROVE q[i + 1] = s[i]
  <2>1. i + 1 \in 1 .. Len(p) + Len(s) /\ ~ (i + 1 <= Len(p)) /\ (i + 1) - Len(p) = i
      BY <1>1
  <2> QED
      BY <1>2, <2>1
<1> QED
    BY <1>2, <1>3, <1>4 DEF p, q

\* Where the line after one with a field begins.
LEMMA NextLine ==
    ASSUME NEW b \in Seq(Unit), NEW i \in 1 .. Len(b) + 1, NEW n \in 0 .. MaxHeaders, ~ NoField(b, i, n)
    PROVE  /\ HeaderLine(b, i, n) \in i + 1 .. Len(b) + 1
           /\ i \in 1 .. Len(b) /\ n \in Nat /\ n + 1 \in 0 .. MaxHeaders
<1> DEFINE v == ValueStart(b, i, n)
           t == HeaderLine(b, i, n)
<1>1. MaxHeaders \in Nat /\ Len(b) \in Nat
    BY MaxHeadersAssumption
<1>2. ~ (i > Len(b)) /\ n # MaxHeaders /\ ~ (t < 0)
    BY DEF NoField
<1>3. i \in 1 .. Len(b) /\ n \in Nat /\ n + 1 \in 0 .. MaxHeaders
    BY <1>1, <1>2
<1>4. v \in {Partial, Error} \cup (i .. Len(b))
    BY <1>3, ValueStartPasses
<1>5. t = IF v < 0 THEN v ELSE get_token_to_eol(b, v)
    BY DEF HeaderLine, Then
<1> HIDE DEF v, t
<1>6. v \in i .. Len(b) /\ v \in 1 .. Len(b) + 1 /\ t = get_token_to_eol(b, v)
    BY <1>1, <1>2, <1>4, <1>5 DEF Partial, Error
<1>7. get_token_to_eol(b, v) \in {Partial, Error} \cup (v + 1 .. Len(b) + 1)
    BY <1>6, TokenLine
<1>8. t \in i + 1 .. Len(b) + 1
    BY <1>1, <1>2, <1>6, <1>7 DEF Partial, Error
<1> QED
    BY <1>3, <1>8 DEF t

AnyField(b) == {FieldAt(b, at[1], at[2]) : at \in Places(b, MaxHeaders)}

LEMMA FieldsExist ==
    ASSUME NEW b \in Seq(Unit)
    PROVE  \E f \in [Places(b, MaxHeaders) -> Seq(AnyField(b))] : IsFields(f, b)
<1> DEFINE D == Places(b, MaxHeaders)
           F == AnyField(b)
           R == Seq(F)
           field == [at \in D |-> FieldAt(b, at[1], at[2])]
           Stops == {at \in D : NoField(b, at[1], at[2])}
           value == [at \in D |-> <<>>]
           after == [at \in D |-> IF at \in Stops THEN at ELSE <<HeaderLine(b, at[1], at[2]), at[2] + 1>>]
           step == [at \in D |-> [r \in R |-> <<field[at]>> \o r]]
           left == [at \in D |-> Len(b) + 1 - at[1]]
<1>1. MaxHeaders \in Nat /\ Len(b) \in Nat
    BY MaxHeadersAssumption
<1>2. ASSUME NEW at \in D PROVE at[1] \in 1 .. Len(b) + 1 /\ at[2] \in 0 .. MaxHeaders
    BY <1>1, PlaceIs
<1>3. ASSUME NEW at \in D, at \notin Stops
      PROVE  /\ HeaderLine(b, at[1], at[2]) \in at[1] + 1 .. Len(b) + 1
             /\ at[1] \in 1 .. Len(b) /\ at[2] + 1 \in 0 .. MaxHeaders
  <2>1. ~ NoField(b, at[1], at[2])
      BY <1>3
  <2> HIDE DEF D, Stops
  <2> QED
      BY <1>2, <2>1, NextLine
<1>4. value \in [D -> R] /\ field \in [D -> F]
    BY DEF AnyField
<1>5. step \in [D -> [R -> R]]
  <2> HIDE DEF D, F, field
  <2>1. ASSUME NEW at \in D, NEW r \in R PROVE <<field[at]>> \o r \in R
      BY <1>4, PrependIs
  <2> QED
      BY <2>1
<1>6. ASSUME NEW at \in D, at \notin Stops
      PROVE  /\ after[at] = <<HeaderLine(b, at[1], at[2]), at[2] + 1>> /\ after[at] \in D
             /\ left[after[at]] < left[at]
  <2>1. after[at] = <<HeaderLine(b, at[1], at[2]), at[2] + 1>>
      BY <1>6
  <2>2. after[at] \in D
    <3>1. HeaderLine(b, at[1], at[2]) \in 1 .. Len(b) + 1 /\ at[2] + 1 \in 0 .. MaxHeaders
        BY <1>1, <1>3, <1>6
    <3> HIDE DEF after, Stops
    <3> QED
        BY <2>1, <3>1 DEF Places
  <2>3. left[after[at]] = Len(b) + 1 - after[at][1] /\ left[at] = Len(b) + 1 - at[1]
      BY <2>2
  <2>4. after[at][1] = HeaderLine(b, at[1], at[2])
      BY <2>1
  <2>5. HeaderLine(b, at[1], at[2]) \in at[1] + 1 .. Len(b) + 1 /\ at[1] \in 1 .. Len(b)
      BY <1>3, <1>6
  <2> HIDE DEF after, left, Stops
  <2>6. left[after[at]] < left[at]
      BY <1>1, <2>3, <2>4, <2>5
  <2> QED
      BY <2>1, <2>2, <2>6
<1>7. after \in [D -> D]
  <2> SUFFICES ASSUME NEW at \in D PROVE after[at] \in D
      OBVIOUS
  <2> QED
      BY <1>6
<1>8. left \in [D -> Nat]
    BY <1>1, <1>2
<1>12. R # {}
  <2>1. <<>> \in R
      OBVIOUS
  <2> QED
      BY <2>1
<1>9. \A at \in D : at \notin Stops => left[after[at]] < left[at]
    BY <1>6
<1>10. PICK f \in [D -> R] : Chained(f, D, Stops, value, after, step)
  <2>1. value \in [D -> R]
      BY <1>4
  <2> HIDE DEF D, R, Stops, value, after, step, left, F, field
  <2> QED
      BY <1>5, <1>7, <1>8, <1>9, <1>12, <2>1, RecursionAlong
<1>11. ASSUME NEW at \in D
       PROVE  f[at] = IF NoField(b, at[1], at[2]) THEN <<>>
                      ELSE <<FieldAt(b, at[1], at[2])>> \o f[<<HeaderLine(b, at[1], at[2]), at[2] + 1>>]
  <2>1. f[at] = IF at \in Stops THEN value[at] ELSE step[at][f[after[at]]]
    <3> HIDE DEF D, R, Stops, value, after, step
    <3> QED
        BY <1>10 DEF Chained
  <2>2. at \in Stops <=> NoField(b, at[1], at[2])
      OBVIOUS
  <2>3. CASE at \in Stops
    <3>1. value[at] = <<>>
        OBVIOUS
    <3> HIDE DEF D, R, Stops, value, after, step
    <3> QED
        BY <2>1, <2>2, <2>3, <3>1
  <2>4. CASE at \notin Stops
    <3>1. after[at] = <<HeaderLine(b, at[1], at[2]), at[2] + 1>> /\ after[at] \in D
        BY <1>6, <2>4
    <3>2. f[after[at]] \in R
      <4> HIDE DEF D, R, Stops, after
      <4> QED
          BY <3>1
    <3>3. step[at][f[after[at]]] = <<field[at]>> \o f[after[at]]
      <4> HIDE DEF D, R, Stops, after, field
      <4> QED
          BY <3>2
    <3>4. field[at] = FieldAt(b, at[1], at[2])
        OBVIOUS
    <3> HIDE DEF D, R, Stops, value, after, step, field
    <3> QED
        BY <2>1, <2>2, <2>4, <3>1, <3>3, <3>4
  <2> QED
      BY <2>3, <2>4
<1> QED
    BY <1>11 DEF IsFields

LEMMA FieldsStep ==
    ASSUME NEW b \in Seq(Unit), NEW i \in 1 .. Len(b) + 1, NEW n \in 0 .. MaxHeaders
    PROVE  FieldsFrom(FieldsOf(b), b, i, n)
<1> DEFINE f == FieldsOf(b)
<1>1. \E g : IsFields(g, b)
    BY FieldsExist
<1>2. IsFields(f, b)
    BY <1>1 DEF FieldsOf
<1>3. <<i, n>> \in Places(b, MaxHeaders) /\ <<i, n>>[1] = i /\ <<i, n>>[2] = n
    BY DEF Places
<1> HIDE DEF f
<1>4. FieldsFrom(f, b, i, n)
    BY <1>2, <1>3 DEF IsFields, FieldsFrom
<1> QED
    BY <1>4 DEF f

LEMMA FieldsRange ==
    ASSUME NEW b \in Seq(Unit), NEW i \in 1 .. Len(b) + 1, NEW n \in 0 .. MaxHeaders
    PROVE  FieldsOf(b)[<<i, n>>] \in Seq(AnyField(b))
<1> DEFINE f == FieldsOf(b)
           E == AnyField(b)
           N == Len(b) + 1
           S == {k \in 1 .. N : \A m \in 0 .. MaxHeaders : f[<<k, m>>] \in Seq(E)}
<1>1. N \in Nat
    OBVIOUS
<1>2. FromAbove(S, N)
  <2> SUFFICES ASSUME NEW k \in 1 .. N, \A j \in k + 1 .. N : j \in S PROVE k \in S
      BY DEF FromAbove
  <2>1. ASSUME NEW m \in 0 .. MaxHeaders PROVE f[<<k, m>>] \in Seq(E)
    <3>1. FieldsFrom(f, b, k, m)
        BY FieldsStep
    <3>2. CASE NoField(b, k, m)
      <4>1. f[<<k, m>>] = <<>>
          BY <3>1, <3>2 DEF FieldsFrom
      <4> HIDE DEF f, E
      <4> QED
          BY <4>1
    <3>3. CASE ~ NoField(b, k, m)
      <4> DEFINE t == HeaderLine(b, k, m)
                 rec == FieldAt(b, k, m)
      <4>1. f[<<k, m>>] = <<rec>> \o f[<<t, m + 1>>]
          BY <3>1, <3>3 DEF FieldsFrom
      <4>2. t \in k + 1 .. N /\ m + 1 \in 0 .. MaxHeaders
          BY <3>3, NextLine
      <4>3. rec \in E
        <5>1. <<k, m>> \in Places(b, MaxHeaders) /\ <<k, m>>[1] = k /\ <<k, m>>[2] = m
            BY DEF Places
        <5> QED
            BY <5>1 DEF AnyField
      <4>4. t \in S
          BY <4>2
      <4> HIDE DEF t, rec, f, E
      <4>5. f[<<t, m + 1>>] \in Seq(E)
          BY <4>2, <4>4
      <4>6. <<rec>> \o f[<<t, m + 1>>] \in Seq(E)
          BY <4>3, <4>5, PrependIs
      <4> QED
          BY <4>1, <4>6
    <3> QED
        BY <3>2, <3>3
  <2> QED
      BY <2>1
<1>3. \A k \in 1 .. N : k \in S
  <2> HIDE DEF S, N
  <2> QED
      BY <1>1, <1>2, InductionFromAbove
<1> QED
    BY <1>3

\* The first field that is a Content-Length has the value v.
FirstLength(fs, v) ==
    \E i \in DOMAIN fs : /\ fs[i].name = <<"CL">> /\ fs[i].value = v
                         /\ \A j \in 1 .. i - 1 : fs[j].name # <<"CL">>

NoLength(fs) == \A i \in DOMAIN fs : fs[i].name # <<"CL">>

LEMMA FirstOf ==
    ASSUME NEW F, NEW fs \in Seq(F), NEW rec \in F
    PROVE  /\ rec.name = <<"CL">> => FirstLength(<<rec>> \o fs, rec.value)
           /\ rec.name # <<"CL">> /\ NoLength(fs) => NoLength(<<rec>> \o fs)
           /\ \A v : rec.name # <<"CL">> /\ FirstLength(fs, v) => FirstLength(<<rec>> \o fs, v)
<1> DEFINE gs == <<rec>> \o fs
<1>1. /\ gs \in Seq(F) /\ Len(gs) = Len(fs) + 1 /\ gs[1] = rec
      /\ \A i \in 1 .. Len(fs) : gs[i + 1] = fs[i]
    BY PrependIs
<1> HIDE DEF gs
<1>2. Len(fs) \in Nat /\ DOMAIN fs = 1 .. Len(fs) /\ DOMAIN gs = 1 .. Len(fs) + 1
    BY <1>1
<1>3. ASSUME NEW i \in 2 .. Len(fs) + 1 PROVE i - 1 \in 1 .. Len(fs) /\ gs[i] = fs[i - 1]
  <2>1. i - 1 \in 1 .. Len(fs) /\ (i - 1) + 1 = i
      BY <1>2
  <2> QED
      BY <1>1, <2>1
<1>4. ASSUME rec.name = <<"CL">> PROVE FirstLength(gs, rec.value)
  <2>1. 1 \in DOMAIN gs /\ \A j \in 1 .. 1 - 1 : gs[j].name # <<"CL">>
      BY <1>2
  <2> QED
      BY <1>1, <1>4, <2>1 DEF FirstLength
<1>5. ASSUME rec.name # <<"CL">>, NoLength(fs) PROVE NoLength(gs)
  <2> SUFFICES ASSUME NEW i \in 1 .. Len(fs) + 1 PROVE gs[i].name # <<"CL">>
      BY <1>2 DEF NoLength
  <2>1. CASE i = 1
      BY <1>1, <1>5, <2>1
  <2>2. CASE i \in 2 .. Len(fs) + 1
      BY <1>2, <1>3, <1>5, <2>2 DEF NoLength
  <2> QED
      BY <1>2, <2>1, <2>2
<1>6. ASSUME NEW v, rec.name # <<"CL">>, FirstLength(fs, v) PROVE FirstLength(gs, v)
  <2>1. PICK i \in 1 .. Len(fs) : /\ fs[i].name = <<"CL">> /\ fs[i].value = v
                                  /\ \A j \in 1 .. i - 1 : fs[j].name # <<"CL">>
      BY <1>2, <1>6 DEF FirstLength
  <2>2. i + 1 \in DOMAIN gs /\ gs[i + 1] = fs[i]
      BY <1>1, <1>2
  <2>3. ASSUME NEW j \in 1 .. (i + 1) - 1 PROVE gs[j].name # <<"CL">>
    <3>1. CASE j = 1
        BY <1>1, <1>6, <3>1
    <3>2. CASE j # 1
      <4>1. j \in 2 .. Len(fs) + 1 /\ j - 1 \in 1 .. i - 1
          BY <1>2, <3>2
      <4> QED
          BY <1>3, <2>1, <4>1
    <3> QED
        BY <3>1, <3>2
  <2> QED
      BY <2>1, <2>2, <2>3 DEF FirstLength
<1> QED
    BY <1>4, <1>5, <1>6 DEF gs

\* The value of the Content-Length line at i.
LengthAt(b, i) ==
    LET value == FindChar(b, i + 2, Unit \ {"SP"})
    IN  SubSeq(b, value, FindChar(b, value, {"CR", "LF"}) - 1)

\* A Content-Length line begins at i.
LengthBegins(b, i) == i + 1 <= Len(b) /\ b[i] = "CL" /\ b[i + 1] = "COLON"

LEMMA FieldIs ==
    ASSUME NEW b \in Seq(Unit), NEW i \in 1 .. Len(b), NEW n \in Nat, ~ (HeaderLine(b, i, n) < 0)
    PROVE  /\ FieldAt(b, i, n).name = <<"CL">> <=> LengthBegins(b, i)
           /\ LengthBegins(b, i) => FieldAt(b, i, n).value = LengthAt(b, i)
<1> DEFINE value == ValueStart(b, i, n)
           colon == FindChar(b, i, {"COLON"})
           name == IF value = i THEN <<>> ELSE SubSeq(b, i, colon - 1)
           c == FindChar(b, i, {"COLON", "SP", "CR", "LF", "CTL", "VER"})
           first == FindChar(b, c + 1, Unit \ {"SP"})
<1>1. /\ FieldAt(b, i, n).name = name
      /\ FieldAt(b, i, n).value = SubSeq(b, value, FindChar(b, value, {"CR", "LF"}) - 1)
    BY DEF FieldAt
<1>2. value \in {Partial, Error} \cup (i .. Len(b))
    BY ValueStartPasses
<1>3. ~ (value < 0)
    BY DEF HeaderLine, Then
<1>4. /\ n # 0 /\ b[i] = "SP" => value = i
      /\ ~ (n # 0 /\ b[i] = "SP") =>
            value = IF c > Len(b) THEN Partial
                    ELSE IF b[c] # "COLON" \/ c = i THEN Error
                    ELSE IF first > Len(b) THEN Partial
                    ELSE first
    BY ValueStartIs
<1>5. /\ c \in i .. Len(b) + 1 /\ Len(b) \in Nat
      /\ \A k \in i .. c - 1 : b[k] \notin {"COLON", "SP", "CR", "LF", "CTL", "VER"}
    BY FindCharIs
<1>6. CASE n # 0 /\ b[i] = "SP"
  <2>1. name = <<>> /\ ~ LengthBegins(b, i)
      BY <1>4, <1>6 DEF LengthBegins
  <2>2. <<>> # <<"CL">>
      OBVIOUS
  <2> HIDE DEF name, value
  <2> QED
      BY <1>1, <2>1, <2>2
<1>7. CASE ~ (n # 0 /\ b[i] = "SP")
  <2>1. c \in i + 1 .. Len(b) /\ b[c] = "COLON" /\ value = first
    <3> HIDE DEF c, first, value
    <3> QED
        BY <1>3, <1>4, <1>5, <1>7 DEF Partial, Error
  <2>2. first \in c + 1 .. Len(b) + 1
    <3>1. c + 1 \in 1 .. Len(b) + 1
        BY <1>5, <2>1
    <3> HIDE DEF c
    <3> QED
        BY <3>1, FindCharIs
  <2>3. colon = c
    <3>1. \A k \in i .. c - 1 : b[k] \notin {"COLON"}
        BY <1>5
    <3>2. i \in 1 .. Len(b) + 1 /\ c \in i .. Len(b) + 1 /\ (c <= Len(b) => b[c] \in {"COLON"})
        BY <1>5, <2>1
    <3> HIDE DEF c
    <3> QED
        BY <3>1, <3>2, FindCharAt
  <2>4. name = SubSeq(b, i, c - 1)
    <3> HIDE DEF first, c, value, colon
    <3> QED
        BY <2>1, <2>2, <2>3
  <2>5. LengthBegins(b, i) => c = i + 1
    <3> HIDE DEF c
    <3> QED
        BY <1>5, <2>1 DEF LengthBegins
  <2>6. /\ SubSeq(b, i, c - 1) \in Seq(Unit) /\ Len(SubSeq(b, i, c - 1)) = c - i
        /\ SubSeq(b, i, c - 1)[1] = b[i]
    <3>1. i \in 1 .. Len(b) + 1 /\ c - 1 \in i - 1 .. Len(b) /\ 1 \in 1 .. (c - 1) - i + 1
        BY <1>5, <2>1
    <3> HIDE DEF c
    <3>2. (c - 1) - i + 1 = c - i /\ i + 1 - 1 = i
        BY <2>1
    <3> QED
        BY <3>1, <3>2, SubSeqIs
  <2> HIDE DEF name, value, c, first
  <2>7. name = <<"CL">> <=> LengthBegins(b, i)
    <3> DEFINE s == SubSeq(b, i, c - 1)
    <3> HIDE DEF s
    <3>1. s \in Seq(Unit) /\ Len(s) = c - i /\ s[1] = b[i] /\ name = s
        BY <2>4, <2>6 DEF s
    <3>2. ASSUME s = <<"CL">> PROVE LengthBegins(b, i)
      <4>1. Len(<<"CL">>) = 1 /\ <<"CL">>[1] = "CL"
          OBVIOUS
      <4>2. c - i = 1 /\ b[i] = "CL"
          BY <3>1, <3>2, <4>1
      <4> QED
          BY <2>1, <4>2 DEF LengthBegins
    <3>3. ASSUME LengthBegins(b, i) PROVE s = <<"CL">>
      <4>1. c = i + 1 /\ b[i] = "CL"
          BY <2>5, <3>3 DEF LengthBegins
      <4>2. Len(s) = 1 /\ s[1] = "CL"
          BY <3>1, <4>1
      <4>3. <<"CL">> \in Seq(Unit) /\ Len(<<"CL">>) = 1 /\ <<"CL">>[1] = "CL"
          BY <4>1
      <4> DEFINE u == <<"CL">>
      <4> HIDE DEF u
      <4>4. u \in Seq(Unit) /\ Len(u) = Len(s) /\ \A k \in 1 .. Len(s) : u[k] = s[k]
          BY <4>2, <4>3 DEF u
      <4>5. s = u
          BY <3>1, <4>4, SameSequences
      <4> QED
          BY <4>5 DEF u
    <3> QED
        BY <3>1, <3>2, <3>3
  <2>8. LengthBegins(b, i) => SubSeq(b, value, FindChar(b, value, {"CR", "LF"}) - 1) = LengthAt(b, i)
    <3> SUFFICES ASSUME LengthBegins(b, i)
                 PROVE  SubSeq(b, value, FindChar(b, value, {"CR", "LF"}) - 1) = LengthAt(b, i)
        OBVIOUS
    <3>1. c + 1 = i + 2
        BY <2>5
    <3>2. value = FindChar(b, i + 2, Unit \ {"SP"})
        BY <2>1, <3>1 DEF first
    <3> QED
        BY <3>2 DEF LengthAt
  <2> QED
      BY <1>1, <2>7, <2>8
<1> QED
    BY <1>6, <1>7

\* A header line ends with the first line break after it.
LEMMA LineEnds ==
    ASSUME NEW b \in Seq(Unit), NEW i \in 1 .. Len(b), NEW n \in Nat, b[i] \notin {"CR", "LF"},
           ~ (HeaderLine(b, i, n) < 0)
    PROVE  /\ HeaderLine(b, i, n) \in i + 2 .. Len(b) + 1
           /\ b[HeaderLine(b, i, n) - 1] = "LF"
           /\ \A k \in i .. HeaderLine(b, i, n) - 2 : b[k] # "LF"
<1> DEFINE t == HeaderLine(b, i, n)
<1>1. t \in {Partial, Error} \cup (i + 1 .. Len(b) + 1) /\ (t # Error => Line(b, i, t))
    BY HeaderLineIs
<1>2. ~ (t < 0)
    OBVIOUS
<1> HIDE DEF t
<1>3. Len(b) \in Nat
    OBVIOUS
<1>4. t \in i + 1 .. Len(b) + 1 /\ Line(b, i, t)
    BY <1>1, <1>2, <1>3 DEF Partial, Error
<1>5. PICK stop \in i .. Len(b) + 1 : Quiet(b, i, stop) /\ EndOfLine(b, stop) = t
    BY <1>4 DEF Line
<1>6. /\ stop \in i .. Len(b)
      /\ \/ b[stop] = "LF" /\ t = stop + 1
         \/ b[stop] = "CR" /\ b[stop + 1] = "LF" /\ t = stop + 2
    BY <1>2, <1>3, <1>5 DEF EndOfLine, ExpectChar, Partial, Error
<1>7. stop # i
    BY <1>3, <1>6
<1>8. \A k \in i .. stop - 1 : b[k] \notin {"CR", "LF"}
    BY <1>5 DEF Quiet
<1>9. t \in i + 2 .. Len(b) + 1
    BY <1>3, <1>4, <1>6, <1>7
<1>10. b[t - 1] = "LF"
    BY <1>3, <1>6
<1>11. \A k \in i .. t - 2 : b[k] # "LF"
    BY <1>3, <1>6, <1>8
<1> QED
    BY <1>9, <1>10, <1>11 DEF t

\* Where the Content-Length lines begin in the headers from i on that end before `end'.
LengthLines(b, i, end) ==
    {k \in i .. end : k + 1 <= end - 1 /\ b[k - 1] = "LF" /\ b[k] = "CL" /\ b[k + 1] = "COLON"}

\* The fields fs have the length that the first of these lines says.
LengthFrom(b, i, end, fs) ==
    /\ LengthLines(b, i, end) = {} => NoLength(fs)
    /\ \A k \in LengthLines(b, i, end) :
          (\A j \in LengthLines(b, i, end) : k <= j) => FirstLength(fs, LengthAt(b, k))

\* The headers end where they do: nothing more follows.
LEMMA NoMoreFields ==
    ASSUME NEW b \in Seq(Unit), NEW i \in 1 .. Len(b) + 1, NEW n \in 0 .. MaxHeaders, NEW end,
           i <= Len(b), b[i] \in {"CR", "LF"}, EndOfLine(b, i) = end, end > 0
    PROVE  LengthFrom(b, i, end, FieldsOf(b)[<<i, n>>])
<1> DEFINE fs == FieldsOf(b)[<<i, n>>]
<1>1. Len(b) \in Nat /\ MaxHeaders \in Nat /\ i \in 1 .. Len(b) /\ n \in Nat
    BY MaxHeadersAssumption
<1>2. HeaderLine(b, i, n) < 0
  <2> DEFINE c == FindChar(b, i, {"COLON", "SP", "CR", "LF", "CTL", "VER"})
             v == ValueStart(b, i, n)
  <2>1. \A k \in i .. i - 1 : b[k] \notin {"COLON", "SP", "CR", "LF", "CTL", "VER"}
      BY <1>1
  <2>2. b[i] \in {"COLON", "SP", "CR", "LF", "CTL", "VER"}
      OBVIOUS
  <2>3. c = i
      BY <1>1, <2>1, <2>2, FindCharAt
  <2>4. ~ (n # 0 /\ b[i] = "SP") =>
            v = IF c > Len(b) THEN Partial
                ELSE IF b[c] # "COLON" \/ c = i THEN Error
                ELSE IF FindChar(b, c + 1, Unit \ {"SP"}) > Len(b) THEN Partial
                ELSE FindChar(b, c + 1, Unit \ {"SP"})
      BY <1>1, ValueStartIs
  <2> HIDE DEF c, v
  <2>5. v = Error
      BY <1>1, <2>3, <2>4
  <2> QED
      BY <2>5 DEF HeaderLine, Then, v, Error
<1>3. fs = <<>>
  <2>1. FieldsFrom(FieldsOf(b), b, i, n)
      BY FieldsStep
  <2> QED
      BY <1>2, <2>1 DEF FieldsFrom, NoField
<1>4. NoLength(fs)
    BY <1>3 DEF NoLength
<1>5. end \in i + 1 .. i + 2
    BY <1>1 DEF EndOfLine, ExpectChar, Partial, Error
<1>6. LengthLines(b, i, end) = {}
  <2> SUFFICES ASSUME NEW k \in LengthLines(b, i, end) PROVE FALSE
      OBVIOUS
  <2>1. k \in i .. end /\ k + 1 <= end - 1 /\ b[k] = "CL"
      BY DEF LengthLines
  <2>2. k = i
      BY <1>1, <1>5, <2>1
  <2> QED
      BY <2>1, <2>2
<1> QED
    BY <1>4, <1>6 DEF LengthFrom

\* One field more, of the line from i on to t.
LEMMA OneMoreField ==
    ASSUME NEW b \in Seq(Unit), NEW i \in 2 .. Len(b), NEW n \in 0 .. MaxHeaders - 1,
           b[i] \notin {"CR", "LF"}, b[i - 1] = "LF", ~ (HeaderLine(b, i, n) < 0),
           NEW end \in HeaderLine(b, i, n) .. Len(b) + 1,
           LengthFrom(b, HeaderLine(b, i, n), end, FieldsOf(b)[<<HeaderLine(b, i, n), n + 1>>])
    PROVE  LengthFrom(b, i, end, FieldsOf(b)[<<i, n>>])
<1> DEFINE t == HeaderLine(b, i, n)
           fs == FieldsOf(b)[<<t, n + 1>>]
           gs == FieldsOf(b)[<<i, n>>]
           rec == FieldAt(b, i, n)
           E == AnyField(b)
<1>1. Len(b) \in Nat /\ MaxHeaders \in Nat /\ i \in 1 .. Len(b) /\ n \in Nat /\ n # MaxHeaders
      /\ n \in 0 .. MaxHeaders /\ n + 1 \in 0 .. MaxHeaders
    BY MaxHeadersAssumption
<1>2. t \in i + 2 .. Len(b) + 1 /\ b[t - 1] = "LF" /\ \A k \in i .. t - 2 : b[k] # "LF"
    BY <1>1, LineEnds
<1>3. gs = <<rec>> \o fs
  <2>1. FieldsFrom(FieldsOf(b), b, i, n)
      BY <1>1, FieldsStep
  <2>2. ~ NoField(b, i, n)
      BY <1>1 DEF NoField
  <2> QED
      BY <2>1, <2>2 DEF FieldsFrom
<1>4. fs \in Seq(E) /\ rec \in E
  <2>1. t \in 1 .. Len(b) + 1
    <3> HIDE DEF t
    <3> QED
        BY <1>1, <1>2
  <2>2. <<i, n>> \in Places(b, MaxHeaders) /\ <<i, n>>[1] = i /\ <<i, n>>[2] = n
      BY <1>1 DEF Places
  <2>3. rec \in E
      BY <2>2 DEF AnyField
  <2>4. fs \in Seq(E)
    <3> HIDE DEF t
    <3> QED
        BY <1>1, <2>1, FieldsRange
  <2> QED
      BY <2>3, <2>4
<1>5. /\ rec.name = <<"CL">> <=> LengthBegins(b, i)
      /\ LengthBegins(b, i) => rec.value = LengthAt(b, i)
    BY <1>1, FieldIs
<1>6. /\ rec.name = <<"CL">> => FirstLength(gs, rec.value)
      /\ rec.name # <<"CL">> /\ NoLength(fs) => NoLength(gs)
      /\ \A v : rec.name # <<"CL">> /\ FirstLength(fs, v) => FirstLength(gs, v)
    BY <1>3, <1>4, FirstOf
<1>7. LengthFrom(b, t, end, fs) /\ end \in t .. Len(b) + 1
    OBVIOUS
<1> SUFFICES LengthFrom(b, i, end, gs)
    OBVIOUS
<1> HIDE DEF t, fs, gs, rec
<1>8. ASSUME NEW k \in i + 1 .. end PROVE k \in LengthLines(b, i, end) <=> k \in LengthLines(b, t, end)
  <2>1. ASSUME b[k - 1] = "LF" PROVE k >= t
    <3>1. ~ (k - 1 \in i .. t - 2)
        BY <1>2, <2>1
    <3>2. k \in Nat /\ t \in Nat /\ k >= i + 1
        BY <1>1, <1>2, <1>7
    <3> QED
        BY <1>1, <3>1, <3>2
  <2> QED
      BY <1>1, <1>2, <1>7, <2>1 DEF LengthLines
<1>9. CASE LengthBegins(b, i)
  <2>1. i \in LengthLines(b, i, end)
    <3>1. t # i + 2
        BY <1>2, <1>9 DEF LengthBegins
    <3>2. i \in i .. end /\ i + 1 <= end - 1
        BY <1>1, <1>2, <1>7, <3>1
    <3> QED
        BY <1>9, <3>2 DEF LengthLines, LengthBegins
  <2>2. ASSUME NEW k \in LengthLines(b, i, end), \A j \in LengthLines(b, i, end) : k <= j PROVE k = i
    <3>1. k \in i .. end /\ k <= i
        BY <2>1, <2>2 DEF LengthLines
    <3> QED
        BY <1>1, <3>1
  <2>3. FirstLength(gs, LengthAt(b, i))
      BY <1>5, <1>6, <1>9
  <2>4. ASSUME NEW k \in LengthLines(b, i, end), \A j \in LengthLines(b, i, end) : k <= j
        PROVE  FirstLength(gs, LengthAt(b, k))
    <3>1. k = i
        BY <2>2, <2>4
    <3> QED
        BY <2>3, <3>1
  <2>5. LengthLines(b, i, end) # {}
      BY <2>1
  <2> QED
      BY <2>4, <2>5 DEF LengthFrom
<1>10. CASE ~ LengthBegins(b, i)
  <2>1. i \notin LengthLines(b, i, end)
    <3>1. ASSUME i \in LengthLines(b, i, end) PROVE FALSE
      <4>1. i + 1 <= end - 1 /\ b[i] = "CL" /\ b[i + 1] = "COLON"
          BY <3>1 DEF LengthLines
      <4> QED
          BY <1>1, <1>7, <1>10, <4>1 DEF LengthBegins
    <3> QED
        BY <3>1
  <2>2. ASSUME NEW k PROVE k \in LengthLines(b, i, end) <=> k \in LengthLines(b, t, end)
    <3>1. ASSUME k \in LengthLines(b, i, end) PROVE k \in i + 1 .. end
        BY <1>1, <2>1, <3>1 DEF LengthLines
    <3>2. ASSUME k \in LengthLines(b, t, end) PROVE k \in i + 1 .. end
        BY <1>1, <1>2, <3>2 DEF LengthLines
    <3> QED
        BY <1>8, <3>1, <3>2
  <2>3. LengthLines(b, i, end) = LengthLines(b, t, end)
      BY <2>2
  <2>4. rec.name # <<"CL">>
      BY <1>5, <1>10
  <2> QED
    <3>1. /\ LengthLines(b, i, end) = {} => NoLength(fs)
          /\ \A k \in LengthLines(b, i, end) :
                (\A j \in LengthLines(b, i, end) : k <= j) => FirstLength(fs, LengthAt(b, k))
        BY <1>7, <2>3 DEF LengthFrom
    <3>2. LengthLines(b, i, end) = {} => NoLength(gs)
        BY <1>6, <2>4, <3>1
    <3>3. \A k \in LengthLines(b, i, end) :
             (\A j \in LengthLines(b, i, end) : k <= j) => FirstLength(gs, LengthAt(b, k))
        BY <1>6, <2>4, <3>1
    <3> QED
        BY <3>2, <3>3 DEF LengthFrom
<1> QED
    BY <1>9, <1>10

\* In a complete block of headers that begins a line, the fields have the length that
\* its first Content-Length line says.
LEMMA LengthFollows ==
    ASSUME NEW b \in Seq(Unit), NEW i \in 2 .. Len(b) + 1, NEW n \in 0 .. MaxHeaders,
           b[i - 1] = "LF", HeadersOf(b)[<<i, n>>] > 0
    PROVE  LengthFrom(b, i, HeadersOf(b)[<<i, n>>], FieldsOf(b)[<<i, n>>])
<1> DEFINE h == HeadersOf(b)
           f == FieldsOf(b)
           N == Len(b) + 1
           Right(k, m) == k >= 2 /\ b[k - 1] = "LF" /\ h[<<k, m>>] > 0 => LengthFrom(b, k, h[<<k, m>>], f[<<k, m>>])
           S == {k \in 1 .. N : \A m \in 0 .. MaxHeaders : Right(k, m)}
<1>1. N \in Nat /\ MaxHeaders \in Nat /\ Len(b) \in Nat
    BY MaxHeadersAssumption
<1>2. FromAbove(S, N)
  <2> SUFFICES ASSUME NEW k \in 1 .. N, \A j \in k + 1 .. N : j \in S PROVE k \in S
      BY DEF FromAbove
  <2>1. ASSUME NEW m \in 0 .. MaxHeaders, k >= 2, b[k - 1] = "LF", h[<<k, m>>] > 0
        PROVE  LengthFrom(b, k, h[<<k, m>>], f[<<k, m>>])
    <3>1. HeadersFrom(h, b, k, m)
        BY HeadersStep
    <3>2. k \in 1 .. Len(b)
      <4>1. k = Len(b) + 1 => h[<<k, m>>] = Partial
          BY <3>1 DEF HeadersFrom
      <4> HIDE DEF h
      <4> QED
          BY <1>1, <2>1, <4>1 DEF Partial
    <3>3. CASE b[k] \in {"CR", "LF"}
      <4>1. h[<<k, m>>] = EndOfLine(b, k)
          BY <1>1, <3>1, <3>2, <3>3 DEF HeadersFrom
      <4> DEFINE end == h[<<k, m>>]
      <4>2. k <= Len(b) /\ EndOfLine(b, k) = end /\ end > 0
          BY <1>1, <2>1, <3>2, <4>1
      <4> HIDE DEF end
      <4>3. LengthFrom(b, k, end, FieldsOf(b)[<<k, m>>])
          BY <3>3, <4>2, NoMoreFields
      <4> QED
          BY <4>3 DEF end
    <3>4. CASE b[k] \notin {"CR", "LF"}
      <4> DEFINE t == HeaderLine(b, k, m)
                 end == h[<<k, m>>]
      <4>1. m # MaxHeaders
          BY <1>1, <2>1, <3>1, <3>2, <3>4 DEF HeadersFrom, Error
      <4>2. m \in 0 .. MaxHeaders - 1 /\ k \in 2 .. Len(b) /\ m \in Nat /\ m + 1 \in 0 .. MaxHeaders
          BY <1>1, <2>1, <3>2, <4>1
      <4>3. end = IF t < 0 THEN t ELSE h[<<t, m + 1>>]
          BY <1>1, <3>1, <3>2, <3>4, <4>1 DEF HeadersFrom
      <4>4. end > 0
          BY <2>1
      <4>5. t \in {Partial, Error} \cup (k + 1 .. Len(b) + 1)
          BY <3>2, <3>4, <4>2, HeaderLineIs
      <4>6. ~ (t < 0) /\ t \in k + 1 .. N
        <5> HIDE DEF t, end, h
        <5> QED
            BY <1>1, <4>3, <4>4, <4>5 DEF Partial, Error
      <4>7. t \in k + 2 .. Len(b) + 1 /\ b[t - 1] = "LF"
          BY <3>2, <3>4, <4>2, <4>6, LineEnds
      <4>8. h[<<t, m + 1>>] = end
        <5> HIDE DEF t, end, h
        <5> QED
            BY <4>3, <4>6
      <4> HIDE DEF t
      <4>9. Right(t, m + 1)
        <5>1. t \in S
            BY <4>6
        <5> QED
            BY <4>2, <5>1
      <4>10. end \in {Partial, Error} \cup (t + 1 .. Len(b) + 1)
        <5>1. t \in 1 .. Len(b) + 1
            BY <1>1, <3>2, <4>6
        <5>2. h[<<t, m + 1>>] \in {Partial, Error} \cup (t + 1 .. Len(b) + 1)
            BY <4>2, <5>1, HeadersRange
        <5> HIDE DEF end, h
        <5> QED
            BY <4>8, <5>2
      <4> HIDE DEF end, h
      <4>11. end \in t .. Len(b) + 1
          BY <1>1, <4>4, <4>6, <4>10 DEF Partial, Error
      <4>12. LengthFrom(b, t, end, f[<<t, m + 1>>])
          BY <1>1, <3>2, <4>4, <4>7, <4>8, <4>9
      <4>13. LengthFrom(b, k, end, FieldsOf(b)[<<k, m>>])
          BY <2>1, <3>4, <4>2, <4>6, <4>11, <4>12, OneMoreField DEF t
      <4> QED
          BY <4>13 DEF end
    <3> QED
        BY <3>3, <3>4
  <2> QED
      BY <2>1
<1>3. \A k \in 1 .. N : k \in S
  <2> HIDE DEF S, N
  <2> QED
      BY <1>1, <1>2, InductionFromAbove
<1>4. Right(i, n)
    BY <1>1, <1>3
<1> QED
    BY <1>4

\* The headers begin a line: the request line ends with a line break.
LEMMA RequestLineEnds ==
    ASSUME NEW b \in Seq(Unit), b # <<>>, ~ (RequestLine(b) < 0)
    PROVE  RequestLine(b) \in 2 .. Len(b) + 1 /\ b[RequestLine(b) - 1] = "LF"
<1> DEFINE m == IF b[1] \in {"CR", "LF"} THEN EndOfLine(b, 1) ELSE 1
           t == RestOfRequestLine(b, m)
           r == RequestLine(b)
<1>1. r = IF m < 0 THEN m ELSE t
    BY DEF RequestLine, RestOfRequestLine, Then
<1>2. Len(b) \in Nat /\ 1 \in 1 .. Len(b) + 1 /\ ~ (r < 0)
    OBVIOUS
<1>3. EndOfLine(b, 1) \in {Partial, Error} \cup (1 + 1 .. Len(b) + 1)
    BY <1>2, EndOfLineIs
<1>4. m \in {Partial, Error} \cup (1 .. Len(b) + 1)
    BY <1>2, <1>3
<1> HIDE DEF m, r
<1>5. m \in 1 .. Len(b) + 1 /\ r = t
    BY <1>1, <1>2, <1>4 DEF Partial, Error
<1>6. t \in {Partial, Error} \cup (m + 1 .. Len(b) + 1) /\ (t # Error => Line(b, m, t))
    BY <1>5, RestOfRequestLineIs
<1> HIDE DEF t
<1>7. t \in m + 1 .. Len(b) + 1 /\ Line(b, m, t)
    BY <1>2, <1>5, <1>6 DEF Partial, Error
<1>8. PICK stop \in m .. Len(b) + 1 : EndOfLine(b, stop) = t
    BY <1>7 DEF Line
<1>9. b[t - 1] = "LF"
    BY <1>2, <1>5, <1>7, <1>8 DEF EndOfLine, ExpectChar, Partial, Error
<1>10. t \in 2 .. Len(b) + 1
    BY <1>2, <1>5, <1>7
<1> QED
    BY <1>5, <1>9, <1>10 DEF r

\* What is kept of the fields as the length.
LEMMA LengthKept ==
    ASSUME NEW E, NEW fs \in Seq(E)
    PROVE  /\ NoLength(fs) => ContentLength(Emplace(<<>>, fs)) = Absent
           /\ \A v : FirstLength(fs, v) => ContentLength(Emplace(<<>>, fs)) = v
<1> DEFINE names == {fs[i].name : i \in DOMAIN fs}
           at == {i \in DOMAIN fs : fs[i].name = <<"CL">>}
           map == Emplace(<<>>, fs)
<1>1. DOMAIN fs = 1 .. Len(fs) /\ Len(fs) \in Nat
    OBVIOUS
<1>2. DOMAIN <<>> = {}
    OBVIOUS
<1>3. DOMAIN map = names
    BY <1>2 DEF Emplace
<1>4. <<"CL">> \in names => map[<<"CL">>] = fs[Min(at)].value
    BY <1>2 DEF Emplace
<1>5. ASSUME NoLength(fs) PROVE ContentLength(map) = Absent
  <2>1. <<"CL">> \notin names
      BY <1>5 DEF NoLength
  <2> HIDE DEF map, names
  <2> QED
      BY <1>3, <2>1 DEF ContentLength
<1>6. ASSUME NEW v, FirstLength(fs, v) PROVE ContentLength(map) = v
  <2>1. PICK i \in DOMAIN fs : /\ fs[i].name = <<"CL">> /\ fs[i].value = v
                               /\ \A j \in 1 .. i - 1 : fs[j].name # <<"CL">>
      BY <1>6 DEF FirstLength
  <2>2. i \in at /\ at \subseteq Nat /\ at # {}
      BY <1>1, <2>1
  <2>3. Min(at) \in at /\ \A x \in at : Min(at) <= x
      BY <2>2, MinIs
  <2> DEFINE m == Min(at)
  <2> HIDE DEF m
  <2>4. m \in 1 .. Len(fs) /\ fs[m].name = <<"CL">> /\ m <= i
      BY <1>1, <2>2, <2>3 DEF m
  <2>5. m = i
      BY <1>1, <2>1, <2>4
  <2>6. <<"CL">> \in names
      BY <2>1
  <2>7. map[<<"CL">>] = v
      BY <1>4, <2>1, <2>5, <2>6 DEF m
  <2> HIDE DEF map, names
  <2> QED
      BY <1>3, <2>6, <2>7 DEF ContentLength
<1> HIDE DEF map
<1>7. \A v : FirstLength(fs, v) => ContentLength(map) = v
    BY <1>6
<1> QED
    BY <1>5, <1>7 DEF map

\* The value at a Content-Length line, when it is a number.
LEMMA NumberAt ==
    ASSUME NEW b \in Seq(Unit), NEW k \in 1 .. Len(b), k + 1 <= Len(b)
    PROVE  LET start == FindChar(b, k + 2, {"NUM"})
           IN  /\ LengthAt(b, k) \in Seq(Unit)
               /\ IsNumber(LengthAt(b, k)) =>
                     LengthAt(b, k) = SubSeq(b, start, FindChar(b, start, {"CR", "LF"}) - 1)
<1> DEFINE value == FindChar(b, k + 2, Unit \ {"SP"})
           stop == FindChar(b, value, {"CR", "LF"})
           v == SubSeq(b, value, stop - 1)
           start == FindChar(b, k + 2, {"NUM"})
<1>1. LengthAt(b, k) = v
    BY DEF LengthAt
<1>2. Len(b) \in Nat /\ k + 2 \in 1 .. Len(b) + 1
    OBVIOUS
<1>3. /\ value \in k + 2 .. Len(b) + 1
      /\ \A j \in k + 2 .. value - 1 : b[j] \notin Unit \ {"SP"}
    BY <1>2, FindCharIs
<1>4. stop \in value .. Len(b) + 1
  <2>1. value \in 1 .. Len(b) + 1
      BY <1>2, <1>3
  <2> HIDE DEF value
  <2> QED
      BY <2>1, FindCharIs
<1>5. /\ v \in Seq(Unit) /\ Len(v) = stop - value
      /\ \A j \in 1 .. stop - value : v[j] = b[value + j - 1]
  <2>1. value \in 1 .. Len(b) + 1 /\ stop - 1 \in value - 1 .. Len(b) /\ (stop - 1) - value + 1 = stop - value
      BY <1>2, <1>3, <1>4
  <2> HIDE DEF value, stop
  <2> QED
      BY <2>1, SubSeqIs
<1>6. ASSUME IsNumber(v) PROVE start = value
  <2> HIDE DEF value, stop, v
  <2>1. Len(v) # 0 /\ v # <<>> /\ DOMAIN v = 1 .. Len(v) /\ Len(v) \in Nat
      BY <1>5, <1>6 DEF IsNumber
  <2>2. 1 \in 1 .. Len(v) /\ v[1] = "NUM"
      BY <1>6, <2>1 DEF IsNumber
  <2>3. b[value] = "NUM"
      BY <1>2, <1>3, <1>5, <2>2
  <2>4. \A j \in k + 2 .. value - 1 : b[j] \in Unit
      BY <1>2, <1>3
  <2>5. \A j \in k + 2 .. value - 1 : b[j] \notin {"NUM"}
      BY <1>3, <2>4
  <2>6. value <= Len(b) => b[value] \in {"NUM"}
      BY <2>3
  <2> QED
      BY <1>2, <1>3, <2>5, <2>6, FindCharAt
<1> HIDE DEF start, value
<1> QED
    BY <1>1, <1>5, <1>6 DEF start

\* What the property says of a buffer b, of which r units are the head.
LengthIn(b, r, length) ==
    LET Length(i) == i + 2 <= r /\ b[i] = "LF" /\ b[i + 1] = "CL" /\ b[i + 2] = "COLON"
        lines == {i \in RequestLine(b) - 1 .. r : Length(i)}
    IN  IF lines = {} THEN length = <<>>
        ELSE LET start == FindChar(b, Min(lines) + 3, {"NUM"})
             IN  length = SubSeq(b, start, FindChar(b, start, {"CR", "LF"}) - 1)

\* A call for a request returns an error or how many units the head takes.
LEMMA AnswerRange ==
    ASSUME NEW b \in Seq(Unit), b # <<>>, NEW last \in 0 .. Len(b)
    PROVE  Answer("request", b, last) \in {Partial, Error} \cup (0 .. Len(b))
<1> DEFINE q == RequestLine(b)
           p == Parsed("request", b)
           complete == is_complete(b, last)
<1>1. Len(b) \in Nat /\ 0 \in 0 .. 2 /\ 0 \in 0 .. MaxHeaders
    BY MaxHeadersAssumption
<1>2. p = IF q < 0 THEN q ELSE HeadersOf(b)[<<q, 0>>]
    BY ParseHeadersIs DEF Parsed, parse_request, Then
<1>3. q \in {Partial, Error} \cup (1 .. Len(b) + 1)
    BY RequestLineIs
<1>4. p \in {Partial, Error} \cup (1 .. Len(b) + 1)
  <2> DEFINE h == HeadersOf(b)[<<q, 0>>]
  <2>0. p = IF q < 0 THEN q ELSE h
      BY <1>2
  <2>1. CASE q \in {Partial, Error}
    <3> HIDE DEF p, q, h
    <3> QED
        BY <2>0, <2>1 DEF Partial, Error
  <2>2. CASE q \in 1 .. Len(b) + 1
    <3>1. ~ (q < 0) /\ q \in Nat
        BY <1>1, <2>2
    <3>2. h \in {Partial, Error} \cup (q + 1 .. Len(b) + 1)
        BY <1>1, <2>2, HeadersRange
    <3> HIDE DEF p, q, h
    <3> QED
        BY <1>1, <2>0, <3>1, <3>2
  <2> QED
      BY <1>3, <2>1, <2>2
<1>5. complete \in {Partial, Error} \cup (1 .. Len(b) + 1)
  <2> DEFINE i == ResumeAt(last)
  <2>1. i \in 1 .. Len(b) + 1
      BY <1>1 DEF ResumeAt
  <2>2. complete = ScanOf(b)[<<i, 0>>]
      BY IsCompleteIs
  <2> HIDE DEF complete, i
  <2>3. ScanOf(b)[<<i, 0>>] \in {Partial, Error} \cup (i .. Len(b) + 1)
      BY <1>1, <2>1, ScanRange
  <2> QED
      BY <1>1, <2>1, <2>2, <2>3
<1>6. Answer("request", b, last) =
          LET c == IF last = 0 THEN 1 ELSE complete
          IN  IF c < 0 THEN c ELSE IF p < 0 THEN p ELSE p - 1
    BY DEF Answer
<1> HIDE DEF p, complete
<1> QED
    BY <1>1, <1>4, <1>5, <1>6 DEF Partial, Error

\* One call that accepts the head, of a request_t of which nothing was filled.
LEMMA AcceptedLength ==
    ASSUME NEW b \in Seq(Unit), b # <<>>, NEW last \in 0 .. Len(b), NEW r, r > 0, r = Answer("request", b, last),
           NEW length,
           LET kept == ContentLength(Emplace(<<>>, Fields(b)))
           IN  IF kept = Absent THEN length = <<>> ELSE IsNumber(kept) /\ length = kept
    PROVE  LengthIn(b, r, length)
<1> DEFINE q == RequestLine(b)
           end == HeadersOf(b)[<<q, 0>>]
           fs == FieldsOf(b)[<<q, 0>>]
           kept == ContentLength(Emplace(<<>>, fs))
           Length(i) == i + 2 <= r /\ b[i] = "LF" /\ b[i + 1] = "CL" /\ b[i + 2] = "COLON"
           lines == {i \in q - 1 .. r : Length(i)}
           from == LengthLines(b, q, end)
<1>1. Parsed("request", b) = IF q < 0 THEN q ELSE end
    BY ParseHeadersIs DEF Parsed, parse_request, Then
<1>2. q \in {Partial, Error} \cup (1 .. Len(b) + 1)
    BY RequestLineIs
<1>3. ~ (q < 0) /\ ~ (end < 0) /\ r = end - 1
  <2> DEFINE complete == IF last = 0 THEN 1 ELSE is_complete(b, last)
  <2>1. r = IF complete < 0 THEN complete
            ELSE IF Parsed("request", b) < 0 THEN Parsed("request", b) ELSE Parsed("request", b) - 1
      BY DEF Answer
  <2> HIDE DEF complete, q, end
  <2>2. ~ (complete < 0) /\ ~ (Parsed("request", b) < 0) /\ r = Parsed("request", b) - 1
    <3>0. r \in Int /\ r > 0
        BY AnswerRange DEF Partial, Error
    <3>1. CASE complete < 0
        BY <2>1, <3>0, <3>1
    <3>2. CASE ~ (complete < 0) /\ Parsed("request", b) < 0
        BY <2>1, <3>0, <3>2
    <3> QED
        BY <2>1, <3>1, <3>2
  <2> QED
      BY <1>1, <2>2
<1>4. q \in 2 .. Len(b) + 1 /\ b[q - 1] = "LF"
    BY <1>3, RequestLineEnds
<1>5. 0 \in 0 .. MaxHeaders /\ Len(b) \in Nat
    BY MaxHeadersAssumption
<1>6. end \in {Partial, Error} \cup (q + 1 .. Len(b) + 1)
  <2>1. q \in 1 .. Len(b) + 1
      BY <1>4, <1>5
  <2> HIDE DEF q
  <2> QED
      BY <1>5, <2>1, HeadersRange
<1>7. end \in q + 1 .. Len(b) + 1 /\ end > 0
  <2> HIDE DEF end, q
  <2> QED
      BY <1>3, <1>4, <1>5, <1>6 DEF Partial, Error
<1>8. LengthFrom(b, q, end, fs)
  <2> HIDE DEF q
  <2> QED
      BY <1>4, <1>5, <1>7, LengthFollows
<1>9. fs \in Seq(AnyField(b))
  <2>1. q \in 1 .. Len(b) + 1
      BY <1>4, <1>5
  <2> HIDE DEF q
  <2> QED
      BY <1>5, <2>1, FieldsRange
<1>10. /\ NoLength(fs) => kept = Absent
       /\ \A v : FirstLength(fs, v) => kept = v
  <2> HIDE DEF fs
  <2> QED
      BY <1>9, LengthKept
<1>11. IF kept = Absent THEN length = <<>> ELSE IsNumber(kept) /\ length = kept
    BY FieldsIs
<1>12. LengthIn(b, r, length) <=>
          IF lines = {} THEN length = <<>>
          ELSE length = SubSeq(b, FindChar(b, Min(lines) + 3, {"NUM"}),
                               FindChar(b, FindChar(b, Min(lines) + 3, {"NUM"}), {"CR", "LF"}) - 1)
    BY DEF LengthIn
<1>13. ASSUME NEW i PROVE i \in lines <=> i \in q - 1 .. r /\ Length(i)
    OBVIOUS
<1> HIDE DEF q, end, fs, kept, lines
<1>14. ASSUME NEW i \in Int PROVE i \in lines <=> i + 1 \in from
  <2>1. i + 1 \in from <=> /\ i + 1 \in q .. end /\ (i + 1) + 1 <= end - 1
                           /\ b[(i + 1) - 1] = "LF" /\ b[i + 1] = "CL" /\ b[(i + 1) + 1] = "COLON"
      BY DEF LengthLines
  <2>2. (i + 1) - 1 = i /\ (i + 1) + 1 = i + 2
      OBVIOUS
  <2>3. i + 1 \in q .. end /\ (i + 1) + 1 <= end - 1 <=> i \in q - 1 .. r /\ i + 2 <= r
      BY <1>3, <1>4, <1>5, <1>7
  <2> QED
      BY <1>13, <2>1, <2>2, <2>3
<1>15. from \subseteq Int /\ lines \subseteq Int
    BY <1>4, <1>7, <1>13 DEF LengthLines
<1>16. CASE lines = {}
  <2>1. from = {}
    <3> SUFFICES ASSUME NEW k \in from PROVE FALSE
        OBVIOUS
    <3>1. k \in Int /\ k - 1 \in Int /\ (k - 1) + 1 = k
        BY <1>15
    <3> HIDE DEF from
    <3> QED
        BY <1>14, <1>16, <3>1
  <2>2. NoLength(fs)
      BY <1>8, <2>1 DEF LengthFrom
  <2> QED
      BY <1>10, <1>11, <1>12, <1>16, <2>2
<1>17. CASE lines # {}
  <2> DEFINE first == Min(lines)
             k == first + 1
  <2>1. lines \subseteq Nat
      BY <1>4, <1>5, <1>13, <1>15
  <2>2. first \in lines /\ \A x \in lines : first <= x
      BY <1>17, <2>1, MinIs
  <2> HIDE DEF first
  <2>3. k \in from /\ first \in Int /\ k \in Int
      BY <1>14, <1>15, <2>2
  <2>4. ASSUME NEW j \in from PROVE k <= j
    <3>1. j \in Int /\ j - 1 \in Int /\ (j - 1) + 1 = j
        BY <1>15
    <3>2. j - 1 \in lines
      <4> HIDE DEF from
      <4> QED
          BY <1>14, <3>1
    <3>3. first <= j - 1
        BY <2>2, <3>2
    <3> QED
        BY <2>3, <3>1, <3>3
  <2>5. FirstLength(fs, LengthAt(b, k))
      BY <1>8, <2>3, <2>4 DEF LengthFrom
  <2>6. kept = LengthAt(b, k)
      BY <1>10, <2>5
  <2>7. k \in 1 .. Len(b) /\ k + 1 <= Len(b) /\ first + 3 = k + 2
    <3>1. k \in q .. end /\ k + 1 <= end - 1
        BY <2>3 DEF LengthLines
    <3> QED
        BY <1>4, <1>5, <1>7, <2>3, <3>1
  <2> DEFINE start == FindChar(b, k + 2, {"NUM"})
  <2>8. /\ LengthAt(b, k) \in Seq(Unit)
        /\ IsNumber(LengthAt(b, k)) =>
              LengthAt(b, k) = SubSeq(b, start, FindChar(b, start, {"CR", "LF"}) - 1)
    <3> HIDE DEF k
    <3> QED
        BY <2>7, NumberAt
  <2>9. Absent \notin Seq(Unit)
    <3>1. Len(Absent) = 1 /\ Absent[1] = "absent"
        BY DEF Absent
    <3>2. ASSUME Absent \in Seq(Unit) PROVE "absent" \in Unit
      <4>1. 1 \in 1 .. Len(Absent)
          BY <3>1
      <4>2. Absent[1] \in Unit
          BY <3>2, <4>1
      <4> QED
          BY <3>1, <4>2
    <3> QED
        BY <3>2, UnitAssumption
  <2>10. kept # Absent
      BY <2>6, <2>8, <2>9
  <2>11. length = SubSeq(b, start, FindChar(b, start, {"CR", "LF"}) - 1)
      BY <1>11, <2>6, <2>8, <2>10
  <2>12. FindChar(b, Min(lines) + 3, {"NUM"}) = start
      BY <2>7 DEF first
  <2> HIDE DEF start
  <2> QED
      BY <1>12, <1>17, <2>11, <2>12
<1> QED
    BY <1>16, <1>17

LengthInv ==
    /\ entry \in Entry
    /\ buf \in Seq(Unit)
    /\ buf = <<>> => result = Partial
    /\ result = Partial => headers_ = <<>> /\ body_len_ = <<>>
    /\ entry = "request" /\ result > 0 => LengthIn(buf, result, body_len_)

LEMMA CallKeepsLength ==
    ASSUME LengthInv, result = Partial, NEW b \in Seq(Unit), b # <<>>, NEW last \in 0 .. Len(b),
           Call(b, last)
    PROVE  LengthInv'
<1>1. entry \in Entry /\ entry' = entry /\ buf' = b /\ headers_ = <<>> /\ body_len_ = <<>>
    BY DEF LengthInv, Call
<1>2. CASE parse(b, last)
  <2>1. PICK r \in {Verdict(b, last)} :
           \E map \in {IF r < 0 THEN headers_ ELSE Emplace(headers_, Fields(b))} :
              Finish(r, map, ContentLength(map))
      BY <1>2 DEF parse
  <2>2. PICK map \in {IF r < 0 THEN headers_ ELSE Emplace(headers_, Fields(b))} :
              Finish(r, map, ContentLength(map))
      BY <2>1
  <2>3. entry = "request" /\ r = Answer("request", b, last)
      BY <1>2, VerdictIs, <1>1 DEF parse
  <2> DEFINE kept == ContentLength(map)
  <2>4. /\ headers_' = map
        /\ IF r < 0 \/ kept = Absent THEN result' = r /\ body_len_' = body_len_
           ELSE IF IsNumber(kept) THEN result' = r /\ body_len_' = kept
           ELSE result' = Error /\ body_len_' = body_len_
      BY <2>2 DEF Finish
  <2>5. map = IF r < 0 THEN <<>> ELSE Emplace(<<>>, Fields(b))
      BY <1>1
  <2> HIDE DEF kept
  <2>6. result' = Partial => headers_' = <<>> /\ body_len_' = <<>>
    <3> SUFFICES ASSUME result' = Partial PROVE headers_' = <<>> /\ body_len_' = <<>>
        OBVIOUS
    <3>1. r < 0
      <4>1. result' = r \/ result' = Error
          BY <2>4
      <4> QED
          BY <4>1 DEF Partial, Error
    <3> QED
        BY <1>1, <2>4, <2>5, <3>1
  <2>7. result' > 0 => LengthIn(b, result', body_len_')
    <3> SUFFICES ASSUME result' > 0 PROVE LengthIn(b, result', body_len_')
        OBVIOUS
    <3>1. result' = r /\ ~ (r < 0) /\ IF kept = Absent THEN body_len_' = <<>> ELSE IsNumber(kept) /\ body_len_' = kept
      <4>1. result' # Error
          BY DEF Error
      <4>2. result' = r
          BY <2>4, <4>1
      <4>3. ~ (r < 0)
        <5>1. r \in Int
            BY <2>3, AnswerRange DEF Partial, Error
        <5> QED
            BY <4>2, <5>1
      <4> QED
          BY <1>1, <2>4, <4>1, <4>2, <4>3
    <3>2. kept = ContentLength(Emplace(<<>>, Fields(b)))
        BY <2>5, <3>1 DEF kept
    <3>3. LET k == ContentLength(Emplace(<<>>, Fields(b)))
          IN  IF k = Absent THEN body_len_' = <<>> ELSE IsNumber(k) /\ body_len_' = k
        BY <3>1, <3>2
    <3> DEFINE length == body_len_'
    <3>4. r > 0 /\ LET k == ContentLength(Emplace(<<>>, Fields(b)))
                   IN  IF k = Absent THEN length = <<>> ELSE IsNumber(k) /\ length = k
        BY <3>1, <3>3
    <3> HIDE DEF length
    <3>5. LengthIn(b, r, length)
        BY <2>3, <3>4, AcceptedLength
    <3> QED
        BY <3>1, <3>5 DEF length
  <2> QED
      BY <1>1, <2>6, <2>7 DEF LengthInv
<1>3. CASE ParseOther(b, last)
    BY <1>1, <1>3 DEF ParseOther, LengthInv
<1> QED
    BY <1>2, <1>3 DEF Call

\* The length of the body is that of the first Content-Length line after the request
\* line, whatever lines come before and after it, and none means none.
THEOREM LengthOfBody == Spec => []BodyFollowsFirstLength
<1>1. Init => LengthInv
    BY DEF Init, LengthInv, Partial
<1>2. LengthInv /\ [Next]_vars => LengthInv'
  <2> SUFFICES ASSUME LengthInv, [Next]_vars PROVE LengthInv'
      OBVIOUS
  <2>1. CASE Begin
    <3>1. PICK b \in FirstRead[entry] : b # <<>> /\ Call(b, 0)
        BY <2>1 DEF Begin
    <3>2. b \in Seq(Unit) /\ result = Partial
        BY <2>1, <3>1, UnitAssumption DEF LengthInv, Begin
    <3>3. 0 \in 0 .. Len(b)
        BY <3>2
    <3> QED
        BY <3>1, <3>2, <3>3, CallKeepsLength
  <2>2. CASE Continue
    <3>1. PICK n \in 1 .. 3 : \E units \in [1 .. n -> Unit] : Call(buf \o units, Len(buf))
        BY <2>2 DEF Continue
    <3>2. PICK units \in [1 .. n -> Unit] : Call(buf \o units, Len(buf))
        BY <3>1
    <3> DEFINE b == buf \o units
    <3>3. units \in Seq(Unit) /\ Len(units) = n /\ buf \in Seq(Unit) /\ Len(buf) \in Nat
        BY DEF LengthInv
    <3>4. b \in Seq(Unit) /\ Len(b) = Len(buf) + n
        BY <3>3
    <3>5. Call(b, Len(buf)) /\ result = Partial
        BY <2>2, <3>2 DEF Continue
    <3> HIDE DEF b
    <3>6. b # <<>> /\ Len(buf) \in 0 .. Len(b)
        BY <3>3, <3>4
    <3> QED
        BY <3>4, <3>5, <3>6, CallKeepsLength
  <2>3. CASE Stop \/ UNCHANGED vars
      BY <2>3 DEF Stop, vars, LengthInv
  <2> QED
      BY <2>1, <2>2, <2>3 DEF Next
<1>3. LengthInv => BodyFollowsFirstLength
    BY DEF LengthInv, LengthIn, BodyFollowsFirstLength
<1> QED
    BY <1>1, <1>2, <1>3, PTL DEF Spec
=============================================================================
