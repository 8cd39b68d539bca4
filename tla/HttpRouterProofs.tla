----------------------------- MODULE HttpRouterProofs -----------------------------
(***************************************************************************)
(* Theorems about the router.  First about PathToRegex: what the regex of a  *)
(* route matches and in what order its groups come, for templates of any     *)
(* length.  Then about HttpRouter, for any number of threads, routes,        *)
(* methods and requests.  Last, what the handlers get: where the pieces of a *)
(* template are in the regex, and what the groups of the regex capture.      *)
(***************************************************************************)
EXTENDS HttpRouter, RecursionLemmas, FiniteSetTheorems

-----------------------------------------------------------------------------
(* Sets of texts. *)

Text == Seq(Alphabet)

\* The texts that are short enough to be paths.
Short(A) == {p \in A : Len(p) <= MaxPath}

\* Concatenation by a name of its own: the provers work with few facts about it.
Joined(a, b) == a \o b

LEMMA JoinedTexts ==
    ASSUME NEW a \in Text, NEW b \in Text, NEW c \in Text
    PROVE  /\ Joined(a, b) \in Text
           /\ Joined(Joined(a, b), c) = Joined(a, Joined(b, c))
           /\ Len(Joined(a, b)) <= MaxPath => Len(a) <= MaxPath /\ Len(b) <= MaxPath
           /\ Joined(<<>>, a) = a /\ Joined(a, <<>>) = a
<1>1. Len(a) \in Nat /\ Len(b) \in Nat /\ Len(Joined(a, b)) = Len(a) + Len(b)
    BY DEF Text, Joined
<1>2. MaxPath \in Nat
    BY PathAssumption
<1> QED
    BY <1>1, <1>2 DEF Text, Joined

LEMMA CatOut ==
    ASSUME NEW A, NEW B, NEW p \in Cat(A, B)
    PROVE  Len(p) <= MaxPath /\ \E a \in A : \E b \in B : p = Joined(a, b)
BY DEF Cat, Joined

LEMMA CatIn ==
    ASSUME NEW A, NEW B, NEW a \in A, NEW b \in B, Len(Joined(a, b)) <= MaxPath
    PROVE  Joined(a, b) \in Cat(A, B)
BY DEF Cat, Joined

LEMMA CatText ==
    ASSUME NEW A, A \subseteq Text, NEW B, B \subseteq Text
    PROVE  Cat(A, B) \subseteq Text
BY CatOut, JoinedTexts

LEMMA CatAssociative ==
    ASSUME NEW A, A \subseteq Text, NEW B, B \subseteq Text, NEW C, C \subseteq Text
    PROVE  Cat(Cat(A, B), C) = Cat(A, Cat(B, C))
<1>1. ASSUME NEW p \in Cat(Cat(A, B), C) PROVE p \in Cat(A, Cat(B, C))
  <2>1. PICK a \in A, b \in B, c \in C : p = Joined(Joined(a, b), c) /\ Len(p) <= MaxPath
      BY CatOut
  <2>2. /\ p = Joined(a, Joined(b, c))
        /\ Len(Joined(b, c)) <= MaxPath
      BY <2>1, JoinedTexts
  <2> QED
      BY <2>1, <2>2, CatIn
<1>2. ASSUME NEW p \in Cat(A, Cat(B, C)) PROVE p \in Cat(Cat(A, B), C)
  <2>1. PICK a \in A, b \in B, c \in C : p = Joined(a, Joined(b, c)) /\ Len(p) <= MaxPath
      BY CatOut
  <2>2. Joined(Joined(a, b), c) = Joined(a, Joined(b, c)) /\ Joined(a, b) \in Text
      BY JoinedTexts
  <2>3. Len(Joined(a, b)) <= MaxPath
      BY <2>1, <2>2, JoinedTexts
  <2> QED
      BY <2>1, <2>2, <2>3, CatIn
<1> QED
    BY <1>1, <1>2

LEMMA CatUnion ==
    ASSUME NEW A, NEW B, NEW C
    PROVE  /\ Cat(A \cup B, C) = Cat(A, C) \cup Cat(B, C)
           /\ Cat(A, B \cup C) = Cat(A, B) \cup Cat(A, C)
<1>1. Cat(A \cup B, C) = Cat(A, C) \cup Cat(B, C)
    BY CatOut, CatIn
<1>2. Cat(A, B \cup C) = Cat(A, B) \cup Cat(A, C)
    BY CatOut, CatIn
<1> QED
    BY <1>1, <1>2

LEMMA CatEmpty ==
    ASSUME NEW A, A \subseteq Text
    PROVE  Cat({<<>>}, A) = Short(A) /\ Cat(A, {<<>>}) = Short(A)
<1>1. \A a \in A : Joined(<<>>, a) = a /\ Joined(a, <<>>) = a
    BY JoinedTexts
<1>2. Cat({<<>>}, A) = Short(A)
    BY <1>1, CatOut, CatIn DEF Short
<1>3. Cat(A, {<<>>}) = Short(A)
    BY <1>1, CatOut, CatIn DEF Short
<1> QED
    BY <1>2, <1>3

LEMMA CatShort ==
    ASSUME NEW A, A \subseteq Text, NEW B, B \subseteq Text
    PROVE  /\ Short(A) \subseteq Text
           /\ Cat(Short(A), B) = Cat(A, B)
           /\ Cat(A, Short(B)) = Cat(A, B)
           /\ Short(Cat(A, B)) = Cat(A, B)
<1>1. Short(A) \subseteq A /\ Short(B) \subseteq B
    BY DEF Short
<1>2. ASSUME NEW p \in Cat(A, B) PROVE p \in Cat(Short(A), B) /\ p \in Cat(A, Short(B))
  <2>1. PICK a \in A, b \in B : p = Joined(a, b) /\ Len(p) <= MaxPath
      BY CatOut
  <2>2. a \in Short(A) /\ b \in Short(B)
      BY <2>1, JoinedTexts DEF Short
  <2> QED
      BY <2>1, <2>2, CatIn
<1>3. Cat(Short(A), B) \subseteq Cat(A, B) /\ Cat(A, Short(B)) \subseteq Cat(A, B)
    BY <1>1, CatOut, CatIn
<1>4. Short(Cat(A, B)) = Cat(A, B)
    BY CatOut DEF Short
<1> QED
    BY <1>1, <1>2, <1>3, <1>4

-----------------------------------------------------------------------------
(* Templates, tokens and regexes. *)

\* What a character means in a regex is itself, unless it is one of these.
Special == {".", "(", ")", "[", "]", "{", "}", "*", "+", "?", "^", "$", "|", "\\"}

Letter == Alphabet \ Special

Patterns == {"segment", "any"} \cup Letter

Characters == [kind : {"plain", "escaped"}, char : Letter]

KeyPieces == [kind : {"key"}, name : STRING, pattern : Patterns, modifier : {"", "?", "+", "*"}]

Pieces == Characters \cup KeyPieces

\* A key has a slash before it or nothing.
Separators == {<<>>, <<"/">>}

\* The names of keys: their own, or their numbers.
Names == STRING \cup {ToString(n) : n \in Nat}

\* The keys among the tokens: the only separator is a slash.
KeyTokens ==
    [is_string : {FALSE}, name : Names, prefix : Separators, delimiter : {<<"/">>},
     optional : BOOLEAN, repeat : BOOLEAN, partial : BOOLEAN, pattern : Patterns]

StringTokens == [is_string : {TRUE}, name : Seq(Letter) \ {<<>>}]

Tokens == StringTokens \cup KeyTokens

Elements == {Verbatim(c) : c \in Letter} \cup {SlashAtEnd} \cup {Group(t) : t \in KeyTokens}

-----------------------------------------------------------------------------
(* What elements of regexes match. *)

LEMMA UnitText ==
    ASSUME NEW pattern \in Patterns
    PROVE  Unit(pattern, "/") \subseteq Text
<1>1. Paths \subseteq Text
    BY PathAssumption DEF Paths, Text
<1>2. pattern \in Letter => <<pattern>> \in Text
    BY DEF Letter, Text
<1> QED
    BY <1>1, <1>2 DEF Unit, Patterns

LEMMA SeparatorText ==
    ASSUME NEW sep \in Separators
    PROVE  sep \in Text /\ PrefixPaths(sep) = {sep}
<1>1. <<"/">> \in Text /\ <<>> \in Text
    BY PathAssumption DEF Text
<1>2. PrefixPaths(<<"/">>) = {<<"/">>}
    BY DEF PrefixPaths, CharPaths
<1>3. PrefixPaths(<<>>) = {<<>>}
    BY DEF PrefixPaths
<1> QED
    BY <1>1, <1>2, <1>3 DEF Separators

LEMMA VerbatimPaths ==
    ASSUME NEW c \in Letter
    PROVE  ElementPaths(Verbatim(c)) = {<<c>>}
BY DEF ElementPaths, Verbatim, CharPaths, Letter, Special

LEMMA SlashPaths == ElementPaths(SlashAtEnd) = {<<>>, <<"/">>}
BY DEF ElementPaths, SlashAtEnd

\* The repeated occurrences of a key.
IsRepeated(f, unit, sep) ==
    f = [n \in Nat |-> IF n = 0 THEN unit
                       ELSE f[n - 1] \cup Cat(f[n - 1], Cat(sep, unit))]

LEMMA RepeatedExists ==
    ASSUME NEW unit, unit \subseteq Text, NEW sep, sep \subseteq Text
    PROVE  \E f : IsRepeated(f, unit, sep)
<1> DEFINE step == [n \in Nat |-> [A \in SUBSET Text |-> A \cup Cat(A, Cat(sep, unit))]]
<1>1. step \in [Nat -> [SUBSET Text -> SUBSET Text]]
    BY CatText
<1>2. PICK f \in [Nat -> SUBSET Text] : Iterates(f, Nat, unit, step)
  <2> HIDE DEF step
  <2> QED
      BY <1>1, RecursionOverNat
<1>3. ASSUME NEW n \in Nat
      PROVE  f[n] = IF n = 0 THEN unit ELSE f[n - 1] \cup Cat(f[n - 1], Cat(sep, unit))
  <2>1. CASE n = 0
      BY <1>2, <2>1 DEF Iterates
  <2>2. CASE n # 0
    <3>1. n - 1 \in Nat /\ f[n - 1] \in SUBSET Text
        BY <2>2
    <3>2. f[n] = step[n][f[n - 1]]
      <4> HIDE DEF step
      <4> QED
          BY <1>2, <2>2 DEF Iterates
    <3> QED
        BY <2>2, <3>1, <3>2
  <2> QED
      BY <2>1, <2>2
<1> QED
    BY <1>3 DEF IsRepeated

LEMMA OccurrencesAre ==
    ASSUME NEW t \in KeyTokens
    PROVE  LET unit == Unit(t.pattern, "/")
           IN  IF t.repeat
                 THEN \E f : IsRepeated(f, unit, {t.prefix}) /\ Occurrences(Group(t)) = f[MaxPath]
                 ELSE Occurrences(Group(t)) = unit
<1> DEFINE e == Group(t)
           unit == Unit(t.pattern, "/")
<1>1. /\ e.pattern = t.pattern /\ e.delimiter[1] = "/" /\ e.between = t.prefix
      /\ e.repeat = t.repeat
    BY DEF Group, KeyTokens
<1>2. PrefixPaths(e.between) = {t.prefix}
    BY <1>1, SeparatorText DEF KeyTokens
<1>3. PICK g : IsRepeated(g, unit, {t.prefix})
  <2>1. {t.prefix} \subseteq Text
      BY SeparatorText DEF KeyTokens
  <2>2. unit \subseteq Text
      BY UnitText DEF KeyTokens
  <2> HIDE DEF unit
  <2> QED
      BY <2>1, <2>2, RepeatedExists
<1>4. CASE ~ t.repeat
    BY <1>1, <1>4 DEF Occurrences
<1>5. CASE t.repeat
  <2>1. Occurrences(e) =
            (CHOOSE rep : rep = [n \in Nat |-> IF n = 0 THEN unit
                           ELSE rep[n - 1] \cup Cat(rep[n - 1], Cat({t.prefix}, unit))])[MaxPath]
    <3> HIDE DEF e, unit
    <3> QED
        BY <1>1, <1>2, <1>5 DEF Occurrences, unit, e
  <2>2. IsRepeated(CHOOSE f : IsRepeated(f, unit, {t.prefix}), unit, {t.prefix})
      BY <1>3
  <2> QED
      BY <2>1, <2>2, <1>5 DEF IsRepeated
<1> QED
    BY <1>4, <1>5

\* The copies of a key.
IsCopies(f, unit, sep) ==
    f = [n \in Nat |-> IF n = 0 THEN {<<>>} ELSE Cat(f[n - 1], Cat(sep, unit))]

LEMMA CopiesExist ==
    ASSUME NEW unit, unit \subseteq Text, NEW sep, sep \subseteq Text
    PROVE  \E f : IsCopies(f, unit, sep)
<1> DEFINE step == [n \in Nat |-> [A \in SUBSET Text |-> Cat(A, Cat(sep, unit))]]
<1>1. step \in [Nat -> [SUBSET Text -> SUBSET Text]] /\ {<<>>} \in SUBSET Text
    BY CatText DEF Text
<1>2. PICK f \in [Nat -> SUBSET Text] : Iterates(f, Nat, {<<>>}, step)
  <2> HIDE DEF step
  <2> QED
      BY <1>1, RecursionOverNat
<1>3. ASSUME NEW n \in Nat
      PROVE  f[n] = IF n = 0 THEN {<<>>} ELSE Cat(f[n - 1], Cat(sep, unit))
  <2>1. CASE n = 0
      BY <1>2, <2>1 DEF Iterates
  <2>2. CASE n # 0
    <3>1. n - 1 \in Nat /\ f[n - 1] \in SUBSET Text
        BY <2>2
    <3>2. f[n] = step[n][f[n - 1]]
      <4> HIDE DEF step
      <4> QED
          BY <1>2, <2>2 DEF Iterates
    <3> QED
        BY <2>2, <3>1, <3>2
  <2> QED
      BY <2>1, <2>2
<1> QED
    BY <1>3 DEF IsCopies

LEMMA CopiesText ==
    ASSUME NEW unit, unit \subseteq Text, NEW sep, sep \subseteq Text,
           NEW c, IsCopies(c, unit, sep)
    PROVE  /\ \A n \in Nat : c[n] \subseteq Text /\ c[n + 1] = Cat(c[n], Cat(sep, unit))
           /\ c[1] = Cat(sep, unit)
<1>1. c[0] = {<<>>} /\ \A n \in Nat : c[n + 1] = Cat(c[n], Cat(sep, unit))
  <2>1. \A n \in Nat : n + 1 \in Nat /\ n + 1 # 0 /\ (n + 1) - 1 = n
      OBVIOUS
  <2> QED
      BY <2>1 DEF IsCopies
<1> DEFINE Typed == {n \in Nat : c[n] \subseteq Text}
<1>2. 0 \in Typed
  <2>1. <<>> \in Text
      BY DEF Text
  <2> QED
      BY <1>1, <2>1
<1>3. \A n \in Nat : n \in Typed => n + 1 \in Typed
    BY <1>1, CatText
<1>4. \A n \in Nat : n \in Typed
  <2> HIDE DEF Typed
  <2> QED
      BY <1>2, <1>3, InductionOverNat
<1>5. c[1] = Cat(sep, unit)
  <2>1. c[1] = Cat({<<>>}, Cat(sep, unit))
    <3>1. c[0 + 1] = Cat(c[0], Cat(sep, unit))
        BY <1>1
    <3> QED
        BY <3>1, <1>1
  <2> QED
      BY <2>1, CatText, CatEmpty, CatShort
<1> QED
    BY <1>1, <1>4, <1>5

\* The separator and n repetitions at most are one copy and n more at most.
AreCopies(r, c, sep, n) ==
    r[n] \subseteq Text /\ Cat(sep, r[n]) = UNION {c[k] : k \in 1 .. n + 1}

LEMMA RepeatedAreCopies ==
    ASSUME NEW unit, unit \subseteq Text, NEW sep, sep \subseteq Text,
           NEW c, IsCopies(c, unit, sep), NEW r, IsRepeated(r, unit, sep), NEW n \in Nat
    PROVE  AreCopies(r, c, sep, n)
<1> DEFINE pair == Cat(sep, unit)
           Upto(m) == UNION {c[k] : k \in 1 .. m + 1}
           Good == {m \in Nat : r[m] \subseteq Text /\ Cat(sep, r[m]) = Upto(m)}
<1>1. pair \subseteq Text
    BY CatText
<1>2. r[0] = unit /\ \A m \in Nat : r[m + 1] = r[m] \cup Cat(r[m], pair)
  <2>1. \A m \in Nat : m + 1 \in Nat /\ m + 1 # 0 /\ (m + 1) - 1 = m
      OBVIOUS
  <2> QED
      BY <2>1 DEF IsRepeated
<1>3. 0 \in Good
  <2>1. Upto(0) = c[1]
      OBVIOUS
  <2> QED
      BY <2>1, <1>2, CopiesText
<1>4. ASSUME NEW m \in Nat, m \in Good PROVE m + 1 \in Good
  <2>1. r[m] \subseteq Text /\ Cat(r[m], pair) \subseteq Text
      BY <1>1, <1>4, CatText
  <2>2. r[m + 1] \subseteq Text
      BY <2>1, <1>2
  <2>3. Cat(sep, r[m + 1]) = Cat(sep, r[m]) \cup Cat(Cat(sep, r[m]), pair)
    <3> HIDE DEF pair
    <3>1. Cat(sep, r[m + 1]) = Cat(sep, r[m]) \cup Cat(sep, Cat(r[m], pair))
      <4>1. r[m + 1] = r[m] \cup Cat(r[m], pair)
          BY <1>2 DEF pair
      <4>2. Cat(sep, r[m] \cup Cat(r[m], pair)) = Cat(sep, r[m]) \cup Cat(sep, Cat(r[m], pair))
          BY CatUnion
      <4> QED
          BY <4>1, <4>2
    <3> QED
        BY <3>1, <2>1, <1>1, CatAssociative
  <2>4. Cat(sep, r[m + 1]) = Upto(m) \cup Cat(Upto(m), pair)
      BY <2>3, <1>4
  <2>5. ASSUME NEW p \in Cat(Upto(m), pair) PROVE p \in Upto(m + 1)
    <3>1. PICK a \in Upto(m), b \in pair : p = Joined(a, b) /\ Len(p) <= MaxPath
      <4> HIDE DEF Upto, pair
      <4> QED
          BY CatOut
    <3>2. PICK k \in 1 .. m + 1 : a \in c[k]
        OBVIOUS
    <3>3. p \in Cat(c[k], pair)
        BY <3>1, <3>2, CatIn
    <3>4. c[k + 1] = Cat(c[k], pair) /\ k + 1 \in 1 .. (m + 1) + 1
        BY CopiesText
    <3> QED
        BY <3>3, <3>4
  <2>6. ASSUME NEW p \in Upto(m + 1) PROVE p \in Upto(m) \cup Cat(Upto(m), pair)
    <3>1. PICK k \in 1 .. (m + 1) + 1 : p \in c[k]
        OBVIOUS
    <3>2. CASE k \in 1 .. m + 1
        BY <3>1, <3>2
    <3>3. CASE k = m + 2
      <4>1. c[k] = Cat(c[m + 1], pair)
        <5>1. m + 1 \in Nat /\ (m + 1) + 1 = k
            BY <3>3
        <5> QED
            BY <5>1, CopiesText
      <4>2. PICK a \in c[m + 1], b \in pair : p = Joined(a, b) /\ Len(p) <= MaxPath
        <5> HIDE DEF pair
        <5> QED
            BY <3>1, <4>1, CatOut
      <4>3. a \in Upto(m)
          OBVIOUS
      <4> HIDE DEF Upto, pair
      <4> QED
          BY <4>2, <4>3, CatIn
    <3> QED
        BY <3>2, <3>3
  <2>7. Upto(m) \subseteq Upto(m + 1)
      OBVIOUS
  <2>8. Upto(m) \cup Cat(Upto(m), pair) = Upto(m + 1)
    <3> HIDE DEF Upto, pair
    <3> QED
        BY <2>5, <2>6, <2>7
  <2>9. Cat(sep, r[m + 1]) = Upto(m + 1)
    <3> HIDE DEF Upto, pair
    <3> QED
        BY <2>4, <2>8
  <2> HIDE DEF Upto
  <2> QED
      BY <2>2, <2>9
<1> HIDE DEF Upto
<1>5. \A m \in Nat : m \in Good
  <2> HIDE DEF Good
  <2> QED
      BY <1>3, <1>4, InductionOverNat
<1> QED
    BY <1>5 DEF Upto, AreCopies

\* What a key of a template is without: nothing, or only the separator.
LeftOut(t, j) == IF SeparatorStays(t, j) THEN {Separator(t, j)} ELSE {<<>>}

LEMMA KeyPathsAre ==
    ASSUME NEW t, NEW j, t[j] \in KeyPieces, Separator(t, j) \in Separators
    PROVE  \E c : /\ IsCopies(c, Unit(t[j].pattern, "/"), {Separator(t, j)})
                  /\ KeyPaths(t, j) = UNION {IF n = 0 THEN LeftOut(t, j) ELSE c[n] :
                                                  n \in Counts(t[j].modifier)}
<1> DEFINE sep == Separator(t, j)
           unit == Unit(t[j].pattern, IF sep = <<>> THEN "/" ELSE sep[1])
<1>0. unit = Unit(t[j].pattern, "/")
    BY DEF Separators
<1>1. PICK g : IsCopies(g, unit, {sep})
  <2>1. {sep} \subseteq Text
      BY SeparatorText
  <2>2. unit \subseteq Text
      BY <1>0, UnitText DEF KeyPieces
  <2> HIDE DEF unit, sep
  <2> QED
      BY <2>1, <2>2, CopiesExist
<1> DEFINE c == CHOOSE f : IsCopies(f, unit, {sep})
<1>3. IsCopies(c, unit, {sep})
    BY <1>1
<1>4. KeyPaths(t, j) = UNION {IF n = 0 THEN LeftOut(t, j) ELSE c[n] : n \in Counts(t[j].modifier)}
  <2>1. KeyPaths(t, j) =
            UNION {IF n = 0 THEN (IF SeparatorStays(t, j) THEN {sep} ELSE {<<>>})
                   ELSE (CHOOSE copies : copies = [m \in Nat |->
                            IF m = 0 THEN {<<>>} ELSE Cat(copies[m - 1], Cat({sep}, unit))])[n] :
                   n \in Counts(t[j].modifier)}
      BY Zenon DEF KeyPaths
  <2> QED
      BY <2>1, Zenon DEF IsCopies, LeftOut
<1> QED
    BY <1>0, <1>3, <1>4

\* The numbers of copies other than none.
Positive(modifier) == Counts(modifier) \ {0}

LEMMA PositiveCounts ==
    /\ \A modifier \in {"", "?"} : Positive(modifier) = 1 .. 1
    /\ \A modifier \in {"+", "*"} : Positive(modifier) = 1 .. MaxPath + 1
    /\ \A modifier \in {"", "+"} : 0 \notin Counts(modifier)
    /\ \A modifier \in {"?", "*"} : 0 \in Counts(modifier)
BY PathAssumption DEF Positive, Counts

\* The token a key of a template becomes.
IsTokenOf(token, t, j) ==
    /\ token \in KeyTokens
    /\ token.prefix = Separator(t, j)
    /\ token.pattern = t[j].pattern
    /\ token.optional <=> t[j].modifier \in {"?", "*"}
    /\ token.repeat <=> t[j].modifier \in {"+", "*"}
    /\ token.partial <=> SeparatorStays(t, j)

\* The group of a key matches the texts that the key stands for.
LEMMA GroupPaths ==
    ASSUME NEW t, NEW j, t[j] \in KeyPieces, NEW token, IsTokenOf(token, t, j)
    PROVE  /\ ElementPaths(Group(token)) \subseteq Text
           /\ KeyPaths(t, j) \subseteq Text
           /\ Short(ElementPaths(Group(token))) = Short(KeyPaths(t, j))
<1> DEFINE sep == token.prefix
           unit == Unit(token.pattern, "/")
           occurrences == Occurrences(Group(token))
           modifier == t[j].modifier
<1>1. /\ token \in KeyTokens /\ sep = Separator(t, j) /\ sep \in Separators
      /\ token.pattern = t[j].pattern
    BY DEF IsTokenOf, KeyTokens
<1>2. {sep} \subseteq Text /\ unit \subseteq Text /\ {<<>>} \subseteq Text /\ PrefixPaths(sep) = {sep}
      /\ PrefixPaths(<<>>) = {<<>>}
    BY <1>1, SeparatorText, UnitText DEF KeyTokens, Separators
<1>3. modifier \in {"", "?", "+", "*"}
    BY DEF KeyPieces
<1>4. PICK c : /\ IsCopies(c, unit, {sep})
               /\ KeyPaths(t, j) = UNION {IF n = 0 THEN LeftOut(t, j) ELSE c[n] : n \in Counts(modifier)}
    BY <1>1, KeyPathsAre
<1> HIDE DEF unit, modifier
<1>5. \A n \in Nat : c[n] \subseteq Text
    BY <1>2, <1>4, CopiesText
<1>6. occurrences \subseteq Text /\ Cat({sep}, occurrences) = UNION {c[n] : n \in Positive(modifier)}
  <2>1. CASE token.repeat
    <3>1. PICK r : IsRepeated(r, unit, {sep}) /\ occurrences = r[MaxPath]
        BY <1>1, <2>1, OccurrencesAre DEF unit
    <3>2. modifier \in {"+", "*"}
        BY <2>1 DEF IsTokenOf, modifier
    <3>3. Positive(modifier) = 1 .. MaxPath + 1 /\ MaxPath \in Nat
        BY <3>2, PositiveCounts, PathAssumption
    <3> HIDE DEF occurrences, sep
    <3>4. AreCopies(r, c, {sep}, MaxPath)
      <4> DEFINE seps == {sep}
      <4>1. seps \subseteq Text /\ unit \subseteq Text
          BY <1>2
      <4>2. IsCopies(c, unit, seps) /\ IsRepeated(r, unit, seps)
          BY <1>4, <3>1
      <4>3. AreCopies(r, c, seps, MaxPath)
        <5> HIDE DEF seps
        <5> QED
            BY <4>1, <4>2, <3>3, RepeatedAreCopies
      <4> QED
          BY <4>3
    <3>5. r[MaxPath] \subseteq Text /\ Cat({sep}, r[MaxPath]) = UNION {c[k] : k \in 1 .. MaxPath + 1}
        BY <3>3, <3>4 DEF AreCopies
    <3> QED
        BY <3>1, <3>3, <3>5
  <2>2. CASE ~ token.repeat
    <3>1. occurrences = unit
        BY <1>1, <2>2, OccurrencesAre DEF unit
    <3>2. Positive(modifier) = 1 .. 1
        BY <1>3, <2>2, PositiveCounts DEF IsTokenOf, modifier
    <3>3. UNION {c[n] : n \in 1 .. 1} = c[1]
        OBVIOUS
    <3> QED
        BY <1>2, <1>4, <3>1, <3>2, <3>3, CopiesText
  <2> QED
      BY <2>1, <2>2
<1>7. KeyPaths(t, j) = (IF token.optional THEN LeftOut(t, j) ELSE {}) \cup Cat({sep}, occurrences)
  <2>1. token.optional <=> 0 \in Counts(modifier)
      BY <1>3, PositiveCounts DEF IsTokenOf, modifier
  <2>2. UNION {IF n = 0 THEN LeftOut(t, j) ELSE c[n] : n \in Counts(modifier)}
        = (IF 0 \in Counts(modifier) THEN LeftOut(t, j) ELSE {})
              \cup UNION {c[n] : n \in Positive(modifier)}
      BY DEF Positive
  <2> QED
      BY <1>4, <1>6, <2>1, <2>2
<1> HIDE DEF occurrences
<1>8. LeftOut(t, j) = IF token.partial THEN {sep} ELSE {<<>>}
    BY <1>1 DEF LeftOut, IsTokenOf
<1>9. ElementPaths(Group(token)) =
          IF ~ token.optional \/ token.partial
          THEN Cat({sep}, IF token.optional THEN Cat({<<>>}, occurrences) \cup {<<>>}
                          ELSE Cat({<<>>}, occurrences))
          ELSE Cat({<<>>}, Cat({sep}, occurrences) \cup {<<>>})
    BY <1>2 DEF ElementPaths, Group, occurrences
<1> HIDE DEF sep
<1>10. /\ Cat({<<>>}, occurrences) = Short(occurrences)
       /\ Short(occurrences) \subseteq Text
       /\ Cat({sep}, Short(occurrences)) = Cat({sep}, occurrences)
       /\ Cat({sep}, occurrences) \subseteq Text
       /\ Short(Cat({sep}, occurrences)) = Cat({sep}, occurrences)
    BY <1>2, <1>6, CatEmpty, CatShort, CatText
<1>11. \A A, B : Short(A \cup Short(B)) = Short(B \cup A)
    BY DEF Short
<1>12. CASE ~ token.optional
  <2>1. ElementPaths(Group(token)) = Cat({sep}, occurrences)
      BY <1>9, <1>10, <1>12
  <2>2. KeyPaths(t, j) = Cat({sep}, occurrences)
      BY <1>7, <1>12
  <2> QED
      BY <2>1, <2>2, <1>10
<1>13. CASE token.optional /\ token.partial
  <2>1. ElementPaths(Group(token)) = Cat({sep}, Short(occurrences) \cup {<<>>})
      BY <1>9, <1>10, <1>13
  <2>2. ElementPaths(Group(token)) = Cat({sep}, occurrences) \cup Short({sep})
    <3>1. Cat({sep}, Short(occurrences) \cup {<<>>})
          = Cat({sep}, Short(occurrences)) \cup Cat({sep}, {<<>>})
        BY CatUnion
    <3> QED
        BY <2>1, <3>1, <1>2, <1>10, CatEmpty
  <2>3. KeyPaths(t, j) = {sep} \cup Cat({sep}, occurrences)
      BY <1>7, <1>8, <1>13
  <2>4. Short({sep}) \subseteq Text
      BY <1>2, CatShort
  <2>5. Short(Cat({sep}, occurrences) \cup Short({sep})) = Short({sep} \cup Cat({sep}, occurrences))
      BY <1>11
  <2> QED
      BY <2>2, <2>3, <2>4, <2>5, <1>2, <1>10
<1>14. CASE token.optional /\ ~ token.partial
  <2>1. ElementPaths(Group(token)) = Cat({<<>>}, Cat({sep}, occurrences) \cup {<<>>})
      BY <1>9, <1>14
  <2>2. ElementPaths(Group(token)) = Cat({sep}, occurrences) \cup Short({<<>>})
      BY <2>1, <1>2, <1>10, CatUnion, CatEmpty
  <2>3. KeyPaths(t, j) = {<<>>} \cup Cat({sep}, occurrences)
      BY <1>7, <1>8, <1>14
  <2>4. Short({<<>>}) \subseteq Text
      BY <1>2, CatShort
  <2>5. Short(Cat({sep}, occurrences) \cup Short({<<>>})) = Short({<<>>} \cup Cat({sep}, occurrences))
      BY <1>11
  <2> QED
      BY <2>2, <2>3, <2>4, <2>5, <1>2, <1>10
<1> QED
    BY <1>12, <1>13, <1>14

\* One text after another is the text of both.
LEMMA CatTexts ==
    ASSUME NEW A, A \subseteq Text, NEW u \in Text, NEW v \in Text
    PROVE  Cat(Cat(A, {u}), {v}) = Cat(A, {Joined(u, v)})
<1>1. Joined(u, v) \in Text
    BY JoinedTexts
<1>2. Cat({u}, {v}) = Short({Joined(u, v)})
  <2>1. \A p \in Cat({u}, {v}) : p = Joined(u, v) /\ Len(p) <= MaxPath
      BY CatOut
  <2>2. Len(Joined(u, v)) <= MaxPath => Joined(u, v) \in Cat({u}, {v})
    <3>1. u \in {u} /\ v \in {v}
        OBVIOUS
    <3> QED
        BY <3>1, CatIn
  <2> QED
      BY <2>1, <2>2 DEF Short
<1>3. Cat(Cat(A, {u}), {v}) = Cat(A, Cat({u}, {v}))
  <2>1. {u} \subseteq Text /\ {v} \subseteq Text
      OBVIOUS
  <2> QED
      BY <2>1, CatAssociative
<1>4. Cat(A, Short({Joined(u, v)})) = Cat(A, {Joined(u, v)})
  <2>1. {Joined(u, v)} \subseteq Text
      BY <1>1
  <2> QED
      BY <2>1, CatShort
<1> QED
    BY <1>2, <1>3, <1>4

\* The occurrences of a key are texts.
LEMMA OccurrencesText ==
    ASSUME NEW t \in KeyTokens
    PROVE  Occurrences(Group(t)) \subseteq Text
<1> DEFINE sep == t.prefix
           unit == Unit(t.pattern, "/")
           seps == {sep}
           occurrences == Occurrences(Group(t))
<1>1. seps \subseteq Text /\ unit \subseteq Text
    BY SeparatorText, UnitText DEF KeyTokens
<1>2. CASE t.repeat
  <2>1. PICK r : IsRepeated(r, unit, seps) /\ occurrences = r[MaxPath]
      BY <1>2, OccurrencesAre
  <2>2. PICK c : IsCopies(c, unit, seps)
    <3> HIDE DEF seps, unit
    <3> QED
        BY <1>1, CopiesExist
  <2>3. AreCopies(r, c, seps, MaxPath)
    <3> HIDE DEF seps, unit
    <3> QED
        BY <1>1, <2>1, <2>2, PathAssumption, RepeatedAreCopies
  <2> QED
      BY <2>1, <2>3 DEF AreCopies
<1>3. CASE ~ t.repeat
    BY <1>1, <1>3, OccurrencesAre
<1> QED
    BY <1>2, <1>3

-----------------------------------------------------------------------------
(* What a regex matches, element by element. *)

IsUpTo(f, r) ==
    f = [i \in 0 .. Len(r) |-> IF i = 0 THEN {<<>>} ELSE Cat(f[i - 1], ElementPaths(r[i]))]

LEMMA ElementText ==
    ASSUME NEW e \in Elements
    PROVE  ElementPaths(e) \subseteq Text
<1>1. CASE \E c \in Letter : e = Verbatim(c)
  <2>1. \A c \in Letter : <<c>> \in Text
      BY DEF Letter, Text
  <2> QED
      BY <1>1, <2>1, VerbatimPaths
<1>2. CASE e = SlashAtEnd
    BY <1>2, SlashPaths, SeparatorText DEF Separators
<1>3. CASE \E t \in KeyTokens : e = Group(t)
  <2>1. PICK t \in KeyTokens : e = Group(t)
      BY <1>3
  <2> DEFINE sep == t.prefix
             unit == Unit(t.pattern, "/")
             occurrences == Occurrences(e)
  <2>2. {sep} \subseteq Text /\ unit \subseteq Text /\ {<<>>} \subseteq Text /\ PrefixPaths(sep) = {sep}
        /\ PrefixPaths(<<>>) = {<<>>}
      BY SeparatorText, UnitText DEF KeyTokens, Separators
  <2>3. occurrences \subseteq Text
      BY <2>1, OccurrencesText
  <2>4. ElementPaths(e) =
            IF ~ t.optional \/ t.partial
            THEN Cat({sep}, IF t.optional THEN Cat({<<>>}, occurrences) \cup {<<>>}
                            ELSE Cat({<<>>}, occurrences))
            ELSE Cat({<<>>}, IF t.optional THEN Cat({sep}, occurrences) \cup {<<>>}
                             ELSE Cat({sep}, occurrences))
      BY <2>1, <2>2 DEF ElementPaths, Group
  <2> HIDE DEF occurrences, sep
  <2>5. Cat({<<>>}, occurrences) \subseteq Text /\ Cat({sep}, occurrences) \subseteq Text
      BY <2>2, <2>3, CatText
  <2>6. \A A \in SUBSET Text : Cat({sep}, A) \subseteq Text /\ Cat({<<>>}, A) \subseteq Text
      BY <2>2, CatText
  <2>7. Cat({<<>>}, occurrences) \cup {<<>>} \in SUBSET Text /\ Cat({sep}, occurrences) \cup {<<>>} \in SUBSET Text
      BY <2>2, <2>5
  <2>8. Cat({<<>>}, occurrences) \in SUBSET Text /\ Cat({sep}, occurrences) \in SUBSET Text
      BY <2>5
  <2> QED
      BY <2>4, <2>6, <2>7, <2>8
<1> QED
    BY <1>1, <1>2, <1>3 DEF Elements

LEMMA UpToEquations ==
    ASSUME NEW r \in Seq(Elements), NEW f, IsUpTo(f, r)
    PROVE  /\ f[0] = {<<>>}
           /\ \A i \in 1 .. Len(r) : f[i] = Cat(f[i - 1], ElementPaths(r[i]))
<1>1. Len(r) \in Nat
    OBVIOUS
<1>2. f[0] = {<<>>}
  <2>1. 0 \in 0 .. Len(r)
      BY <1>1
  <2> QED
      BY <2>1 DEF IsUpTo
<1>3. ASSUME NEW i \in 1 .. Len(r) PROVE f[i] = Cat(f[i - 1], ElementPaths(r[i]))
  <2>1. i \in 0 .. Len(r) /\ i # 0
      BY <1>1
  <2> QED
      BY <2>1 DEF IsUpTo
<1> QED
    BY <1>2, <1>3

LEMMA UpToExists ==
    ASSUME NEW r \in Seq(Elements)
    PROVE  \E f \in [0 .. Len(r) -> SUBSET Text] : IsUpTo(f, r)
<1> DEFINE N == Len(r)
           step == [i \in 1 .. N |-> [A \in SUBSET Text |-> Cat(A, ElementPaths(r[i]))]]
<1>1. N \in Nat /\ \A i \in 1 .. N : r[i] \in Elements
    OBVIOUS
<1>2. {<<>>} \in SUBSET Text
    BY SeparatorText DEF Separators
<1>3. step \in [1 .. N -> [SUBSET Text -> SUBSET Text]]
    BY <1>1, ElementText, CatText
<1>4. PICK f \in [0 .. N -> SUBSET Text] : Iterates(f, 0 .. N, {<<>>}, step)
  <2> HIDE DEF step, N
  <2> QED
      BY <1>1, <1>2, <1>3, RecursionUpTo
<1>5. ASSUME NEW i \in 0 .. N
      PROVE  f[i] = IF i = 0 THEN {<<>>} ELSE Cat(f[i - 1], ElementPaths(r[i]))
  <2>1. CASE i = 0
      BY <1>4, <2>1 DEF Iterates
  <2>2. CASE i # 0
    <3>1. i \in 1 .. N /\ i - 1 \in 0 .. N /\ f[i - 1] \in SUBSET Text
        BY <1>1, <2>2
    <3>2. f[i] = step[i][f[i - 1]]
      <4> HIDE DEF step
      <4> QED
          BY <1>4, <2>2 DEF Iterates
    <3> QED
        BY <2>2, <3>1, <3>2
  <2> QED
      BY <2>1, <2>2
<1> QED
    BY <1>5 DEF IsUpTo

\* The texts that the first elements of a regex match.
LEMMA UpToIs ==
    ASSUME NEW r \in Seq(Elements)
    PROVE  \E f : /\ f[0] = {<<>>}
                  /\ \A i \in 1 .. Len(r) : f[i] = Cat(f[i - 1], ElementPaths(r[i]))
                  /\ \A i \in 0 .. Len(r) : f[i] \subseteq Text
                  /\ RegexPaths(r) = f[Len(r)]
<1> DEFINE f == CHOOSE f : IsUpTo(f, r)
<1>1. PICK g \in [0 .. Len(r) -> SUBSET Text] : IsUpTo(g, r)
    BY UpToExists
<1>2. IsUpTo(f, r)
    BY <1>1
<1>3. RegexPaths(r) = f[Len(r)]
    BY DEF RegexPaths, IsUpTo
<1> HIDE DEF f
<1>4. f[0] = {<<>>} /\ \A i \in 1 .. Len(r) : f[i] = Cat(f[i - 1], ElementPaths(r[i]))
    BY <1>2, UpToEquations
<1>5. \A i \in 0 .. Len(r) : f[i] = g[i]
  <2>1. g[0] = {<<>>} /\ \A i \in 1 .. Len(r) : g[i] = Cat(g[i - 1], ElementPaths(r[i]))
      BY <1>1, UpToEquations
  <2>2. SameSteps(f, g, Len(r))
      BY <1>4, <2>1 DEF SameSteps
  <2>3. Len(r) \in Nat
      OBVIOUS
  <2> QED
      BY <2>2, <2>3, AgreeUpTo
<1>6. \A i \in 0 .. Len(r) : f[i] \subseteq Text
    BY <1>1, <1>5
<1> QED
    BY <1>3, <1>4, <1>6

LEMMA RegexPathsText ==
    ASSUME NEW r \in Seq(Elements)
    PROVE  RegexPaths(r) \subseteq Text /\ Short(RegexPaths(r)) = RegexPaths(r)
<1>1. PICK f : /\ f[0] = {<<>>}
               /\ \A i \in 1 .. Len(r) : f[i] = Cat(f[i - 1], ElementPaths(r[i]))
               /\ \A i \in 0 .. Len(r) : f[i] \subseteq Text
               /\ RegexPaths(r) = f[Len(r)]
    BY UpToIs
<1>2. RegexPaths(r) \subseteq Text
    BY <1>1
<1>3. CASE Len(r) = 0
    BY <1>1, <1>3, PathAssumption DEF Short
<1>4. CASE Len(r) # 0
  <2>1. Len(r) \in 1 .. Len(r) /\ Len(r) - 1 \in 0 .. Len(r) /\ r[Len(r)] \in Elements
      BY <1>4
  <2>2. f[Len(r) - 1] \subseteq Text /\ ElementPaths(r[Len(r)]) \subseteq Text
      BY <1>1, <2>1, ElementText
  <2>3. RegexPaths(r) = Cat(f[Len(r) - 1], ElementPaths(r[Len(r)]))
      BY <1>1, <2>1
  <2> QED
      BY <1>2, <2>2, <2>3, CatShort
<1> QED
    BY <1>2, <1>3, <1>4

LEMMA RegexPathsEmpty == RegexPaths(<<>>) = {<<>>}
<1>1. <<>> \in Seq(Elements) /\ Len(<<>>) = 0
    OBVIOUS
<1> QED
    BY <1>1, UpToIs

LEMMA RegexPathsAppend ==
    ASSUME NEW r \in Seq(Elements), NEW e \in Elements
    PROVE  RegexPaths(Append(r, e)) = Cat(RegexPaths(r), ElementPaths(e))
<1> DEFINE s == Append(r, e)
           N == Len(r)
<1>1. /\ s \in Seq(Elements) /\ N \in Nat /\ Len(s) = N + 1 /\ s[N + 1] = e
      /\ \A i \in 1 .. N : s[i] = r[i] /\ i \in 1 .. Len(s)
    OBVIOUS
<1>2. PICK f : /\ f[0] = {<<>>}
               /\ \A i \in 1 .. Len(r) : f[i] = Cat(f[i - 1], ElementPaths(r[i]))
               /\ \A i \in 0 .. Len(r) : f[i] \subseteq Text
               /\ RegexPaths(r) = f[Len(r)]
    BY UpToIs
<1>3. PICK g : /\ g[0] = {<<>>}
               /\ \A i \in 1 .. Len(s) : g[i] = Cat(g[i - 1], ElementPaths(s[i]))
               /\ \A i \in 0 .. Len(s) : g[i] \subseteq Text
               /\ RegexPaths(s) = g[Len(s)]
    BY <1>1, UpToIs
<1> HIDE DEF s
<1>4. \A i \in 0 .. N : f[i] = g[i]
  <2>1. SameSteps(f, g, N)
      BY <1>1, <1>2, <1>3 DEF SameSteps
  <2> HIDE DEF N
  <2> QED
      BY <1>1, <2>1, AgreeUpTo
<1>5. g[N + 1] = Cat(g[N], ElementPaths(e))
  <2>1. N + 1 \in 1 .. Len(s) /\ (N + 1) - 1 = N
      BY <1>1
  <2> QED
      BY <1>1, <1>3, <2>1
<1> QED
    BY <1>1, <1>2, <1>3, <1>4, <1>5 DEF s

\* The elements of a text that goes into a regex as it is.
Chars(u) == [k \in DOMAIN u |-> Verbatim(u[k])]

LEMMA CharsAppend ==
    ASSUME NEW u \in Seq(Letter), NEW c \in Letter, NEW r \in Seq(Elements)
    PROVE  /\ Chars(u) \in Seq(Elements)
           /\ Chars(Append(u, c)) = Append(Chars(u), Verbatim(c))
           /\ r \o Chars(Append(u, c)) = Append(r \o Chars(u), Verbatim(c))
<1>1. \A d \in Letter : Verbatim(d) \in Elements
    BY DEF Elements
<1>2. Len(u) \in Nat /\ DOMAIN u = 1 .. Len(u) /\ \A k \in 1 .. Len(u) : Verbatim(u[k]) \in Elements
    BY <1>1
<1>3. Chars(u) \in Seq(Elements) /\ Len(Chars(u)) = Len(u)
    BY <1>2 DEF Chars
<1>4. Chars(Append(u, c)) = Append(Chars(u), Verbatim(c))
  <2> DEFINE a == Append(u, c)
             b == Append(Chars(u), Verbatim(c))
  <2>1. a \in Seq(Letter) /\ DOMAIN a = 1 .. Len(u) + 1 /\ a[Len(u) + 1] = c
        /\ \A k \in 1 .. Len(u) : a[k] = u[k]
      BY <1>2
  <2>2. b \in Seq(Elements) /\ DOMAIN b = 1 .. Len(u) + 1 /\ b[Len(u) + 1] = Verbatim(c)
        /\ \A k \in 1 .. Len(u) : b[k] = Verbatim(u[k])
    <3>1. \A k \in 1 .. Len(u) : Chars(u)[k] = Verbatim(u[k])
        BY <1>2 DEF Chars
    <3> QED
        BY <1>1, <1>2, <1>3, <3>1
  <2> HIDE DEF a, b
  <2>3. /\ Chars(a) \in Seq(Elements) /\ Len(Chars(a)) = Len(u) + 1
        /\ \A k \in 1 .. Len(u) + 1 : Chars(a)[k] = Verbatim(a[k])
      BY <1>1, <1>2, <2>1 DEF Chars
  <2>4. \A k \in 1 .. Len(u) + 1 : b[k] = Verbatim(a[k])
      BY <1>2, <2>1, <2>2
  <2>5. Chars(a) = b
      BY <1>2, <2>2, <2>3, <2>4, SameSequences
  <2> QED
      BY <2>5 DEF a, b
<1>5. r \o Append(Chars(u), Verbatim(c)) = Append(r \o Chars(u), Verbatim(c))
    BY <1>1, <1>3
<1> QED
    BY <1>3, <1>4, <1>5

\* A text in a regex matches itself.
LEMMA CharsPaths ==
    ASSUME NEW r \in Seq(Elements), NEW u \in Seq(Letter)
    PROVE  r \o Chars(u) \in Seq(Elements) /\ RegexPaths(r \o Chars(u)) = Cat(RegexPaths(r), {u})
<1> DEFINE P(v) == r \o Chars(v) \in Seq(Elements) /\ RegexPaths(r \o Chars(v)) = Cat(RegexPaths(r), {v})
           Good == {n \in Nat : \A v \in Seq(Letter) : Len(v) = n => P(v)}
<1>1. 0 \in Good
  <2>1. P(<<>>)
    <3>1. Chars(<<>>) = <<>>
        BY DEF Chars
    <3>2. r \o <<>> = r
        OBVIOUS
    <3> QED
        BY <3>1, <3>2, RegexPathsText, CatEmpty
  <2>2. \A v \in Seq(Letter) : Len(v) = 0 => v = <<>>
      OBVIOUS
  <2> HIDE DEF P
  <2> QED
      BY <2>1, <2>2
<1>2. ASSUME NEW n \in Nat, n \in Good PROVE n + 1 \in Good
  <2>1. ASSUME NEW v \in Seq(Letter), Len(v) = n + 1 PROVE P(v)
    <3>1. v # <<>>
        BY <2>1
    <3>2. PICK w \in Seq(Letter), c \in Letter : v = Append(w, c) /\ Len(v) = Len(w) + 1
      <4> DEFINE front == SubSeq(v, 1, Len(v) - 1)
      <4>1. Len(v) \in Nat /\ front \in Seq(Letter) /\ Len(front) = Len(v) - 1 /\ v[Len(v)] \in Letter
            /\ v = Append(front, v[Len(v)])
          BY <3>1, LastOf
      <4> HIDE DEF front
      <4> QED
          BY <4>1
    <3>3. P(w)
        BY <1>2, <2>1, <3>2
    <3>4. r \o Chars(v) = Append(r \o Chars(w), Verbatim(c))
        BY <3>2, CharsAppend
    <3>5. Verbatim(c) \in Elements
        BY DEF Elements
    <3>6. RegexPaths(r \o Chars(v)) = Cat(Cat(RegexPaths(r), {w}), {<<c>>})
        BY <3>3, <3>4, <3>5, RegexPathsAppend, VerbatimPaths
    <3>7. RegexPaths(r) \subseteq Text /\ w \in Text /\ <<c>> \in Text /\ Joined(w, <<c>>) = v
        BY <3>2, RegexPathsText DEF Text, Joined, Letter
    <3>8. RegexPaths(r \o Chars(v)) = Cat(RegexPaths(r), {v})
        BY <3>6, <3>7, CatTexts
    <3> QED
        BY <3>3, <3>4, <3>5, <3>8
  <2> HIDE DEF P
  <2> QED
      BY <2>1
<1>3. \A n \in Nat : n \in Good
  <2> HIDE DEF Good
  <2> QED
      BY <1>1, <1>2, InductionOverNat
<1>4. Len(u) \in Nat
    OBVIOUS
<1> HIDE DEF P
<1>5. P(u)
    BY <1>3, <1>4
<1> QED
    BY <1>5 DEF P

-----------------------------------------------------------------------------
(* What a template stands for, piece by piece. *)

LEMMA PieceKinds ==
    ASSUME NEW t \in Seq(Pieces), NEW j \in 1 .. Len(t)
    PROVE  /\ Len(t) \in Nat /\ t[j] \in Pieces
           /\ IsKey(t[j]) => t[j] \in KeyPieces
           /\ ~ IsKey(t[j]) => t[j] \in Characters /\ t[j].char \in Letter
           /\ IsSeparator(t[j]) => t[j].kind = "plain" /\ t[j].char = "/"
<1>1. Len(t) \in Nat /\ t[j] \in Pieces
    OBVIOUS
<1>2. IsKey(t[j]) => t[j] \in KeyPieces
    BY <1>1 DEF IsKey, Pieces, Characters, KeyPieces
<1>3. ~ IsKey(t[j]) => t[j] \in Characters /\ t[j].char \in Letter
    BY <1>1 DEF IsKey, Pieces, Characters, KeyPieces
<1>4. IsSeparator(t[j]) => t[j].kind = "plain" /\ t[j].char = "/"
    BY <1>3 DEF IsSeparator, IsKey, Letter, Special
<1> QED
    BY <1>1, <1>2, <1>3, <1>4

LEMMA SeparatorIs ==
    ASSUME NEW t \in Seq(Pieces), NEW j \in 1 .. Len(t), IsKey(t[j])
    PROVE  /\ Separator(t, j) \in Separators
           /\ Separator(t, j) = IF j > 1 /\ IsSeparator(t[j - 1]) THEN <<"/">> ELSE <<>>
           /\ j > 1 /\ IsSeparator(t[j - 1]) => Attached(t, j - 1) /\ ~ IsKey(t[j - 1])
<1>1. CASE j > 1 /\ IsSeparator(t[j - 1])
  <2>1. j - 1 \in 1 .. Len(t) /\ (j - 1) + 1 = j /\ j - 1 < Len(t)
      BY <1>1, PieceKinds
  <2>2. t[j - 1].char = "/" /\ t[j - 1].kind = "plain"
      BY <1>1, <2>1, PieceKinds
  <2>3. Attached(t, j - 1)
      BY <1>1, <2>1 DEF Attached
  <2> QED
      BY <1>1, <2>2, <2>3 DEF Separator, Separators, IsKey
<1>2. CASE ~ (j > 1 /\ IsSeparator(t[j - 1]))
    BY <1>2 DEF Separator, Separators, Attached
<1> QED
    BY <1>1, <1>2

LEMMA KeyPathsText ==
    ASSUME NEW t \in Seq(Pieces), NEW j \in 1 .. Len(t), IsKey(t[j])
    PROVE  KeyPaths(t, j) \subseteq Text
<1> DEFINE sep == Separator(t, j)
           unit == Unit(t[j].pattern, "/")
<1>1. t[j] \in KeyPieces /\ sep \in Separators
    BY PieceKinds, SeparatorIs
<1>2. PICK c : /\ IsCopies(c, unit, {sep})
               /\ KeyPaths(t, j) = UNION {IF n = 0 THEN LeftOut(t, j) ELSE c[n] :
                                                n \in Counts(t[j].modifier)}
    BY <1>1, KeyPathsAre
<1>3. unit \subseteq Text /\ {sep} \subseteq Text /\ LeftOut(t, j) \subseteq Text
  <2>1. sep \in Text /\ <<>> \in Text
      BY <1>1, SeparatorText DEF Separators
  <2> QED
      BY <1>1, <2>1, UnitText DEF KeyPieces, LeftOut
<1>4. Counts(t[j].modifier) \subseteq Nat
  <2>1. t[j].modifier \in {"", "?", "+", "*"}
      BY <1>1 DEF KeyPieces
  <2>2. 1 .. MaxPath + 1 \subseteq Nat /\ 1 .. 1 \subseteq Nat /\ {0} \subseteq Nat
      BY PathAssumption
  <2>3. Counts(t[j].modifier) \subseteq {0} \cup Positive(t[j].modifier)
      BY DEF Positive
  <2>4. Positive(t[j].modifier) = 1 .. 1 \/ Positive(t[j].modifier) = 1 .. MaxPath + 1
    <3>1. CASE t[j].modifier \in {"", "?"}
        BY <3>1, PositiveCounts
    <3>2. CASE t[j].modifier \in {"+", "*"}
        BY <3>2, PositiveCounts
    <3> QED
        BY <2>1, <3>1, <3>2
  <2>5. Positive(t[j].modifier) \subseteq Nat
      BY <2>2, <2>4
  <2> QED
      BY <2>2, <2>3, <2>5
<1>5. \A n \in Nat : c[n] \subseteq Text
    BY <1>2, <1>3, CopiesText
<1> QED
    BY <1>2, <1>3, <1>4, <1>5

IsCut(f, t, last) ==
    f = [j \in 0 .. last |->
            IF j = 0 THEN {<<>>}
            ELSE IF IsKey(t[j]) THEN Cat(f[j - 1], KeyPaths(t, j))
            ELSE IF Attached(t, j) THEN f[j - 1]
            ELSE Cat(f[j - 1], {<<t[j].char>>})]

\* What one piece adds to what the pieces before it stand for.
With(A, t, j) ==
    IF IsKey(t[j]) THEN Cat(A, KeyPaths(t, j))
    ELSE IF Attached(t, j) THEN A
    ELSE Cat(A, {<<t[j].char>>})

LEMMA WithText ==
    ASSUME NEW t \in Seq(Pieces), NEW j \in 1 .. Len(t), NEW A, A \subseteq Text
    PROVE  With(A, t, j) \subseteq Text /\ (Short(A) = A => Short(With(A, t, j)) = With(A, t, j))
<1>1. CASE IsKey(t[j])
    BY <1>1, KeyPathsText, CatText, CatShort DEF With
<1>2. CASE ~ IsKey(t[j]) /\ Attached(t, j)
    BY <1>2 DEF With
<1>3. CASE ~ IsKey(t[j]) /\ ~ Attached(t, j)
  <2>1. {<<t[j].char>>} \subseteq Text
      BY <1>3, PieceKinds DEF Letter, Text
  <2> QED
      BY <1>3, <2>1, CatText, CatShort DEF With
<1> QED
    BY <1>1, <1>2, <1>3

LEMMA CutExists ==
    ASSUME NEW t \in Seq(Pieces), NEW last \in 0 .. Len(t)
    PROVE  \E f \in [0 .. last -> SUBSET Text] : IsCut(f, t, last)
<1> DEFINE step == [j \in 1 .. last |-> [A \in SUBSET Text |-> With(A, t, j)]]
<1>1. last \in Nat /\ \A j \in 1 .. last : j \in 1 .. Len(t)
    OBVIOUS
<1>2. {<<>>} \in SUBSET Text
    BY SeparatorText DEF Separators
<1>3. step \in [1 .. last -> [SUBSET Text -> SUBSET Text]]
    BY <1>1, WithText
<1>4. PICK f \in [0 .. last -> SUBSET Text] : Iterates(f, 0 .. last, {<<>>}, step)
  <2> HIDE DEF step
  <2> QED
      BY <1>1, <1>2, <1>3, RecursionUpTo
<1>5. ASSUME NEW j \in 0 .. last
      PROVE  f[j] = IF j = 0 THEN {<<>>} ELSE With(f[j - 1], t, j)
  <2>1. CASE j = 0
      BY <1>4, <2>1 DEF Iterates
  <2>2. CASE j # 0
    <3>1. j \in 1 .. last /\ j - 1 \in 0 .. last /\ f[j - 1] \in SUBSET Text
        BY <1>1, <2>2
    <3>2. f[j] = step[j][f[j - 1]]
      <4> HIDE DEF step
      <4> QED
          BY <1>4, <2>2 DEF Iterates
    <3> QED
        BY <2>2, <3>1, <3>2
  <2> QED
      BY <2>1, <2>2
<1> QED
    BY <1>5 DEF IsCut, With

LEMMA CutEquations ==
    ASSUME NEW t \in Seq(Pieces), NEW last \in 0 .. Len(t), NEW f, IsCut(f, t, last)
    PROVE  f[0] = {<<>>} /\ \A j \in 1 .. last : f[j] = With(f[j - 1], t, j)
<1>1. last \in Nat
    OBVIOUS
<1>2. f[0] = {<<>>}
  <2>1. 0 \in 0 .. last
      BY <1>1
  <2> QED
      BY <2>1 DEF IsCut
<1>3. ASSUME NEW j \in 1 .. last PROVE f[j] = With(f[j - 1], t, j)
  <2>1. j \in 0 .. last /\ j # 0
      BY <1>1
  <2> QED
      BY <2>1 DEF IsCut, With
<1> QED
    BY <1>2, <1>3

LEMMA CutIs ==
    ASSUME NEW t \in Seq(Pieces), NEW last \in 0 .. Len(t)
    PROVE  \E f : /\ f[0] = {<<>>}
                  /\ \A j \in 1 .. last : f[j] = With(f[j - 1], t, j)
                  /\ \A j \in 0 .. last : f[j] \subseteq Text
                  /\ PathsUpTo(t, last) = f[last]
<1> DEFINE f == CHOOSE f : IsCut(f, t, last)
<1>1. PICK g \in [0 .. last -> SUBSET Text] : IsCut(g, t, last)
    BY CutExists
<1>2. IsCut(f, t, last)
    BY <1>1
<1>3. PathsUpTo(t, last) = f[last]
    BY DEF PathsUpTo, IsCut
<1> HIDE DEF f
<1>4. f[0] = {<<>>} /\ \A j \in 1 .. last : f[j] = With(f[j - 1], t, j)
    BY <1>2, CutEquations
<1>5. \A j \in 0 .. last : f[j] = g[j]
  <2>1. g[0] = {<<>>} /\ \A j \in 1 .. last : g[j] = With(g[j - 1], t, j)
      BY <1>1, CutEquations
  <2>2. SameSteps(f, g, last)
      BY <1>4, <2>1 DEF SameSteps
  <2>3. last \in Nat
      OBVIOUS
  <2> QED
      BY <2>2, <2>3, AgreeUpTo
<1>6. \A j \in 0 .. last : f[j] \subseteq Text
    BY <1>1, <1>5
<1> QED
    BY <1>3, <1>4, <1>6

LEMMA PathsUpToNone ==
    ASSUME NEW t \in Seq(Pieces)
    PROVE  PathsUpTo(t, 0) = {<<>>}
<1>1. 0 \in 0 .. Len(t)
    OBVIOUS
<1> QED
    BY <1>1, CutIs

\* Every piece adds to what the pieces before it stand for.
LEMMA PathsUpToNext ==
    ASSUME NEW t \in Seq(Pieces), NEW j \in 1 .. Len(t)
    PROVE  PathsUpTo(t, j) = With(PathsUpTo(t, j - 1), t, j)
<1>1. j \in 0 .. Len(t) /\ j - 1 \in 0 .. Len(t) /\ j \in 1 .. j /\ j - 1 \in Nat
      /\ \A i \in 1 .. j - 1 : i \in 1 .. j
    OBVIOUS
<1>2. PICK f : /\ f[0] = {<<>>}
               /\ \A i \in 1 .. j : f[i] = With(f[i - 1], t, i)
               /\ \A i \in 0 .. j : f[i] \subseteq Text
               /\ PathsUpTo(t, j) = f[j]
    BY <1>1, CutIs
<1>3. PICK g : /\ g[0] = {<<>>}
               /\ \A i \in 1 .. j - 1 : g[i] = With(g[i - 1], t, i)
               /\ \A i \in 0 .. j - 1 : g[i] \subseteq Text
               /\ PathsUpTo(t, j - 1) = g[j - 1]
    BY <1>1, CutIs
<1>4. \A i \in 0 .. j - 1 : f[i] = g[i]
  <2>1. SameSteps(f, g, j - 1)
      BY <1>1, <1>2, <1>3 DEF SameSteps
  <2> QED
      BY <1>1, <2>1, AgreeUpTo
<1> QED
    BY <1>1, <1>2, <1>3, <1>4

LEMMA PathsUpToText ==
    ASSUME NEW t \in Seq(Pieces), NEW last \in 0 .. Len(t)
    PROVE  PathsUpTo(t, last) \subseteq Text /\ Short(PathsUpTo(t, last)) = PathsUpTo(t, last)
<1> DEFINE Good == {n \in 0 .. Len(t) : /\ PathsUpTo(t, n) \subseteq Text
                                       /\ Short(PathsUpTo(t, n)) = PathsUpTo(t, n)}
<1>1. Len(t) \in Nat
    OBVIOUS
<1>2. 0 \in Good
  <2>1. <<>> \in Text /\ Len(<<>>) <= MaxPath
      BY SeparatorText, PathAssumption DEF Separators
  <2>2. Short({<<>>}) = {<<>>} /\ {<<>>} \subseteq Text
      BY <2>1 DEF Short
  <2>3. 0 \in 0 .. Len(t) /\ PathsUpTo(t, 0) = {<<>>}
      BY <1>1, PathsUpToNone
  <2> QED
      BY <2>2, <2>3
<1>3. ASSUME NEW n \in 0 .. Len(t) - 1, n \in Good PROVE n + 1 \in Good
  <2>1. n + 1 \in 1 .. Len(t) /\ (n + 1) - 1 = n
      BY <1>1
  <2> QED
      BY <1>3, <2>1, PathsUpToNext, WithText
<1>4. \A n \in 0 .. Len(t) : n \in Good
  <2> HIDE DEF Good
  <2> QED
      BY <1>1, <1>2, <1>3, InductionUpTo
<1> QED
    BY <1>4

\* The text of the pieces of t after i, up to l.
Run(t, i, l) == [k \in 1 .. l - i |-> t[i + k].char]

\* The pieces of t after i, up to l, are characters that stand for themselves.
Stands(t, i, l) == \A j \in i + 1 .. l : ~ IsKey(t[j]) /\ ~ Attached(t, j)

LEMMA RunNext ==
    ASSUME NEW t \in Seq(Pieces), NEW i \in 0 .. Len(t), NEW l \in i .. Len(t), Stands(t, i, l)
    PROVE  /\ Run(t, i, l) \in Seq(Letter) /\ Run(t, i, i) = <<>> /\ Len(Run(t, i, l)) = l - i
           /\ l > i => Stands(t, i, l - 1) /\ l - 1 \in i .. Len(t)
                       /\ Run(t, i, l) = Append(Run(t, i, l - 1), t[l].char)
<1>1. Len(t) \in Nat /\ i \in Nat /\ l \in Nat /\ l - i \in Nat
    OBVIOUS
<1>2. ASSUME NEW k \in 1 .. l - i PROVE t[i + k].char \in Letter
  <2>1. i + k \in i + 1 .. l /\ i + k \in 1 .. Len(t)
      BY <1>1
  <2> QED
      BY <2>1, PieceKinds DEF Stands
<1>3. Run(t, i, l) \in Seq(Letter) /\ Len(Run(t, i, l)) = l - i
    BY <1>1, <1>2 DEF Run
<1>4. Run(t, i, i) = <<>>
    BY <1>1 DEF Run
<1>5. ASSUME l > i
      PROVE  /\ Stands(t, i, l - 1) /\ l - 1 \in i .. Len(t)
             /\ Run(t, i, l) = Append(Run(t, i, l - 1), t[l].char)
  <2>1. Stands(t, i, l - 1) /\ l - 1 \in i .. Len(t) /\ (l - 1) - i = (l - i) - 1 /\ (l - i) - 1 \in Nat
      BY <1>1, <1>5 DEF Stands
  <2>2. /\ Run(t, i, l - 1) \in Seq(Letter) /\ Len(Run(t, i, l - 1)) = (l - i) - 1
        /\ \A k \in 1 .. (l - i) - 1 : Run(t, i, l - 1)[k] = t[i + k].char
    <3>1. \A k \in 1 .. (l - i) - 1 : t[i + k].char \in Letter
        BY <1>1, <1>2
    <3> QED
        BY <2>1, <3>1 DEF Run
  <2>3. t[l].char \in Letter /\ i + (l - i) = l /\ l - i \in 1 .. l - i
    <3>1. l - i \in 1 .. l - i /\ i + (l - i) = l
        BY <1>1, <1>5
    <3> QED
        BY <1>2, <3>1
  <2> DEFINE s == Append(Run(t, i, l - 1), t[l].char)
  <2>4. s \in Seq(Letter) /\ Len(s) = l - i /\ \A k \in 1 .. l - i : s[k] = t[i + k].char
    <3>1. /\ s \in Seq(Letter) /\ Len(s) = ((l - i) - 1) + 1
          /\ \A k \in 1 .. (l - i) - 1 : s[k] = Run(t, i, l - 1)[k]
          /\ s[((l - i) - 1) + 1] = t[l].char
        BY <2>2, <2>3, AppendIs
    <3>2. ((l - i) - 1) + 1 = l - i /\ \A k \in 1 .. l - i : k = l - i \/ k \in 1 .. (l - i) - 1
        BY <1>1
    <3> HIDE DEF s
    <3> QED
        BY <2>2, <2>3, <3>1, <3>2
  <2>5. \A k \in 1 .. Len(s) : s[k] = Run(t, i, l)[k]
    <3> HIDE DEF s
    <3> QED
        BY <2>4 DEF Run
  <2> HIDE DEF s
  <2>6. s = Run(t, i, l)
      BY <1>3, <2>4, <2>5, SameSequences
  <2> QED
      BY <2>1, <2>6 DEF s
<1> QED
    BY <1>3, <1>4, <1>5

\* Characters that stand for themselves add their text.
LEMMA RunPaths ==
    ASSUME NEW t \in Seq(Pieces), NEW i \in 0 .. Len(t), NEW l \in i .. Len(t), Stands(t, i, l)
    PROVE  PathsUpTo(t, l) = Cat(PathsUpTo(t, i), {Run(t, i, l)})
<1> DEFINE Good == {n \in 0 .. l - i :
                        PathsUpTo(t, i + n) = Cat(PathsUpTo(t, i), {Run(t, i, i + n)})}
<1>1. Len(t) \in Nat /\ i \in Nat /\ l \in Nat /\ l - i \in Nat /\ i + 0 = i /\ i + (l - i) = l
    OBVIOUS
<1>2. PathsUpTo(t, i) \subseteq Text /\ Short(PathsUpTo(t, i)) = PathsUpTo(t, i)
    BY PathsUpToText
<1>3. 0 \in Good
  <2>1. Run(t, i, i) = <<>>
      BY RunNext
  <2>2. PathsUpTo(t, i) = Cat(PathsUpTo(t, i), {Run(t, i, i)})
      BY <1>2, <2>1, CatEmpty
  <2> QED
      BY <1>1, <2>2
<1>4. ASSUME NEW n \in 0 .. (l - i) - 1, n \in Good PROVE n + 1 \in Good
  <2> DEFINE m == i + (n + 1)
  <2>1. /\ m \in i .. Len(t) /\ m > i /\ m \in 1 .. Len(t) /\ m - 1 = i + n
        /\ m \in i + 1 .. l /\ n + 1 \in 0 .. l - i /\ i + n \in i .. Len(t)
      BY <1>1
  <2> HIDE DEF m
  <2>2. Stands(t, i, m) /\ Stands(t, i, i + n)
      BY <1>1, <2>1 DEF Stands
  <2>3. Run(t, i, m) = Append(Run(t, i, i + n), t[m].char)
        /\ Run(t, i, i + n) \in Seq(Letter)
    <3>1. Run(t, i, m) = Append(Run(t, i, m - 1), t[m].char)
        BY <2>1, <2>2, RunNext
    <3>2. Run(t, i, i + n) \in Seq(Letter)
        BY <2>1, <2>2, RunNext
    <3> QED
        BY <2>1, <3>1, <3>2
  <2>4. ~ IsKey(t[m]) /\ ~ Attached(t, m) /\ t[m].char \in Letter
      BY <2>1, PieceKinds DEF Stands
  <2>5. PathsUpTo(t, m) = Cat(PathsUpTo(t, i + n), {<<t[m].char>>})
      BY <2>1, <2>4, PathsUpToNext DEF With
  <2>6. Joined(Run(t, i, i + n), <<t[m].char>>) = Run(t, i, m)
        /\ Run(t, i, i + n) \in Text /\ <<t[m].char>> \in Text
      BY <2>3, <2>4 DEF Joined, Text, Letter
  <2>7. PathsUpTo(t, m) = Cat(Cat(PathsUpTo(t, i), {Run(t, i, i + n)}), {<<t[m].char>>})
      BY <1>4, <2>5
  <2>8. PathsUpTo(t, m) = Cat(PathsUpTo(t, i), {Run(t, i, m)})
      BY <1>2, <2>6, <2>7, CatTexts
  <2> QED
      BY <2>1, <2>8 DEF m
<1>5. \A n \in 0 .. l - i : n \in Good
  <2> HIDE DEF Good
  <2> QED
      BY <1>1, <1>3, <1>4, InductionUpTo
<1>6. l - i \in Good
  <2>1. l - i \in 0 .. l - i
      BY <1>1
  <2> HIDE DEF Good
  <2> QED
      BY <1>5, <2>1
<1> QED
    BY <1>1, <1>6

-----------------------------------------------------------------------------
(* What tokens stand for. *)

TokenPaths(token) == IF token.is_string THEN {token.name} ELSE ElementPaths(Group(token))

\* f[i] is what the first i tokens of a list stand for.
Spans(f, list) ==
    /\ f[0] = {<<>>}
    /\ \A i \in 1 .. Len(list) : f[i] = Cat(f[i - 1], TokenPaths(list[i]))
    /\ \A i \in 0 .. Len(list) : f[i] \subseteq Text /\ Short(f[i]) = f[i]

LEMMA TokenText ==
    ASSUME NEW token \in Tokens
    PROVE  /\ TokenPaths(token) \subseteq Text
           /\ token.is_string => token \in StringTokens
           /\ ~ token.is_string => token \in KeyTokens
<1>1. CASE token \in StringTokens
  <2>1. token.is_string /\ token.name \in Seq(Letter)
      BY <1>1 DEF StringTokens
  <2>2. token.name \in Text
      BY <2>1 DEF Letter, Text
  <2> QED
      BY <1>1, <2>1, <2>2 DEF TokenPaths
<1>2. CASE token \in KeyTokens
  <2>1. ~ token.is_string
      BY <1>2 DEF KeyTokens
  <2>2. Group(token) \in Elements
      BY <1>2 DEF Elements
  <2> QED
      BY <1>2, <2>1, <2>2, ElementText DEF TokenPaths
<1> QED
    BY <1>1, <1>2 DEF Tokens

LEMMA SpansNothing == \E f : Spans(f, <<>>)
<1> DEFINE f == [i \in {0} |-> {<<>>}]
<1>1. <<>> \in Text /\ Short({<<>>}) = {<<>>} /\ {<<>>} \subseteq Text
    BY SeparatorText, PathAssumption DEF Separators, Short
<1>2. f[0] = {<<>>} /\ Len(<<>>) = 0
    OBVIOUS
<1>3. (\A i \in 0 .. 0 : i = 0) /\ (\A i \in 1 .. 0 : FALSE)
    OBVIOUS
<1> HIDE DEF f
<1>4. Spans(f, <<>>)
    BY <1>1, <1>2, <1>3 DEF Spans
<1> QED
    BY <1>4

LEMMA SpansAppend ==
    ASSUME NEW list \in Seq(Tokens), NEW token \in Tokens, NEW f, Spans(f, list)
    PROVE  \E g : /\ Spans(g, Append(list, token))
                  /\ g[Len(list) + 1] = Cat(f[Len(list)], TokenPaths(token))
                  /\ g[Len(list)] = f[Len(list)]
<1> DEFINE N == Len(list)
           new == Cat(f[N], TokenPaths(token))
           g == [i \in 0 .. N + 1 |-> IF i = N + 1 THEN new ELSE f[i]]
           longer == Append(list, token)
<1>1. /\ longer \in Seq(Tokens) /\ Len(longer) = N + 1 /\ longer[N + 1] = token
      /\ \A i \in 1 .. N : longer[i] = list[i]
    BY AppendIs
<1>2. N \in Nat /\ 0 \in 0 .. N /\ N \in 0 .. N
    OBVIOUS
<1>3. g[N + 1] = new /\ \A i \in 0 .. N : g[i] = f[i]
    BY <1>2
<1>4. new \subseteq Text /\ Short(new) = new
  <2>1. f[N] \subseteq Text
      BY <1>2 DEF Spans
  <2> QED
      BY <2>1, TokenText, CatText, CatShort
<1> HIDE DEF g, new, longer
<1>5. ASSUME NEW i \in 1 .. N + 1 PROVE g[i] = Cat(g[i - 1], TokenPaths(longer[i]))
  <2>1. CASE i = N + 1
    <3>1. i - 1 = N
        BY <1>2, <2>1
    <3> QED
        BY <1>1, <1>2, <1>3, <2>1, <3>1 DEF new
  <2>2. CASE i \in 1 .. N
    <3>1. i \in 0 .. N /\ i - 1 \in 0 .. N
        BY <1>2, <2>2
    <3> HIDE DEF N
    <3> QED
        BY <1>1, <1>3, <2>2, <3>1 DEF Spans, N
  <2> QED
      BY <1>2, <2>1, <2>2
<1>6. ASSUME NEW i \in 0 .. N + 1 PROVE g[i] \subseteq Text /\ Short(g[i]) = g[i]
  <2>1. CASE i = N + 1
      BY <1>3, <1>4, <2>1
  <2>2. CASE i \in 0 .. N
      BY <1>3, <2>2 DEF Spans
  <2> QED
      BY <1>2, <2>1, <2>2
<1>7. Spans(g, longer)
    BY <1>1, <1>2, <1>3, <1>5, <1>6 DEF Spans
<1> QED
    BY <1>2, <1>3, <1>7 DEF new, longer

\* A text that becomes a token unless it is empty.
Push(list, text) == IF text = <<>> THEN list ELSE Append(list, StringToken(text))

SpansPushed(f, list, text) ==
    /\ Push(list, text) \in Seq(Tokens)
    /\ \E g : /\ Spans(g, Push(list, text))
              /\ g[Len(Push(list, text))] = Cat(f[Len(list)], {text})
              /\ text # <<>> => /\ Len(Push(list, text)) = Len(list) + 1
                                /\ Push(list, text)[Len(list) + 1] = StringToken(text)
                                /\ g[Len(list)] = f[Len(list)]

LEMMA SpansPush ==
    ASSUME NEW list \in Seq(Tokens), NEW text \in Seq(Letter), NEW f, Spans(f, list)
    PROVE  SpansPushed(f, list, text)
<1>1. Len(list) \in Nat /\ Len(list) \in 0 .. Len(list)
    OBVIOUS
<1>2. f[Len(list)] \subseteq Text /\ Short(f[Len(list)]) = f[Len(list)]
    BY <1>1 DEF Spans
<1>3. CASE text = <<>>
  <2>1. Push(list, text) = list
      BY <1>3 DEF Push
  <2>2. f[Len(list)] = Cat(f[Len(list)], {text})
      BY <1>2, <1>3, CatEmpty
  <2> QED
      BY <1>3, <2>1, <2>2 DEF SpansPushed
<1>4. CASE text # <<>>
  <2> DEFINE token == StringToken(text)
  <2>1. token \in Tokens /\ TokenPaths(token) = {text}
      BY <1>4 DEF StringToken, Tokens, StringTokens, TokenPaths
  <2>2. Push(list, text) = Append(list, token)
      BY <1>4 DEF Push
  <2> HIDE DEF token
  <2>3. PICK g : /\ Spans(g, Append(list, token))
                 /\ g[Len(list) + 1] = Cat(f[Len(list)], TokenPaths(token))
                 /\ g[Len(list)] = f[Len(list)]
      BY <2>1, SpansAppend
  <2>4. /\ Append(list, token) \in Seq(Tokens)
        /\ Len(Append(list, token)) = Len(list) + 1
        /\ Append(list, token)[Len(list) + 1] = token
      BY <2>1, AppendIs
  <2> QED
      BY <2>1, <2>2, <2>3, <2>4 DEF token, SpansPushed
<1> QED
    BY <1>3, <1>4

-----------------------------------------------------------------------------
(* parse(): the tokens and the text after them stand for what is behind the last match. *)

\* The text u, behind A, stands for the pieces up to i; without its last character,
\* for those before i.
Ends(u, A, t, i) ==
    /\ ~ IsKey(t[i])
    /\ \E w \in Seq(Letter) : u = Append(w, t[i].char) /\ Cat(A, {w}) = PathsUpTo(t, i - 1)

\* A text behind A stands for the pieces up to i.
Reaches(A, u, t, i) == u \in Seq(Letter) /\ Cat(A, {u}) = PathsUpTo(t, i)

Parsed(list, u, t, i) ==
    /\ \E f : /\ Spans(f, list)
              /\ Reaches(f[Len(list)], u, t, i)
              /\ u # <<>> => Ends(u, f[Len(list)], t, i)
    /\ i # 0 => t[i].kind # "plain"
    /\ u = <<>> => i = 0 \/ IsKey(t[i])
    /\ u = <<>> /\ list # <<>> => ~ list[Len(list)].is_string
    /\ i = 0 <=> list = <<>> /\ u = <<>>

LEMMA Letters ==
    ASSUME NEW u \in Seq(Letter), NEW v \in Seq(Letter), NEW c \in Letter
    PROVE  /\ u \in Text /\ u \o v \in Seq(Letter) /\ u \o v = Joined(u, v)
           /\ Append(u, c) \in Seq(Letter) /\ Append(u, c) # <<>> /\ u \o <<c>> = Append(u, c)
           /\ u \o Append(v, c) = Append(u \o v, c)
           /\ u \o <<>> = u
           /\ v # <<>> => u \o v # <<>>
BY DEF Text, Letter, Joined

\* The text behind the last match goes on with the characters after it.
LEMMA TextGoesOn ==
    ASSUME NEW t \in Seq(Pieces), NEW i \in 0 .. Len(t), NEW l \in i .. Len(t), Stands(t, i, l),
           NEW A, A \subseteq Text, NEW u, Reaches(A, u, t, i)
    PROVE  /\ Reaches(A, u \o Run(t, i, l), t, l)
           /\ l > i => u \o Run(t, i, l) # <<>> /\ Ends(u \o Run(t, i, l), A, t, l)
<1>0. u \in Seq(Letter) /\ Cat(A, {u}) = PathsUpTo(t, i)
    BY DEF Reaches
<1>1. ASSUME NEW k \in i .. Len(t), Stands(t, i, k)
      PROVE  Run(t, i, k) \in Seq(Letter) /\ Reaches(A, u \o Run(t, i, k), t, k)
  <2>1. Run(t, i, k) \in Seq(Letter)
      BY <1>1, RunNext
  <2>2. u \in Text /\ Run(t, i, k) \in Text /\ u \o Run(t, i, k) \in Seq(Letter)
        /\ u \o Run(t, i, k) = Joined(u, Run(t, i, k))
      BY <1>0, <2>1, Letters DEF Text, Letter, Joined
  <2>3. PathsUpTo(t, k) = Cat(Cat(A, {u}), {Run(t, i, k)})
      BY <1>0, <1>1, RunPaths
  <2>4. PathsUpTo(t, k) = Cat(A, {Joined(u, Run(t, i, k))})
      BY <2>2, <2>3, CatTexts
  <2> QED
      BY <2>1, <2>2, <2>4 DEF Reaches
<1>2. ASSUME l > i
      PROVE  u \o Run(t, i, l) # <<>> /\ Ends(u \o Run(t, i, l), A, t, l)
  <2> DEFINE w == u \o Run(t, i, l - 1)
  <2>1. /\ Stands(t, i, l - 1) /\ l - 1 \in i .. Len(t)
        /\ Run(t, i, l) = Append(Run(t, i, l - 1), t[l].char)
      BY <1>2, RunNext
  <2>2. Run(t, i, l - 1) \in Seq(Letter) /\ w \in Seq(Letter) /\ Cat(A, {w}) = PathsUpTo(t, l - 1)
      BY <1>1, <2>1 DEF Reaches
  <2>3. ~ IsKey(t[l]) /\ t[l].char \in Letter
    <3>1. l \in i + 1 .. l /\ l \in 1 .. Len(t)
        BY <1>2
    <3> QED
        BY <3>1, PieceKinds DEF Stands
  <2>4. u \o Run(t, i, l) = Append(w, t[l].char) /\ Append(w, t[l].char) # <<>>
    <3>1. u \o Append(Run(t, i, l - 1), t[l].char) = Append(w, t[l].char)
      <4> DEFINE run == Run(t, i, l - 1)
                 c == t[l].char
      <4>1. run \in Seq(Letter) /\ c \in Letter
          BY <2>2, <2>3
      <4> HIDE DEF run, c
      <4>2. u \o Append(run, c) = Append(u \o run, c)
          BY <1>0, <4>1, Letters
      <4> QED
          BY <4>2 DEF run, c
    <3> HIDE DEF w
    <3> QED
        BY <2>1, <2>2, <2>3, <3>1, Letters
  <2> HIDE DEF w
  <2> QED
      BY <2>2, <2>3, <2>4 DEF Ends
<1> QED
    BY <1>1, <1>2

\* Plain characters stand for themselves unless the last one belongs to a key.
LEMMA PlainStand ==
    ASSUME NEW t \in Seq(Pieces), NEW i \in 0 .. Len(t), NEW l \in i .. Len(t),
           \A j \in i + 1 .. l : t[j].kind = "plain",
           l > i => ~ Attached(t, l)
    PROVE  Stands(t, i, l)
<1>1. ASSUME NEW j \in i + 1 .. l PROVE ~ IsKey(t[j]) /\ ~ Attached(t, j)
  <2>1. t[j].kind = "plain"
      OBVIOUS
  <2>2. CASE j = l
      BY <2>1, <2>2 DEF IsKey
  <2>3. CASE j # l
    <3>1. j + 1 \in i + 1 .. l
        BY <2>3
    <3> QED
        BY <2>1, <3>1 DEF IsKey, Attached
  <2> QED
      BY <2>2, <2>3
<1> QED
    BY <1>1 DEF Stands

\* A match of an escaped character.
LEMMA EscapedParsed ==
    ASSUME NEW t \in Seq(Pieces), NEW i \in 0 .. Len(t), NEW m \in i + 1 .. Len(t),
           \A j \in i + 1 .. m - 1 : t[j].kind = "plain", t[m].kind = "escaped",
           NEW list \in Seq(Tokens), NEW u \in Seq(Letter), Parsed(list, u, t, i)
    PROVE  /\ u \o Run(t, i, m - 1) \o <<t[m].char>> \in Seq(Letter)
           /\ Parsed(list, u \o Run(t, i, m - 1) \o <<t[m].char>>, t, m)
<1> DEFINE w == u \o Run(t, i, m - 1)
           v == Append(w, t[m].char)
<1>1. /\ m - 1 \in i .. Len(t) /\ m \in 1 .. Len(t) /\ m # 0 /\ m \in i .. Len(t)
      /\ m - 1 \in 0 .. Len(t) /\ m \in 0 .. Len(t)
      /\ (m - 1) + 1 = m /\ (m - 1) + 1 .. m = {m} /\ m > m - 1
    OBVIOUS
<1>2. ~ IsKey(t[m]) /\ ~ IsSeparator(t[m]) /\ ~ Attached(t, m) /\ t[m].char \in Letter
  <2>1. ~ IsKey(t[m]) /\ ~ IsSeparator(t[m])
      BY DEF IsKey, IsSeparator
  <2> QED
      BY <1>1, <2>1, PieceKinds DEF Attached
<1>3. Stands(t, i, m - 1)
  <2>1. m - 1 > i => ~ Attached(t, m - 1)
      BY <1>1, <1>2 DEF Attached
  <2> QED
      BY <1>1, <2>1, PlainStand
<1>4. PICK f : Spans(f, list) /\ Reaches(f[Len(list)], u, t, i)
    BY DEF Parsed
<1> DEFINE A == f[Len(list)]
<1>5. A \subseteq Text
  <2>1. Len(list) \in 0 .. Len(list)
      OBVIOUS
  <2> QED
      BY <1>4, <2>1 DEF Spans
<1>6. Reaches(A, w, t, m - 1)
  <2>1. Reaches(A, u, t, i)
      BY <1>4
  <2> HIDE DEF A
  <2> QED
      BY <1>1, <1>3, <1>5, <2>1, TextGoesOn
<1> HIDE DEF w
<1>7. w \o <<t[m].char>> = v /\ v \in Seq(Letter) /\ v # <<>>
    BY <1>2, <1>6, Letters DEF Reaches
<1>8. Reaches(A, v, t, m)
  <2>1. PathsUpTo(t, m) = Cat(PathsUpTo(t, m - 1), {<<t[m].char>>})
      BY <1>1, <1>2, PathsUpToNext DEF With
  <2>2. w \in Text /\ <<t[m].char>> \in Text /\ Joined(w, <<t[m].char>>) = v
      BY <1>2, <1>6, <1>7, Letters DEF Joined, Text, Letter, Reaches
  <2>3. PathsUpTo(t, m) = Cat(Cat(A, {w}), {<<t[m].char>>})
      BY <1>6, <2>1 DEF Reaches
  <2> HIDE DEF A, v
  <2>4. PathsUpTo(t, m) = Cat(A, {v})
      BY <1>5, <2>2, <2>3, CatTexts
  <2> QED
      BY <1>7, <2>4 DEF Reaches
<1>9. Ends(v, A, t, m)
  <2> HIDE DEF A
  <2> QED
      BY <1>2, <1>6 DEF Ends, Reaches
<1> HIDE DEF v
<1>10. Parsed(list, v, t, m)
    BY <1>1, <1>4, <1>7, <1>8, <1>9 DEF Parsed
<1> QED
    BY <1>7, <1>10 DEF w

\* The prefix a match of a key begins with.
PrefixOf(t, i, m) == IF m - 1 > i /\ IsSeparator(t[m - 1]) THEN <<t[m - 1].char>> ELSE <<>>

LEMMA KeyPrefix ==
    ASSUME NEW t \in Seq(Pieces), NEW i \in 0 .. Len(t), NEW m \in i + 1 .. Len(t),
           i # 0 => t[i].kind # "plain",
           \A j \in i + 1 .. m - 1 : t[j].kind = "plain", IsKey(t[m])
    PROVE  LET l == m - 1 - Len(PrefixOf(t, i, m))
           IN  /\ PrefixOf(t, i, m) = Separator(t, m)
               /\ l \in i .. Len(t) /\ Stands(t, i, l)
               /\ PathsUpTo(t, m - 1) = PathsUpTo(t, l)
<1>1. Len(t) \in Nat /\ i \in Nat /\ m \in 1 .. Len(t) /\ m - 1 \in i .. Len(t) /\ (m - 1) + 1 = m
    OBVIOUS
<1>2. CASE m - 1 > i /\ IsSeparator(t[m - 1])
  <2>1. m - 1 \in 1 .. Len(t) /\ m > 1 /\ m - 2 \in i .. Len(t) /\ m - 1 = (m - 2) + 1
        /\ (m - 1) - 1 = m - 2 /\ (\A j \in i + 1 .. m - 2 : j \in i + 1 .. m - 1)
      BY <1>1, <1>2
  <2>2. Separator(t, m) = <<"/">> /\ Attached(t, m - 1) /\ ~ IsKey(t[m - 1])
      BY <1>1, <1>2, <2>1, SeparatorIs
  <2>3. PrefixOf(t, i, m) = <<"/">>
      BY <1>2, <2>1, PieceKinds DEF PrefixOf
  <2>4. Len(<<"/">>) = 1 /\ m - 1 - Len(PrefixOf(t, i, m)) = m - 2
      BY <1>1, <2>3
  <2>5. Stands(t, i, m - 2)
    <3>1. m - 2 > i => ~ Attached(t, m - 2)
      <4>1. ~ Attached(t, m - 2)
          BY <2>1, <2>2 DEF Attached
      <4> QED
          BY <4>1
    <3>2. \A j \in i + 1 .. m - 2 : t[j].kind = "plain"
        BY <2>1
    <3> QED
        BY <2>1, <3>1, <3>2, PlainStand
  <2>6. PathsUpTo(t, m - 1) = PathsUpTo(t, m - 2)
      BY <2>1, <2>2, PathsUpToNext DEF With
  <2> QED
      BY <2>1, <2>2, <2>3, <2>4, <2>5, <2>6
<1>3. CASE ~ (m - 1 > i /\ IsSeparator(t[m - 1]))
  <2>1. PrefixOf(t, i, m) = <<>>
      BY <1>3 DEF PrefixOf
  <2>2. m - 1 - Len(PrefixOf(t, i, m)) = m - 1
      BY <1>1, <2>1
  <2>3. m > 1 => ~ IsSeparator(t[m - 1])
    <3>1. CASE m - 1 > i
        BY <1>3, <3>1
    <3>2. CASE m - 1 = i
        BY <1>1, <3>2 DEF IsSeparator
    <3> QED
        BY <1>1, <3>1, <3>2
  <2>4. Separator(t, m) = <<>>
      BY <1>1, <2>3, SeparatorIs
  <2>5. Stands(t, i, m - 1)
    <3>1. m - 1 > i => ~ Attached(t, m - 1)
        BY <1>3 DEF Attached
    <3> QED
        BY <1>1, <3>1, PlainStand
  <2> QED
      BY <1>1, <2>1, <2>2, <2>4, <2>5
<1> QED
    BY <1>2, <1>3

\* A match of a key.
LEMMA KeyParsed ==
    ASSUME NEW t \in Seq(Pieces), NEW i \in 0 .. Len(t), NEW m \in i + 1 .. Len(t),
           \A j \in i + 1 .. m - 1 : t[j].kind = "plain", IsKey(t[m]),
           NEW list \in Seq(Tokens), NEW u \in Seq(Letter), Parsed(list, u, t, i),
           NEW token, IsTokenOf(token, t, m)
    PROVE  LET longer == Push(list, u \o Run(t, i, m - 1 - Len(PrefixOf(t, i, m))))
           IN  /\ longer \in Seq(Tokens) /\ Append(longer, token) \in Seq(Tokens)
               /\ Parsed(Append(longer, token), <<>>, t, m)
<1> DEFINE l == m - 1 - Len(PrefixOf(t, i, m))
           text == u \o Run(t, i, l)
           longer == Push(list, text)
           all == Append(longer, token)
<1>1. m \in 1 .. Len(t) /\ m # 0 /\ t[m] \in KeyPieces /\ token \in KeyTokens /\ token \in Tokens
      /\ m \in 0 .. Len(t) /\ m - 1 \in 0 .. Len(t)
    BY PieceKinds DEF IsTokenOf, Tokens
<1>2. l \in i .. Len(t) /\ Stands(t, i, l) /\ PathsUpTo(t, m - 1) = PathsUpTo(t, l)
    BY KeyPrefix DEF Parsed
<1> HIDE DEF l
<1>3. PICK f : Spans(f, list) /\ Reaches(f[Len(list)], u, t, i)
    BY DEF Parsed
<1>4. Reaches(f[Len(list)], text, t, l)
  <2> DEFINE A == f[Len(list)]
  <2>1. Len(list) \in 0 .. Len(list)
      OBVIOUS
  <2>2. A \subseteq Text /\ Reaches(A, u, t, i)
      BY <1>3, <2>1 DEF Spans
  <2> HIDE DEF A
  <2>3. Reaches(A, text, t, l)
      BY <1>2, <2>2, TextGoesOn
  <2> QED
      BY <2>3 DEF A
<1> HIDE DEF text
<1>5. text \in Seq(Letter) /\ Cat(f[Len(list)], {text}) = PathsUpTo(t, l)
    BY <1>4 DEF Reaches
<1>6. SpansPushed(f, list, text)
    BY <1>3, <1>5, SpansPush
<1>6a. longer \in Seq(Tokens)
    BY <1>6 DEF SpansPushed
<1>7. PICK g : Spans(g, longer) /\ g[Len(longer)] = Cat(f[Len(list)], {text})
    BY <1>6 DEF SpansPushed
<1> HIDE DEF longer
<1>8. PICK h : Spans(h, all) /\ h[Len(longer) + 1] = Cat(g[Len(longer)], TokenPaths(token))
    BY <1>1, <1>6a, <1>7, SpansAppend
<1>9. all \in Seq(Tokens) /\ Len(all) = Len(longer) + 1 /\ all[Len(all)] = token /\ all # <<>>
      /\ Len(all) \in 0 .. Len(all)
  <2>1. all \in Seq(Tokens) /\ Len(all) = Len(longer) + 1 /\ all[Len(longer) + 1] = token
      BY <1>1, <1>6a, AppendIs
  <2> HIDE DEF all
  <2> QED
      BY <1>6a, <2>1
<1> HIDE DEF all
<1>10. TokenPaths(token) = ElementPaths(Group(token)) /\ ~ token.is_string
    BY <1>1 DEF TokenPaths, KeyTokens
<1>11. h[Len(all)] = PathsUpTo(t, m)
  <2> DEFINE A == PathsUpTo(t, m - 1)
             E == ElementPaths(Group(token))
             K == KeyPaths(t, m)
  <2>1. E \subseteq Text /\ K \subseteq Text /\ Short(E) = Short(K)
      BY <1>1, GroupPaths
  <2>2. A \subseteq Text
      BY <1>1, PathsUpToText
  <2>3. PathsUpTo(t, m) = Cat(A, K)
      BY <1>1, PathsUpToNext DEF With
  <2>4. h[Len(all)] = Cat(A, E)
      BY <1>2, <1>5, <1>7, <1>8, <1>9, <1>10
  <2> HIDE DEF A, E, K
  <2>5. Cat(A, E) = Cat(A, K)
      BY <2>1, <2>2, CatShort
  <2> QED
      BY <2>3, <2>4, <2>5
<1>12. Reaches(h[Len(all)], <<>>, t, m)
  <2> DEFINE A == h[Len(all)]
  <2>1. A \subseteq Text /\ Short(A) = A
      BY <1>8, <1>9 DEF Spans
  <2>2. A = PathsUpTo(t, m)
      BY <1>11
  <2> HIDE DEF A
  <2>3. Cat(A, {<<>>}) = PathsUpTo(t, m)
      BY <2>1, <2>2, CatEmpty
  <2>4. <<>> \in Seq(Letter)
      OBVIOUS
  <2>5. Reaches(A, <<>>, t, m)
      BY <2>3, <2>4 DEF Reaches
  <2> QED
      BY <2>5 DEF A
<1>13. t[m].kind # "plain"
    BY DEF IsKey
<1>14. Parsed(all, <<>>, t, m)
    BY <1>1, <1>8, <1>9, <1>10, <1>12, <1>13 DEF Parsed
<1> QED
    BY <1>6a, <1>9, <1>14 DEF longer, text, l, all

\* The tokens of a template stand for the pieces it consists of, and the last token
\* is of the kind of the last piece.
CutInto(f, list, t) ==
    /\ Spans(f, list)
    /\ f[Len(list)] = PathsUpTo(t, Len(t))
    /\ list = <<>> <=> t = <<>>
    /\ list # <<>> =>
           IF list[Len(list)].is_string
             THEN Ends(list[Len(list)].name, f[Len(list) - 1], t, Len(t))
             ELSE IsKey(t[Len(t)])

\* No match is left.
LEMMA RestParsed ==
    ASSUME NEW t \in Seq(Pieces), NEW i \in 0 .. Len(t),
           \A j \in i + 1 .. Len(t) : t[j].kind = "plain",
           NEW list \in Seq(Tokens), NEW u \in Seq(Letter), Parsed(list, u, t, i)
    PROVE  LET all == Push(list, u \o Run(t, i, Len(t)))
           IN  all \in Seq(Tokens) /\ \E f : CutInto(f, all, t)
<1> DEFINE l == Len(t)
           text == u \o Run(t, i, l)
           all == Push(list, text)
<1>1. l \in Nat /\ l \in i .. Len(t) /\ i \in 0 .. l /\ Len(list) \in Nat /\ Len(list) \in 0 .. Len(list)
      /\ i \in i .. Len(t)
    OBVIOUS
<1>2. Stands(t, i, l) /\ Stands(t, i, i)
  <2>1. ~ Attached(t, l)
      BY <1>1 DEF Attached
  <2>2. Stands(t, i, l)
      BY <1>1, <2>1, PlainStand
  <2> QED
      BY <1>1, <2>2 DEF Stands
<1>3. PICK f : /\ Spans(f, list) /\ Reaches(f[Len(list)], u, t, i)
               /\ u # <<>> => Ends(u, f[Len(list)], t, i)
    BY DEF Parsed
<1> DEFINE A == f[Len(list)]
<1>4. A \subseteq Text /\ Short(A) = A
    BY <1>1, <1>3 DEF Spans
<1>5. Reaches(A, text, t, l) /\ (l > i => text # <<>> /\ Ends(text, A, t, l))
  <2>1. Reaches(A, u, t, i)
      BY <1>3
  <2> HIDE DEF A, l
  <2> QED
      BY <1>1, <1>2, <1>4, <2>1, TextGoesOn
<1>6. l = i => text = u
  <2>1. Run(t, i, i) = <<>> /\ u \o <<>> = u
      BY <1>1, <1>2, RunNext
  <2> HIDE DEF l
  <2> QED
      BY <2>1
<1> HIDE DEF text
<1>7. text # <<>> => Ends(text, A, t, l)
    BY <1>1, <1>3, <1>5, <1>6
<1>8. text = <<>> => u = <<>> /\ i = l
    BY <1>1, <1>5, <1>6
<1>9. SpansPushed(f, list, text)
    BY <1>3, <1>5, SpansPush DEF Reaches
<1>10. all \in Seq(Tokens)
    BY <1>9 DEF SpansPushed
<1>11. Cat(A, {text}) = PathsUpTo(t, l)
    BY <1>5 DEF Reaches
<1>12. CASE text # <<>>
  <2>1. PICK g : /\ Spans(g, all) /\ g[Len(all)] = Cat(A, {text})
                 /\ Len(all) = Len(list) + 1 /\ all[Len(list) + 1] = StringToken(text)
                 /\ g[Len(list)] = A
      BY <1>9, <1>12 DEF SpansPushed
  <2>2. all # <<>> /\ Len(all) - 1 = Len(list)
      BY <1>1, <1>10, <2>1
  <2>3. t # <<>>
    <3>1. CASE i = 0
      <4>1. u = <<>>
          BY <3>1 DEF Parsed
      <4> QED
          BY <1>6, <1>12, <3>1, <4>1
    <3>2. CASE i # 0
        BY <1>1, <3>2
    <3> QED
        BY <3>1, <3>2
  <2>4. all[Len(all)].is_string /\ all[Len(all)].name = text
      BY <2>1 DEF StringToken
  <2>5. Ends(all[Len(all)].name, g[Len(all) - 1], t, l)
      BY <1>7, <1>12, <2>1, <2>2, <2>4
  <2> HIDE DEF all, A
  <2>6. CutInto(g, all, t)
      BY <1>11, <2>1, <2>2, <2>3, <2>4, <2>5 DEF CutInto
  <2> QED
      BY <1>10, <2>6 DEF all, text
<1>13. CASE text = <<>>
  <2>1. all = list /\ u = <<>> /\ i = l
      BY <1>8, <1>13 DEF Push
  <2>2. A = PathsUpTo(t, l)
      BY <1>4, <1>11, <1>13, CatEmpty
  <2>3. list = <<>> <=> t = <<>>
    <3>1. i = 0 <=> list = <<>>
        BY <2>1 DEF Parsed
    <3>2. t = <<>> <=> l = 0
        OBVIOUS
    <3> QED
        BY <2>1, <3>1, <3>2
  <2>4. list # <<>> => ~ list[Len(list)].is_string /\ IsKey(t[Len(t)])
      BY <2>1 DEF Parsed
  <2>5. CutInto(f, list, t)
      BY <1>3, <2>2, <2>3, <2>4 DEF CutInto
  <2> HIDE DEF all
  <2> QED
      BY <1>10, <2>1, <2>5 DEF all, text
<1> QED
    BY <1>12, <1>13

-----------------------------------------------------------------------------
(* tokens_to_regex(): the regex stands for the tokens it is made from. *)

Translated(f, list, n, r) ==
    /\ RegexPaths(r) = f[n]
    /\ n = 0 => r = <<>>
    /\ n > 0 /\ list[n].is_string =>
           \E w \in Seq(Letter), c \in Letter :
               /\ list[n].name = Append(w, c)
               /\ Len(r) > 0
               /\ RegexPaths(SubSeq(r, 1, Len(r) - 1)) = Cat(f[n - 1], {w})

\* The translation of one more token.
LEMMA OneTranslated ==
    ASSUME NEW list \in Seq(Tokens), NEW f, Spans(f, list), NEW n \in 0 .. Len(list) - 1,
           NEW r \in Seq(Elements), Translated(f, list, n, r)
    PROVE  /\ r \o Translation(list[n + 1]) \in Seq(Elements)
           /\ Translated(f, list, n + 1, r \o Translation(list[n + 1]))
<1> DEFINE token == list[n + 1]
           s == r \o Translation(token)
<1>1. n + 1 \in 1 .. Len(list) /\ (n + 1) - 1 = n /\ token \in Tokens /\ n + 1 # 0 /\ n \in 0 .. Len(list)
    OBVIOUS
<1>2. f[n + 1] = Cat(f[n], TokenPaths(token)) /\ RegexPaths(r) = f[n]
    BY <1>1 DEF Spans, Translated
<1> HIDE DEF token
<1>3. CASE token.is_string
  <2>1. token \in StringTokens
      BY <1>1, <1>3, TokenText
  <2> DEFINE u == token.name
  <2>2. u \in Seq(Letter) /\ u # <<>>
      BY <2>1 DEF StringTokens
  <2>3. TokenPaths(token) = {u} /\ Translation(token) = Chars(u)
      BY <1>3 DEF TokenPaths, Translation, Chars
  <2> HIDE DEF u
  <2> DEFINE w == SubSeq(u, 1, Len(u) - 1)
             c == u[Len(u)]
  <2>4. w \in Seq(Letter) /\ c \in Letter /\ u = Append(w, c)
      BY <2>2, LastOf
  <2> HIDE DEF w, c
  <2>5. s = Append(r \o Chars(w), Verbatim(c)) /\ r \o Chars(w) \in Seq(Elements)
        /\ RegexPaths(r \o Chars(w)) = Cat(f[n], {w})
    <3>1. r \o Chars(Append(w, c)) = Append(r \o Chars(w), Verbatim(c))
        BY <2>4, CharsAppend
    <3>2. r \o Chars(w) \in Seq(Elements) /\ RegexPaths(r \o Chars(w)) = Cat(RegexPaths(r), {w})
        BY <2>4, CharsPaths
    <3> QED
        BY <1>2, <2>3, <2>4, <3>1, <3>2
  <2>6. r \o Chars(u) \in Seq(Elements) /\ RegexPaths(r \o Chars(u)) = Cat(RegexPaths(r), {u})
      BY <2>2, CharsPaths
  <2>7. s \in Seq(Elements) /\ RegexPaths(s) = f[n + 1]
      BY <1>2, <2>3, <2>6
  <2>8. Len(s) > 0 /\ SubSeq(s, 1, Len(s) - 1) = r \o Chars(w)
    <3> DEFINE front == r \o Chars(w)
    <3>1. front \in Seq(Elements) /\ Verbatim(c) \in Elements /\ s = Append(front, Verbatim(c))
        BY <2>4, <2>5 DEF Elements
    <3> HIDE DEF front
    <3>2. Len(s) = Len(front) + 1 /\ SubSeq(Append(front, Verbatim(c)), 1, Len(front)) = front
        BY <3>1
    <3> QED
        BY <3>1, <3>2 DEF front
  <2> HIDE DEF s
  <2>9. Translated(f, list, n + 1, s)
      BY <1>1, <2>4, <2>5, <2>7, <2>8 DEF Translated, u, token
  <2> QED
      BY <2>7, <2>9 DEF s, token
<1>4. CASE ~ token.is_string
  <2>1. token \in KeyTokens
      BY <1>1, <1>4, TokenText
  <2>2. Group(token) \in Elements /\ Translation(token) = <<Group(token)>>
      BY <1>4, <2>1 DEF Elements, Translation
  <2>3. s = Append(r, Group(token)) /\ s \in Seq(Elements)
      BY <2>2
  <2>4. RegexPaths(s) = f[n + 1]
      BY <1>2, <1>4, <2>2, <2>3, RegexPathsAppend DEF TokenPaths
  <2> HIDE DEF s
  <2>5. Translated(f, list, n + 1, s)
      BY <1>1, <1>4, <2>4 DEF Translated, token
  <2> QED
      BY <2>3, <2>5 DEF s, token
<1> QED
    BY <1>3, <1>4

SlashLast(list) ==
    LET last == list[Len(list)]
    IN  last.is_string /\ last.name[Len(last.name)] = "/"

\* The regex with the optional slash at its end.
Finished(list, r) ==
    IF list = <<>> THEN r
    ELSE IF SlashLast(list) THEN Append(SubSeq(r, 1, Len(r) - 1), SlashAtEnd)
    ELSE Append(r, SlashAtEnd)

\* An optional slash behind a regex.
LEMMA SlashAppended ==
    ASSUME NEW r \in Seq(Elements), NEW A, RegexPaths(r) = A
    PROVE  /\ Append(r, SlashAtEnd) \in Seq(Elements)
           /\ RegexPaths(Append(r, SlashAtEnd)) = A \cup Cat(A, {<<"/">>})
<1>1. SlashAtEnd \in Elements
    BY DEF Elements
<1>2. A \subseteq Text /\ Short(A) = A
    BY RegexPathsText
<1> DEFINE none == {<<>>}
           slash == {<<"/">>}
           either == {<<>>, <<"/">>}
<1>3. RegexPaths(Append(r, SlashAtEnd)) = Cat(A, either)
    BY <1>1, RegexPathsAppend, SlashPaths
<1>4. Cat(A, none) = A
    BY <1>2, CatEmpty
<1>5. either = none \cup slash
    OBVIOUS
<1>6. Append(r, SlashAtEnd) \in Seq(Elements)
    BY <1>1
<1> HIDE DEF none, slash, either
<1>7. RegexPaths(Append(r, SlashAtEnd)) = A \cup Cat(A, slash)
    BY <1>3, <1>4, <1>5, CatUnion
<1> QED
    BY <1>6, <1>7 DEF slash

\* The complete regex stands for the template.
LEMMA FinishedDenotes ==
    ASSUME NEW t \in Seq(Pieces), NEW list \in Seq(Tokens), NEW f, CutInto(f, list, t),
           NEW r \in Seq(Elements), Translated(f, list, Len(list), r)
    PROVE  Finished(list, r) \in Seq(Elements) /\ RegexPaths(Finished(list, r)) = Denotes(t)
<1> DEFINE n == Len(list)
           last == list[n]
           slashed == ~ IsKey(t[Len(t)]) /\ t[Len(t)].char = "/"
<1>1. RegexPaths(r) = f[n] /\ f[n] = PathsUpTo(t, Len(t)) /\ (list = <<>> <=> t = <<>>)
    BY DEF CutInto, Translated
<1>2. CASE list = <<>>
  <2>1. t = <<>> /\ n = 0 /\ r = <<>> /\ f[0] = {<<>>}
      BY <1>1, <1>2 DEF Translated, CutInto, Spans
  <2>2. Finished(list, r) = r /\ RegexPaths(r) = {<<>>} /\ Denotes(t) = {<<>>}
      BY <1>1, <1>2, <2>1 DEF Finished, Denotes
  <2> QED
      BY <2>2
<1>3. CASE list # <<>>
  <2>1. t # <<>> /\ n \in Nat /\ n > 0 /\ last \in Tokens
      BY <1>1, <1>3
  <2>2. Denotes(t) = LET body == PathsUpTo(t, IF slashed THEN Len(t) - 1 ELSE Len(t))
                     IN  body \cup Cat(body, {<<"/">>})
      BY <2>1 DEF Denotes
  <2>3. CASE last.is_string
    <3>1. last \in StringTokens
        BY <2>1, <2>3, TokenText
    <3>2. PICK w \in Seq(Letter) : /\ last.name = Append(w, t[Len(t)].char)
                                   /\ Cat(f[n - 1], {w}) = PathsUpTo(t, Len(t) - 1)
        BY <1>3, <2>3 DEF CutInto, Ends
    <3>3. ~ IsKey(t[Len(t)])
        BY <1>3, <2>3 DEF CutInto, Ends
    <3>4. t[Len(t)].char \in Letter
      <4>1. Len(t) \in 1 .. Len(t)
          BY <2>1
      <4> QED
          BY <3>3, <4>1, PieceKinds
    <3>5. PICK v \in Seq(Letter), c \in Letter :
              /\ last.name = Append(v, c)
              /\ Len(r) > 0
              /\ RegexPaths(SubSeq(r, 1, Len(r) - 1)) = Cat(f[n - 1], {v})
        BY <2>1, <2>3 DEF Translated
    <3> DEFINE d == t[Len(t)].char
    <3>6. v = w /\ c = d /\ last.name[Len(last.name)] = d
      <4>1. Append(v, c) = Append(w, d) /\ d \in Letter
          BY <3>2, <3>4, <3>5
      <4> HIDE DEF d
      <4>2. Len(v) = Len(w) /\ c = d
        <5>1. Len(Append(v, c)) = Len(v) + 1 /\ Len(Append(w, d)) = Len(w) + 1
              /\ Append(v, c)[Len(v) + 1] = c /\ Append(w, d)[Len(w) + 1] = d
            BY <4>1
        <5>2. Len(v) \in Nat /\ Len(w) \in Nat
            OBVIOUS
        <5> QED
            BY <4>1, <5>1, <5>2
      <4>3. \A k \in 1 .. Len(v) : v[k] = w[k]
        <5>1. ASSUME NEW k \in 1 .. Len(v) PROVE v[k] = w[k]
          <6>1. Append(v, c)[k] = v[k] /\ Append(w, d)[k] = w[k]
              BY <4>1, <4>2, AppendIs
          <6> QED
              BY <4>1, <6>1
        <5> QED
            BY <5>1
      <4>4. v = w
          BY <4>2, <4>3, SameSequences
      <4>5. last.name[Len(last.name)] = c
          BY <3>5, AppendIs
      <4> QED
          BY <4>2, <4>4, <4>5
    <3>7. SlashLast(list) <=> slashed
        BY <2>3, <3>3, <3>6 DEF SlashLast
    <3>8. CASE slashed
      <4> DEFINE front == SubSeq(r, 1, Len(r) - 1)
      <4>1. front \in Seq(Elements)
          BY <3>5
      <4>2. RegexPaths(front) = PathsUpTo(t, Len(t) - 1)
          BY <3>2, <3>5, <3>6
      <4>3. Finished(list, r) = Append(front, SlashAtEnd)
          BY <1>3, <3>7, <3>8 DEF Finished
      <4>4. Denotes(t) = LET body == PathsUpTo(t, Len(t) - 1) IN body \cup Cat(body, {<<"/">>})
          BY <2>2, <3>8
      <4> HIDE DEF front, slashed
      <4> QED
          BY <4>1, <4>2, <4>3, <4>4, SlashAppended
    <3>9. CASE ~ slashed
      <4>1. Finished(list, r) = Append(r, SlashAtEnd)
          BY <1>3, <3>7, <3>9 DEF Finished
      <4>2. Denotes(t) = LET body == PathsUpTo(t, Len(t)) IN body \cup Cat(body, {<<"/">>})
          BY <2>2, <3>9
      <4> HIDE DEF slashed
      <4> QED
          BY <1>1, <4>1, <4>2, SlashAppended
    <3> QED
        BY <3>8, <3>9
  <2>4. CASE ~ last.is_string
    <3>1. ~ slashed /\ ~ SlashLast(list)
        BY <1>3, <2>4 DEF CutInto, SlashLast
    <3>2. Finished(list, r) = Append(r, SlashAtEnd)
        BY <1>3, <3>1 DEF Finished
    <3>3. Denotes(t) = LET body == PathsUpTo(t, Len(t)) IN body \cup Cat(body, {<<"/">>})
        BY <2>2, <3>1
    <3> HIDE DEF slashed
    <3> QED
        BY <1>1, <3>2, <3>3, SlashAppended
  <2> QED
      BY <2>3, <2>4
<1> QED
    BY <1>2, <1>3

-----------------------------------------------------------------------------
(* The steps of path_to_regex. *)

ParsedTypes ==
    /\ template \in Seq(Pieces) /\ index \in 0 .. Len(template)
    /\ path \in Seq(Letter) /\ key \in Nat
    /\ tokens \in Seq(Tokens)
    /\ translated \in 0 .. Len(tokens)
    /\ route \in Seq(Elements)

\* What has been parsed stands for what is behind the last match; what has been
\* translated stands for the tokens it comes from.
MeaningInv ==
    /\ ParsedTypes
    /\ pc = "parse" => Parsed(tokens, path, template, index) /\ translated = 0 /\ route = <<>>
    /\ pc = "tokens_to_keys" => translated = 0 /\ route = <<>> /\ \E f : CutInto(f, tokens, template)
    /\ pc = "tokens_to_regex" =>
           \E f : CutInto(f, tokens, template) /\ Translated(f, tokens, translated, route)
    /\ RegexMeansTemplate

\* The next match is behind the last one, with plain characters between them.
LEMMA MatchIs ==
    ASSUME template \in Seq(Pieces), index \in 0 .. Len(template), Ahead # {}
    PROVE  /\ Match \in index + 1 .. Len(template)
           /\ template[Match].kind # "plain"
           /\ \A j \in index + 1 .. Match - 1 : template[j].kind = "plain"
<1>1. Ahead \subseteq Nat
    BY DEF Ahead
<1>2. \E j \in Ahead : \A k \in Ahead : j <= k
    BY <1>1, LeastElement
<1>3. Match \in Ahead /\ \A k \in Ahead : Match <= k
    BY <1>2 DEF Match
<1>4. Match \in index + 1 .. Len(template) /\ template[Match].kind # "plain"
    BY <1>3 DEF Ahead
<1>5. ASSUME NEW j \in index + 1 .. Match - 1 PROVE template[j].kind = "plain"
  <2>1. j \in index + 1 .. Len(template) /\ ~ (Match <= j)
      BY <1>4
  <2> QED
      BY <1>3, <2>1 DEF Ahead
<1> QED
    BY <1>4, <1>5

LEMMA SkippedIsRun ==
    \A last : Skipped(last) = Run(template, index, last)
BY DEF Skipped, Run

\* The token of the match of a key.
LEMMA KeyTokenIs ==
    ASSUME ParsedTypes, Ahead # {}, IsKey(template[Match]), index # 0 => template[index].kind # "plain",
           NEW next, next = IF Match < Len(template) THEN <<FirstChar(template[Match + 1])>> ELSE <<>>
    PROVE  /\ Prefix = PrefixOf(template, index, Match)
           /\ IsTokenOf(KeyToken(template[Match], Prefix, next), template, Match)
<1> DEFINE piece == template[Match]
           token == KeyToken(piece, Prefix, next)
<1>1. /\ Match \in index + 1 .. Len(template) /\ Match \in 1 .. Len(template)
      /\ \A j \in index + 1 .. Match - 1 : template[j].kind = "plain"
  <2>1. Match \in index + 1 .. Len(template)
      BY MatchIs DEF ParsedTypes
  <2> QED
      BY <2>1, MatchIs DEF ParsedTypes
<1>2. Prefix = PrefixOf(template, index, Match)
    BY DEF Prefix, PrefixOf
<1>3. Prefix = Separator(template, Match)
    BY <1>1, <1>2, KeyPrefix DEF ParsedTypes
<1>4. Prefix \in Separators /\ piece \in KeyPieces
    BY <1>1, <1>3, SeparatorIs, PieceKinds DEF ParsedTypes
<1>5. next # <<>> <=> Match < Len(template)
    OBVIOUS
<1>6. Partial(Prefix, next) <=> SeparatorStays(template, Match)
    BY <1>3, <1>5 DEF Partial, SeparatorStays
<1>7. Partial(Prefix, next) \in BOOLEAN
    BY DEF Partial
<1>8. /\ (IF Named(piece) THEN piece.name ELSE ToString(key)) \in Names
      /\ piece.pattern \in Patterns
      /\ (IF Prefix # <<>> THEN Prefix ELSE <<"/">>) = <<"/">>
    BY <1>4 DEF Names, KeyPieces, Separators, ParsedTypes
<1>9. token \in KeyTokens
    BY <1>4, <1>7, <1>8 DEF KeyToken, KeyTokens
<1>10. /\ token.prefix = Separator(template, Match) /\ token.pattern = piece.pattern
       /\ token.partial = Partial(Prefix, next)
       /\ token.optional = (piece.modifier \in {"?", "*"})
       /\ token.repeat = (piece.modifier \in {"+", "*"})
    BY <1>3 DEF KeyToken
<1> HIDE DEF token
<1>11. token.partial <=> SeparatorStays(template, Match)
    BY <1>6, <1>10
<1>12. IsTokenOf(token, template, Match)
    BY <1>9, <1>10, <1>11 DEF IsTokenOf
<1> QED
    BY <1>2, <1>12 DEF token

LEMMA ParseKeepsMeaning ==
    ASSUME MeaningInv, Parse
    PROVE  MeaningInv'
<1>1. ParsedTypes /\ pc = "parse" /\ Parsed(tokens, path, template, index) /\ translated = 0 /\ route = <<>>
    BY DEF MeaningInv, Parse, ParseEscaped, ParseKey, ParseRest
<1>2. template \in Seq(Pieces) /\ index \in 0 .. Len(template) /\ tokens \in Seq(Tokens) /\ path \in Seq(Letter)
    BY <1>1 DEF ParsedTypes
<1>3. index # 0 => template[index].kind # "plain"
    BY <1>1 DEF Parsed
<1>4. ASSUME Ahead # {}
      PROVE  /\ Match \in index + 1 .. Len(template) /\ Match \in 0 .. Len(template)
             /\ \A j \in index + 1 .. Match - 1 : template[j].kind = "plain"
    BY <1>2, <1>4, MatchIs
<1>5. CASE ParseEscaped
  <2> DEFINE run == Run(template, index, Match - 1)
             char == template[Match].char
  <2>1. path' = path \o run \o <<char>> /\ index' = Match /\ Ahead # {} /\ template[Match].kind = "escaped"
        /\ UNCHANGED <<template, key, tokens, translated, route, pc>>
      BY <1>5, SkippedIsRun DEF ParseEscaped
  <2>2. path \o run \o <<char>> \in Seq(Letter) /\ Parsed(tokens, path \o run \o <<char>>, template, Match)
      BY <1>1, <1>2, <1>4, <2>1, EscapedParsed
  <2>3. ParsedTypes'
      BY <1>1, <1>4, <2>1, <2>2 DEF ParsedTypes
  <2>4. Parsed(tokens, path, template, index)'
      BY <2>1, <2>2 DEF Parsed, Spans, Reaches, Ends
  <2> QED
      BY <1>1, <2>1, <2>3, <2>4 DEF MeaningInv, RegexMeansTemplate
<1>6. CASE ParseKey
  <2> DEFINE next == IF Match < Len(template) THEN <<FirstChar(template[Match + 1])>> ELSE <<>>
             text == path \o Run(template, index, Match - 1 - Len(Prefix))
             token == KeyToken(template[Match], Prefix, next)
             longer == Push(tokens, text)
  <2>1. /\ tokens' = Append(longer, token) /\ path' = <<>> /\ index' = Match /\ Ahead # {}
        /\ key' = (IF Named(template[Match]) THEN key ELSE key + 1)
        /\ UNCHANGED <<template, translated, route, pc>> /\ IsKey(template[Match])
      BY <1>6, SkippedIsRun DEF ParseKey, Pushed, Push
  <2>2. Prefix = PrefixOf(template, index, Match) /\ IsTokenOf(token, template, Match)
      BY <1>1, <1>3, <2>1, KeyTokenIs
  <2> HIDE DEF token, next
  <2>3. Append(longer, token) \in Seq(Tokens) /\ Parsed(Append(longer, token), <<>>, template, Match)
      BY <1>1, <1>2, <1>4, <2>1, <2>2, KeyParsed
  <2> HIDE DEF longer
  <2>4. ParsedTypes'
    <3>1. key' \in Nat
        BY <1>1, <2>1 DEF ParsedTypes
    <3>2. translated' \in 0 .. Len(tokens')
        BY <1>1, <2>1, <2>3
    <3>3. path' \in Seq(Letter)
        BY <2>1
    <3> QED
        BY <1>1, <1>4, <2>1, <2>3, <3>1, <3>2, <3>3 DEF ParsedTypes
  <2>5. Parsed(tokens, path, template, index)'
      BY <2>1, <2>3 DEF Parsed, Spans, Reaches, Ends
  <2> QED
      BY <1>1, <2>1, <2>4, <2>5 DEF MeaningInv, RegexMeansTemplate
<1>7. CASE ParseRest
  <2> DEFINE all == Push(tokens, path \o Run(template, index, Len(template)))
  <2>1. tokens' = all /\ pc' = "tokens_to_keys" /\ Ahead = {}
        /\ UNCHANGED <<template, index, path, key, translated, route>>
      BY <1>7, SkippedIsRun DEF ParseRest, Pushed, Push
  <2>2. \A j \in index + 1 .. Len(template) : template[j].kind = "plain"
      BY <2>1 DEF Ahead
  <2>3. all \in Seq(Tokens) /\ \E f : CutInto(f, all, template)
      BY <1>1, <1>2, <2>2, RestParsed
  <2> HIDE DEF all
  <2>4. ParsedTypes'
    <3>1. translated' \in 0 .. Len(tokens')
        BY <1>1, <2>1, <2>3
    <3> QED
        BY <1>1, <2>1, <2>3, <3>1 DEF ParsedTypes
  <2>5. (\E f : CutInto(f, tokens, template))'
      BY <2>1, <2>3 DEF CutInto, Spans, Ends
  <2> QED
      BY <1>1, <2>1, <2>4, <2>5 DEF MeaningInv, RegexMeansTemplate
<1> QED
    BY <1>5, <1>6, <1>7 DEF Parse

LEMMA KeysKeepMeaning ==
    ASSUME MeaningInv, tokens_to_keys
    PROVE  MeaningInv'
<1>1. /\ ParsedTypes /\ translated = 0 /\ route = <<>> /\ pc' = "tokens_to_regex"
      /\ UNCHANGED <<template, index, path, key, tokens, translated, route>>
    BY DEF MeaningInv, tokens_to_keys
<1>2. PICK f : CutInto(f, tokens, template)
    BY DEF MeaningInv, tokens_to_keys
<1>3. Translated(f, tokens, translated, route)
  <2>1. f[0] = {<<>>}
      BY <1>2 DEF CutInto, Spans
  <2> QED
      BY <1>1, <2>1, RegexPathsEmpty DEF Translated
<1>4. ParsedTypes'
    BY <1>1 DEF ParsedTypes
<1>5. (\E g : CutInto(g, tokens, template) /\ Translated(g, tokens, translated, route))'
    BY <1>1, <1>2, <1>3
<1> QED
    BY <1>1, <1>4, <1>5 DEF MeaningInv, RegexMeansTemplate

LEMMA RegexKeepsMeaning ==
    ASSUME MeaningInv, tokens_to_regex
    PROVE  MeaningInv'
<1>1. ParsedTypes /\ pc = "tokens_to_regex"
    BY DEF MeaningInv, tokens_to_regex, TranslateToken, Finish
<1>2. template \in Seq(Pieces) /\ tokens \in Seq(Tokens) /\ route \in Seq(Elements)
      /\ translated \in 0 .. Len(tokens) /\ Len(tokens) \in Nat
    BY <1>1 DEF ParsedTypes
<1>3. PICK f : CutInto(f, tokens, template) /\ Translated(f, tokens, translated, route)
    BY <1>1 DEF MeaningInv
<1>4. CASE TranslateToken
  <2> DEFINE longer == route \o Translation(tokens[translated + 1])
  <2>1. /\ translated < Len(tokens) /\ route' = longer /\ translated' = translated + 1
        /\ UNCHANGED <<template, index, path, key, tokens, pc>>
      BY <1>4 DEF TranslateToken
  <2>2. longer \in Seq(Elements) /\ Translated(f, tokens, translated + 1, longer)
    <3>1. translated \in 0 .. Len(tokens) - 1
        BY <1>2, <2>1
    <3> QED
        BY <1>2, <1>3, <3>1, OneTranslated DEF CutInto
  <2> HIDE DEF longer
  <2>3. ParsedTypes'
    <3>1. translated' \in 0 .. Len(tokens')
        BY <1>2, <2>1
    <3> QED
        BY <1>1, <2>1, <2>2, <3>1 DEF ParsedTypes
  <2>4. (\E g : CutInto(g, tokens, template) /\ Translated(g, tokens, translated, route))'
    <3>1. CutInto(f, tokens', template') /\ Translated(f, tokens', translated', route')
        BY <1>3, <2>1, <2>2
    <3> QED
        BY <3>1
  <2> QED
      BY <1>1, <2>1, <2>3, <2>4 DEF MeaningInv, RegexMeansTemplate
<1>5. CASE Finish
  <2>1. /\ translated = Len(tokens) /\ route' = Finished(tokens, route) /\ pc' = "done"
        /\ UNCHANGED <<template, index, path, key, tokens, translated>>
      BY <1>5 DEF Finish, Finished, EndsWithSlash, SlashLast
  <2>2. route' \in Seq(Elements) /\ RegexPaths(route') = Denotes(template)
      BY <1>2, <1>3, <2>1, FinishedDenotes
  <2>3. ParsedTypes'
      BY <1>1, <2>1, <2>2 DEF ParsedTypes
  <2>4. RegexMeansTemplate'
      BY <2>1, <2>2 DEF RegexMeansTemplate
  <2> QED
      BY <2>1, <2>3, <2>4 DEF MeaningInv
<1> QED
    BY <1>4, <1>5 DEF tokens_to_regex

\* Templates whose characters mean themselves in a regex.
TemplatesOfPieces == Templates \subseteq Seq(Pieces)

LEMMA StartOfMeaning ==
    ASSUME template \in Seq(Pieces), index = 0, path = <<>>, key = 0, tokens = <<>>,
           translated = 0, route = <<>>, pc = "parse"
    PROVE  MeaningInv
<1>1. ParsedTypes
    BY DEF ParsedTypes
<1>2. PICK f : Spans(f, <<>>)
    BY SpansNothing
<1>3. Reaches(f[Len(tokens)], path, template, 0)
  <2>1. f[0] = {<<>>} /\ Len(<<>>) = 0
      BY <1>2 DEF Spans
  <2>2. Cat({<<>>}, {<<>>}) = {<<>>}
    <3>1. {<<>>} \subseteq Text /\ Short({<<>>}) = {<<>>}
        BY SeparatorText, PathAssumption DEF Separators, Short
    <3> QED
        BY <3>1, CatEmpty
  <2>3. <<>> \in Seq(Letter)
      OBVIOUS
  <2> QED
      BY <2>1, <2>2, <2>3, PathsUpToNone DEF Reaches
<1>4. Parsed(tokens, path, template, index)
    BY <1>2, <1>3 DEF Parsed
<1> QED
    BY <1>1, <1>4 DEF MeaningInv, RegexMeansTemplate

\* However long a template is, if its characters and its separators mean nothing in
\* a regex, the regex that path_to_regex makes of it matches exactly the paths the
\* template stands for (path_to_regex.cpp:38-183).
THEOREM RegexMeansWhatTemplateSays ==
    ASSUME TemplatesOfPieces
    PROVE  Spec => []RegexMeansTemplate
<1>1. Init => MeaningInv
    BY StartOfMeaning DEF Init, TemplatesOfPieces
<1>2. MeaningInv /\ [Next]_vars => MeaningInv'
  <2> SUFFICES ASSUME MeaningInv, [Next]_vars PROVE MeaningInv'
      OBVIOUS
  <2>1. CASE Parse
      BY <2>1, ParseKeepsMeaning
  <2>2. CASE tokens_to_keys
      BY <2>2, KeysKeepMeaning
  <2>3. CASE tokens_to_regex
      BY <2>3, RegexKeepsMeaning
  <2>4. CASE UNCHANGED vars
      BY <2>4 DEF vars, MeaningInv, ParsedTypes, RegexMeansTemplate
  <2> QED
      BY <2>1, <2>2, <2>3, <2>4 DEF Next, Done
<1>3. MeaningInv => RegexMeansTemplate
    BY DEF MeaningInv
<1> QED
    BY <1>1, <1>2, <1>3, PTL DEF Spec

-----------------------------------------------------------------------------
(* Counting: the elements of a set of numbers, in their order. *)

UpToElement(S, i) == {j \in S : j <= i}

\* The n-th element of a set of numbers has n elements up to it, for every n.
LEMMA Ranks ==
    ASSUME NEW N \in Nat, NEW S, S \subseteq 1 .. N
    PROVE  /\ IsFiniteSet(S) /\ Cardinality(S) \in Nat
           /\ \A i \in S : Cardinality(UpToElement(S, i)) \in 1 .. Cardinality(S)
           /\ \A n \in 1 .. Cardinality(S) : \E i \in S : Cardinality(UpToElement(S, i)) = n
<1> DEFINE U(m) == UpToElement(S, m)
           Good == {m \in 0 .. N :
                       /\ IsFiniteSet(U(m)) /\ Cardinality(U(m)) \in Nat
                       /\ \A i \in U(m) : Cardinality(U(i)) \in 1 .. Cardinality(U(m))
                       /\ \A n \in 1 .. Cardinality(U(m)) : \E i \in U(m) : Cardinality(U(i)) = n}
<1>0. (\A j \in S : j \in Int /\ j >= 1 /\ j <= N) 
      /\ \A m \in 0 .. N : U(m) \subseteq S /\ \A j \in S : j \in U(m) <=> j <= m
    BY DEF UpToElement
<1>1. 0 \in Good
  <2>1. U(0) = {}
    <3>1. 0 \in 0 .. N
        OBVIOUS
    <3>2. \A j \in S : ~ (j <= 0)
        BY <1>0
    <3> HIDE DEF U, Good
    <3> QED
        BY <1>0, <3>1, <3>2
  <2>2. IsFiniteSet(U(0)) /\ Cardinality(U(0)) = 0
      BY <2>1, FS_EmptySet
  <2> HIDE DEF U
  <2> QED
      BY <2>1, <2>2
<1>2. ASSUME NEW m \in 0 .. N - 1, m \in Good PROVE m + 1 \in Good
  <2>1. CASE m + 1 \in S
    <3>1. U(m + 1) = U(m) \cup {m + 1} /\ m + 1 \notin U(m) /\ m + 1 \in U(m + 1)
      <4>1. m \in 0 .. N /\ m + 1 \in 0 .. N
          OBVIOUS
      <4>2. \A j \in S : (j <= m + 1 <=> j <= m \/ j = m + 1) /\ ~ (m + 1 <= m)
          BY <1>0
      <4>3. ~ (m + 1 <= m) /\ m + 1 <= m + 1
          OBVIOUS
      <4> HIDE DEF U, Good
      <4> QED
          BY <1>0, <2>1, <4>1, <4>2, <4>3
    <3> HIDE DEF U
    <3>2. IsFiniteSet(U(m + 1)) /\ Cardinality(U(m + 1)) = Cardinality(U(m)) + 1
        BY <1>2, <3>1, FS_AddElement
    <3>3. ASSUME NEW i \in U(m + 1) PROVE Cardinality(U(i)) \in 1 .. Cardinality(U(m + 1))
      <4>1. CASE i = m + 1
          BY <1>2, <3>2, <4>1
      <4>2. CASE i \in U(m)
          BY <1>2, <3>2, <4>2
      <4> QED
          BY <3>1, <4>1, <4>2
    <3>4. ASSUME NEW n \in 1 .. Cardinality(U(m + 1))
          PROVE  \E i \in U(m + 1) : Cardinality(U(i)) = n
      <4>1. CASE n = Cardinality(U(m + 1))
          BY <3>1, <4>1
      <4>2. CASE n # Cardinality(U(m + 1))
        <5>1. n \in 1 .. Cardinality(U(m))
            BY <1>2, <3>2, <4>2
        <5> QED
            BY <1>2, <3>1, <5>1
      <4> QED
          BY <4>1, <4>2
    <3>5. Cardinality(U(m + 1)) \in Nat /\ m + 1 \in 0 .. N
        BY <1>2, <3>2
    <3> QED
        BY <3>2, <3>3, <3>4, <3>5
  <2>2. CASE m + 1 \notin S
    <3>1. U(m + 1) = U(m) /\ m + 1 \in 0 .. N
      <4>1. m \in 0 .. N /\ m + 1 \in 0 .. N
          OBVIOUS
      <4>2. \A j \in S : (j <= m + 1 <=> j <= m)
          BY <1>0, <2>2
      <4> HIDE DEF U, Good
      <4> QED
          BY <1>0, <4>1, <4>2
    <3> HIDE DEF U
    <3> QED
        BY <1>2, <3>1
  <2> QED
      BY <2>1, <2>2
<1>3. \A m \in 0 .. N : m \in Good
  <2> HIDE DEF Good
  <2> QED
      BY <1>1, <1>2, InductionUpTo
<1>4. U(N) = S /\ N \in 0 .. N
  <2>1. N \in 0 .. N
      OBVIOUS
  <2> HIDE DEF U, Good
  <2> QED
      BY <1>0, <2>1
<1>5. N \in Good
  <2> HIDE DEF Good
  <2> QED
      BY <1>3, <1>4
<1> HIDE DEF U
<1> QED
    BY <1>4, <1>5 DEF U

-----------------------------------------------------------------------------
(* The keys among tokens. *)

IsKept(f, list) ==
    f = [i \in 0 .. Len(list) |->
            IF i = 0 THEN <<>>
            ELSE IF list[i].is_string THEN f[i - 1] ELSE Append(f[i - 1], list[i])]

LEMMA KeptExists ==
    ASSUME NEW list \in Seq(Tokens)
    PROVE  \E f \in [0 .. Len(list) -> Seq(KeyTokens)] : IsKept(f, list)
<1> DEFINE N == Len(list)
           step == [i \in 1 .. N |-> [s \in Seq(KeyTokens) |->
                        IF list[i].is_string THEN s ELSE Append(s, list[i])]]
<1>1. N \in Nat /\ \A i \in 1 .. N : list[i].is_string \/ list[i] \in KeyTokens
  <2>1. \A i \in 1 .. N : list[i] \in Tokens
      OBVIOUS
  <2> QED
      BY <2>1, TokenText
<1>2. step \in [1 .. N -> [Seq(KeyTokens) -> Seq(KeyTokens)]]
    BY <1>1
<1>3. <<>> \in Seq(KeyTokens)
    OBVIOUS
<1>4. PICK f \in [0 .. N -> Seq(KeyTokens)] : Iterates(f, 0 .. N, <<>>, step)
  <2> HIDE DEF step, N
  <2> QED
      BY <1>1, <1>2, <1>3, RecursionUpTo
<1>5. ASSUME NEW i \in 0 .. N
      PROVE  f[i] = IF i = 0 THEN <<>>
                    ELSE IF list[i].is_string THEN f[i - 1] ELSE Append(f[i - 1], list[i])
  <2>1. CASE i = 0
      BY <1>4, <2>1 DEF Iterates
  <2>2. CASE i # 0
    <3>1. i \in 1 .. N /\ i - 1 \in 0 .. N /\ f[i - 1] \in Seq(KeyTokens)
        BY <1>1, <2>2
    <3>2. f[i] = step[i][f[i - 1]]
      <4> HIDE DEF step
      <4> QED
          BY <1>4, <2>2 DEF Iterates
    <3> QED
        BY <2>2, <3>1, <3>2
  <2> QED
      BY <2>1, <2>2
<1> QED
    BY <1>5 DEF IsKept

LEMMA KeptEquations ==
    ASSUME NEW list \in Seq(Tokens), NEW f, IsKept(f, list)
    PROVE  /\ f[0] = <<>>
           /\ \A i \in 1 .. Len(list) :
                  f[i] = IF list[i].is_string THEN f[i - 1] ELSE Append(f[i - 1], list[i])
<1>1. Len(list) \in Nat
    OBVIOUS
<1>2. f[0] = <<>>
  <2>1. 0 \in 0 .. Len(list)
      BY <1>1
  <2> QED
      BY <2>1 DEF IsKept
<1>3. ASSUME NEW i \in 1 .. Len(list)
      PROVE  f[i] = IF list[i].is_string THEN f[i - 1] ELSE Append(f[i - 1], list[i])
  <2>1. i \in 0 .. Len(list) /\ i # 0
      BY <1>1
  <2> QED
      BY <2>1 DEF IsKept
<1> QED
    BY <1>2, <1>3

LEMMA KeptIs ==
    ASSUME NEW list \in Seq(Tokens)
    PROVE  \E f : /\ f[0] = <<>>
                  /\ \A i \in 1 .. Len(list) :
                        f[i] = IF list[i].is_string THEN f[i - 1] ELSE Append(f[i - 1], list[i])
                  /\ f[Len(list)] \in Seq(KeyTokens)
                  /\ Keys(list) = f[Len(list)]
<1> DEFINE f == CHOOSE f : IsKept(f, list)
<1>1. PICK g \in [0 .. Len(list) -> Seq(KeyTokens)] : IsKept(g, list)
    BY KeptExists
<1>2. IsKept(f, list)
    BY <1>1
<1>3. Keys(list) = f[Len(list)]
    BY DEF Keys, IsKept
<1> HIDE DEF f
<1>4. f[Len(list)] = g[Len(list)]
  <2>1. SameSteps(f, g, Len(list))
      BY <1>1, <1>2, KeptEquations DEF SameSteps
  <2>2. Len(list) \in Nat /\ Len(list) \in 0 .. Len(list)
      OBVIOUS
  <2> QED
      BY <2>1, <2>2, AgreeUpTo
<1>5. Len(list) \in 0 .. Len(list)
    OBVIOUS
<1> QED
    BY <1>1, <1>2, <1>3, <1>4, <1>5, KeptEquations

\* A key is kept, a string is not.
LEMMA KeysAppend ==
    ASSUME NEW list \in Seq(Tokens), NEW token \in Tokens
    PROVE  /\ Keys(list) \in Seq(KeyTokens)
           /\ Keys(Append(list, token)) = IF token.is_string THEN Keys(list)
                                          ELSE Append(Keys(list), token)
<1> DEFINE s == Append(list, token)
           N == Len(list)
<1>1. /\ s \in Seq(Tokens) /\ N \in Nat /\ Len(s) = N + 1 /\ s[N + 1] = token
      /\ \A i \in 1 .. N : s[i] = list[i] /\ i \in 1 .. Len(s)
    BY AppendIs
<1>2. PICK f : /\ f[0] = <<>>
               /\ \A i \in 1 .. Len(list) :
                     f[i] = IF list[i].is_string THEN f[i - 1] ELSE Append(f[i - 1], list[i])
               /\ f[Len(list)] \in Seq(KeyTokens)
               /\ Keys(list) = f[Len(list)]
    BY KeptIs
<1>3. PICK g : /\ g[0] = <<>>
               /\ \A i \in 1 .. Len(s) :
                     g[i] = IF s[i].is_string THEN g[i - 1] ELSE Append(g[i - 1], s[i])
               /\ g[Len(s)] \in Seq(KeyTokens)
               /\ Keys(s) = g[Len(s)]
    BY <1>1, KeptIs
<1> HIDE DEF s
<1>4. f[N] = g[N]
  <2>1. SameSteps(f, g, N)
      BY <1>1, <1>2, <1>3 DEF SameSteps
  <2>2. N \in Nat /\ N \in 0 .. N
      BY <1>1
  <2> HIDE DEF N
  <2>3. \A i \in 0 .. N : f[i] = g[i]
      BY <2>1, <2>2, AgreeUpTo
  <2> QED
      BY <2>2, <2>3
<1>5. g[N + 1] = IF token.is_string THEN g[N] ELSE Append(g[N], token)
  <2>1. N + 1 \in 1 .. Len(s) /\ (N + 1) - 1 = N
      BY <1>1
  <2> QED
      BY <1>1, <1>3, <2>1
<1> QED
    BY <1>1, <1>2, <1>3, <1>4, <1>5 DEF s

LEMMA KeysOfNothing == Keys(<<>>) = <<>>
<1>1. <<>> \in Seq(Tokens) /\ Len(<<>>) = 0
    OBVIOUS
<1> QED
    BY <1>1, KeptIs

LEMMA KeysPush ==
    ASSUME NEW list \in Seq(Tokens), NEW text \in Seq(Letter)
    PROVE  Push(list, text) \in Seq(Tokens) /\ Keys(Push(list, text)) = Keys(list)
<1>1. CASE text = <<>>
    BY <1>1 DEF Push
<1>2. CASE text # <<>>
  <2>1. StringToken(text) \in Tokens /\ StringToken(text).is_string
      BY <1>2 DEF StringToken, Tokens, StringTokens
  <2> QED
      BY <1>2, <2>1, KeysAppend, AppendIs DEF Push
<1> QED
    BY <1>1, <1>2

-----------------------------------------------------------------------------
(* The names of the keys. *)

KeysUpTo(t, i) == UpToElement(KeyPositions(t), i)

NamelessUpTo(t, i) == {p \in KeyPositions(t) : p <= i /\ ~ Named(t[p])}

\* The keys up to the i-th piece have the names of the parameters there, in order.
NamedAs(list, t, i) ==
    /\ Len(list) = Cardinality(KeysUpTo(t, i))
    /\ \A p \in KeysUpTo(t, i) : list[Cardinality(KeysUpTo(t, p))].name = ParameterName(t, p)

LEMMA KeysAreNumbers ==
    ASSUME NEW t \in Seq(Pieces)
    PROVE  /\ Len(t) \in Nat /\ KeyPositions(t) \subseteq 1 .. Len(t)
           /\ KeysUpTo(t, Len(t)) = KeyPositions(t)
           /\ \A i : /\ KeysUpTo(t, i) \subseteq KeyPositions(t)
                     /\ IsFiniteSet(KeysUpTo(t, i)) /\ Cardinality(KeysUpTo(t, i)) \in Nat
                     /\ IsFiniteSet(NamelessUpTo(t, i)) /\ Cardinality(NamelessUpTo(t, i)) \in Nat
           /\ \A p \in KeyPositions(t) :
                  Cardinality(KeysUpTo(t, p)) \in 1 .. Cardinality(KeyPositions(t))
<1>1. Len(t) \in Nat /\ KeyPositions(t) \subseteq 1 .. Len(t)
    BY DEF KeyPositions
<1>2. KeysUpTo(t, Len(t)) = KeyPositions(t)
  <2>1. \A p \in KeyPositions(t) : p <= Len(t)
      BY <1>1
  <2> QED
      BY <2>1 DEF KeysUpTo, UpToElement
<1>3. IsFiniteSet(KeyPositions(t))
    BY <1>1, Ranks
<1>4. ASSUME NEW i
      PROVE  /\ KeysUpTo(t, i) \in SUBSET KeyPositions(t)
             /\ NamelessUpTo(t, i) \in SUBSET KeyPositions(t)
    BY DEF KeysUpTo, UpToElement, NamelessUpTo
<1>5. ASSUME NEW S \in SUBSET KeyPositions(t) PROVE IsFiniteSet(S) /\ Cardinality(S) \in Nat
  <2>1. S \subseteq 1 .. Len(t)
      BY <1>1
  <2> QED
      BY <1>1, <2>1, Ranks
<1>6. \A p \in KeyPositions(t) : Cardinality(KeysUpTo(t, p)) \in 1 .. Cardinality(KeyPositions(t))
    BY <1>1, Ranks DEF KeysUpTo
<1> QED
    BY <1>1, <1>2, <1>4, <1>5, <1>6

\* Pieces that are no keys change nothing.
LEMMA NoKeyBetween ==
    ASSUME NEW t \in Seq(Pieces), NEW i \in 0 .. Len(t), NEW l \in i .. Len(t),
           \A j \in i + 1 .. l : ~ IsKey(t[j])
    PROVE  /\ KeysUpTo(t, l) = KeysUpTo(t, i)
           /\ NamelessUpTo(t, l) = NamelessUpTo(t, i)
<1>1. ASSUME NEW p \in KeyPositions(t) PROVE p <= l <=> p <= i
  <2>1. p \in 1 .. Len(t) /\ IsKey(t[p])
      BY DEF KeyPositions
  <2>2. p \notin i + 1 .. l
      BY <2>1
  <2> QED
      BY <2>1, <2>2
<1> QED
    BY <1>1 DEF KeysUpTo, UpToElement, NamelessUpTo

\* One key more.
LEMMA OneKeyMore ==
    ASSUME NEW t \in Seq(Pieces), NEW i \in 0 .. Len(t), NEW m \in i + 1 .. Len(t),
           \A j \in i + 1 .. m - 1 : ~ IsKey(t[j]), IsKey(t[m])
    PROVE  /\ KeysUpTo(t, m) = KeysUpTo(t, i) \cup {m} /\ m \notin KeysUpTo(t, i)
           /\ Cardinality(KeysUpTo(t, m)) = Cardinality(KeysUpTo(t, i)) + 1
           /\ NamelessUpTo(t, m) = NamelessUpTo(t, i) \cup (IF Named(t[m]) THEN {} ELSE {m})
           /\ m \notin NamelessUpTo(t, i)
           /\ Cardinality(NamelessUpTo(t, m)) = Cardinality(NamelessUpTo(t, i))
                                                + (IF Named(t[m]) THEN 0 ELSE 1)
           /\ ParameterName(t, m) = IF Named(t[m]) THEN t[m].name
                                    ELSE ToString(Cardinality(NamelessUpTo(t, i)))
<1>1. m \in KeyPositions(t) /\ i < m
  <2>1. DOMAIN t = 1 .. Len(t) /\ m \in 1 .. Len(t) /\ i < m
      OBVIOUS
  <2> QED
      BY <2>1 DEF KeyPositions
<1>2. ASSUME NEW p \in KeyPositions(t)
      PROVE  (p <= m <=> p <= i \/ p = m) /\ (p < m <=> p <= i)
  <2>1. p \in 1 .. Len(t) /\ IsKey(t[p])
      BY DEF KeyPositions
  <2>2. p \notin i + 1 .. m - 1
      BY <2>1
  <2> QED
      BY <2>1, <2>2
<1>3. m <= m /\ ~ (m <= i)
    OBVIOUS
<1>4. KeysUpTo(t, m) = KeysUpTo(t, i) \cup {m} /\ m \notin KeysUpTo(t, i)
    BY <1>1, <1>2, <1>3 DEF KeysUpTo, UpToElement
<1>5. Cardinality(KeysUpTo(t, m)) = Cardinality(KeysUpTo(t, i)) + 1
  <2>1. IsFiniteSet(KeysUpTo(t, i))
      BY KeysAreNumbers
  <2> QED
      BY <1>4, <2>1, FS_AddElement
<1>6. /\ NamelessUpTo(t, m) = NamelessUpTo(t, i) \cup (IF Named(t[m]) THEN {} ELSE {m})
      /\ m \notin NamelessUpTo(t, i)
    BY <1>1, <1>2, <1>3 DEF NamelessUpTo
<1>7. Cardinality(NamelessUpTo(t, m)) = Cardinality(NamelessUpTo(t, i))
                                        + (IF Named(t[m]) THEN 0 ELSE 1)
  <2>1. IsFiniteSet(NamelessUpTo(t, i)) /\ Cardinality(NamelessUpTo(t, i)) \in Nat
      BY KeysAreNumbers
  <2>2. CASE Named(t[m])
      BY <1>6, <2>1, <2>2
  <2>3. CASE ~ Named(t[m])
    <3>1. NamelessUpTo(t, m) = NamelessUpTo(t, i) \cup {m}
        BY <1>6, <2>3
    <3>2. Cardinality(NamelessUpTo(t, i) \cup {m}) = Cardinality(NamelessUpTo(t, i)) + 1
        BY <1>6, <2>1, FS_AddElement
    <3> QED
        BY <2>3, <3>1, <3>2
  <2> QED
      BY <2>2, <2>3
<1>8. ParameterName(t, m) = IF Named(t[m]) THEN t[m].name
                            ELSE ToString(Cardinality(NamelessUpTo(t, i)))
  <2>1. {p \in KeyPositions(t) : p < m /\ ~ Named(t[p])} = NamelessUpTo(t, i)
      BY <1>2 DEF NamelessUpTo
  <2> QED
      BY <2>1 DEF ParameterName
<1> QED
    BY <1>4, <1>5, <1>6, <1>7, <1>8

\* The next key has the name of the next parameter.
LEMMA NamedAppend ==
    ASSUME NEW t \in Seq(Pieces), NEW i \in 0 .. Len(t), NEW m \in i + 1 .. Len(t),
           \A j \in i + 1 .. m - 1 : ~ IsKey(t[j]), IsKey(t[m]),
           NEW list \in Seq(KeyTokens), NamedAs(list, t, i),
           NEW token \in KeyTokens,
           token.name = IF Named(t[m]) THEN t[m].name
                        ELSE ToString(Cardinality(NamelessUpTo(t, i)))
    PROVE  NamedAs(Append(list, token), t, m)
<1> DEFINE all == Append(list, token)
           n == Len(list)
<1>1. /\ n \in Nat /\ Len(all) = n + 1 /\ all[n + 1] = token
      /\ \A k \in 1 .. n : all[k] = list[k]
    BY AppendIs
<1> HIDE DEF all
<1>2. n = Cardinality(KeysUpTo(t, i)) /\ Cardinality(KeysUpTo(t, m)) = n + 1
      /\ KeysUpTo(t, m) = KeysUpTo(t, i) \cup {m}
    BY OneKeyMore DEF NamedAs
<1>3. token.name = ParameterName(t, m)
    BY OneKeyMore
<1>4. ASSUME NEW p \in KeysUpTo(t, i)
      PROVE  Cardinality(KeysUpTo(t, p)) \in 1 .. n
  <2>1. p \in KeyPositions(t) /\ p <= i /\ p \in 1 .. Len(t)
      BY KeysAreNumbers DEF KeysUpTo, UpToElement
  <2>2. KeysUpTo(t, p) \in SUBSET KeysUpTo(t, i)
    <3>1. \A q \in KeyPositions(t) : q <= p => q <= i
        BY <2>1, KeysAreNumbers
    <3> QED
        BY <3>1 DEF KeysUpTo, UpToElement
  <2>3. Cardinality(KeysUpTo(t, p)) <= Cardinality(KeysUpTo(t, i))
    <3>1. IsFiniteSet(KeysUpTo(t, i))
        BY KeysAreNumbers
    <3> QED
        BY <2>2, <3>1, FS_Subset
  <2>4. Cardinality(KeysUpTo(t, p)) \in 1 .. Cardinality(KeyPositions(t)) /\ Cardinality(KeyPositions(t)) \in Nat
    <3>1. Cardinality(KeysUpTo(t, Len(t))) \in Nat /\ KeysUpTo(t, Len(t)) = KeyPositions(t)
        BY KeysAreNumbers
    <3> QED
        BY <2>1, <3>1, KeysAreNumbers
  <2> QED
      BY <1>1, <1>2, <2>3, <2>4
<1>5. ASSUME NEW p \in KeysUpTo(t, m)
      PROVE  all[Cardinality(KeysUpTo(t, p))].name = ParameterName(t, p)
  <2>1. CASE p = m
      BY <1>1, <1>2, <1>3, <2>1
  <2>2. CASE p \in KeysUpTo(t, i)
    <3>1. all[Cardinality(KeysUpTo(t, p))] = list[Cardinality(KeysUpTo(t, p))]
        BY <1>1, <1>4, <2>2
    <3> QED
        BY <2>2, <3>1 DEF NamedAs
  <2> QED
      BY <1>2, <2>1, <2>2
<1> QED
    BY <1>1, <1>2, <1>5 DEF NamedAs, all

\* Keys named like this have the names of the parameters.
LEMMA NamesOfKeys ==
    ASSUME NEW t \in Seq(Pieces), NEW list \in Seq(KeyTokens), NamedAs(list, t, Len(t))
    PROVE  [n \in DOMAIN list |-> list[n].name] = Parameters(t)
<1> DEFINE S == KeyPositions(t)
<1>1. /\ Len(t) \in Nat /\ S \subseteq 1 .. Len(t) /\ KeysUpTo(t, Len(t)) = S
    BY KeysAreNumbers
<1>2. Len(list) = Cardinality(S) /\ DOMAIN list = 1 .. Cardinality(S)
    BY <1>1 DEF NamedAs
<1>3. ASSUME NEW n \in 1 .. Cardinality(S)
      PROVE  list[n].name = ParameterName(t, CHOOSE p \in S : Cardinality({i \in S : i <= p}) = n)
  <2> DEFINE p == CHOOSE p \in S : Cardinality({i \in S : i <= p}) = n
  <2>1. \E q \in S : Cardinality({i \in S : i <= q}) = n
      BY <1>1, Ranks DEF UpToElement
  <2>2. p \in S /\ Cardinality({i \in S : i <= p}) = n
      BY <2>1
  <2> HIDE DEF p
  <2>3. Cardinality(KeysUpTo(t, p)) = n
      BY <2>2 DEF KeysUpTo, UpToElement
  <2>4. list[Cardinality(KeysUpTo(t, p))].name = ParameterName(t, p)
      BY <1>1, <2>2 DEF NamedAs
  <2> QED
      BY <2>3, <2>4 DEF p
<1> QED
    BY <1>2, <1>3 DEF Parameters

-----------------------------------------------------------------------------
(* The groups of a regex. *)

Groups(r) == {i \in DOMAIN r : r[i].op = "group"}

LEMMA ElementKinds ==
    ASSUME NEW e \in Elements
    PROVE  OpensGroup(e) <=> e.op = "group"
<1>1. CASE \E c \in Letter : e = Verbatim(c)
  <2>1. PICK c \in Letter : e = Verbatim(c)
      BY <1>1
  <2>2. c # "("
      BY DEF Letter, Special
  <2>3. e.op = "char" /\ e.char = c
      BY <2>1 DEF Verbatim
  <2> QED
      BY <2>2, <2>3 DEF OpensGroup
<1>2. CASE e = SlashAtEnd
    BY <1>2 DEF SlashAtEnd, OpensGroup
<1>3. CASE \E t \in KeyTokens : e = Group(t)
    BY <1>3 DEF Group, OpensGroup
<1> QED
    BY <1>1, <1>2, <1>3 DEF Elements

\* The groups of a regex are numbered from 1 on, without a gap.
LEMMA GroupNumbers ==
    ASSUME NEW r \in Seq(Elements)
    PROVE  /\ IsFiniteSet(Groups(r)) /\ Cardinality(Groups(r)) \in Nat
           /\ {GroupNumber(r, i) : i \in Groups(r)} = 1 .. Cardinality(Groups(r))
<1>1. Len(r) \in Nat /\ DOMAIN r = 1 .. Len(r) /\ Groups(r) \subseteq 1 .. Len(r)
    BY DEF Groups
<1>2. ASSUME NEW i \in Groups(r)
      PROVE  GroupNumber(r, i) = Cardinality(UpToElement(Groups(r), i))
  <2>1. i \in 1 .. Len(r)
      BY <1>1
  <2>2. \A j \in 1 .. i : OpensGroup(r[j]) <=> j \in Groups(r)
    <3>1. \A j \in 1 .. i : j \in 1 .. Len(r) /\ r[j] \in Elements
        BY <1>1, <2>1
    <3> QED
        BY <1>1, <3>1, ElementKinds DEF Groups
  <2>3. \A j \in Groups(r) : j <= i <=> j \in 1 .. i
      BY <1>1, <2>1
  <2>4. {j \in 1 .. i : OpensGroup(r[j])} = UpToElement(Groups(r), i)
      BY <2>2, <2>3 DEF UpToElement
  <2> QED
      BY <2>4 DEF GroupNumber
<1> DEFINE S == Groups(r)
<1>3. /\ IsFiniteSet(S) /\ Cardinality(S) \in Nat
      /\ \A i \in S : Cardinality(UpToElement(S, i)) \in 1 .. Cardinality(S)
      /\ \A n \in 1 .. Cardinality(S) : \E i \in S : Cardinality(UpToElement(S, i)) = n
  <2> HIDE DEF S
  <2> QED
      BY <1>1, Ranks DEF S
<1>4. ASSUME NEW n \in {GroupNumber(r, i) : i \in S} PROVE n \in 1 .. Cardinality(S)
    BY <1>2, <1>3
<1>5. ASSUME NEW n \in 1 .. Cardinality(S) PROVE n \in {GroupNumber(r, i) : i \in S}
    BY <1>2, <1>3
<1> QED
    BY <1>3, <1>4, <1>5

LEMMA GroupsAppend ==
    ASSUME NEW r \in Seq(Elements), NEW e \in Elements
    PROVE  /\ e.op # "group" => Groups(Append(r, e)) = Groups(r)
           /\ e.op = "group" => Cardinality(Groups(Append(r, e))) = Cardinality(Groups(r)) + 1
<1> DEFINE s == Append(r, e)
<1>1. /\ s \in Seq(Elements) /\ DOMAIN s = 1 .. Len(r) + 1 /\ s[Len(r) + 1] = e
      /\ \A i \in 1 .. Len(r) : s[i] = r[i]
      /\ Len(r) \in Nat /\ DOMAIN r = 1 .. Len(r) /\ Len(r) + 1 \notin 1 .. Len(r)
      /\ 1 .. Len(r) + 1 = 1 .. Len(r) \cup {Len(r) + 1}
    BY AppendIs
<1> HIDE DEF s
<1>2. CASE e.op # "group"
    BY <1>1, <1>2 DEF Groups, s
<1>3. CASE e.op = "group"
  <2>1. Groups(s) = Groups(r) \cup {Len(r) + 1} /\ Len(r) + 1 \notin Groups(r)
      BY <1>1, <1>3 DEF Groups
  <2>2. IsFiniteSet(Groups(r))
      BY GroupNumbers
  <2> QED
      BY <1>3, <2>1, <2>2, FS_AddElement DEF s
<1> QED
    BY <1>2, <1>3

\* A text adds no group.
LEMMA GroupsChars ==
    ASSUME NEW r \in Seq(Elements), NEW u \in Seq(Letter), u # <<>>
    PROVE  /\ Groups(r \o Chars(u)) = Groups(r)
           /\ Len(r \o Chars(u)) > 0
           /\ (r \o Chars(u))[Len(r \o Chars(u))].op # "group"
<1> DEFINE v == Chars(u)
           s == r \o v
<1>1. v \in Seq(Elements) /\ Len(v) = Len(u) /\ \A k \in 1 .. Len(u) : v[k].op = "char"
  <2>1. Len(u) \in Nat /\ DOMAIN u = 1 .. Len(u) /\ \A k \in 1 .. Len(u) : u[k] \in Letter
      OBVIOUS
  <2>2. \A c \in Letter : Verbatim(c) \in Elements /\ Verbatim(c).op = "char"
      BY DEF Elements, Verbatim
  <2> QED
      BY <2>1, <2>2 DEF Chars
<1>2. Len(u) > 0 /\ Len(u) \in Nat /\ Len(r) \in Nat /\ DOMAIN r = 1 .. Len(r)
    OBVIOUS
<1> HIDE DEF v
<1>3. /\ DOMAIN s = 1 .. Len(r) + Len(u) /\ Len(s) = Len(r) + Len(u)
      /\ \A i \in 1 .. Len(r) : s[i] = r[i]
      /\ \A i \in Len(r) + 1 .. Len(r) + Len(u) : s[i] = v[i - Len(r)]
    BY <1>1, <1>2
<1> HIDE DEF s
<1>4. \A i \in Len(r) + 1 .. Len(r) + Len(u) : s[i].op = "char"
  <2>1. \A i \in Len(r) + 1 .. Len(r) + Len(u) : i - Len(r) \in 1 .. Len(u)
      BY <1>2
  <2> QED
      BY <1>1, <1>3, <2>1
<1>5. \A i \in 1 .. Len(r) + Len(u) : i \in 1 .. Len(r) \/ i \in Len(r) + 1 .. Len(r) + Len(u)
    BY <1>2
<1>6. 1 .. Len(r) \subseteq 1 .. Len(r) + Len(u)
    BY <1>2
<1>7. Groups(s) = Groups(r)
    BY <1>2, <1>3, <1>4, <1>5, <1>6 DEF Groups
<1>8. Len(s) > 0 /\ s[Len(s)].op # "group"
  <2>1. Len(s) \in Len(r) + 1 .. Len(r) + Len(u)
      BY <1>2, <1>3
  <2> QED
      BY <1>2, <1>3, <1>4, <2>1
<1> QED
    BY <1>7, <1>8 DEF s, v

\* A regex made from the first n tokens has a group for every key among them.
Grouped(list, n, r) ==
    /\ Cardinality(Groups(r)) = Len(Keys(SubSeq(list, 1, n)))
    /\ n > 0 /\ list[n].is_string => Len(r) > 0 /\ r[Len(r)].op # "group"

LEMMA OneMoreGrouped ==
    ASSUME NEW list \in Seq(Tokens), NEW n \in 0 .. Len(list) - 1,
           NEW r \in Seq(Elements), Grouped(list, n, r)
    PROVE  Grouped(list, n + 1, r \o Translation(list[n + 1]))
<1> DEFINE token == list[n + 1]
           s == r \o Translation(token)
<1>1. /\ SubSeq(list, 1, n) \in Seq(Tokens) /\ token \in Tokens
      /\ SubSeq(list, 1, n + 1) = Append(SubSeq(list, 1, n), token)
  <2>1. n \in 0 .. Len(list) /\ n + 1 \in 1 .. Len(list)
      OBVIOUS
  <2> QED
      BY <2>1, PrefixIs, NextPrefix
<1> DEFINE before == SubSeq(list, 1, n)
<1>2. /\ Keys(before) \in Seq(KeyTokens)
      /\ Keys(SubSeq(list, 1, n + 1)) = IF token.is_string THEN Keys(before)
                                        ELSE Append(Keys(before), token)
    BY <1>1, KeysAppend
<1>3. Cardinality(Groups(r)) = Len(Keys(before))
    BY DEF Grouped
<1> HIDE DEF before, token
<1>4. CASE token.is_string
  <2>1. token \in StringTokens /\ Translation(token) = Chars(token.name)
      BY <1>1, <1>4, TokenText DEF Translation, Chars
  <2>2. token.name \in Seq(Letter) /\ token.name # <<>>
      BY <2>1 DEF StringTokens
  <2>3. Groups(s) = Groups(r) /\ Len(s) > 0 /\ s[Len(s)].op # "group"
      BY <2>1, <2>2, GroupsChars
  <2> HIDE DEF s
  <2> QED
      BY <1>2, <1>3, <1>4, <2>3 DEF Grouped, s, token
<1>5. CASE ~ token.is_string
  <2>1. token \in KeyTokens
      BY <1>1, <1>5, TokenText
  <2>2. Group(token) \in Elements /\ Group(token).op = "group" /\ Translation(token) = <<Group(token)>>
      BY <1>5, <2>1 DEF Elements, Translation, Group
  <2>3. s = Append(r, Group(token))
      BY <2>2
  <2>4. Cardinality(Groups(s)) = Cardinality(Groups(r)) + 1
      BY <2>2, <2>3, GroupsAppend
  <2>5. Len(Append(Keys(before), token)) = Len(Keys(before)) + 1
      BY <1>2, <2>1
  <2> HIDE DEF s
  <2> QED
      BY <1>2, <1>3, <1>5, <2>4, <2>5 DEF Grouped, s, token
<1> QED
    BY <1>4, <1>5

\* The slash at the end is no group, nor is the character it takes the place of.
LEMMA FinishedGroups ==
    ASSUME NEW list \in Seq(Tokens), NEW r \in Seq(Elements), Grouped(list, Len(list), r)
    PROVE  Cardinality(Groups(Finished(list, r))) = Len(Keys(list))
<1>1. SubSeq(list, 1, Len(list)) = list
    OBVIOUS
<1>2. Cardinality(Groups(r)) = Len(Keys(list))
    BY <1>1 DEF Grouped
<1>3. SlashAtEnd \in Elements /\ SlashAtEnd.op # "group"
    BY DEF Elements, SlashAtEnd
<1>4. CASE list = <<>>
    BY <1>2, <1>4 DEF Finished
<1>5. CASE list # <<>> /\ SlashLast(list)
  <2> DEFINE front == SubSeq(r, 1, Len(r) - 1)
             last == r[Len(r)]
  <2>1. Len(r) > 0 /\ last.op # "group"
    <3>1. Len(list) > 0 /\ list[Len(list)].is_string
        BY <1>5 DEF SlashLast
    <3> QED
        BY <3>1 DEF Grouped
  <2>2. r # <<>>
      BY <2>1
  <2>3. front \in Seq(Elements) /\ last \in Elements /\ r = Append(front, last)
      BY <2>2, LastOf
  <2>4. Finished(list, r) = Append(front, SlashAtEnd)
      BY <1>5 DEF Finished
  <2> HIDE DEF front, last
  <2>5. Groups(r) = Groups(front)
      BY <2>1, <2>3, GroupsAppend
  <2>6. Groups(Append(front, SlashAtEnd)) = Groups(front)
      BY <1>3, <2>3, GroupsAppend
  <2> QED
      BY <1>2, <2>4, <2>5, <2>6
<1>6. CASE list # <<>> /\ ~ SlashLast(list)
    BY <1>2, <1>3, <1>6, GroupsAppend DEF Finished
<1> QED
    BY <1>4, <1>5, <1>6

-----------------------------------------------------------------------------
(* The steps of path_to_regex number the keys and the groups alike. *)

NumberingInv ==
    /\ pc \in {"parse", "tokens_to_keys", "tokens_to_regex", "done"}
    /\ pc = "parse" => /\ NamedAs(Keys(tokens), template, index)
                       /\ key = Cardinality(NamelessUpTo(template, index))
    /\ pc # "parse" => NamedAs(Keys(tokens), template, Len(template))
    /\ pc \in {"tokens_to_regex", "done"} => keys = Keys(tokens)
    /\ pc # "done" => Grouped(tokens, translated, route)
    /\ pc = "done" => Cardinality(Groups(route)) = Len(keys)

LEMMA GroupedNothing ==
    ASSUME NEW list \in Seq(Tokens)
    PROVE  Grouped(list, 0, <<>>)
<1>1. Groups(<<>>) = {}
    BY DEF Groups
<1>2. Cardinality(Groups(<<>>)) = 0
    BY <1>1, FS_EmptySet
<1>3. SubSeq(list, 1, 0) = <<>>
    OBVIOUS
<1>4. Keys(SubSeq(list, 1, 0)) = <<>>
    BY <1>3, KeysOfNothing
<1>5. Len(Keys(SubSeq(list, 1, 0))) = 0
    BY <1>4
<1> QED
    BY <1>2, <1>5 DEF Grouped

LEMMA ParseKeepsNumbering ==
    ASSUME MeaningInv, MeaningInv', NumberingInv, Parse
    PROVE  NumberingInv'
<1>1. /\ pc = "parse" /\ ParsedTypes /\ ParsedTypes' /\ Parsed(tokens, path, template, index)
      /\ translated = 0 /\ route = <<>> /\ translated' = 0 /\ route' = <<>> /\ template' = template
    BY DEF MeaningInv, Parse, ParseEscaped, ParseKey, ParseRest
<1>2. /\ template \in Seq(Pieces) /\ index \in 0 .. Len(template) /\ tokens \in Seq(Tokens)
      /\ tokens' \in Seq(Tokens) /\ path \in Seq(Letter) /\ Len(template) \in Nat
    BY <1>1 DEF ParsedTypes
<1>3. ASSUME Ahead # {}
      PROVE  /\ Match \in index + 1 .. Len(template) /\ Match \in index .. Len(template)
             /\ Match \in 1 .. Len(template)
             /\ \A j \in index + 1 .. Match - 1 : template[j].kind = "plain" /\ ~ IsKey(template[j])
  <2>1. /\ Match \in index + 1 .. Len(template)
        /\ \A j \in index + 1 .. Match - 1 : template[j].kind = "plain"
      BY <1>2, <1>3, MatchIs
  <2> QED
      BY <1>2, <2>1 DEF IsKey
<1>4. Grouped(tokens', translated', route')
  <2>1. Grouped(tokens', 0, <<>>)
      BY <1>2, GroupedNothing
  <2> QED
      BY <1>1, <2>1 DEF Grouped
<1>5. /\ NamedAs(Keys(tokens), template, index) /\ Keys(tokens) \in Seq(KeyTokens)
      /\ key = Cardinality(NamelessUpTo(template, index))
  <2>1. \A token \in Tokens : Keys(tokens) \in Seq(KeyTokens)
      BY <1>2, KeysAppend
  <2>2. StringToken(<<"/">>) \in Tokens
      BY PathAssumption DEF StringToken, Tokens, StringTokens, Letter, Special
  <2> QED
      BY <1>1, <2>1, <2>2 DEF NumberingInv
<1>6. CASE ParseEscaped
  <2>1. /\ index' = Match /\ Ahead # {} /\ template[Match].kind = "escaped"
        /\ UNCHANGED <<key, tokens, pc>>
      BY <1>6 DEF ParseEscaped
  <2>2. \A j \in index + 1 .. Match : ~ IsKey(template[j])
    <3>1. \A j \in index + 1 .. Match : j = Match \/ j \in index + 1 .. Match - 1
        BY <1>2, <1>3, <2>1
    <3> QED
        BY <1>3, <2>1, <3>1 DEF IsKey
  <2>3. KeysUpTo(template, Match) = KeysUpTo(template, index)
        /\ NamelessUpTo(template, Match) = NamelessUpTo(template, index)
      BY <1>2, <1>3, <2>1, <2>2, NoKeyBetween
  <2>4. NamedAs(Keys(tokens), template, Match) /\ key = Cardinality(NamelessUpTo(template, Match))
      BY <1>5, <2>3 DEF NamedAs
  <2> QED
      BY <1>1, <1>4, <2>1, <2>4 DEF NumberingInv
<1>7. CASE ParseKey
  <2> DEFINE next == IF Match < Len(template) THEN <<FirstChar(template[Match + 1])>> ELSE <<>>
             text == path \o Run(template, index, Match - 1 - Len(Prefix))
             token == KeyToken(template[Match], Prefix, next)
             longer == Push(tokens, text)
  <2>1. /\ tokens' = Append(longer, token) /\ index' = Match /\ Ahead # {} /\ IsKey(template[Match])
        /\ key' = (IF Named(template[Match]) THEN key ELSE key + 1) /\ pc' = pc
      BY <1>7, SkippedIsRun DEF ParseKey, Pushed, Push
  <2>2. index # 0 => template[index].kind # "plain"
      BY <1>1 DEF Parsed
  <2>3. Prefix = PrefixOf(template, index, Match) /\ token \in KeyTokens
    <3>1. Prefix = PrefixOf(template, index, Match) /\ IsTokenOf(token, template, Match)
        BY <1>1, <2>1, <2>2, KeyTokenIs
    <3> QED
        BY <3>1 DEF IsTokenOf
  <2>4. token.name = IF Named(template[Match]) THEN template[Match].name
                     ELSE ToString(Cardinality(NamelessUpTo(template, index)))
      BY <1>5 DEF KeyToken
  <2>5. text \in Seq(Letter)
    <3> DEFINE l == Match - 1 - Len(PrefixOf(template, index, Match))
    <3>1. l \in index .. Len(template) /\ Stands(template, index, l)
        BY <1>2, <1>3, <2>1, <2>2, KeyPrefix
    <3> HIDE DEF l
    <3>2. Run(template, index, l) \in Seq(Letter)
        BY <1>2, <3>1, RunNext
    <3> QED
        BY <1>2, <2>3, <3>2 DEF l
  <2> HIDE DEF text, token
  <2>6. longer \in Seq(Tokens) /\ Keys(longer) = Keys(tokens)
      BY <1>2, <2>5, KeysPush
  <2> HIDE DEF longer
  <2>7. Keys(tokens') = Append(Keys(tokens), token)
    <3>1. token \in Tokens /\ ~ token.is_string
        BY <2>3 DEF Tokens, KeyTokens
    <3> QED
        BY <2>1, <2>6, <3>1, KeysAppend
  <2>8. NamedAs(Append(Keys(tokens), token), template, Match)
      BY <1>2, <1>3, <1>5, <2>1, <2>3, <2>4, NamedAppend
  <2>9. key' = Cardinality(NamelessUpTo(template, Match))
    <3>1. Cardinality(NamelessUpTo(template, Match)) = Cardinality(NamelessUpTo(template, index))
                                                      + (IF Named(template[Match]) THEN 0 ELSE 1)
        BY <1>2, <1>3, <2>1, OneKeyMore
    <3>2. key \in Nat
        BY <1>1 DEF ParsedTypes
    <3> QED
        BY <1>5, <2>1, <3>1, <3>2
  <2> QED
      BY <1>1, <1>4, <2>1, <2>7, <2>8, <2>9 DEF NumberingInv
<1>8. CASE ParseRest
  <2> DEFINE all == Push(tokens, path \o Run(template, index, Len(template)))
  <2>1. tokens' = all /\ pc' = "tokens_to_keys" /\ Ahead = {}
      BY <1>8, SkippedIsRun DEF ParseRest, Pushed, Push
  <2>2. \A j \in index + 1 .. Len(template) : ~ IsKey(template[j]) /\ template[j].kind = "plain"
      BY <2>1 DEF Ahead, IsKey
  <2>3. Len(template) \in index .. Len(template)
      BY <1>2
  <2>4. KeysUpTo(template, Len(template)) = KeysUpTo(template, index)
      BY <1>2, <2>2, <2>3, NoKeyBetween
  <2>5. path \o Run(template, index, Len(template)) \in Seq(Letter)
    <3>1. Stands(template, index, Len(template))
      <4>1. ~ Attached(template, Len(template))
          BY <1>2 DEF Attached
      <4> QED
          BY <1>2, <2>2, <2>3, <4>1, PlainStand
    <3>2. Run(template, index, Len(template)) \in Seq(Letter)
        BY <1>2, <2>3, <3>1, RunNext
    <3> QED
        BY <1>2, <3>2
  <2>6. Keys(all) = Keys(tokens)
      BY <1>2, <2>5, KeysPush
  <2> HIDE DEF all
  <2>7. NamedAs(Keys(tokens'), template', Len(template'))
      BY <1>1, <1>5, <2>1, <2>4, <2>6 DEF NamedAs
  <2> QED
      BY <1>1, <1>4, <2>1, <2>7 DEF NumberingInv
<1> QED
    BY <1>6, <1>7, <1>8 DEF Parse

LEMMA OthersKeepNumbering ==
    ASSUME MeaningInv, NumberingInv, tokens_to_keys \/ tokens_to_regex
    PROVE  NumberingInv'
<1>1. /\ template \in Seq(Pieces) /\ tokens \in Seq(Tokens) /\ route \in Seq(Elements)
      /\ translated \in 0 .. Len(tokens) /\ Len(tokens) \in Nat
    BY DEF MeaningInv, ParsedTypes
<1>2. CASE tokens_to_keys
    BY <1>2 DEF tokens_to_keys, NumberingInv
<1>3. CASE TranslateToken
  <2>1. /\ pc = "tokens_to_regex" /\ translated < Len(tokens)
        /\ route' = route \o Translation(tokens[translated + 1]) /\ translated' = translated + 1
        /\ UNCHANGED <<template, index, path, key, tokens, keys, pc>>
      BY <1>3 DEF TranslateToken
  <2>2. Grouped(tokens, translated, route)
      BY <2>1 DEF NumberingInv
  <2>3. translated \in 0 .. Len(tokens) - 1
      BY <1>1, <2>1
  <2>4. Grouped(tokens, translated + 1, route \o Translation(tokens[translated + 1]))
      BY <1>1, <2>2, <2>3, OneMoreGrouped
  <2>5. Grouped(tokens, translated, route)'
      BY <2>1, <2>4 DEF Grouped
  <2> QED
      BY <2>1, <2>5 DEF NumberingInv
<1>4. CASE Finish
  <2>1. /\ pc = "tokens_to_regex" /\ translated = Len(tokens)
        /\ route' = Finished(tokens, route) /\ pc' = "done"
        /\ UNCHANGED <<template, index, path, key, tokens, keys, translated>>
      BY <1>4 DEF Finish, Finished, EndsWithSlash, SlashLast
  <2>2. Cardinality(Groups(route')) = Len(Keys(tokens))
      BY <1>1, <2>1, FinishedGroups DEF NumberingInv
  <2> QED
      BY <2>1, <2>2 DEF NumberingInv
<1> QED
    BY <1>2, <1>3, <1>4 DEF tokens_to_regex

LEMMA StartOfNumbering ==
    ASSUME template \in Seq(Pieces), index = 0, key = 0, tokens = <<>>, translated = 0,
           route = <<>>, pc = "parse"
    PROVE  NumberingInv
<1>1. KeysUpTo(template, 0) = {} /\ NamelessUpTo(template, 0) = {}
  <2>1. \A p \in KeyPositions(template) : ~ (p <= 0)
      BY DEF KeyPositions
  <2> QED
      BY <2>1 DEF KeysUpTo, UpToElement, NamelessUpTo
<1>2. Cardinality({}) = 0 /\ Keys(<<>>) = <<>>
    BY FS_EmptySet, KeysOfNothing
<1>3. Grouped(tokens, translated, route)
  <2>1. tokens \in Seq(Tokens)
      OBVIOUS
  <2>2. Grouped(tokens, 0, <<>>)
      BY <2>1, GroupedNothing
  <2> QED
      BY <2>2 DEF Grouped
<1>4. NamedAs(Keys(tokens), template, index) /\ key = Cardinality(NamelessUpTo(template, index))
    BY <1>1, <1>2 DEF NamedAs
<1> QED
    BY <1>3, <1>4 DEF NumberingInv

\* The keys have the names of the parameters, and there is a group for every one.
LEMMA NumberingIsRight ==
    ASSUME MeaningInv, NumberingInv
    PROVE  ValuesFollowKeys
<1> SUFFICES ASSUME pc = "done"
             PROVE  /\ [n \in DOMAIN keys |-> keys[n].name] = Parameters(template)
                    /\ {GroupNumber(route, i) : i \in Groups(route)} = DOMAIN keys
    BY DEF ValuesFollowKeys, Groups
<1>1. template \in Seq(Pieces) /\ tokens \in Seq(Tokens) /\ route \in Seq(Elements)
    BY DEF MeaningInv, ParsedTypes
<1>2. keys = Keys(tokens) /\ NamedAs(keys, template, Len(template)) /\ Cardinality(Groups(route)) = Len(keys)
    BY DEF NumberingInv
<1>3. keys \in Seq(KeyTokens)
    BY <1>1, <1>2, KeptIs
<1>4. [n \in DOMAIN keys |-> keys[n].name] = Parameters(template)
    BY <1>1, <1>2, <1>3, NamesOfKeys
<1>5. {GroupNumber(route, i) : i \in Groups(route)} = 1 .. Len(keys)
    BY <1>1, <1>2, GroupNumbers
<1>6. DOMAIN keys = 1 .. Len(keys)
    BY <1>3
<1> QED
    BY <1>4, <1>5, <1>6

\* However many keys a template has, they are the parameters it names, in order, and
\* the n-th group of the regex is the one of the n-th key, if the characters of the
\* template mean nothing in a regex (http_router.hpp:54-69, path_to_regex.cpp:38-183).
THEOREM GroupsFollowKeys ==
    ASSUME TemplatesOfPieces
    PROVE  Spec => []ValuesFollowKeys
<1>1. Init => MeaningInv /\ NumberingInv
    BY StartOfMeaning, StartOfNumbering DEF Init, TemplatesOfPieces
<1>2. MeaningInv /\ NumberingInv /\ [Next]_vars => (MeaningInv /\ NumberingInv)'
  <2> SUFFICES ASSUME MeaningInv, NumberingInv, [Next]_vars PROVE (MeaningInv /\ NumberingInv)'
      OBVIOUS
  <2>1. CASE Parse
      BY <2>1, ParseKeepsMeaning, ParseKeepsNumbering
  <2>2. CASE tokens_to_keys
      BY <2>2, KeysKeepMeaning, OthersKeepNumbering
  <2>3. CASE tokens_to_regex
      BY <2>3, RegexKeepsMeaning, OthersKeepNumbering
  <2>4. CASE UNCHANGED vars
      BY <2>4 DEF vars, MeaningInv, ParsedTypes, RegexMeansTemplate, NumberingInv
  <2> QED
      BY <2>1, <2>2, <2>3, <2>4 DEF Next, Done
<1>3. MeaningInv /\ NumberingInv => ValuesFollowKeys
    BY NumberingIsRight
<1> QED
    BY <1>1, <1>2, <1>3, PTL DEF Spec

-----------------------------------------------------------------------------
(* Lists of any elements. *)

IsList(s) == \E S : s \in Seq(S)

\* The empty vector is a list.
LEMMA EmptyIsList == IsList(<<>>)
  BY DEF IsList

\* emplace_back keeps the elements of a vector and adds one at its end.
LEMMA AppendToList ==
    ASSUME NEW s, IsList(s), NEW e
    PROVE  /\ IsList(Append(s, e))
           /\ Len(s) \in Nat
           /\ DOMAIN s = 1 .. Len(s)
           /\ DOMAIN Append(s, e) = 1 .. Len(s) + 1
           /\ Append(s, e)[Len(s) + 1] = e
           /\ \A i \in 1 .. Len(s) : Append(s, e)[i] = s[i]
<1>1. PICK S : s \in Seq(S)
  BY DEF IsList
<1> DEFINE T == S \cup {e}
<1>2. s \in Seq(T)
  BY <1>1
<1>3. Append(s, e) \in Seq(T)
  BY <1>2
<1> HIDE DEF T
<1>4. IsList(Append(s, e))
  BY <1>3 DEF IsList
<1>5. e \in T
  BY DEF T
<1> QED BY <1>2, <1>4, <1>5

-----------------------------------------------------------------------------
(* Who may write to the table. *)

\* Every route is under its method; requests carry the code of a method that was
\* asked for; nothing is looked up before the server runs.
Registered ==
    /\ IsList(registered)
    /\ \A n \in DOMAIN registered : registered[n].method \in DOMAIN route_table_
    /\ main = "constructing" => adding \in DOMAIN route_table_

Requests ==
    /\ at \in [Thread -> {"idle", "lookup", "torn", "search", "unrouted", "handler"}]
    /\ request \in [Thread -> [method : {code(name) : name \in Asked}, path : Asks] \cup {NoRequest}]
    /\ \A w \in Thread : at[w] # "idle" =>
            request[w] \in [method : {code(name) : name \in Asked}, path : Asks]

OnlyServing == main # "serving" => /\ ~raced
                                   /\ \A w \in Thread : at[w] = "idle"

RaceInv == Registered /\ Requests /\ OnlyServing /\ OnlyUnknownMethodsRace

\* Calls of process_route change nothing of what was registered.
LEMMA CallsKeepRegistered ==
    ASSUME NEW w \in Thread, Call(w)
    PROVE  /\ UNCHANGED <<registered, main, adding, conversion>>
           /\ DOMAIN route_table_ \subseteq DOMAIN route_table_'
  BY DEF Call, Lookup, process_route, Copy, Insert, TornLookup, Search, Return, WithEntry,
         conversion, vars

\* A call runs only while the server does.
LEMMA CallsOnlyServing ==
    ASSUME NEW w \in Thread, Call(w), OnlyServing
    PROVE  main = "serving"
  BY DEF Call, Lookup, process_route, Copy, Insert, TornLookup, Search, Return, OnlyServing

\* The steps of registration keep the invariant: they come before every call.
LEMMA RegistrationKeepsRaceInv ==
    ASSUME RaceInv, Registration
    PROVE  RaceInv'
<1> USE DEF RaceInv, calls, conversion, vars
<1>1. ASSUME NEW method \in Method, NEW ex \in Templates, on(method, ex) PROVE RaceInv'
  BY <1>1 DEF on, WithEntry, Registered, Requests, OnlyServing, OnlyUnknownMethodsRace
<1>2. CASE Construct
  BY <1>2 DEF Construct, Registered, Requests, OnlyServing, OnlyUnknownMethodsRace
<1>3. CASE emplace_back
  <2> DEFINE e == [method |-> adding, template |-> template]
  <2>1. Registered'
    <3>1. DOMAIN route_table_' = DOMAIN route_table_
      BY <1>3 DEF emplace_back
    <3>2. registered' = Append(registered, e) /\ main' = "registering"
      BY <1>3 DEF emplace_back
    <3>3. e.method \in DOMAIN route_table_
      BY <1>3 DEF emplace_back, Registered
    <3> QED BY <3>1, <3>2, <3>3, AppendToList DEF Registered
  <2>2. Requests' /\ OnlyServing' /\ OnlyUnknownMethodsRace'
    BY <1>3 DEF emplace_back, Requests, OnlyServing, OnlyUnknownMethodsRace
  <2> QED BY <2>1, <2>2
<1>4. CASE RegexError
  BY <1>4 DEF RegexError, Registered, Requests, OnlyServing, OnlyUnknownMethodsRace
<1>5. CASE Start
  BY <1>5 DEF Start, Registered, Requests, OnlyServing, OnlyUnknownMethodsRace
<1> QED BY <1>1, <1>2, <1>3, <1>4, <1>5 DEF Registration

\* A call keeps it too: only Insert can race, for a method without an entry.
LEMMA CallsKeepRaceInv ==
    ASSUME RaceInv, NEW w \in Thread, Call(w)
    PROVE  RaceInv'
<1> USE DEF RaceInv
<1>1. main = "serving" /\ main' = "serving"
  BY CallsKeepRegistered, CallsOnlyServing
<1>2. Registered'
  BY <1>1, CallsKeepRegistered DEF Registered
<1>3. Requests'
  BY DEF Requests, Call, Lookup, process_route, Copy, Insert, TornLookup, Search, Return
<1>4. OnlyServing'
  BY <1>1 DEF OnlyServing
<1>5. OnlyUnknownMethodsRace'
  <2>1. CASE raced' = raced
    BY <2>1, CallsKeepRegistered DEF OnlyUnknownMethodsRace
  <2>2. CASE Insert(w)
    <3>1. PICK name \in Asked : request[w].method = code(name)
      BY <2>2 DEF Insert, Requests
    <3>2. \A n \in DOMAIN registered : registered[n].method # code(name)
      BY <2>2, <3>1 DEF Insert, Registered
    <3> QED BY <3>2, CallsKeepRegistered DEF OnlyUnknownMethodsRace
  <2> QED BY <2>1, <2>2 DEF Call, Lookup, process_route, Copy, TornLookup, Search, Return
<1> QED BY <1>2, <1>3, <1>4, <1>5

\* The shared table is written to during a lookup of another thread only when
\* a request asks for a method that no route was registered for.
THEOREM RacesOnlyOnUnknownMethods == RouterSpec => []OnlyUnknownMethodsRace
<1>1. RouterInit => RaceInv
  BY EmptyIsList DEF RouterInit, RaceInv, Registered, Requests, OnlyServing, OnlyUnknownMethodsRace
<1>2. RaceInv /\ [RouterNext]_routerVars => RaceInv'
  <2> SUFFICES ASSUME RaceInv, [RouterNext]_routerVars PROVE RaceInv'
    OBVIOUS
  <2>1. CASE UNCHANGED routerVars
    BY <2>1 DEF routerVars, calls, RaceInv, Registered, Requests, OnlyServing, OnlyUnknownMethodsRace
  <2> QED BY <2>1, RegistrationKeepsRaceInv, CallsKeepRaceInv DEF RouterNext, Terminated
<1>3. RaceInv => OnlyUnknownMethodsRace
  BY DEF RaceInv
<1> QED BY <1>1, <1>2, <1>3, PTL DEF RouterSpec

-----------------------------------------------------------------------------
(* The types. *)

\* A vector of routes, whose handlers are those of the first n registered.
RouteList(list, n) ==
    IsList(list) /\ \A i \in DOMAIN list : list[i].job \in 1 .. n

\* The entries and the copies are such vectors; a new route is one of those given to on().
Lists ==
    /\ \A m \in DOMAIN route_table_ : RouteList(route_table_[m], Len(registered))
    /\ DOMAIN routes = Thread
    /\ \A w \in Thread : RouteList(routes[w], Len(registered))
    /\ main = "constructing" => adding \in Method /\ template \in Templates

TypeInv == RouterTypeOK /\ Requests /\ Lists

\* The new entry of a method that had none is a vector.
LEMMA NewEntryIsList ==
    ASSUME NEW n, \A m \in DOMAIN route_table_ : RouteList(route_table_[m], n), NEW k
    PROVE  \A m \in DOMAIN WithEntry(route_table_, k) : RouteList(WithEntry(route_table_, k)[m], n)
  BY EmptyIsList DEF WithEntry, RouteList

\* Registration keeps the types.
LEMMA RegistrationKeepsTypes ==
    ASSUME TypeInv, OnlyServing, Registration
    PROVE  TypeInv'
<1> USE DEF TypeInv
<1>1. Requests'
  BY DEF Registration, on, Construct, emplace_back, RegexError, Start, calls, Requests
<1>2. at' = at /\ request' = request /\ job' = job /\ raced' = raced /\ routes' = routes
  BY DEF Registration, on, Construct, emplace_back, RegexError, Start, calls
<1>3. raced' \in BOOLEAN
  BY <1>2, Zenon DEF RouterTypeOK
<1>4. ASSUME NEW method \in Method, NEW ex \in Templates, on(method, ex) PROVE RouterTypeOK' /\ Lists'
  <2>1. route_table_' = WithEntry(route_table_, method) /\ registered' = registered
        /\ main' = "constructing" /\ adding' = method /\ template' = ex
    BY <1>4 DEF on
  <2>2. \A m \in DOMAIN route_table_' : RouteList(route_table_'[m], Len(registered))
    BY <2>1, NewEntryIsList DEF Lists
  <2>3. Lists'
    BY <1>2, <2>1, <2>2 DEF Lists, RouteList
  <2>4. DOMAIN route_table_' \subseteq KnownMethods \cup {"INVALID"}
    BY <2>1, RouterAssumption DEF RouterTypeOK, WithEntry
  <2> QED BY <1>1, <1>2, <1>3, <2>1, <2>3, <2>4 DEF RouterTypeOK
<1>5. CASE emplace_back
  <2> DEFINE e == [method |-> adding, template |-> template]
             r == [expr |-> route, keys |-> keys, job |-> Len(registered) + 1, hits |-> 0]
  <2>1. /\ adding \in Method /\ template \in Templates
        /\ registered' = Append(registered, e)
        /\ route_table_' = [route_table_ EXCEPT ![adding] = Append(@, r)]
        /\ main' = "registering" /\ adding' = adding
    BY <1>5 DEF emplace_back, Lists
  <2>2. e \in [method : Method, template : Templates]
    BY <2>1
  <2>3. registered' \in Seq([method : Method, template : Templates]) /\ Len(registered) \in Nat
        /\ Len(registered') = Len(registered) + 1
    BY <2>1, <2>2 DEF RouterTypeOK
  <2>4. r.job = Len(registered')
    BY <2>3
  <2> HIDE DEF e, r
  <2>5. ASSUME NEW list, RouteList(list, Len(registered))
        PROVE  RouteList(list, Len(registered')) /\ RouteList(Append(list, r), Len(registered'))
    <3>1. RouteList(list, Len(registered'))
      BY <2>3, <2>5 DEF RouteList
    <3>2. /\ IsList(Append(list, r)) /\ Len(list) \in Nat
          /\ DOMAIN list = 1 .. Len(list) /\ DOMAIN Append(list, r) = 1 .. Len(list) + 1
          /\ Append(list, r)[Len(list) + 1] = r
          /\ \A i \in 1 .. Len(list) : Append(list, r)[i] = list[i]
      BY <2>5, AppendToList DEF RouteList
    <3>3. ASSUME NEW i \in 1 .. Len(list) + 1 PROVE Append(list, r)[i].job \in 1 .. Len(registered')
      <4>1. CASE i \in 1 .. Len(list)
        BY <3>1, <3>2, <4>1 DEF RouteList
      <4>2. CASE i = Len(list) + 1
        BY <2>3, <2>4, <3>2, <4>2
      <4> QED BY <3>2, <4>1, <4>2
    <3> QED BY <3>1, <3>2, <3>3 DEF RouteList
  <2>6. Lists'
    <3>1. ASSUME NEW m \in DOMAIN route_table_' PROVE RouteList(route_table_'[m], Len(registered'))
      <4>1. RouteList(route_table_[m], Len(registered')) /\ RouteList(Append(route_table_[m], r), Len(registered'))
        BY <2>1, <2>5 DEF Lists
      <4>2. route_table_'[m] \in {route_table_[m], Append(route_table_[m], r)}
        BY <2>1
      <4> QED BY <4>1, <4>2
    <3>2. \A w \in Thread : RouteList(routes[w], Len(registered'))
      BY <2>5 DEF Lists
    <3> QED BY <1>2, <2>1, <3>1, <3>2 DEF Lists
  <2>7. job' \in [Thread -> 0 .. Len(registered')]
    BY <1>2, <2>3 DEF RouterTypeOK
  <2>8. DOMAIN route_table_' = DOMAIN route_table_
    BY <2>1
  <2>9. RouterTypeOK'
    BY <1>2, <1>3, <2>1, <2>3, <2>7, <2>8 DEF RouterTypeOK
  <2> QED BY <1>1, <2>6, <2>9
<1>6. CASE Construct \/ RegexError \/ Start
  <2>1. /\ UNCHANGED <<route_table_, registered, adding, template>>
        /\ main' \in {main, "terminated", "serving"} /\ (main' = "constructing" => main = main')
    BY <1>6 DEF Construct, RegexError, Start, Parse, ParseEscaped, ParseKey, ParseRest,
       tokens_to_keys, tokens_to_regex, TranslateToken, Finish, conversion, vars
  <2>2. main' \in {"registering", "constructing", "serving", "terminated"}
    BY <2>1 DEF RouterTypeOK
  <2>3. RouterTypeOK'
    BY <1>2, <1>3, <2>1, <2>2 DEF RouterTypeOK
  <2>4. Lists'
    BY <1>2, <2>1 DEF Lists, RouteList
  <2> QED BY <1>1, <2>3, <2>4
<1> QED BY <1>1, <1>4, <1>5, <1>6 DEF Registration

\* So do the calls: an entry is inserted for a method of those there are.
LEMMA CallsKeepTypes ==
    ASSUME TypeInv, RaceInv, NEW w \in Thread, Call(w)
    PROVE  TypeInv'
<1> USE DEF TypeInv
<1>1. UNCHANGED <<registered, main, adding, template>>
  BY CallsKeepRegistered DEF conversion, vars
<1>2. Requests'
  BY CallsKeepRaceInv DEF RaceInv
<1>3. at[w] # "idle" => request[w].method \in KnownMethods \cup {"INVALID"}
  BY DEF Requests, code
<1>4. \/ UNCHANGED route_table_
      \/ /\ at[w] # "idle"
         /\ \/ route_table_' = WithEntry(route_table_, request[w].method)
            \/ route_table_' = [WithEntry(route_table_, request[w].method)
                                    EXCEPT ![request[w].method] = <<>>]
  BY DEF Call, Lookup, process_route, Copy, Insert, TornLookup, Search, Return
<1>5. DOMAIN route_table_' \subseteq KnownMethods \cup {"INVALID"}
  BY <1>3, <1>4 DEF RouterTypeOK, WithEntry
<1>6. \A m \in DOMAIN WithEntry(route_table_, request[w].method) :
          RouteList(WithEntry(route_table_, request[w].method)[m], Len(registered))
  BY NewEntryIsList DEF Lists
<1>7. RouteList(<<>>, Len(registered))
  BY EmptyIsList DEF RouteList
<1>8. \A m \in DOMAIN route_table_' : RouteList(route_table_'[m], Len(registered))
  BY <1>4, <1>6, <1>7 DEF Lists
<1>9. DOMAIN routes' = Thread /\ \A v \in Thread : RouteList(routes'[v], Len(registered))
  <2>1. CASE Copy(w)
    BY <2>1 DEF Copy, Lists
  <2>2. CASE TornLookup(w)
    <3>1. request[w].method \in DOMAIN WithEntry(route_table_, request[w].method)
      BY DEF WithEntry
    <3>2. PICK list : routes' = [routes EXCEPT ![w] = list] /\ RouteList(list, Len(registered))
      BY <1>6, <1>7, <2>2, <3>1 DEF TornLookup
    <3> QED BY <3>2 DEF Lists
  <2>3. CASE Insert(w) \/ Search(w) \/ process_route(w) \/ Return(w)
    BY <1>7, <2>3 DEF Insert, Search, process_route, Return, Lists
  <2> QED BY <2>1, <2>2, <2>3 DEF Call, Lookup
<1>10. Lists'
  BY <1>1, <1>8, <1>9 DEF Lists, RouteList
<1>11. job' \in [Thread -> 0 .. Len(registered)]
  <2>1. Len(registered) \in Nat
    BY DEF RouterTypeOK
  <2>2. CASE Search(w)
    <3>1. \A i \in Fitting(routes[w], request[w].path) : routes[w][i].job \in 1 .. Len(registered)
      BY DEF Fitting, Lists, RouteList
    <3> QED BY <2>1, <2>2, <3>1 DEF Search, RouterTypeOK
  <2>3. CASE ~Search(w)
    BY <2>1, <2>3 DEF Call, Lookup, process_route, Copy, Insert, TornLookup, Return, RouterTypeOK
  <2> QED BY <2>2, <2>3
<1>12. raced' \in BOOLEAN
  <2>1. CASE UNCHANGED raced
    BY <2>1, Zenon DEF RouterTypeOK
  <2>2. CASE Insert(w)
    BY <2>2, Zenon DEF Insert
  <2> QED BY <2>1, <2>2 DEF Call, Lookup, process_route, Copy, TornLookup, Search, Return
<1>13. RouterTypeOK'
  BY <1>1, <1>2, <1>5, <1>11, <1>12 DEF RouterTypeOK, Requests
<1> QED BY <1>2, <1>10, <1>13

LEMMA RouterStartsTyped == RouterInit => TypeInv /\ RaceInv
<1> SUFFICES ASSUME RouterInit PROVE TypeInv /\ RaceInv
  OBVIOUS
<1>1. RaceInv
  BY EmptyIsList DEF RouterInit, RaceInv, Registered, Requests, OnlyServing, OnlyUnknownMethodsRace
<1>2. Lists
  BY EmptyIsList DEF RouterInit, Lists, RouteList
<1>3. raced \in BOOLEAN
  BY Zenon DEF RouterInit
<1>4. registered \in Seq([method : Method, template : Templates])
  BY DEF RouterInit
<1>5. job \in [Thread -> 0 .. Len(registered)]
  BY DEF RouterInit
<1>6. RouterTypeOK
  BY <1>3, <1>4, <1>5 DEF RouterInit, RouterTypeOK
<1> QED BY <1>1, <1>2, <1>6 DEF TypeInv, RaceInv

\* Every step keeps TypeInv and RaceInv.
LEMMA RouterKeepsTypes ==
    ASSUME TypeInv, RaceInv, [RouterNext]_routerVars
    PROVE  (TypeInv /\ RaceInv)'
<1>1. CASE UNCHANGED routerVars
  <2>1. RaceInv'
    BY <1>1 DEF routerVars, calls, RaceInv, Registered, Requests, OnlyServing, OnlyUnknownMethodsRace
  <2>2. UNCHANGED <<route_table_, registered, main, adding, at, request, routes, job, raced, template>>
    BY <1>1 DEF routerVars, calls, conversion, vars
  <2>3. Lists' /\ Requests'
    BY <2>2 DEF TypeInv, Lists, RouteList, Requests
  <2>4. RouterTypeOK'
    BY <2>2 DEF TypeInv, RouterTypeOK
  <2> QED BY <2>1, <2>3, <2>4 DEF TypeInv
<1>2. CASE Registration
  BY <1>2, RegistrationKeepsTypes, RegistrationKeepsRaceInv DEF RaceInv
<1>3. ASSUME NEW w \in Thread, Call(w) PROVE (TypeInv /\ RaceInv)'
  BY <1>3, CallsKeepTypes, CallsKeepRaceInv
<1> QED BY <1>1, <1>2, <1>3 DEF RouterNext, Terminated

\* Whatever is asked for, the table has entries for methods only, at most one each, and
\* every handler that runs is one that was registered.
THEOREM RouterTypeCorrect == RouterSpec => []RouterTypeOK
<1>1. RouterInit => TypeInv /\ RaceInv
  BY RouterStartsTyped
<1>2. TypeInv /\ RaceInv /\ [RouterNext]_routerVars => (TypeInv /\ RaceInv)'
  BY RouterKeepsTypes
<1>3. TypeInv => RouterTypeOK
  BY DEF TypeInv
<1> QED BY <1>1, <1>2, <1>3, PTL DEF RouterSpec

-----------------------------------------------------------------------------
(* Every route that is registered goes through the steps of path_to_regex. *)

ConversionInv == MeaningInv /\ NumberingInv

\* What a call of on() makes of the variables of the conversion.
Begun ==
    /\ template \in Seq(Pieces) /\ pc = "parse"
    /\ index = 0 /\ path = <<>> /\ key = 0
    /\ tokens = <<>> /\ keys = <<>>
    /\ translated = 0 /\ route = <<>>

LEMMA BeginsAgain == Begun' => ConversionInv'
<1>1. Begun => ConversionInv
    BY StartOfMeaning, StartOfNumbering DEF Begun, ConversionInv
<1> QED
    BY <1>1, PTL

\* Before the first route is registered, the conversion stands at the end of an
\* empty template.
LEMMA NothingConverted == RouterInit => ConversionInv
<1> SUFFICES ASSUME RouterInit PROVE ConversionInv
    OBVIOUS
<1>1. /\ template = <<>> /\ index = 0 /\ path = <<>> /\ key = 0 /\ tokens = <<>> /\ keys = <<>>
      /\ translated = 0 /\ route = <<>> /\ pc = "done"
    BY DEF RouterInit
<1>2. /\ template \in Seq(Pieces) /\ tokens \in Seq(Tokens) /\ path \in Seq(Letter)
      /\ route \in Seq(Elements) /\ Len(<<>>) = 0
    BY <1>1
<1>3. ParsedTypes
    BY <1>1, <1>2 DEF ParsedTypes
<1>4. RegexMeansTemplate
  <2>1. RegexPaths(<<>>) = {<<>>}
      BY RegexPathsEmpty
  <2>2. Denotes(<<>>) = {<<>>}
      BY DEF Denotes
  <2> QED
      BY <1>1, <2>1, <2>2 DEF RegexMeansTemplate
<1>5. NumberingInv
  <2>1. Grouped(tokens, 0, <<>>)
      BY <1>2, GroupedNothing
  <2>2. KeysUpTo(template, 0) = {} /\ NamelessUpTo(template, 0) = {}
    <3>1. KeyPositions(template) = {}
        BY <1>1 DEF KeyPositions
    <3> QED
        BY <3>1 DEF KeysUpTo, UpToElement, NamelessUpTo
  <2>3. Cardinality({}) = 0 /\ Keys(<<>>) = <<>>
      BY FS_EmptySet, KeysOfNothing
  <2>4. NamedAs(Keys(tokens), template, Len(template))
      BY <1>1, <1>2, <2>2, <2>3 DEF NamedAs
  <2>5. Cardinality(Groups(route)) = Len(keys)
      BY <1>1, <1>2, <2>1, <2>3 DEF Groups
  <2> QED
      BY <1>1, <1>2, <2>1, <2>3, <2>4, <2>5 DEF NumberingInv
<1> QED
    BY <1>1, <1>3, <1>4, <1>5 DEF MeaningInv, ConversionInv

LEMMA RouterKeepsConversion ==
    ASSUME TemplatesOfPieces, ConversionInv, [RouterNext]_routerVars
    PROVE  ConversionInv'
<1>1. ASSUME NEW method \in Method, NEW ex \in Templates, on(method, ex) PROVE ConversionInv'
  <2>1. Begun'
      BY <1>1 DEF on, Begun, TemplatesOfPieces
  <2> QED
      BY <2>1, BeginsAgain
<1>2. CASE Construct
    BY <1>2, ParseKeepsMeaning, ParseKeepsNumbering, KeysKeepMeaning, RegexKeepsMeaning,
       OthersKeepNumbering DEF Construct, ConversionInv
<1>3. CASE UNCHANGED conversion
    BY <1>3 DEF conversion, vars, ConversionInv, MeaningInv, ParsedTypes, RegexMeansTemplate, NumberingInv
<1>4. CASE Registration
    BY <1>1, <1>2, <1>3, <1>4 DEF Registration, emplace_back, RegexError, Start
<1>5. ASSUME NEW w \in Thread, Call(w) PROVE UNCHANGED conversion
    BY <1>5, CallsKeepRegistered
<1> QED
    BY <1>3, <1>4, <1>5 DEF RouterNext, Terminated, routerVars

\* What RegexMeansWhatTemplateSays says of one template holds of each route that a router
\* registers, since every registration begins the translation anew.
LEMMA RegisteredRegexMeansTemplate ==
    ASSUME TemplatesOfPieces
    PROVE  RouterSpec => []RegexMeansTemplate
<1>1. RouterInit => ConversionInv
    BY NothingConverted
<1>2. ConversionInv /\ [RouterNext]_routerVars => ConversionInv'
    BY RouterKeepsConversion
<1>3. ConversionInv => RegexMeansTemplate
    BY DEF ConversionInv, MeaningInv
<1> QED
    BY <1>1, <1>2, <1>3, PTL DEF RouterSpec

-----------------------------------------------------------------------------
(* Which route answers. *)

\* The entry of a method, as long as no insertion raced: the routes registered for
\* it and no others, in the order of registration.
EntryOf(m) ==
    /\ IsList(route_table_[m])
    /\ \A i \in DOMAIN route_table_[m] :
          LET n == route_table_[m][i].job
          IN  /\ n \in DOMAIN registered
              /\ registered[n].method = m
              /\ RegexPaths(route_table_[m][i].expr) = Denotes(registered[n].template)
    /\ \A i, k \in DOMAIN route_table_[m] :
          i < k => route_table_[m][i].job < route_table_[m][k].job

Complete ==
    \A n \in DOMAIN registered :
        \E i \in DOMAIN route_table_[registered[n].method] :
            route_table_[registered[n].method][i].job = n

InOrder == ~raced => Complete /\ \A m \in DOMAIN route_table_ : EntryOf(m)

\* Without a race every lookup sees the entry of its method.
Copies ==
    \A w \in Thread :
        /\ at[w] = "torn" => raced
        /\ at[w] = "search" /\ ~raced =>
              /\ request[w].method \in DOMAIN route_table_
              /\ routes[w] = route_table_[request[w].method]

Calls == DOMAIN job = Thread /\ DOMAIN routes = Thread

OrderInv == RaceInv /\ InOrder /\ Copies /\ Calls /\ FirstRegisteredAnswers

\* A new route comes last in the entry of its method and in the registration.
LEMMA EmplaceKeepsOrder ==
    ASSUME RaceInv, InOrder, emplace_back, RegexMeansTemplate
    PROVE  InOrder'
<1> DEFINE r == [expr |-> route, keys |-> keys, job |-> Len(registered) + 1, hits |-> 0]
           e == [method |-> adding, template |-> template]
<1> SUFFICES ASSUME ~raced PROVE Complete' /\ \A m \in DOMAIN route_table_' : EntryOf(m)'
  BY DEF emplace_back, InOrder
<1>1. /\ adding \in DOMAIN route_table_
      /\ IsList(registered)
      /\ Complete
      /\ \A m \in DOMAIN route_table_ : EntryOf(m)
  BY DEF emplace_back, RaceInv, Registered, InOrder
<1>2. /\ DOMAIN route_table_' = DOMAIN route_table_
      /\ route_table_'[adding] = Append(route_table_[adding], r)
      /\ \A m \in DOMAIN route_table_ \ {adding} : route_table_'[m] = route_table_[m]
  BY <1>1 DEF emplace_back
<1>3. /\ Len(registered) \in Nat
      /\ DOMAIN registered = 1 .. Len(registered)
      /\ DOMAIN registered' = 1 .. Len(registered) + 1
      /\ registered'[Len(registered) + 1] = e
      /\ \A n \in DOMAIN registered : registered'[n] = registered[n]
  BY <1>1, AppendToList DEF emplace_back
<1>4. RegexPaths(route) = Denotes(template)
  BY DEF emplace_back, RegexMeansTemplate
<1>5. DEFINE old == route_table_[adding]
<1>6. /\ IsList(old) /\ Len(old) \in Nat
      /\ DOMAIN old = 1 .. Len(old)
      /\ IsList(Append(old, r))
      /\ DOMAIN Append(old, r) = 1 .. Len(old) + 1
      /\ Append(old, r)[Len(old) + 1] = r
      /\ \A i \in 1 .. Len(old) : Append(old, r)[i] = old[i]
  BY <1>1, AppendToList DEF EntryOf
<1> HIDE DEF r, e, old
<1>7. /\ r.job = Len(registered) + 1 /\ r.expr = route
      /\ e.method = adding /\ e.template = template
  BY DEF r, e
<1>8. ASSUME NEW m \in DOMAIN route_table_, m = adding PROVE EntryOf(m)'
  <2>1. IsList(route_table_'[m])
    BY <1>8, <1>2, <1>6 DEF old
  <2>2. ASSUME NEW i \in DOMAIN route_table_'[m]
        PROVE  LET n == route_table_'[m][i].job
               IN  /\ n \in DOMAIN registered'
                   /\ registered'[n].method = m
                   /\ RegexPaths(route_table_'[m][i].expr) = Denotes(registered'[n].template)
    <3>1. CASE i \in 1 .. Len(old)
      <4>1. route_table_'[m][i] = old[i]
        BY <1>8, <1>2, <1>6, <3>1 DEF old
      <4>2. /\ old[i].job \in DOMAIN registered
            /\ registered[old[i].job].method = m
            /\ RegexPaths(old[i].expr) = Denotes(registered[old[i].job].template)
        BY <1>8, <1>1, <1>6, <3>1 DEF EntryOf, old
      <4> QED BY <1>8, <1>3, <4>1, <4>2
    <3>2. CASE i = Len(old) + 1
      BY <1>8, <1>2, <1>3, <1>4, <1>6, <1>7, <3>2 DEF old
    <3> QED BY <1>8, <1>2, <1>6, <2>2, <3>1, <3>2 DEF old
  <2>3. ASSUME NEW i \in DOMAIN route_table_'[m], NEW k \in DOMAIN route_table_'[m], i < k
        PROVE  route_table_'[m][i].job < route_table_'[m][k].job
    <3>1. i \in 1 .. Len(old) /\ route_table_'[m][i] = old[i] /\ old[i].job \in DOMAIN registered
      BY <1>8, <1>1, <1>2, <1>6, <2>3 DEF EntryOf, old
    <3>2. CASE k \in 1 .. Len(old)
      BY <1>8, <1>1, <1>2, <1>6, <2>3, <3>1, <3>2 DEF EntryOf, old
    <3>3. CASE k = Len(old) + 1
      BY <1>8, <1>2, <1>3, <1>6, <1>7, <3>1, <3>3 DEF old
    <3> QED BY <1>8, <1>2, <1>6, <2>3, <3>2, <3>3 DEF old
  <2> QED BY <2>1, <2>2, <2>3 DEF EntryOf
<1>9. ASSUME NEW m \in DOMAIN route_table_ \ {adding} PROVE EntryOf(m)'
  BY <1>1, <1>2, <1>3, <1>9 DEF EntryOf
<1>10. Complete'
  <2> SUFFICES ASSUME NEW n \in DOMAIN registered'
               PROVE  \E i \in DOMAIN route_table_'[registered'[n].method] :
                          route_table_'[registered'[n].method][i].job = n
    BY DEF Complete
  <2>1. CASE n = Len(registered) + 1
    <3>1. registered'[n].method = adding
      BY <1>3, <1>7, <2>1
    <3>2. Len(old) + 1 \in DOMAIN route_table_'[adding] /\ route_table_'[adding][Len(old) + 1].job = n
      BY <1>2, <1>6, <1>7, <2>1 DEF old
    <3> QED BY <3>1, <3>2
  <2>2. CASE n \in DOMAIN registered
    <3>1. PICK i \in DOMAIN route_table_[registered[n].method] :
                   route_table_[registered[n].method][i].job = n
      BY <1>1, <2>2 DEF Complete
    <3>2. registered[n].method \in DOMAIN route_table_ /\ registered'[n] = registered[n]
      BY <1>3, <2>2 DEF RaceInv, Registered
    <3> QED BY <1>2, <1>6, <3>1, <3>2 DEF old
  <2> QED BY <1>3, <2>1, <2>2
<1> QED BY <1>2, <1>8, <1>9, <1>10

\* An empty entry for a method without one hides nothing.
LEMMA NewEntryKeepsOrder ==
    ASSUME RaceInv, InOrder, NEW m, route_table_' = WithEntry(route_table_, m),
           registered' = registered, raced => raced'
    PROVE  InOrder'
<1> SUFFICES ASSUME ~raced, ~raced' PROVE Complete' /\ \A k \in DOMAIN route_table_' : EntryOf(k)'
  BY DEF InOrder
<1>1. \A k \in DOMAIN route_table_ : route_table_'[k] = route_table_[k] /\ EntryOf(k)
  BY DEF WithEntry, InOrder
<1>2. \A k \in DOMAIN route_table_' \ DOMAIN route_table_ : route_table_'[k] = <<>>
  BY DEF WithEntry
<1>3. ASSUME NEW k \in DOMAIN route_table_' PROVE EntryOf(k)'
  <2>1. CASE k \in DOMAIN route_table_
    BY <1>1, <2>1 DEF EntryOf
  <2>2. CASE k \notin DOMAIN route_table_
    BY <1>2, <2>2, EmptyIsList DEF EntryOf
  <2> QED BY <2>1, <2>2
<1>4. Complete'
  BY <1>1 DEF Complete, InOrder, RaceInv, Registered
<1> QED BY <1>3, <1>4

\* Nothing but the table and the registration matters for the order.
LEMMA OthersKeepOrder ==
    ASSUME InOrder, UNCHANGED <<route_table_, registered, raced>>
    PROVE  InOrder'
  BY DEF InOrder, Complete, EntryOf

\* Steps of registration keep the order; no call is under way.
LEMMA RegistrationKeepsOrder ==
    ASSUME OrderInv, Registration, RegexMeansTemplate
    PROVE  OrderInv'
<1> USE DEF OrderInv
<1>1. RaceInv'
  BY RegistrationKeepsRaceInv
<1>2. /\ main # "serving" /\ ~raced /\ raced' = raced /\ at' = at
      /\ job' = job /\ routes' = routes
      /\ \A w \in Thread : at[w] = "idle"
  BY DEF Registration, on, Construct, emplace_back, RegexError, Start, calls, RaceInv, OnlyServing
<1>3. Copies' /\ Calls' /\ FirstRegisteredAnswers'
  BY <1>2 DEF Copies, Calls, FirstRegisteredAnswers
<1>4. InOrder'
  <2>1. ASSUME NEW method \in Method, NEW ex \in Templates, on(method, ex) PROVE InOrder'
    BY <1>2, <2>1, NewEntryKeepsOrder DEF on
  <2>2. CASE emplace_back
    BY <2>2, EmplaceKeepsOrder
  <2>3. CASE UNCHANGED <<route_table_, registered, raced>>
    BY <2>3, OthersKeepOrder
  <2> QED BY <2>1, <2>2, <2>3 DEF Registration, Construct, RegexError, Start
<1> QED BY <1>1, <1>3, <1>4

\* The answer of Search is the first registered route that fits.
LEMMA SearchAnswersFirst ==
    ASSUME OrderInv, NEW w \in Thread, Search(w)
    PROVE  FirstRegisteredAnswers'
<1> SUFFICES ASSUME ~raced, NEW v \in Thread
             PROVE  LET fits == {n \in DOMAIN registered :
                                    /\ registered[n].method = request[v].method
                                    /\ request[v].path \in Denotes(registered[n].template)}
                    IN  /\ at'[v] = "unrouted" => fits = {}
                        /\ at'[v] = "handler" => job'[v] \in fits /\ \A n \in fits : job'[v] <= n
  BY DEF Search, FirstRegisteredAnswers
<1> DEFINE fits == {n \in DOMAIN registered :
                       /\ registered[n].method = request[w].method
                       /\ request[w].path \in Denotes(registered[n].template)}
           m == request[w].method
           fit == Fitting(routes[w], request[w].path)
<1>1. CASE v # w
  BY <1>1 DEF Search, OrderInv, Calls, RaceInv, Requests, FirstRegisteredAnswers
<1>2. CASE v = w
  <2>1. m \in DOMAIN route_table_ /\ routes[w] = route_table_[m] /\ EntryOf(m) /\ Complete
    BY DEF Search, OrderInv, Copies, InOrder
  <2>2. ASSUME NEW i \in fit
        PROVE  i \in DOMAIN route_table_[m] /\ route_table_[m][i].job \in fits
    BY <2>1 DEF Fitting, EntryOf
  <2>3. ASSUME NEW n \in fits
        PROVE  \E i \in fit : route_table_[m][i].job = n
    BY <2>1 DEF Fitting, EntryOf, Complete
  <2>4. CASE at'[w] = "unrouted"
    <3>1. fit = {}
      BY <2>4 DEF Search, OrderInv, RaceInv, Requests
    <3> QED BY <1>2, <2>3, <2>4, <3>1
  <2>5. CASE at'[w] = "handler"
    <3>1. PICK i \in fit : /\ \A l \in fit : i <= l
                           /\ job'[w] = routes[w][i].job
      BY <2>5 DEF Search, OrderInv, RaceInv, Requests, Calls
    <3>2. job'[w] = route_table_[m][i].job /\ job'[w] \in fits
      BY <2>1, <2>2, <3>1
    <3>3. ASSUME NEW n \in fits PROVE job'[w] <= n
      <4>1. PICK k \in fit : route_table_[m][k].job = n
        BY <2>3
      <4>2. DOMAIN registered = 1 .. Len(registered) /\ Len(registered) \in Nat
        BY AppendToList DEF OrderInv, RaceInv, Registered
      <4>3. DOMAIN route_table_[m] = 1 .. Len(route_table_[m]) /\ Len(route_table_[m]) \in Nat
        BY <2>1, AppendToList DEF EntryOf
      <4>4. i <= k /\ i \in DOMAIN route_table_[m] /\ k \in DOMAIN route_table_[m]
        BY <2>2, <3>1
      <4>5. i < k => route_table_[m][i].job < route_table_[m][k].job
        BY <2>1, <4>4 DEF EntryOf
      <4> HIDE DEF fit
      <4>6. i = k \/ i < k
        BY <4>3, <4>4
      <4> QED BY <3>2, <4>1, <4>2, <4>5, <4>6
    <3> QED BY <1>2, <2>5, <3>2, <3>3
  <2> QED BY <1>2, <2>4, <2>5
<1> QED BY <1>1, <1>2

\* Calls keep the order, and the copies they search are those of the table.
LEMMA CallsKeepOrder ==
    ASSUME OrderInv, NEW w \in Thread, Call(w)
    PROVE  OrderInv'
<1>1. RaceInv'
  BY CallsKeepRaceInv DEF OrderInv
<1>2. UNCHANGED registered
  BY CallsKeepRegistered
<1>3. InOrder'
  <2>1. CASE Insert(w)
    BY <1>2, <2>1, NewEntryKeepsOrder DEF Insert, OrderInv
  <2>2. CASE TornLookup(w)
    BY <2>2 DEF TornLookup, InOrder, OrderInv, Copies
  <2>3. CASE UNCHANGED <<route_table_, raced>>
    BY <1>2, <2>3, OthersKeepOrder DEF OrderInv
  <2> QED BY <2>1, <2>2, <2>3 DEF Call, Lookup, process_route, Copy, Search, Return
<1>4. Calls'
  BY DEF OrderInv, Calls, Call, Lookup, process_route, Copy, Insert, TornLookup, Search, Return
<1> USE DEF OrderInv
<1>5. Copies'
  <2> USE DEF Copies, Calls, RaceInv, Requests
  <2>1. CASE process_route(w) BY <2>1 DEF process_route
  <2>2. CASE Copy(w) BY <2>2 DEF Copy
  <2>3. CASE Insert(w)
    <3>1. WithEntry(route_table_, request[w].method)[request[w].method] = <<>>
      BY <2>3 DEF Insert, WithEntry
    <3> QED BY <2>3, <3>1 DEF Insert, WithEntry
  <2>4. CASE TornLookup(w) BY <2>4 DEF TornLookup
  <2>5. CASE Search(w) BY <2>5 DEF Search
  <2>6. CASE Return(w) BY <2>6 DEF Return
  <2> QED BY <2>1, <2>2, <2>3, <2>4, <2>5, <2>6 DEF Call, Lookup
<1>6. FirstRegisteredAnswers'
  <2>1. CASE Search(w)
    BY <2>1, SearchAnswersFirst
  <2>2. CASE ~Search(w)
    <3>1. ASSUME NEW v \in Thread, at'[v] \in {"unrouted", "handler"}
          PROVE  at[v] = at'[v] /\ request'[v] = request[v] /\ job'[v] = job[v]
      BY <2>2, <3>1 DEF Calls, RaceInv, Requests, Call, Lookup, process_route, Copy, Insert,
         TornLookup, Return
    <3>2. raced => raced'
      BY DEF Call, Lookup, process_route, Copy, Insert, TornLookup, Search, Return
    <3> QED BY <1>2, <3>1, <3>2 DEF FirstRegisteredAnswers
  <2> QED BY <2>1, <2>2
<1> QED BY <1>1, <1>3, <1>4, <1>5, <1>6

\* Every request, whatever else is asked for before or at the same time, is answered
\* by the first route registered for it, as long as no insertion raced with a lookup
\* (http_router.hpp:39-75), if the characters and separators of the templates mean
\* nothing in a regex.
THEOREM FirstRegisteredRouteAnswers ==
    ASSUME TemplatesOfPieces
    PROVE  RouterSpec => []FirstRegisteredAnswers
<1>1. RouterInit => OrderInv
  BY EmptyIsList DEF RouterInit, OrderInv, RaceInv, Registered, Requests, OnlyServing,
     OnlyUnknownMethodsRace, InOrder, Complete, Copies, Calls, FirstRegisteredAnswers
<1>2. OrderInv /\ RegexMeansTemplate /\ [RouterNext]_routerVars => OrderInv'
  <2> SUFFICES ASSUME OrderInv, RegexMeansTemplate, [RouterNext]_routerVars PROVE OrderInv'
    OBVIOUS
  <2>1. CASE UNCHANGED routerVars
    BY <2>1 DEF routerVars, calls, OrderInv, RaceInv, Registered, Requests, OnlyServing,
       OnlyUnknownMethodsRace, InOrder, Complete, EntryOf, Copies, Calls, FirstRegisteredAnswers
  <2> QED BY <2>1, RegistrationKeepsOrder, CallsKeepOrder DEF RouterNext, Terminated
<1>3. OrderInv => FirstRegisteredAnswers
  BY DEF OrderInv
<1>4. RouterSpec => []RegexMeansTemplate
  BY RegisteredRegexMeansTemplate
<1> QED BY <1>1, <1>2, <1>3, <1>4, PTL DEF RouterSpec

-----------------------------------------------------------------------------
(* Where the pieces of a template are in the regex. *)

\* The element that a piece becomes.
Spelled(e, t, j) ==
    IF IsKey(t[j]) THEN \E token : IsTokenOf(token, t, j) /\ e = Group(token)
                   ELSE e = Verbatim(t[j].char)

\* A separator that belongs to a key adds no element, every other piece adds its own.
IsLaid(m, r, t, j) ==
    IF Attached(t, j) THEN m[j] = m[j - 1]
    ELSE m[j] = m[j - 1] + 1 /\ Spelled(r[m[j]], t, j)

\* The first m[j] elements of r come from the first j pieces of t, for all j up to i.
Laid(m, r, t, i) ==
    /\ m \in [0 .. i -> 0 .. Len(r)] /\ m[0] = 0 /\ m[i] = Len(r)
    /\ \A j \in 1 .. i : IsLaid(m, r, t, j)

\* One piece more, with or without an element of its own.
LEMMA LaidNext ==
    ASSUME NEW t \in Seq(Pieces), NEW i \in 0 .. Len(t) - 1, NEW r \in Seq(Elements),
           NEW m, Laid(m, r, t, i)
    PROVE  /\ Attached(t, i + 1) => \E n : Laid(n, r, t, i + 1)
           /\ \A e \in Elements : ~ Attached(t, i + 1) /\ Spelled(e, t, i + 1)
                  => \E n : Laid(n, Append(r, e), t, i + 1)
<1> DEFINE Longer(x) == [j \in 0 .. i + 1 |-> IF j = i + 1 THEN x ELSE m[j]]
<1>1. /\ i \in Nat /\ Len(r) \in Nat /\ i + 1 \notin 0 .. i /\ i \in 0 .. i /\ 0 \in 0 .. i
      /\ i + 1 \in 0 .. i + 1 /\ (i + 1) - 1 = i /\ i + 1 # 0 /\ i + 1 # i
      /\ \A j \in 0 .. i + 1 : j # i + 1 => j \in 0 .. i
      /\ \A j \in 1 .. i : j \in 0 .. i /\ j - 1 \in 0 .. i
      /\ \A j \in 1 .. i + 1 : j # i + 1 => j \in 1 .. i
      /\ 0 .. i \subseteq 0 .. i + 1
    OBVIOUS
<1>2. /\ m \in [0 .. i -> 0 .. Len(r)] /\ m[0] = 0 /\ m[i] = Len(r)
      /\ \A j \in 1 .. i : IsLaid(m, r, t, j)
    BY DEF Laid
<1>3. ASSUME NEW x
      PROVE  Longer(x)[i + 1] = x /\ \A j \in 0 .. i : Longer(x)[j] = m[j]
    BY <1>1
<1>4. ASSUME NEW s \in Seq(Elements), Len(s) \in {Len(r), Len(r) + 1},
             \A k \in 1 .. Len(r) : s[k] = r[k],
             IsLaid(Longer(Len(s)), s, t, i + 1)
      PROVE  \E n : Laid(n, s, t, i + 1)
  <2> DEFINE n == Longer(Len(s))
  <2>1. n[i + 1] = Len(s) /\ \A j \in 0 .. i : n[j] = m[j]
      BY <1>3
  <2>2. 0 .. Len(r) \subseteq 0 .. Len(s) /\ Len(s) \in 0 .. Len(s)
      BY <1>1, <1>4
  <2>3. n \in [0 .. i + 1 -> 0 .. Len(s)]
      BY <1>1, <1>2, <2>2
  <2> HIDE DEF Longer
  <2>4. n[0] = 0
      BY <1>1, <1>2, <2>1
  <2>5. ASSUME NEW j \in 1 .. i PROVE IsLaid(n, s, t, j)
    <3>1. IsLaid(m, r, t, j) /\ n[j] = m[j] /\ n[j - 1] = m[j - 1]
        BY <1>1, <1>2, <2>1
    <3>2. m[j] \in 0 .. Len(r) /\ m[j - 1] \in 0 .. Len(r)
        BY <1>1, <1>2
    <3>3. m[j] = m[j - 1] + 1 => m[j] \in 1 .. Len(r)
        BY <1>1, <3>2
    <3>4. m[j] = m[j - 1] + 1 => s[m[j]] = r[m[j]]
        BY <1>4, <3>3
    <3> QED
        BY <3>1, <3>4 DEF IsLaid
  <2>6. \A j \in 1 .. i + 1 : IsLaid(n, s, t, j)
      BY <1>1, <1>4, <2>5
  <2> HIDE DEF n
  <2>7. Laid(n, s, t, i + 1)
      BY <2>1, <2>3, <2>4, <2>6 DEF Laid
  <2> QED
      BY <2>7
<1>5. ASSUME Attached(t, i + 1) PROVE \E n : Laid(n, r, t, i + 1)
  <2>1. Longer(Len(r))[i + 1] = Longer(Len(r))[(i + 1) - 1]
      BY <1>1, <1>2, <1>3
  <2> HIDE DEF Longer
  <2>2. IsLaid(Longer(Len(r)), r, t, i + 1)
      BY <1>5, <2>1 DEF IsLaid
  <2> QED
      BY <1>4, <2>2
<1>6. ASSUME NEW e \in Elements, ~ Attached(t, i + 1), Spelled(e, t, i + 1)
      PROVE  \E n : Laid(n, Append(r, e), t, i + 1)
  <2> DEFINE s == Append(r, e)
  <2>1. s \in Seq(Elements) /\ Len(s) = Len(r) + 1 /\ s[Len(r) + 1] = e
        /\ \A k \in 1 .. Len(r) : s[k] = r[k]
      BY AppendIs
  <2>2. Longer(Len(s))[i + 1] = Len(r) + 1 /\ Longer(Len(s))[(i + 1) - 1] = Len(r)
      BY <1>1, <1>2, <1>3, <2>1
  <2> HIDE DEF Longer, s
  <2>3. IsLaid(Longer(Len(s)), s, t, i + 1)
      BY <1>6, <2>1, <2>2 DEF IsLaid
  <2>4. \E n : Laid(n, s, t, i + 1)
      BY <1>4, <2>1, <2>3
  <2> QED
      BY <2>4 DEF s
<1> QED
    BY <1>5, <1>6

\* Characters that stand for themselves.
LEMMA LaidRun ==
    ASSUME NEW t \in Seq(Pieces), NEW i \in 0 .. Len(t), NEW l \in i .. Len(t), Stands(t, i, l),
           NEW r \in Seq(Elements), NEW u \in Seq(Letter), NEW m, Laid(m, r \o Chars(u), t, i)
    PROVE  \E n : Laid(n, r \o Chars(u \o Run(t, i, l)), t, l)
<1> DEFINE Good == {k \in 0 .. l - i : \E n : Laid(n, r \o Chars(u \o Run(t, i, i + k)), t, i + k)}
<1>0. i \in Nat /\ l \in Nat /\ l - i \in Nat /\ Len(t) \in Nat /\ 0 \in 0 .. l - i /\ i + 0 = i /\ i \in i .. Len(t)
      /\ i + (l - i) = l /\ l - i \in 0 .. l - i
    OBVIOUS
<1>1. 0 \in Good
  <2>1. Stands(t, i, i)
      BY <1>0 DEF Stands
  <2>2. Run(t, i, i) = <<>>
      BY <1>0, <2>1, RunNext
  <2>3. u \o Run(t, i, i + 0) = u
      BY <1>0, <2>2
  <2> HIDE DEF Good
  <2>4. \E n : Laid(n, r \o Chars(u \o Run(t, i, i + 0)), t, i + 0)
      BY <1>0, <2>3
  <2> QED
      BY <1>0, <2>4 DEF Good
<1>2. ASSUME NEW k \in 0 .. l - i - 1, k \in Good PROVE k + 1 \in Good
  <2> DEFINE h == i + k
             c == t[h + 1].char
             v == u \o Run(t, i, h)
  <2>1. /\ h \in Nat /\ h \in 0 .. Len(t) - 1 /\ h + 1 \in i .. Len(t) /\ h + 1 > i /\ (h + 1) - 1 = h
        /\ k + 1 \in 0 .. l - i /\ i + (k + 1) = h + 1 /\ h + 1 \in i + 1 .. l /\ h + 1 \in 1 .. Len(t)
        /\ h \in i .. Len(t)
      BY <1>0
  <2>2. Stands(t, i, h + 1) /\ ~ IsKey(t[h + 1]) /\ ~ Attached(t, h + 1)
      BY <1>0, <2>1 DEF Stands
  <2>3. c \in Letter
      BY <2>1, <2>2, PieceKinds
  <2>4. PICK n : Laid(n, r \o Chars(v), t, h)
      BY <1>2
  <2> HIDE DEF h
  <2>5. Stands(t, i, h) /\ Run(t, i, h + 1) = Append(Run(t, i, h), c)
      BY <2>1, <2>2, RunNext
  <2>6. Run(t, i, h) \in Seq(Letter)
      BY <2>1, <2>5, RunNext
  <2>7. v \in Seq(Letter) /\ u \o Run(t, i, h + 1) = Append(v, c)
    <3> DEFINE run == Run(t, i, h)
    <3> HIDE DEF run, c
    <3>1. run \in Seq(Letter) /\ Run(t, i, h + 1) = Append(run, c) /\ c \in Letter
        BY <2>3, <2>5, <2>6 DEF run
    <3>2. u \o run \in Seq(Letter) /\ u \o Append(run, c) = Append(u \o run, c)
        BY <3>1, Letters
    <3> QED
        BY <3>1, <3>2 DEF run
  <2> HIDE DEF v, c
  <2>8. /\ Chars(v) \in Seq(Elements)
        /\ r \o Chars(Append(v, c)) = Append(r \o Chars(v), Verbatim(c))
      BY <2>3, <2>7, CharsAppend
  <2>9. r \o Chars(v) \in Seq(Elements) /\ Verbatim(c) \in Elements
      BY <2>3, <2>8 DEF Elements
  <2>10. Spelled(Verbatim(c), t, h + 1)
      BY <2>2 DEF Spelled, c
  <2>11. \E x : Laid(x, Append(r \o Chars(v), Verbatim(c)), t, h + 1)
      BY <2>1, <2>2, <2>4, <2>9, <2>10, LaidNext
  <2>12. \E x : Laid(x, r \o Chars(u \o Run(t, i, i + (k + 1))), t, i + (k + 1))
      BY <2>1, <2>7, <2>8, <2>11
  <2> QED
      BY <2>1, <2>12
<1>3. \A k \in 0 .. l - i : k \in Good
  <2> HIDE DEF Good
  <2> QED
      BY <1>0, <1>1, <1>2, InductionUpTo
<1>4. l - i \in Good
    BY <1>0, <1>3
<1> QED
    BY <1>0, <1>4

\* Characters become elements, one each.
LEMMA CharsType ==
    ASSUME NEW r \in Seq(Elements), NEW u \in Seq(Letter)
    PROVE  Chars(u) \in Seq(Elements) /\ r \o Chars(u) \in Seq(Elements)
<1>1. \A d \in Letter : Verbatim(d) \in Elements
    BY DEF Elements
<1>2. Len(u) \in Nat /\ DOMAIN u = 1 .. Len(u) /\ \A k \in 1 .. Len(u) : Verbatim(u[k]) \in Elements
    BY <1>1
<1>3. Chars(u) \in Seq(Elements)
    BY <1>2 DEF Chars
<1> QED
    BY <1>3

\* g[n] is the regex made of the first n tokens of a list.
Flat(g, list) ==
    /\ g[0] = <<>>
    /\ \A n \in 1 .. Len(list) : g[n] = g[n - 1] \o Translation(list[n])
    /\ \A n \in 0 .. Len(list) : g[n] \in Seq(Elements)

\* What a token becomes.
LEMMA TranslationOf ==
    ASSUME NEW token \in Tokens
    PROVE  /\ Translation(token) \in Seq(Elements)
           /\ token.is_string => Translation(token) = Chars(token.name)
           /\ ~ token.is_string => Translation(token) = <<Group(token)>> /\ Group(token) \in Elements
<1>1. CASE token.is_string
  <2>1. token \in StringTokens
      BY <1>1, TokenText
  <2>2. token.name \in Seq(Letter)
      BY <2>1 DEF StringTokens
  <2>3. Translation(token) = Chars(token.name)
      BY <1>1 DEF Translation, Chars
  <2>4. <<>> \in Seq(Elements)
      OBVIOUS
  <2>5. Chars(token.name) \in Seq(Elements)
      BY <2>2, <2>4, CharsType
  <2> QED
      BY <1>1, <2>3, <2>5
<1>2. CASE ~ token.is_string
  <2>1. token \in KeyTokens
      BY <1>2, TokenText
  <2>2. Group(token) \in Elements
      BY <2>1 DEF Elements
  <2> QED
      BY <1>2, <2>2 DEF Translation
<1> QED
    BY <1>1, <1>2

\* No tokens, no elements.
LEMMA FlatNothing == \E g : Flat(g, <<>>) /\ g[0] = <<>>
<1> DEFINE g == [i \in {0} |-> <<>>]
<1>1. g[0] = <<>> /\ Len(<<>>) = 0 /\ <<>> \in Seq(Elements)
    OBVIOUS
<1>2. (\A i \in 0 .. 0 : i = 0) /\ (\A i \in 1 .. 0 : FALSE)
    OBVIOUS
<1> HIDE DEF g
<1>3. Flat(g, <<>>)
    BY <1>1, <1>2 DEF Flat
<1> QED
    BY <1>1, <1>3

\* One more token adds its translation.
LEMMA FlatAppend ==
    ASSUME NEW list \in Seq(Tokens), NEW token \in Tokens, NEW g, Flat(g, list)
    PROVE  \E h : /\ Flat(h, Append(list, token))
                  /\ h[Len(list) + 1] = g[Len(list)] \o Translation(token)
<1> DEFINE N == Len(list)
           new == g[N] \o Translation(token)
           h == [i \in 0 .. N + 1 |-> IF i = N + 1 THEN new ELSE g[i]]
           longer == Append(list, token)
<1>1. /\ longer \in Seq(Tokens) /\ Len(longer) = N + 1 /\ longer[N + 1] = token
      /\ \A i \in 1 .. N : longer[i] = list[i]
    BY AppendIs
<1>2. N \in Nat /\ 0 \in 0 .. N /\ N \in 0 .. N
    OBVIOUS
<1>3. h[N + 1] = new /\ \A i \in 0 .. N : h[i] = g[i]
    BY <1>2
<1>4. new \in Seq(Elements)
  <2>1. g[N] \in Seq(Elements) /\ Translation(token) \in Seq(Elements)
      BY <1>2, TranslationOf DEF Flat
  <2> QED
      BY <2>1
<1> HIDE DEF h, new, longer
<1>5. ASSUME NEW i \in 1 .. N + 1 PROVE h[i] = h[i - 1] \o Translation(longer[i])
  <2>1. CASE i = N + 1
    <3>1. i - 1 = N
        BY <1>2, <2>1
    <3> QED
        BY <1>1, <1>2, <1>3, <2>1, <3>1 DEF new
  <2>2. CASE i \in 1 .. N
    <3>1. i \in 0 .. N /\ i - 1 \in 0 .. N
        BY <1>2, <2>2
    <3> HIDE DEF N
    <3> QED
        BY <1>1, <1>3, <2>2, <3>1 DEF Flat, N
  <2>3. i = N + 1 \/ i \in 1 .. N
      BY <1>2
  <2> QED
      BY <2>1, <2>2, <2>3, Zenon
<1>6. ASSUME NEW i \in 0 .. N + 1 PROVE h[i] \in Seq(Elements)
  <2>1. CASE i = N + 1
      BY <1>3, <1>4, <2>1
  <2>2. CASE i \in 0 .. N
      BY <1>3, <2>2 DEF Flat
  <2> QED
      BY <1>2, <2>1, <2>2
<1>7. h[0] = <<>>
    BY <1>2, <1>3 DEF Flat
<1>8. Flat(h, longer)
    BY <1>1, <1>5, <1>6, <1>7 DEF Flat
<1> QED
    BY <1>3, <1>8 DEF new, longer

\* A text that becomes a token goes into the regex as it is.
LEMMA FlatPush ==
    ASSUME NEW list \in Seq(Tokens), NEW text \in Seq(Letter), NEW g, Flat(g, list)
    PROVE  /\ Push(list, text) \in Seq(Tokens)
           /\ \E h : /\ Flat(h, Push(list, text))
                     /\ h[Len(Push(list, text))] = g[Len(list)] \o Chars(text)
<1>1. CASE text = <<>>
  <2>1. Push(list, text) = list /\ Chars(text) = <<>>
      BY <1>1 DEF Push, Chars
  <2>2. g[Len(list)] \in Seq(Elements)
    <3>1. Len(list) \in 0 .. Len(list)
        OBVIOUS
    <3> QED
        BY <3>1 DEF Flat
  <2>3. g[Len(list)] = g[Len(list)] \o <<>>
    <3> DEFINE r == g[Len(list)]
    <3>1. r \in Seq(Elements)
        BY <2>2
    <3> HIDE DEF r
    <3>2. r = r \o <<>>
        BY <3>1
    <3> QED
        BY <3>2 DEF r
  <2> QED
      BY <2>1, <2>3
<1>2. CASE text # <<>>
  <2> DEFINE token == StringToken(text)
  <2>1. token \in Tokens /\ token.is_string /\ token.name = text
      BY <1>2 DEF StringToken, Tokens, StringTokens
  <2>2. Push(list, text) = Append(list, token)
      BY <1>2 DEF Push
  <2> HIDE DEF token
  <2>3. Translation(token) = Chars(text)
      BY <2>1, TranslationOf
  <2>4. PICK h : Flat(h, Append(list, token)) /\ h[Len(list) + 1] = g[Len(list)] \o Translation(token)
      BY <2>1, FlatAppend
  <2>5. Append(list, token) \in Seq(Tokens) /\ Len(Append(list, token)) = Len(list) + 1
      BY <2>1, AppendIs
  <2> QED
      BY <2>2, <2>3, <2>4, <2>5
<1> QED
    BY <1>1, <1>2

-----------------------------------------------------------------------------
(* parse() lays the pieces out in order. *)

\* The tokens, and the text after them, are what the pieces up to i become.
LaidOut(list, u, t, i) ==
    \E g : Flat(g, list) /\ \E m : Laid(m, g[Len(list)] \o Chars(u), t, i)

\* A match of an escaped character.
LEMMA EscapedLaid ==
    ASSUME NEW t \in Seq(Pieces), NEW i \in 0 .. Len(t), NEW m \in i + 1 .. Len(t),
           \A j \in i + 1 .. m - 1 : t[j].kind = "plain", t[m].kind = "escaped",
           NEW list \in Seq(Tokens), NEW u \in Seq(Letter), LaidOut(list, u, t, i)
    PROVE  LaidOut(list, u \o Run(t, i, m - 1) \o <<t[m].char>>, t, m)
<1> DEFINE w == u \o Run(t, i, m - 1)
           c == t[m].char
<1>1. /\ m - 1 \in i .. Len(t) /\ m \in 1 .. Len(t) /\ m - 1 \in 0 .. Len(t) - 1 /\ (m - 1) + 1 = m
    OBVIOUS
<1>2. ~ IsKey(t[m]) /\ ~ IsSeparator(t[m]) /\ ~ Attached(t, m) /\ c \in Letter
  <2>1. ~ IsKey(t[m]) /\ ~ IsSeparator(t[m])
      BY DEF IsKey, IsSeparator
  <2> QED
      BY <1>1, <2>1, PieceKinds DEF Attached
<1>3. Stands(t, i, m - 1)
  <2>1. m - 1 > i => ~ Attached(t, m - 1)
      BY <1>1, <1>2 DEF Attached
  <2> QED
      BY <1>1, <2>1, PlainStand
<1>4. PICK g : Flat(g, list) /\ \E x : Laid(x, g[Len(list)] \o Chars(u), t, i)
    BY DEF LaidOut
<1> DEFINE r == g[Len(list)]
<1>5. r \in Seq(Elements)
  <2>1. Len(list) \in 0 .. Len(list)
      OBVIOUS
  <2> QED
      BY <1>4, <2>1 DEF Flat
<1>6. PICK x : Laid(x, r \o Chars(u), t, i)
    BY <1>4
<1> HIDE DEF r
<1>7. PICK y : Laid(y, r \o Chars(w), t, m - 1)
    BY <1>1, <1>3, <1>5, <1>6, LaidRun
<1>8. w \in Seq(Letter)
  <2>1. Run(t, i, m - 1) \in Seq(Letter)
      BY <1>1, <1>3, RunNext
  <2> QED
      BY <2>1, Letters
<1> HIDE DEF w
<1>9. w \o <<c>> = Append(w, c)
    BY <1>2, <1>8, Letters
<1>10. Spelled(Verbatim(c), t, m) /\ Verbatim(c) \in Elements
    BY <1>2 DEF Spelled, Elements
<1> HIDE DEF c
<1>11. r \o Chars(Append(w, c)) = Append(r \o Chars(w), Verbatim(c)) /\ r \o Chars(w) \in Seq(Elements)
  <2>1. r \o Chars(Append(w, c)) = Append(r \o Chars(w), Verbatim(c)) /\ Chars(w) \in Seq(Elements)
      BY <1>2, <1>5, <1>8, CharsAppend
  <2> QED
      BY <1>5, <2>1
<1>12. \E n : Laid(n, Append(r \o Chars(w), Verbatim(c)), t, m)
  <2>1. \E n : Laid(n, Append(r \o Chars(w), Verbatim(c)), t, (m - 1) + 1)
      BY <1>1, <1>2, <1>7, <1>10, <1>11, LaidNext
  <2> QED
      BY <1>1, <2>1
<1>13. \E n : Laid(n, r \o Chars(w \o <<c>>), t, m)
    BY <1>9, <1>11, <1>12
<1> QED
    BY <1>4, <1>13 DEF LaidOut, r, w, c

\* A match of a key.
LEMMA KeyLaid ==
    ASSUME NEW t \in Seq(Pieces), NEW i \in 0 .. Len(t), NEW m \in i + 1 .. Len(t),
           i # 0 => t[i].kind # "plain",
           \A j \in i + 1 .. m - 1 : t[j].kind = "plain", IsKey(t[m]),
           NEW list \in Seq(Tokens), NEW u \in Seq(Letter), LaidOut(list, u, t, i),
           NEW token, IsTokenOf(token, t, m)
    PROVE  LET longer == Push(list, u \o Run(t, i, m - 1 - Len(PrefixOf(t, i, m))))
           IN  LaidOut(Append(longer, token), <<>>, t, m)
<1> DEFINE l == m - 1 - Len(PrefixOf(t, i, m))
           text == u \o Run(t, i, l)
           longer == Push(list, text)
<1>1. /\ m \in 1 .. Len(t) /\ m - 1 \in 0 .. Len(t) - 1 /\ (m - 1) + 1 = m
      /\ m > 1 => m - 2 \in 0 .. Len(t) - 1 /\ (m - 2) + 1 = m - 1 /\ m - 1 < Len(t)
    OBVIOUS
<1>2. token \in KeyTokens /\ token \in Tokens /\ ~ token.is_string
    BY DEF IsTokenOf, Tokens, KeyTokens
<1>3. PrefixOf(t, i, m) = Separator(t, m) /\ l \in i .. Len(t) /\ Stands(t, i, l)
    BY KeyPrefix
<1>4. PICK g : Flat(g, list) /\ \E x : Laid(x, g[Len(list)] \o Chars(u), t, i)
    BY DEF LaidOut
<1> DEFINE r == g[Len(list)]
<1>5. r \in Seq(Elements)
  <2>1. Len(list) \in 0 .. Len(list)
      OBVIOUS
  <2> QED
      BY <1>4, <2>1 DEF Flat
<1>6. PICK x : Laid(x, r \o Chars(u), t, i)
    BY <1>4
<1>7. text \in Seq(Letter)
  <2>1. Run(t, i, l) \in Seq(Letter)
      BY <1>3, RunNext
  <2> HIDE DEF l
  <2> QED
      BY <2>1, Letters
<1>8. \E n : Laid(n, r \o Chars(text), t, l)
  <2> HIDE DEF l, r
  <2> QED
      BY <1>3, <1>5, <1>6, LaidRun
<1> DEFINE s == r \o Chars(text)
<1>9. s \in Seq(Elements)
  <2> HIDE DEF r, text
  <2> QED
      BY <1>5, <1>7, CharsType
<1>10. \E n : Laid(n, s, t, m - 1)
  <2>1. CASE m > 1 /\ IsSeparator(t[m - 1])
    <3>1. Separator(t, m) = <<"/">> /\ Attached(t, m - 1)
        BY <1>1, <2>1, SeparatorIs
    <3>2. Len(<<"/">>) = 1 /\ l = m - 2
        BY <1>3, <3>1
    <3> HIDE DEF l, s
    <3>3. \E n : Laid(n, s, t, m - 2)
        BY <1>8, <3>2 DEF s
    <3>4. \E n : Laid(n, s, t, (m - 2) + 1)
        BY <1>1, <1>9, <2>1, <3>1, <3>3, LaidNext
    <3> QED
        BY <1>1, <2>1, <3>4
  <2>2. CASE ~ (m > 1 /\ IsSeparator(t[m - 1]))
    <3>1. Separator(t, m) = <<>>
        BY <1>1, <2>2, SeparatorIs
    <3>2. Len(<<>>) = 0 /\ l = m - 1
        BY <1>3, <3>1
    <3> HIDE DEF l, r, text
    <3> QED
        BY <1>8, <3>2
  <2> QED
      BY <2>1, <2>2
<1>11. ~ Attached(t, m) /\ Spelled(Group(token), t, m) /\ Group(token) \in Elements
    BY <1>2 DEF Attached, IsSeparator, IsKey, Spelled, Elements
<1>12. \E n : Laid(n, Append(s, Group(token)), t, m)
  <2> HIDE DEF s
  <2>1. \E n : Laid(n, Append(s, Group(token)), t, (m - 1) + 1)
      BY <1>1, <1>9, <1>10, <1>11, LaidNext
  <2> QED
      BY <1>1, <2>1
<1> HIDE DEF text
<1>13. /\ longer \in Seq(Tokens)
       /\ \E h : Flat(h, longer) /\ h[Len(longer)] = s
    BY <1>4, <1>7, FlatPush
<1> HIDE DEF longer, s, r
<1>14. PICK h : Flat(h, longer) /\ h[Len(longer)] = s
    BY <1>13
<1>15. PICK k : Flat(k, Append(longer, token)) /\ k[Len(longer) + 1] = h[Len(longer)] \o Translation(token)
    BY <1>2, <1>13, <1>14, FlatAppend
<1>16. Len(Append(longer, token)) = Len(longer) + 1
    BY <1>2, <1>13, AppendIs
<1>17. s \o Translation(token) = Append(s, Group(token))
  <2>1. Translation(token) = <<Group(token)>>
      BY <1>2, TranslationOf
  <2> QED
      BY <1>9, <1>11, <2>1
<1>18. Append(s, Group(token)) \o Chars(<<>>) = Append(s, Group(token))
  <2>1. Chars(<<>>) = <<>> /\ Append(s, Group(token)) \in Seq(Elements)
      BY <1>9, <1>11 DEF Chars
  <2> HIDE DEF s
  <2> QED
      BY <2>1
<1>19. LaidOut(Append(longer, token), <<>>, t, m)
    BY <1>12, <1>14, <1>15, <1>16, <1>17, <1>18 DEF LaidOut
<1> QED
    BY <1>19 DEF longer, text, l

\* The regex of all tokens is what all pieces become.
LaidIn(g, list, t) == Flat(g, list) /\ \E m : Laid(m, g[Len(list)], t, Len(t))

\* No match is left.
LEMMA RestLaid ==
    ASSUME NEW t \in Seq(Pieces), NEW i \in 0 .. Len(t),
           \A j \in i + 1 .. Len(t) : t[j].kind = "plain",
           NEW list \in Seq(Tokens), NEW u \in Seq(Letter), LaidOut(list, u, t, i)
    PROVE  \E g : LaidIn(g, Push(list, u \o Run(t, i, Len(t))), t)
<1> DEFINE l == Len(t)
           text == u \o Run(t, i, l)
<1>1. l \in i .. Len(t) /\ l \in Nat
    OBVIOUS
<1>2. Stands(t, i, l)
  <2>1. ~ Attached(t, l)
      BY <1>1 DEF Attached
  <2> QED
      BY <1>1, <2>1, PlainStand
<1>3. PICK g : Flat(g, list) /\ \E x : Laid(x, g[Len(list)] \o Chars(u), t, i)
    BY DEF LaidOut
<1> DEFINE r == g[Len(list)]
<1>4. r \in Seq(Elements)
  <2>1. Len(list) \in 0 .. Len(list)
      OBVIOUS
  <2> QED
      BY <1>3, <2>1 DEF Flat
<1>5. PICK x : Laid(x, r \o Chars(u), t, i)
    BY <1>3
<1>6. text \in Seq(Letter)
  <2>1. Run(t, i, l) \in Seq(Letter)
      BY <1>1, <1>2, RunNext
  <2> QED
      BY <2>1, Letters
<1>7. \E n : Laid(n, r \o Chars(text), t, l)
  <2> HIDE DEF l, r
  <2> QED
      BY <1>1, <1>2, <1>4, <1>5, LaidRun
<1> HIDE DEF text
<1>8. PICK h : Flat(h, Push(list, text)) /\ h[Len(Push(list, text))] = r \o Chars(text)
    BY <1>3, <1>6, FlatPush
<1>9. LaidIn(h, Push(list, text), t)
    BY <1>7, <1>8 DEF LaidIn
<1> QED
    BY <1>9 DEF text

-----------------------------------------------------------------------------
(* The complete regex, piece by piece. *)

\* A key has its group; what is no key, the end of the template included, has one
\* element that is no group, or none.
IsMade(m, r, t, j) ==
    IF j \in KeyPositions(t)
      THEN m[j] = m[j - 1] + 1 /\ \E token : IsTokenOf(token, t, j) /\ r[m[j]] = Group(token)
      ELSE \/ m[j] = m[j - 1] /\ PieceTexts(t, j) = {<<>>}
           \/ m[j] = m[j - 1] + 1 /\ r[m[j]].op # "group" /\ ElementPaths(r[m[j]]) = PieceTexts(t, j)

Made(m, r, t) ==
    /\ m \in [0 .. Len(t) + 1 -> 0 .. Len(r)] /\ m[0] = 0 /\ m[Len(t) + 1] = Len(r)
    /\ \A j \in 1 .. Len(t) + 1 : IsMade(m, r, t, j)

EndsInSlash(t) == ~ IsKey(t[Len(t)]) /\ t[Len(t)].char = "/"

\* A piece that is laid out is made, in any regex with the same element.
LEMMA PieceMade ==
    ASSUME NEW t \in Seq(Pieces), NEW j \in 1 .. Len(t), NEW m, NEW r, IsLaid(m, r, t, j),
           j = Len(t) => ~ EndsInSlash(t), NEW s, s[m[j]] = r[m[j]]
    PROVE  IsMade(m, s, t, j)
<1>1. j \in DOMAIN t /\ ~ (j > Len(t)) /\ (j \in KeyPositions(t) <=> IsKey(t[j]))
    BY DEF KeyPositions
<1>2. CASE Attached(t, j)
  <2>1. ~ IsKey(t[j])
      BY <1>2 DEF Attached, IsSeparator, IsKey
  <2>2. PieceTexts(t, j) = {<<>>}
      BY <1>1, <1>2, <2>1 DEF PieceTexts
  <2> QED
      BY <1>1, <1>2, <2>1, <2>2 DEF IsLaid, IsMade
<1>3. CASE ~ Attached(t, j) /\ IsKey(t[j])
    BY <1>1, <1>3 DEF IsLaid, IsMade, Spelled
<1>4. CASE ~ Attached(t, j) /\ ~ IsKey(t[j])
  <2> DEFINE c == t[j].char
  <2>1. c \in Letter /\ m[j] = m[j - 1] + 1 /\ r[m[j]] = Verbatim(c)
      BY <1>4, PieceKinds DEF IsLaid, Spelled
  <2>2. PieceTexts(t, j) = {<<c>>}
      BY <1>1, <1>4 DEF PieceTexts, EndsInSlash
  <2>3. Verbatim(c).op = "char"
      BY DEF Verbatim
  <2> HIDE DEF c
  <2>4. ElementPaths(Verbatim(c)) = {<<c>>}
      BY <2>1, VerbatimPaths
  <2>5. s[m[j]].op # "group" /\ ElementPaths(s[m[j]]) = PieceTexts(t, j)
      BY <2>1, <2>2, <2>3, <2>4
  <2> QED
      BY <1>1, <1>4, <2>1, <2>5 DEF IsMade
<1> QED
    BY <1>2, <1>3, <1>4

\* Elements come in the order of the pieces.
LEMMA LaidInOrder ==
    ASSUME NEW i \in Nat, NEW r, Len(r) \in Nat, NEW t, NEW m, Laid(m, r, t, i), NEW l \in 0 .. i
    PROVE  \A j \in 0 .. l : m[j] \in 0 .. Len(r) /\ m[j] <= m[l]
<1> DEFINE Good == {k \in 0 .. l : m[l - k] <= m[l]}
<1>1. /\ l \in Nat /\ l - 0 = l /\ l \in 0 .. i /\ 0 \in 0 .. l
      /\ \A k \in 0 .. l - 1 : /\ k \in 0 .. l /\ k + 1 \in 0 .. l /\ l - k \in 1 .. i /\ l - k \in 0 .. i
                               /\ (l - k) - 1 = l - (k + 1) /\ l - (k + 1) \in 0 .. i
      /\ \A j \in 0 .. l : j \in 0 .. i /\ l - j \in 0 .. l /\ l - (l - j) = j
    OBVIOUS
<1>2. \A j \in 0 .. i : m[j] \in 0 .. Len(r)
    BY DEF Laid
<1>3. ASSUME NEW j \in 1 .. i, j \in 0 .. i, j - 1 \in 0 .. i PROVE m[j - 1] <= m[j]
  <2>1. m[j] = m[j - 1] \/ m[j] = m[j - 1] + 1
      BY DEF Laid, IsLaid
  <2>2. m[j] \in 0 .. Len(r) /\ m[j - 1] \in 0 .. Len(r)
      BY <1>2, <1>3
  <2> QED
      BY <2>1, <2>2
<1>4. 0 \in Good
    BY <1>1, <1>2
<1>5. ASSUME NEW k \in 0 .. l - 1, k \in Good PROVE k + 1 \in Good
  <2>1. m[l - (k + 1)] <= m[l - k]
      BY <1>1, <1>3
  <2>2. m[l - k] <= m[l]
      BY <1>5
  <2>3. m[l - (k + 1)] \in 0 .. Len(r) /\ m[l - k] \in 0 .. Len(r) /\ m[l] \in 0 .. Len(r)
      BY <1>1, <1>2
  <2>4. m[l - (k + 1)] <= m[l]
      BY <2>1, <2>2, <2>3
  <2> QED
      BY <1>1, <2>4
<1>6. \A k \in 0 .. l : k \in Good
  <2> HIDE DEF Good
  <2> QED
      BY <1>1, <1>4, <1>5, InductionUpTo
<1> QED
    BY <1>1, <1>2, <1>6

\* The slash at the end goes in last, or takes the place of the last element.
LEMMA FinishedMade ==
    ASSUME NEW t \in Seq(Pieces), NEW list \in Seq(Tokens), NEW f, CutInto(f, list, t),
           NEW r \in Seq(Elements), NEW m, Laid(m, r, t, Len(t))
    PROVE  \E n : Made(n, Finished(list, r), t)
<1> DEFINE N == Len(t)
           R == Len(r)
           s == Finished(list, r)
           n == [j \in 0 .. N + 1 |-> IF j = N + 1 THEN Len(s) ELSE m[j]]
<1>0. /\ N \in Nat /\ R \in Nat /\ N + 1 \in 0 .. N + 1 /\ (N + 1) - 1 = N /\ N \in 0 .. N /\ 0 \in 0 .. N
      /\ N + 1 > N /\ N + 1 \notin 0 .. N
      /\ \A j \in 0 .. N : j \in 0 .. N + 1 /\ j # N + 1
      /\ \A j \in 1 .. N : j \in 0 .. N /\ j - 1 \in 0 .. N
      /\ \A j \in 1 .. N + 1 : j = N + 1 \/ j \in 1 .. N
      /\ \A j \in 0 .. N + 1 : j = N + 1 \/ j \in 0 .. N
    OBVIOUS
<1>0a. /\ \A j \in 1 .. N : j = N \/ j \in 1 .. N - 1
       /\ \A j \in 1 .. N - 1 : j \in 1 .. N /\ j # N /\ j \in 0 .. N - 1 /\ j - 1 \in 0 .. N
       /\ \A j \in 1 .. N : ~ (j > N)
  <2> HIDE DEF N
  <2> QED
      BY <1>0
<1>1. m \in [0 .. N -> 0 .. R] /\ m[0] = 0 /\ m[N] = R /\ \A j \in 1 .. N : IsLaid(m, r, t, j)
    BY DEF Laid
<1>2. n[N + 1] = Len(s) /\ \A j \in 0 .. N : n[j] = m[j]
    BY <1>0
<1>3. list = <<>> <=> t = <<>>
    BY DEF CutInto
<1>4. N + 1 \notin KeyPositions(t)
    BY <1>0 DEF KeyPositions
<1>5. ASSUME Len(s) \in Nat, R <= Len(s), \A j \in 1 .. N : IsMade(m, s, t, j),
             IsMade(n, s, t, N + 1)
      PROVE  Made(n, s, t)
  <2>1. n \in [0 .. N + 1 -> 0 .. Len(s)]
    <3>1. Len(s) \in 0 .. Len(s) /\ \A x \in 0 .. R : x \in 0 .. Len(s)
        BY <1>0, <1>5
    <3>2. \A j \in 0 .. N : m[j] \in 0 .. Len(s)
        BY <1>1, <3>1
    <3> HIDE DEF s
    <3> QED
        BY <1>0, <3>1, <3>2
  <2> HIDE DEF n, s
  <2>2. ASSUME NEW j \in 1 .. N PROVE IsMade(n, s, t, j)
    <3>1. n[j] = m[j] /\ n[j - 1] = m[j - 1]
        BY <1>0, <1>2
    <3>2. IsMade(m, s, t, j)
        BY <1>5
    <3> QED
        BY <3>1, <3>2 DEF IsMade
  <2>3. n[0] = 0
      BY <1>0, <1>1, <1>2
  <2> HIDE DEF N
  <2>4. \A j \in 1 .. N + 1 : IsMade(n, s, t, j)
      BY <1>0, <1>5, <2>2
  <2> QED
      BY <1>2, <2>1, <2>3, <2>4 DEF Made, N
<1>6. CASE list = <<>>
  <2>1. t = <<>> /\ N = 0 /\ s = r /\ n[N + 1] = n[(N + 1) - 1]
      BY <1>0, <1>1, <1>2, <1>3, <1>6 DEF Finished
  <2>2. PieceTexts(t, N + 1) = {<<>>}
      BY <1>0, <2>1 DEF PieceTexts
  <2> HIDE DEF n, s
  <2>3. IsMade(n, s, t, N + 1)
      BY <1>4, <2>1, <2>2 DEF IsMade
  <2>4. \A j \in 1 .. N : FALSE
      BY <2>1
  <2>5. Len(s) \in Nat /\ R <= Len(s)
      BY <1>0, <2>1
  <2>6. \A j \in 1 .. N : IsMade(m, s, t, j)
      BY <2>4
  <2> HIDE DEF N, R
  <2>7. Made(n, s, t)
      BY <1>5, <2>3, <2>5, <2>6
  <2> QED
      BY <2>7 DEF s
<1>7. CASE list # <<>>
  <2>1. t # <<>> /\ N \in 1 .. N /\ N - 1 \in 0 .. N /\ Len(list) \in Nat /\ Len(list) > 0
      /\ list[Len(list)] \in Tokens
      BY <1>0, <1>3, <1>7
  <2>2. ~ Attached(t, N)
      BY <1>0 DEF Attached
  <2>3. R = m[N - 1] + 1 /\ m[N - 1] \in 0 .. R
    <3>1. m[N] = m[N - 1] + 1
        BY <1>1, <2>1, <2>2 DEF IsLaid
    <3> QED
        BY <1>1, <2>1, <3>1
  <2>4. R > 0 /\ r # <<>>
      BY <1>0, <2>3
  <2>5. SlashLast(list) <=> EndsInSlash(t)
    <3>1. CASE list[Len(list)].is_string
      <4>1. PICK w \in Seq(Letter) : list[Len(list)].name = Append(w, t[N].char)
          BY <1>7, <3>1 DEF CutInto, Ends
      <4>2. ~ IsKey(t[N])
          BY <1>7, <3>1 DEF CutInto, Ends
      <4> DEFINE c == t[N].char
      <4>3. c \in Letter
          BY <2>1, <4>2, PieceKinds
      <4> HIDE DEF c
      <4>4. Append(w, c)[Len(Append(w, c))] = c
          BY <4>3, AppendIs
      <4> QED
          BY <3>1, <4>1, <4>2, <4>4 DEF SlashLast, EndsInSlash, c
    <3>2. CASE ~ list[Len(list)].is_string
        BY <1>7, <3>2 DEF CutInto, SlashLast, EndsInSlash
    <3> QED
        BY <3>1, <3>2
  <2>6. SlashAtEnd \in Elements /\ SlashAtEnd.op # "group" /\ ElementPaths(SlashAtEnd) = {<<>>, <<"/">>}
      BY SlashPaths DEF Elements, SlashAtEnd
  <2>7. CASE EndsInSlash(t)
    <3> DEFINE front == SubSeq(r, 1, R - 1)
    <3>1. front \in Seq(Elements) /\ Len(front) = R - 1 /\ \A k \in 1 .. R - 1 : front[k] = r[k]
      <4>1. R - 1 \in 0 .. R
          BY <1>0, <2>4
      <4> QED
          BY <4>1, PrefixIs
    <3>2. s = Append(front, SlashAtEnd)
        BY <1>7, <2>5, <2>7 DEF Finished
    <3> HIDE DEF front, s
    <3>3. Len(s) = R /\ s[R] = SlashAtEnd /\ \A k \in 1 .. R - 1 : s[k] = r[k]
      <4>1. /\ Len(s) = (R - 1) + 1 /\ s[(R - 1) + 1] = SlashAtEnd
            /\ \A k \in 1 .. R - 1 : s[k] = front[k]
          BY <2>6, <3>1, <3>2, AppendIs
      <4>2. (R - 1) + 1 = R
          BY <1>0
      <4> QED
          BY <3>1, <4>1, <4>2
    <3>4. ASSUME NEW j \in 1 .. N - 1 PROVE IsMade(m, s, t, j)
      <4>1. j \in 1 .. N /\ j # N /\ j \in 0 .. N - 1 /\ j - 1 \in 0 .. N
          BY <1>0a
      <4>2. IsLaid(m, r, t, j)
          BY <1>1, <4>1
      <4>3. m[j] \in 0 .. R /\ m[j] <= m[N - 1]
          BY <1>0, <2>1, <4>1, LaidInOrder
      <4>4. CASE m[j] \in 1 .. R - 1
        <5>1. s[m[j]] = r[m[j]]
            BY <3>3, <4>4
        <5> QED
            BY <4>1, <4>2, <5>1, PieceMade
      <4>5. CASE m[j] \notin 1 .. R - 1
        <5>0. m[j - 1] \in 0 .. R
          <6> HIDE DEF N
          <6> QED
              BY <1>1, <4>1
        <5>1. m[j] = 0 /\ m[j - 1] \in 0 .. R
          <6> HIDE DEF R, N
          <6> QED
              BY <1>0, <2>3, <4>3, <4>5, <5>0
        <5>2. m[j] # m[j - 1] + 1
            BY <1>0, <5>1
        <5>3. Attached(t, j)
            BY <4>2, <5>2 DEF IsLaid
        <5>4. ~ IsKey(t[j]) /\ ~ (j > Len(t))
            BY <1>0a, <4>1, <5>3 DEF Attached, IsSeparator, IsKey
        <5>5. PieceTexts(t, j) = {<<>>} /\ j \notin KeyPositions(t) /\ m[j] = m[j - 1]
            BY <4>2, <5>3, <5>4 DEF PieceTexts, KeyPositions, IsLaid
        <5> QED
            BY <5>5 DEF IsMade
      <4> QED
          BY <4>4, <4>5
    <3>5. IsMade(m, s, t, N)
      <4>1. N \notin KeyPositions(t) /\ ~ (N > Len(t)) /\ ~ IsKey(t[N]) /\ t[N].char = "/"
          BY <1>0, <2>7 DEF KeyPositions, EndsInSlash
      <4>2. PieceTexts(t, N) = {<<>>, <<"/">>}
          BY <2>2, <4>1 DEF PieceTexts
      <4>3. m[N] = m[N - 1] + 1 /\ s[m[N]] = SlashAtEnd
          BY <1>1, <2>3, <3>3
      <4> HIDE DEF N
      <4> QED
          BY <2>6, <4>1, <4>2, <4>3 DEF IsMade
    <3>6. IsMade(n, s, t, N + 1)
      <4>1. PieceTexts(t, N + 1) = {<<>>}
          BY <1>0, <2>7 DEF PieceTexts, EndsInSlash
      <4>2. n[N + 1] = n[(N + 1) - 1]
          BY <1>0, <1>1, <1>2, <3>3
      <4> HIDE DEF n, N
      <4> QED
          BY <1>4, <4>1, <4>2 DEF IsMade
    <3>7. \A j \in 1 .. N : j = N \/ j \in 1 .. N - 1
        BY <1>0a
    <3>8. \A j \in 1 .. N : IsMade(m, s, t, j)
        BY <3>4, <3>5, <3>7
    <3>9. Len(s) \in Nat /\ R <= Len(s)
        BY <1>0, <3>3
    <3> HIDE DEF n, N, R
    <3>10. Made(n, s, t)
        BY <1>5, <3>6, <3>8, <3>9
    <3> QED
        BY <3>10 DEF s
  <2>8. CASE ~ EndsInSlash(t)
    <3>1. s = Append(r, SlashAtEnd)
        BY <1>7, <2>5, <2>8 DEF Finished
    <3> HIDE DEF s
    <3>2. /\ Len(s) = R + 1 /\ s[R + 1] = SlashAtEnd /\ \A k \in 1 .. R : s[k] = r[k]
        BY <2>6, <3>1, AppendIs
    <3>3. ASSUME NEW j \in 1 .. N PROVE IsMade(m, s, t, j)
      <4>1. j \in 0 .. N /\ j - 1 \in 0 .. N /\ IsLaid(m, r, t, j)
          BY <1>0, <1>1
      <4>2. m[j] \in 0 .. R /\ m[j - 1] \in 0 .. R
          BY <1>1, <4>1
      <4>3. CASE m[j] \in 1 .. R
        <5>1. s[m[j]] = r[m[j]]
            BY <3>2, <4>3
        <5> QED
            BY <2>8, <4>1, <5>1, PieceMade
      <4>4. CASE m[j] \notin 1 .. R
        <5>1. m[j] # m[j - 1] + 1
            BY <1>0, <4>2, <4>4
        <5>2. Attached(t, j)
            BY <4>1, <5>1 DEF IsLaid
        <5>3. ~ IsKey(t[j]) /\ ~ (j > Len(t))
            BY <1>0, <4>1, <5>2 DEF Attached, IsSeparator, IsKey
        <5>4. PieceTexts(t, j) = {<<>>} /\ j \notin KeyPositions(t) /\ m[j] = m[j - 1]
            BY <4>1, <5>2, <5>3 DEF PieceTexts, KeyPositions, IsLaid
        <5> QED
            BY <5>4 DEF IsMade
      <4> QED
          BY <4>3, <4>4
    <3>4. IsMade(n, s, t, N + 1)
      <4>1. PieceTexts(t, N + 1) = {<<>>, <<"/">>}
          BY <1>0, <2>1, <2>8 DEF PieceTexts, EndsInSlash
      <4>2. n[N + 1] = n[(N + 1) - 1] + 1 /\ s[n[N + 1]] = SlashAtEnd
          BY <1>0, <1>1, <1>2, <3>2
      <4> HIDE DEF n, N
      <4> QED
          BY <1>4, <2>6, <4>1, <4>2 DEF IsMade
    <3>5. Len(s) \in Nat /\ R <= Len(s)
        BY <1>0, <3>2
    <3> HIDE DEF n, N, R
    <3>10. Made(n, s, t)
        BY <1>5, <3>3, <3>4, <3>5
    <3> QED
        BY <3>10 DEF s
  <2> QED
      BY <2>7, <2>8
<1> QED
    BY <1>6, <1>7

-----------------------------------------------------------------------------
(* The steps of path_to_regex lay out every piece. *)

LayoutInv ==
    /\ pc = "parse" => LaidOut(tokens, path, template, index)
    /\ pc = "tokens_to_keys" => \E g : LaidIn(g, tokens, template)
    /\ pc = "tokens_to_regex" => \E g : LaidIn(g, tokens, template) /\ route = g[translated]
    /\ pc = "done" => \E m : Made(m, route, template)

\* Every match of parse() lays out the pieces it takes.
LEMMA ParseKeepsLayout ==
    ASSUME MeaningInv, LayoutInv, Parse
    PROVE  LayoutInv'
<1>1. ParsedTypes /\ pc = "parse" /\ Parsed(tokens, path, template, index)
      /\ LaidOut(tokens, path, template, index)
    BY DEF MeaningInv, LayoutInv, Parse, ParseEscaped, ParseKey, ParseRest
<1>2. template \in Seq(Pieces) /\ index \in 0 .. Len(template) /\ tokens \in Seq(Tokens) /\ path \in Seq(Letter)
    BY <1>1 DEF ParsedTypes
<1>3. index # 0 => template[index].kind # "plain"
    BY <1>1 DEF Parsed
<1>4. ASSUME Ahead # {}
      PROVE  /\ Match \in index + 1 .. Len(template)
             /\ \A j \in index + 1 .. Match - 1 : template[j].kind = "plain"
    BY <1>2, <1>4, MatchIs
<1>5. CASE ParseEscaped
  <2> DEFINE run == Run(template, index, Match - 1)
             char == template[Match].char
             text == path \o run \o <<char>>
  <2>1. path' = text /\ index' = Match /\ Ahead # {} /\ template[Match].kind = "escaped"
        /\ UNCHANGED <<template, tokens, pc>>
      BY <1>5, SkippedIsRun DEF ParseEscaped
  <2>2. LaidOut(tokens, text, template, Match)
      BY <1>1, <1>2, <1>4, <2>1, EscapedLaid
  <2> HIDE DEF text
  <2>3. LaidOut(tokens', path', template', index')
      BY <2>1, <2>2
  <2> QED
      BY <1>1, <2>1, <2>3 DEF LayoutInv
<1>6. CASE ParseKey
  <2> DEFINE next == IF Match < Len(template) THEN <<FirstChar(template[Match + 1])>> ELSE <<>>
             text == path \o Run(template, index, Match - 1 - Len(Prefix))
             token == KeyToken(template[Match], Prefix, next)
             longer == Push(tokens, text)
  <2>1. /\ tokens' = Append(longer, token) /\ path' = <<>> /\ index' = Match /\ Ahead # {}
        /\ UNCHANGED <<template, pc>> /\ IsKey(template[Match])
      BY <1>6, SkippedIsRun DEF ParseKey, Pushed, Push
  <2>2. Prefix = PrefixOf(template, index, Match) /\ IsTokenOf(token, template, Match)
      BY <1>1, <1>3, <2>1, KeyTokenIs
  <2> HIDE DEF token, next
  <2>3. LaidOut(Append(longer, token), <<>>, template, Match)
      BY <1>1, <1>2, <1>3, <1>4, <2>1, <2>2, KeyLaid
  <2> HIDE DEF longer
  <2>4. LaidOut(tokens', path', template', index')
      BY <2>1, <2>3
  <2> QED
      BY <1>1, <2>1, <2>4 DEF LayoutInv
<1>7. CASE ParseRest
  <2> DEFINE all == Push(tokens, path \o Run(template, index, Len(template)))
  <2>1. tokens' = all /\ pc' = "tokens_to_keys" /\ Ahead = {} /\ template' = template
      BY <1>7, SkippedIsRun DEF ParseRest, Pushed, Push
  <2>2. \A j \in index + 1 .. Len(template) : template[j].kind = "plain"
      BY <2>1 DEF Ahead
  <2>3. PICK g : LaidIn(g, all, template)
      BY <1>1, <1>2, <2>2, RestLaid
  <2> HIDE DEF all
  <2>4. LaidIn(g, tokens', template')
      BY <2>1, <2>3
  <2> QED
      BY <2>1, <2>4 DEF LayoutInv
<1> QED
    BY <1>5, <1>6, <1>7 DEF Parse

\* tokens_to_keys() leaves the layout alone, tokens_to_regex() builds it.
LEMMA OthersKeepLayout ==
    ASSUME MeaningInv, LayoutInv, tokens_to_keys \/ tokens_to_regex
    PROVE  LayoutInv'
<1>1. /\ template \in Seq(Pieces) /\ tokens \in Seq(Tokens) /\ route \in Seq(Elements)
      /\ translated \in 0 .. Len(tokens) /\ Len(tokens) \in Nat
    BY DEF MeaningInv, ParsedTypes
<1>2. CASE tokens_to_keys
  <2>1. /\ pc = "tokens_to_keys" /\ pc' = "tokens_to_regex" /\ translated = 0 /\ route = <<>>
        /\ UNCHANGED <<template, tokens, translated, route>>
      BY <1>2 DEF MeaningInv, tokens_to_keys
  <2>2. PICK g : LaidIn(g, tokens, template)
      BY <2>1 DEF LayoutInv
  <2>3. route = g[translated]
      BY <2>1, <2>2 DEF LaidIn, Flat
  <2>4. LaidIn(g, tokens', template') /\ route' = g[translated']
      BY <2>1, <2>2, <2>3
  <2> QED
      BY <2>1, <2>4 DEF LayoutInv
<1>3. CASE TranslateToken
  <2>1. /\ pc = "tokens_to_regex" /\ translated < Len(tokens)
        /\ route' = route \o Translation(tokens[translated + 1]) /\ translated' = translated + 1
        /\ UNCHANGED <<template, tokens, pc>>
      BY <1>3 DEF TranslateToken
  <2>2. PICK g : LaidIn(g, tokens, template) /\ route = g[translated]
      BY <2>1 DEF LayoutInv
  <2>3. translated + 1 \in 1 .. Len(tokens) /\ (translated + 1) - 1 = translated
      BY <1>1, <2>1
  <2>4. g[translated + 1] = g[translated] \o Translation(tokens[translated + 1])
      BY <2>2, <2>3 DEF LaidIn, Flat
  <2>5. LaidIn(g, tokens', template') /\ route' = g[translated']
      BY <2>1, <2>2, <2>4
  <2> QED
      BY <2>1, <2>5 DEF LayoutInv
<1>4. CASE Finish
  <2>1. /\ pc = "tokens_to_regex" /\ translated = Len(tokens)
        /\ route' = Finished(tokens, route) /\ pc' = "done" /\ template' = template
      BY <1>4 DEF Finish, Finished, EndsWithSlash, SlashLast
  <2>2. PICK g : LaidIn(g, tokens, template) /\ route = g[translated]
      BY <2>1 DEF LayoutInv
  <2>3. PICK m : Laid(m, route, template, Len(template))
      BY <2>1, <2>2 DEF LaidIn
  <2>4. PICK f : CutInto(f, tokens, template)
      BY <2>1 DEF MeaningInv
  <2>5. PICK n : Made(n, Finished(tokens, route), template)
      BY <1>1, <2>3, <2>4, FinishedMade
  <2>6. Made(n, route', template')
      BY <2>1, <2>5
  <2> QED
      BY <2>1, <2>6 DEF LayoutInv
<1> QED
    BY <1>2, <1>3, <1>4 DEF tokens_to_regex

\* Nothing is laid out when parse() begins.
LEMMA StartOfLayout ==
    ASSUME template \in Seq(Pieces), index = 0, path = <<>>, tokens = <<>>, pc = "parse"
    PROVE  LayoutInv
<1>1. PICK g : Flat(g, <<>>) /\ g[0] = <<>>
    BY FlatNothing
<1> DEFINE m == [j \in {0} |-> 0]
<1>2. Laid(m, <<>>, template, 0)
  <2>1. 0 .. 0 = {0} /\ Len(<<>>) = 0 /\ m \in [0 .. 0 -> 0 .. 0] /\ m[0] = 0 /\ \A j \in 1 .. 0 : FALSE
      OBVIOUS
  <2> HIDE DEF m
  <2> QED
      BY <2>1 DEF Laid
<1>3. Len(tokens) = 0 /\ <<>> \o Chars(path) = <<>>
  <2>1. Chars(path) = <<>>
      BY DEF Chars
  <2> QED
      BY <2>1
<1> HIDE DEF m
<1>4. LaidOut(tokens, path, template, index)
    BY <1>1, <1>2, <1>3 DEF LaidOut
<1> QED
    BY <1>4 DEF LayoutInv

-----------------------------------------------------------------------------
(* What the groups capture. *)

\* What a group matches begins with the prefix of its key, unless it is empty.
LEMMA GroupTexts ==
    ASSUME NEW token \in KeyTokens, NEW text \in ElementPaths(Group(token))
    PROVE  \/ text = <<>>
           \/ \E value \in Text : text = Joined(token.prefix, value)
<1> DEFINE sep == token.prefix
           occurrences == Occurrences(Group(token))
<1>1. sep \in Text /\ PrefixPaths(sep) = {sep} /\ <<>> \in Text /\ PrefixPaths(<<>>) = {<<>>}
    BY SeparatorText DEF KeyTokens, Separators
<1>2. occurrences \subseteq Text
    BY OccurrencesText
<1>3. ElementPaths(Group(token)) =
          IF ~ token.optional \/ token.partial
          THEN Cat({sep}, IF token.optional THEN Cat({<<>>}, occurrences) \cup {<<>>}
                          ELSE Cat({<<>>}, occurrences))
          ELSE Cat({<<>>}, IF token.optional THEN Cat({sep}, occurrences) \cup {<<>>}
                           ELSE Cat({sep}, occurrences))
    BY <1>1 DEF ElementPaths, Group
<1> HIDE DEF occurrences, sep
<1>4. \A y \in Text : Joined(<<>>, y) = y
    BY <1>1, JoinedTexts
<1>5. \A y \in Cat({<<>>}, occurrences) \cup {<<>>} : y \in Text
  <2>1. Cat({<<>>}, occurrences) \subseteq Text
      BY <1>1, <1>2, CatText
  <2> QED
      BY <1>1, <2>1
<1>6. ASSUME NEW y \in Cat({sep}, occurrences) \cup {<<>>}
      PROVE  y \in Text /\ (y = <<>> \/ \E value \in Text : y = Joined(sep, value))
  <2>1. Cat({sep}, occurrences) \subseteq Text
      BY <1>1, <1>2, CatText
  <2>2. y # <<>> => \E value \in occurrences : y = Joined(sep, value)
      BY CatOut
  <2> QED
      BY <1>1, <1>2, <2>1, <2>2
<1>7. CASE ~ token.optional \/ token.partial
  <2>1. PICK A : text \in Cat({sep}, A) /\ A \subseteq Cat({<<>>}, occurrences) \cup {<<>>}
      BY <1>3, <1>7
  <2>2. \E y \in A : text = Joined(sep, y)
      BY <2>1, CatOut
  <2> QED
      BY <1>5, <2>1, <2>2 DEF sep
<1>8. CASE ~ (~ token.optional \/ token.partial)
  <2> DEFINE B == Cat({sep}, occurrences) \cup {<<>>}
  <2>1. text \in Cat({<<>>}, B)
      BY <1>3, <1>8
  <2> HIDE DEF B
  <2>2. PICK y \in B : text = Joined(<<>>, y)
    <3>1. PICK a \in {<<>>} : \E y \in B : text = Joined(a, y)
        BY <2>1, CatOut
    <3> QED
        BY <3>1
  <2> USE DEF B
  <2>3. text = y
      BY <1>4, <1>6, <2>2
  <2> QED
      BY <1>6, <2>3 DEF sep
<1> QED
    BY <1>7, <1>8

\* What is left of a text without its prefix.
LEMMA DropPrefix ==
    ASSUME NEW a \in Text, NEW b \in Text
    PROVE  SubSeq(Joined(a, b), Len(a) + 1, Len(Joined(a, b))) = b
<1> DEFINE s == Joined(a, b)
<1>1. /\ s \in Seq(Alphabet) /\ Len(s) = Len(a) + Len(b) /\ Len(a) \in Nat /\ Len(b) \in Nat
      /\ \A i \in 1 .. Len(b) : s[Len(a) + i] = b[i]
    BY DEF Text, Joined
<1> DEFINE m == Len(a) + 1
           n == Len(s)
<1>2. m \in 1 .. Len(s) + 1 /\ n \in m - 1 .. Len(s) /\ n - m + 1 = Len(b)
      /\ \A i \in 1 .. Len(b) : m + i - 1 = Len(a) + i
    BY <1>1
<1> HIDE DEF s, m, n
<1>3. /\ SubSeq(s, m, n) \in Seq(Alphabet) /\ Len(SubSeq(s, m, n)) = Len(b)
      /\ \A i \in 1 .. Len(b) : SubSeq(s, m, n)[i] = b[i]
    BY <1>1, <1>2, SubSeqIs
<1>4. SubSeq(s, m, n) = b
    BY <1>3, SameSequences DEF Text
<1> QED
    BY <1>4 DEF s, m, n

\* The text that a key stands for is its separator and the value captured, or nothing
\* but the separator, or nothing.
IsValue(value, text, sep) ==
    IF value = <<>> THEN text \in {<<>>, sep} ELSE text = sep \o value

LEMMA Captured ==
    ASSUME NEW token \in KeyTokens, NEW text \in ElementPaths(Group(token)),
           NEW value, value = SubSeq(text, Len(Group(token).before) + Len(Group(token).within) + 1, Len(text))
    PROVE  IsValue(value, text, token.prefix)
<1> DEFINE sep == token.prefix
<1>1. sep \in Text /\ <<>> \in Text /\ Len(sep) \in Nat
    BY SeparatorText DEF KeyTokens, Separators, Text
<1>2. Len(Group(token).before) + Len(Group(token).within) = Len(sep)
  <2>1. \/ Group(token).before = sep /\ Group(token).within = <<>>
        \/ Group(token).before = <<>> /\ Group(token).within = sep
      BY DEF Group
  <2>2. Len(<<>>) = 0
      OBVIOUS
  <2>3. \/ Len(Group(token).before) = Len(sep) /\ Len(Group(token).within) = 0
        \/ Len(Group(token).before) = 0 /\ Len(Group(token).within) = Len(sep)
      BY <2>1, <2>2, Zenon
  <2> DEFINE b == Len(Group(token).before)
             w == Len(Group(token).within)
             n == Len(sep)
  <2>4. n \in Nat /\ ((b = n /\ w = 0) \/ (b = 0 /\ w = n))
      BY <1>1, <2>3
  <2> HIDE DEF b, w, n
  <2>5. b + w = n
      BY <2>4
  <2> QED
      BY <2>5 DEF b, w, n
<1>3. value = SubSeq(text, Len(sep) + 1, Len(text))
    BY <1>2
<1>4. text = <<>> \/ \E y \in Text : text = Joined(sep, y)
    BY GroupTexts
<1> HIDE DEF sep
<1>5. CASE text = <<>>
  <2>1. value = SubSeq(<<>>, Len(sep) + 1, 0)
      BY <1>3, <1>5
  <2>2. SubSeq(<<>>, Len(sep) + 1, 0) = <<>>
      BY <1>1
  <2> QED
      BY <1>5, <2>1, <2>2 DEF IsValue
<1>6. CASE \E y \in Text : text = Joined(sep, y)
  <2>1. PICK y \in Text : text = Joined(sep, y)
      BY <1>6
  <2>2. value = y
      BY <1>1, <1>3, <2>1, DropPrefix
  <2>3. Joined(sep, <<>>) = sep
      BY <1>1, JoinedTexts
  <2> QED
      BY <2>1, <2>2, <2>3 DEF Joined, sep, IsValue
<1> QED
    BY <1>4, <1>5, <1>6

-----------------------------------------------------------------------------
(* The ways to match. *)

IsWays(f, r, p) ==
    f = [i \in 0 .. Len(r) |->
            IF i = 0 THEN {<<0>>}
            ELSE UNION {{Append(way, e) : e \in {e \in way[i] .. Len(p) :
                                                     SubSeq(p, way[i] + 1, e) \in ElementPaths(r[i])}} :
                        way \in f[i - 1]}]

\* The sets of ways that Ways chooses exist.
LEMMA WaysExist ==
    ASSUME NEW r \in Seq(Elements), NEW p
    PROVE  \E f \in [0 .. Len(r) -> SUBSET Seq(Int)] : IsWays(f, r, p)
<1> DEFINE N == Len(r)
           S == SUBSET Seq(Int)
           After(i, W) == UNION {{Append(way, e) : e \in {e \in way[i] .. Len(p) :
                                     SubSeq(p, way[i] + 1, e) \in ElementPaths(r[i])}} : way \in W}
           step == [i \in 1 .. N |-> [W \in S |-> After(i, W)]]
<1>1. N \in Nat /\ {<<0>>} \in S
    OBVIOUS
<1>2. ASSUME NEW i \in 1 .. N, NEW W \in S PROVE After(i, W) \in S
  <2>1. ASSUME NEW w \in After(i, W) PROVE w \in Seq(Int)
    <3>1. PICK way \in W : \E e \in way[i] .. Len(p) : w = Append(way, e)
        OBVIOUS
    <3>2. PICK e \in way[i] .. Len(p) : w = Append(way, e)
        BY <3>1
    <3>3. way \in Seq(Int) /\ e \in Int
        BY <3>2
    <3> QED
        BY <3>2, <3>3
  <2> HIDE DEF After
  <2> QED
      BY <2>1
<1>3. step \in [1 .. N -> [S -> S]]
  <2> HIDE DEF After, S
  <2> QED
      BY <1>2
<1>4. PICK f \in [0 .. N -> S] : Iterates(f, 0 .. N, {<<0>>}, step)
  <2> HIDE DEF step, S, N
  <2> QED
      BY <1>1, <1>3, RecursionUpTo
<1>5. ASSUME NEW i \in 0 .. N
      PROVE  f[i] = IF i = 0 THEN {<<0>>} ELSE After(i, f[i - 1])
  <2>1. CASE i = 0
      BY <1>4, <2>1 DEF Iterates
  <2>2. CASE i # 0
    <3>1. i \in 1 .. N /\ i - 1 \in 0 .. N
        BY <1>1, <2>2
    <3>2. f[i - 1] \in S
        BY <1>4, <3>1
    <3>3. f[i] = step[i][f[i - 1]]
        BY <1>4, <2>2 DEF Iterates
    <3> HIDE DEF After, S
    <3> QED
        BY <2>2, <3>1, <3>2, <3>3
  <2> QED
      BY <2>1, <2>2
<1>6. f = [i \in 0 .. N |-> IF i = 0 THEN {<<0>>} ELSE After(i, f[i - 1])]
  <2> HIDE DEF After, S, N
  <2> QED
      BY <1>4, <1>5
<1>7. IsWays(f, r, p)
    BY <1>6, Zenon DEF IsWays
<1> QED
    BY <1>4, <1>7

\* The text of the i-th element on a way.
TextOn(p, way, i) == SubSeq(p, way[i] + 1, way[i + 1])

IsWay(way, r, p, n) ==
    /\ way \in Seq(Int) /\ Len(way) = n + 1 /\ way[1] = 0
    /\ \A i \in 1 .. n : way[i + 1] \in way[i] .. Len(p) /\ TextOn(p, way, i) \in ElementPaths(r[i])

\* A way with one more step.
LEMMA WayGoesOn ==
    ASSUME NEW r, NEW p, NEW n \in Nat, NEW way, IsWay(way, r, p, n),
           NEW e \in way[n + 1] .. Len(p), SubSeq(p, way[n + 1] + 1, e) \in ElementPaths(r[n + 1])
    PROVE  IsWay(Append(way, e), r, p, n + 1)
<1> DEFINE w == Append(way, e)
<1>1. way \in Seq(Int) /\ Len(way) = n + 1 /\ e \in Int
    BY DEF IsWay
<1>2. /\ w \in Seq(Int) /\ Len(w) = (n + 1) + 1 /\ w[(n + 1) + 1] = e
      /\ \A i \in 1 .. n + 1 : w[i] = way[i]
    BY <1>1, AppendIs
<1> HIDE DEF w
<1>3. w[1] = 0
  <2>1. 1 \in 1 .. n + 1
      OBVIOUS
  <2> QED
      BY <1>2, <2>1 DEF IsWay
<1>4. ASSUME NEW i \in 1 .. n + 1
      PROVE  w[i + 1] \in w[i] .. Len(p) /\ TextOn(p, w, i) \in ElementPaths(r[i])
  <2>1. CASE i = n + 1
    <3>1. w[i] = way[n + 1] /\ w[i + 1] = e
        BY <1>2, <2>1
    <3> QED
        BY <2>1, <3>1 DEF TextOn
  <2>2. CASE i # n + 1
    <3>1. i \in 1 .. n /\ i + 1 \in 1 .. n + 1
        BY <2>2
    <3>2. w[i] = way[i] /\ w[i + 1] = way[i + 1]
        BY <1>2, <3>1
    <3> QED
        BY <3>1, <3>2 DEF TextOn, IsWay
  <2> QED
      BY <2>1, <2>2
<1>5. IsWay(w, r, p, n + 1)
    BY <1>2, <1>3, <1>4 DEF IsWay
<1> QED
    BY <1>5 DEF w

\* The ways of Ways are ways through the whole regex and the whole path.
LEMMA WaysAreWays ==
    ASSUME NEW r \in Seq(Elements), NEW p, NEW way \in Ways(r, p)
    PROVE  IsWay(way, r, p, Len(r)) /\ way[Len(r) + 1] = Len(p)
<1> DEFINE N == Len(r)
<1>1. PICK g : IsWays(g, r, p)
    BY WaysExist
<1> DEFINE f == CHOOSE f : IsWays(f, r, p)
<1>2. IsWays(f, r, p)
    BY <1>1, Zenon
<1>3. Ways(r, p) = {w \in f[N] : w[N + 1] = Len(p)}
    BY Zenon DEF Ways, IsWays
<1> HIDE DEF f
<1> DEFINE Good == {i \in 0 .. N : \A w \in f[i] : IsWay(w, r, p, i)}
<1>4. N \in Nat /\ 0 \in 0 .. N /\ N \in 0 .. N
    OBVIOUS
<1>5. f[0] = {<<0>>}
    BY <1>2, <1>4 DEF IsWays
<1>6. ASSUME NEW i \in 1 .. N, i \in 0 .. N, i # 0, NEW w \in f[i]
      PROVE  \E v \in f[i - 1] : \E e \in v[i] .. Len(p) :
                 SubSeq(p, v[i] + 1, e) \in ElementPaths(r[i]) /\ w = Append(v, e)
  <2>1. f[i] = UNION {{Append(v, e) : e \in {e \in v[i] .. Len(p) :
                                                 SubSeq(p, v[i] + 1, e) \in ElementPaths(r[i])}} :
                      v \in f[i - 1]}
      BY <1>2, <1>6 DEF IsWays
  <2> QED
      BY <1>6, <2>1
<1>7. 0 \in Good
  <2>1. <<0>> \in Seq(Int) /\ Len(<<0>>) = 0 + 1 /\ <<0>>[1] = 0 /\ \A i \in 1 .. 0 : FALSE
      OBVIOUS
  <2>2. IsWay(<<0>>, r, p, 0)
      BY <2>1 DEF IsWay
  <2> QED
      BY <1>4, <1>5, <2>2
<1>8. ASSUME NEW n \in 0 .. N - 1, n \in Good PROVE n + 1 \in Good
  <2>1. n \in Nat /\ n + 1 \in 1 .. N /\ n + 1 \in 0 .. N /\ n + 1 # 0 /\ (n + 1) - 1 = n
      BY <1>4
  <2>2. ASSUME NEW w \in f[n + 1] PROVE IsWay(w, r, p, n + 1)
    <3>1. PICK v \in f[n] : \E e \in v[n + 1] .. Len(p) :
              SubSeq(p, v[n + 1] + 1, e) \in ElementPaths(r[n + 1]) /\ w = Append(v, e)
        BY <1>6, <2>1
    <3>2. IsWay(v, r, p, n)
        BY <1>8
    <3> HIDE DEF Good
    <3> QED
        BY <2>1, <3>1, <3>2, WayGoesOn
  <2> QED
      BY <2>1, <2>2
<1>9. \A n \in 0 .. N : n \in Good
  <2> HIDE DEF Good
  <2> QED
      BY <1>4, <1>7, <1>8, InductionUpTo
<1> QED
    BY <1>3, <1>4, <1>9

-----------------------------------------------------------------------------
(* The numbers of keys and of groups. *)

\* Of two elements of a set of numbers, the larger one has more up to it.
LEMMA RankOrder ==
    ASSUME NEW N \in Nat, NEW S, S \subseteq 1 .. N, NEW i \in S, NEW k \in S, i < k
    PROVE  Cardinality(UpToElement(S, i)) < Cardinality(UpToElement(S, k))
<1> DEFINE A == UpToElement(S, i)
           B == UpToElement(S, k)
<1>0. i \in Int /\ k \in Int /\ \A j \in S : j \in Int
    OBVIOUS
<1>1. A \cup {k} \subseteq B /\ k \notin A
  <2>1. \A j \in S : j <= i => j <= k
      BY <1>0
  <2>2. k <= k /\ ~ (k <= i)
      BY <1>0
  <2> QED
      BY <2>1, <2>2 DEF UpToElement
<1>2. A \subseteq 1 .. N /\ B \subseteq 1 .. N
    BY DEF UpToElement
<1> HIDE DEF A, B
<1>3. IsFiniteSet(A) /\ Cardinality(A) \in Nat /\ IsFiniteSet(B) /\ Cardinality(B) \in Nat
    BY <1>2, Ranks
<1>4. Cardinality(A \cup {k}) = Cardinality(A) + 1
    BY <1>1, <1>3, FS_AddElement
<1>5. Cardinality(A \cup {k}) <= Cardinality(B)
    BY <1>1, <1>3, FS_Subset
<1>6. Cardinality(A) < Cardinality(B)
    BY <1>3, <1>4, <1>5
<1> QED
    BY <1>6 DEF A, B

\* Two elements with the same rank are the same.
LEMMA RankOnce ==
    ASSUME NEW N \in Nat, NEW S, S \subseteq 1 .. N, NEW i \in S, NEW k \in S,
           Cardinality(UpToElement(S, i)) = Cardinality(UpToElement(S, k))
    PROVE  i = k
<1>1. i \in Int /\ k \in Int
    OBVIOUS
<1>2. Cardinality(UpToElement(S, i)) \in Nat /\ Cardinality(UpToElement(S, k)) \in Nat
  <2>1. UpToElement(S, i) \subseteq 1 .. N /\ UpToElement(S, k) \subseteq 1 .. N
      BY DEF UpToElement
  <2> QED
      BY <2>1, Ranks
<1>3. ~ (i < k)
  <2>1. i < k => Cardinality(UpToElement(S, i)) < Cardinality(UpToElement(S, k))
      BY RankOrder
  <2> QED
      BY <1>2, <2>1
<1>4. ~ (k < i)
  <2>1. k < i => Cardinality(UpToElement(S, k)) < Cardinality(UpToElement(S, i))
      BY RankOrder
  <2> QED
      BY <1>2, <2>1
<1> QED
    BY <1>1, <1>3, <1>4

\* The elements that open a group.
Openers(r) == {k \in DOMAIN r : OpensGroup(r[k])}

\* The number of a group is its rank among the elements that open one.
LEMMA NumberIsRank ==
    ASSUME NEW r \in Seq(Elements), NEW k \in 0 .. Len(r)
    PROVE  /\ Len(r) \in Nat /\ Openers(r) \subseteq 1 .. Len(r)
           /\ GroupNumber(r, k) = Cardinality(UpToElement(Openers(r), k))
<1>1. Len(r) \in Nat /\ DOMAIN r = 1 .. Len(r)
    OBVIOUS
<1>2. \A j : (j \in 1 .. k) <=> (j \in 1 .. Len(r) /\ j <= k)
    BY <1>1
<1>3. {j \in 1 .. k : OpensGroup(r[j])} = UpToElement(Openers(r), k)
    BY <1>1, <1>2 DEF UpToElement, Openers
<1> QED
    BY <1>1, <1>3 DEF Openers, GroupNumber

\* The group that comes from a key has the number of the key.
LEMMA GroupOfKey ==
    ASSUME NEW t \in Seq(Pieces), NEW r \in Seq(Elements), NEW m, Made(m, r, t)
    PROVE  \A j \in 0 .. Len(t) + 1 : GroupNumber(r, m[j]) = Cardinality(KeysUpTo(t, j))
<1> DEFINE N == Len(t) + 1
           Good == {j \in 0 .. N : GroupNumber(r, m[j]) = Cardinality(KeysUpTo(t, j))}
           S == Openers(r)
           K == KeyPositions(t)
<1>1. /\ N \in Nat /\ 0 \in 0 .. N
      /\ m \in [0 .. N -> 0 .. Len(r)] /\ m[0] = 0 /\ \A j \in 1 .. N : IsMade(m, r, t, j)
    BY DEF Made
<1>2. Len(r) \in Nat /\ S \subseteq 1 .. Len(r) /\ K \subseteq 1 .. Len(t) /\ Len(t) \in Nat
  <2>1. 0 \in 0 .. Len(r)
      OBVIOUS
  <2> QED
      BY <2>1, NumberIsRank, KeysAreNumbers
<1>3. \A k \in 0 .. Len(r) : GroupNumber(r, k) = Cardinality(UpToElement(S, k))
    BY NumberIsRank
<1> HIDE DEF N, S, K
<1>4. 0 \in Good
  <2>1. UpToElement(S, 0) = {} /\ UpToElement(K, 0) = {}
    <3>1. \A j \in S : ~ (j <= 0)
        BY <1>2
    <3>2. \A j \in K : ~ (j <= 0)
        BY <1>2
    <3> QED
        BY <3>1, <3>2 DEF UpToElement
  <2>2. m[0] = 0 /\ 0 \in 0 .. Len(r)
      BY <1>1, <1>2
  <2>3. GroupNumber(r, m[0]) = Cardinality(KeysUpTo(t, 0))
      BY <1>3, <2>1, <2>2 DEF KeysUpTo, K
  <2> QED
      BY <1>1, <2>3
<1>5. ASSUME NEW j \in 0 .. N - 1, j \in Good PROVE j + 1 \in Good
  <2>1. j + 1 \in 1 .. N /\ j + 1 \in 0 .. N /\ (j + 1) - 1 = j /\ j \in 0 .. N /\ j \in Nat
      BY <1>1
  <2>2. IsMade(m, r, t, j + 1) /\ m[j] \in 0 .. Len(r) /\ m[j + 1] \in 0 .. Len(r)
      BY <1>1, <2>1
  <2> DEFINE a == m[j]
             b == m[j + 1]
  <2>3. Cardinality(UpToElement(S, a)) = Cardinality(UpToElement(K, j))
      BY <1>3, <1>5, <2>2 DEF KeysUpTo, K
  <2>4. b = a \/ (b = a + 1 /\ b \in 1 .. Len(r) /\ r[b] \in Elements /\ DOMAIN r = 1 .. Len(r))
    <3>1. b = a \/ b = a + 1
        BY <2>1, <2>2 DEF IsMade
    <3>2. b = a + 1 => b \in 1 .. Len(r)
        BY <1>2, <2>2
    <3> QED
        BY <3>1, <3>2
  <2>5. UpToElement(S, a) \subseteq 1 .. Len(r) /\ UpToElement(K, j) \subseteq 1 .. Len(t)
      BY <1>2 DEF UpToElement
  <2>6. IsFiniteSet(UpToElement(S, a)) /\ IsFiniteSet(UpToElement(K, j))
      BY <1>2, <2>5, Ranks
  <2>7. CASE j + 1 \in K
    <3>1. b = a + 1 /\ r[b].op = "group"
      <4>1. b = a + 1 /\ \E token : r[b] = Group(token)
          BY <2>1, <2>2, <2>7 DEF IsMade, K
      <4>2. PICK token : r[b] = Group(token)
          BY <4>1
      <4> HIDE DEF b
      <4>3. r[b].op = "group"
          BY <4>2 DEF Group
      <4> QED
          BY <4>1, <4>3
    <3>2. b \in S
        BY <1>2, <2>2, <2>4, <3>1, ElementKinds DEF S, Openers
    <3>3. UpToElement(S, b) = UpToElement(S, a) \cup {b} /\ b \notin UpToElement(S, a)
      <4>1. \A x \in S : x <= b <=> (x <= a \/ x = b)
          BY <1>2, <2>2, <3>1
      <4>2. ~ (b <= a)
          BY <2>2, <3>1
      <4> QED
          BY <3>2, <4>1, <4>2 DEF UpToElement
    <3>4. UpToElement(K, j + 1) = UpToElement(K, j) \cup {j + 1} /\ j + 1 \notin UpToElement(K, j)
      <4>1. \A x \in K : x <= j + 1 <=> (x <= j \/ x = j + 1)
          BY <1>2, <2>1
      <4>2. ~ (j + 1 <= j)
          BY <2>1
      <4> QED
          BY <2>7, <4>1, <4>2 DEF UpToElement
    <3> HIDE DEF a, b
    <3>5. /\ Cardinality(UpToElement(S, b)) = Cardinality(UpToElement(S, a)) + 1
          /\ Cardinality(UpToElement(K, j + 1)) = Cardinality(UpToElement(K, j)) + 1
        BY <2>6, <3>3, <3>4, FS_AddElement
    <3>6. GroupNumber(r, b) = Cardinality(KeysUpTo(t, j + 1))
        BY <1>3, <2>2, <2>3, <3>5 DEF KeysUpTo, K, b
    <3> QED
        BY <2>1, <3>6 DEF b
  <2>8. CASE j + 1 \notin K
    <3>1. UpToElement(K, j + 1) = UpToElement(K, j)
      <4>1. \A x \in K : x <= j + 1 <=> x <= j
          BY <1>2, <2>1, <2>8
      <4> QED
          BY <4>1 DEF UpToElement
    <3>2. UpToElement(S, b) = UpToElement(S, a)
      <4>1. CASE b = a
          BY <4>1
      <4>2. CASE b # a
        <5>1. b = a + 1 /\ r[b].op # "group"
            BY <2>1, <2>2, <2>4, <2>8, <4>2 DEF IsMade, K
        <5>2. b \notin S
            BY <2>4, <4>2, <5>1, ElementKinds DEF S, Openers
        <5>3. \A x \in S : x <= b <=> x <= a
            BY <1>2, <2>2, <5>1, <5>2
        <5> QED
            BY <5>3 DEF UpToElement
      <4> QED
          BY <4>1, <4>2
    <3> HIDE DEF a, b
    <3>3. GroupNumber(r, b) = Cardinality(KeysUpTo(t, j + 1))
        BY <1>3, <2>2, <2>3, <3>1, <3>2 DEF KeysUpTo, K, b
    <3> QED
        BY <2>1, <3>3 DEF b
  <2> QED
      BY <2>7, <2>8
<1>6. \A j \in 0 .. N : j \in Good
  <2> HIDE DEF Good
  <2> QED
      BY <1>1, <1>4, <1>5, InductionUpTo
<1> QED
    BY <1>6 DEF N

\* The key at a position of the template has one group, and its number finds it.
LEMMA GroupFound ==
    ASSUME NEW t \in Seq(Pieces), NEW r \in Seq(Elements), NEW m, Made(m, r, t),
           NEW j \in KeyPositions(t), NEW p, NEW way
    PROVE  LET e == r[m[j]]
           IN  Res(r, p, way, Cardinality(KeysUpTo(t, j)))
               = SubSeq(p, way[m[j]] + 1 + Len(e.before) + Len(e.within), way[m[j] + 1])
<1> DEFINE n == Cardinality(KeysUpTo(t, j))
           i == CHOOSE k \in DOMAIN r : OpensGroup(r[k]) /\ GroupNumber(r, k) = n
<1>1. j \in 1 .. Len(t) + 1 /\ j \in 0 .. Len(t) + 1 /\ j - 1 \in 0 .. Len(t) + 1 /\ Len(t) \in Nat
  <2>1. j \in 1 .. Len(t) /\ Len(t) \in Nat
      BY KeysAreNumbers
  <2> QED
      BY <2>1
<1>2. m[j] \in 0 .. Len(r) /\ m[j - 1] \in 0 .. Len(r) /\ m[j] = m[j - 1] + 1 /\ r[m[j]].op = "group"
  <2>1. m[j] \in 0 .. Len(r) /\ m[j - 1] \in 0 .. Len(r) /\ IsMade(m, r, t, j)
      BY <1>1 DEF Made
  <2>2. m[j] = m[j - 1] + 1 /\ \E token : r[m[j]] = Group(token)
      BY <2>1 DEF IsMade
  <2>3. r[m[j]].op = "group"
      BY <2>2 DEF Group
  <2> QED
      BY <2>1, <2>2, <2>3
<1>3. DOMAIN r = 1 .. Len(r) /\ Len(r) \in Nat
    OBVIOUS
<1>4. m[j] \in DOMAIN r
    BY <1>2, <1>3
<1>5. OpensGroup(r[m[j]]) /\ GroupNumber(r, m[j]) = n
    BY <1>1, <1>2, <1>4, GroupOfKey, ElementKinds
<1>6. ASSUME NEW k \in DOMAIN r, OpensGroup(r[k]), GroupNumber(r, k) = n PROVE k = m[j]
  <2>1. k \in Openers(r) /\ m[j] \in Openers(r) /\ k \in 0 .. Len(r)
      BY <1>3, <1>4, <1>5, <1>6 DEF Openers
  <2>2. Openers(r) \subseteq 1 .. Len(r)
      BY <2>1, NumberIsRank
  <2>3. Cardinality(UpToElement(Openers(r), k)) = Cardinality(UpToElement(Openers(r), m[j]))
      BY <1>2, <1>5, <1>6, <2>1, NumberIsRank
  <2> QED
      BY <1>3, <2>1, <2>2, <2>3, RankOnce
<1> HIDE DEF n
<1>7. i = m[j]
    BY <1>4, <1>5, <1>6
<1>8. Res(r, p, way, n) = SubSeq(p, way[i] + 1 + Len(r[i].before) + Len(r[i].within), way[i + 1])
    BY DEF Res
<1> QED
    BY <1>7, <1>8 DEF n

\* No key before it has its name.
FirstOfName(t, j) == \A i \in 1 .. j - 1 : IsKey(t[i]) => ParameterName(t, i) # ParameterName(t, j)

\* The values are those of the parameters; the value of a name is what the group of
\* the first key of that name has captured.
LEMMA ValuesAre ==
    ASSUME NEW t \in Seq(Pieces), NEW e, NEW p, NEW way, e.keys \in Seq(KeyTokens),
           NamedAs(e.keys, t, Len(t))
    PROVE  /\ DOMAIN Values(e, p, way) = {ParameterName(t, j) : j \in KeyPositions(t)}
           /\ \A j \in KeyPositions(t) : FirstOfName(t, j) =>
                  Values(e, p, way)[ParameterName(t, j)] = Res(e.expr, p, way, Cardinality(KeysUpTo(t, j)))
<1> DEFINE K == KeyPositions(t)
           ks == e.keys
           names == {ks[i].name : i \in DOMAIN ks}
           Number(j) == Cardinality(UpToElement(K, j))
<1>1. Len(t) \in Nat /\ K \subseteq 1 .. Len(t) /\ KeysUpTo(t, Len(t)) = K
    BY KeysAreNumbers
<1>2. Len(ks) = Cardinality(K) /\ DOMAIN ks = 1 .. Cardinality(K) /\ Cardinality(K) \in Nat
    BY <1>1 DEF NamedAs
<1>3. \A j \in K : Number(j) \in DOMAIN ks /\ ks[Number(j)].name = ParameterName(t, j)
  <2>1. \A j \in K : Number(j) \in 1 .. Cardinality(K)
      BY <1>1, Ranks
  <2> QED
      BY <1>1, <1>2, <2>1 DEF NamedAs, KeysUpTo
<1>4. \A n \in DOMAIN ks : \E j \in K : Number(j) = n
    BY <1>1, <1>2, Ranks
<1>5. names = {ParameterName(t, j) : j \in K}
    BY <1>3, <1>4
<1>6. DOMAIN Values(e, p, way) = names
    BY DEF Values
<1>7. ASSUME NEW j \in K, FirstOfName(t, j)
      PROVE  Values(e, p, way)[ParameterName(t, j)] = Res(e.expr, p, way, Number(j))
  <2> DEFINE name == ParameterName(t, j)
             First(k) == ks[k].name = name /\ \A l \in 1 .. k - 1 : ks[l].name # name
  <2>1. name \in names
      BY <1>5
  <2>2. Values(e, p, way)[name] = Res(e.expr, p, way, CHOOSE k \in DOMAIN ks : First(k))
      BY <2>1 DEF Values
  <2>3. Number(j) \in DOMAIN ks /\ ks[Number(j)].name = name /\ Number(j) \in Nat
      BY <1>2, <1>3
  <2>4. ASSUME NEW l \in 1 .. Number(j) - 1 PROVE ks[l].name # name
    <3>1. l \in DOMAIN ks /\ l < Number(j)
        BY <1>2, <2>3
    <3>2. PICK q \in K : Number(q) = l
        BY <1>4, <3>1
    <3>3. q < j
      <4>1. q # j /\ ~ (j < q)
        <5>1. j < q => Number(j) < Number(q)
            BY <1>1, RankOrder
        <5> QED
            BY <2>3, <3>1, <3>2, <5>1
      <4> QED
          BY <1>1, <4>1
    <3>4. q \in 1 .. j - 1 /\ IsKey(t[q])
        BY <1>1, <3>3 DEF KeyPositions
    <3>5. ParameterName(t, q) # name
        BY <1>7, <3>4 DEF FirstOfName
    <3> QED
        BY <1>3, <3>2, <3>5
  <2>5. First(Number(j))
      BY <2>3, <2>4
  <2>6. ASSUME NEW k \in DOMAIN ks, First(k) PROVE k = Number(j)
    <3>1. k \in Nat \ {0} /\ Number(j) \in Nat \ {0}
        BY <1>2, <2>3
    <3>2. ~ (k < Number(j))
        BY <2>4, <2>6, <3>1
    <3>3. ~ (Number(j) < k)
        BY <2>3, <2>6, <3>1
    <3> QED
        BY <3>1, <3>2, <3>3
  <2> HIDE DEF First, Number
  <2>7. (CHOOSE k \in DOMAIN ks : First(k)) = Number(j)
      BY <2>3, <2>5, <2>6
  <2> QED
      BY <2>2, <2>7
<1> QED
    BY <1>5, <1>6, <1>7 DEF KeysUpTo

-----------------------------------------------------------------------------
(* The parameters fit the template. *)

\* What stands for a key is its separator and its value, or its separator, or nothing.
FitsAt(vals, t, j, text) ==
    IsKey(t[j]) /\ FirstOfName(t, j) => IsValue(vals[ParameterName(t, j)], text, Separator(t, j))

\* The places where a path can be cut so that its parts stand for the first pieces.
IsCuts(c, t, p, vals) ==
    c = [j \in 0 .. Len(t) + 1 |->
            IF j = 0 THEN {0}
            ELSE UNION {{e \in s .. Len(p) :
                            /\ SubSeq(p, s + 1, e) \in PieceTexts(t, j)
                            /\ j <= Len(t) => FitsAt(vals, t, j, SubSeq(p, s + 1, e))} : s \in c[j - 1]}]

\* The sets of places that ParametersGivePath chooses exist.
LEMMA CutsExist ==
    ASSUME NEW t \in Seq(Pieces), NEW p, NEW vals
    PROVE  \E c : IsCuts(c, t, p, vals)
<1> DEFINE N == Len(t) + 1
           S == SUBSET Int
           After(j, W) == UNION {{e \in s .. Len(p) :
                              /\ SubSeq(p, s + 1, e) \in PieceTexts(t, j)
                              /\ j <= Len(t) => FitsAt(vals, t, j, SubSeq(p, s + 1, e))} : s \in W}
           step == [j \in 1 .. N |-> [W \in S |-> After(j, W)]]
<1>1. N \in Nat /\ {0} \in S
    OBVIOUS
<1>2. ASSUME NEW j \in 1 .. N, NEW W \in S PROVE After(j, W) \in S
  <2>1. ASSUME NEW e \in After(j, W) PROVE e \in Int
    <3>1. PICK s \in W : e \in s .. Len(p)
        OBVIOUS
    <3> QED
        BY <3>1
  <2> HIDE DEF After
  <2> QED
      BY <2>1
<1>3. step \in [1 .. N -> [S -> S]]
  <2> HIDE DEF After, S
  <2> QED
      BY <1>2
<1>4. PICK c \in [0 .. N -> S] : Iterates(c, 0 .. N, {0}, step)
  <2> HIDE DEF step, S, N
  <2> QED
      BY <1>1, <1>3, RecursionUpTo
<1>5. ASSUME NEW j \in 0 .. N
      PROVE  c[j] = IF j = 0 THEN {0} ELSE After(j, c[j - 1])
  <2>1. CASE j = 0
      BY <1>4, <2>1 DEF Iterates
  <2>2. CASE j # 0
    <3>1. j \in 1 .. N /\ j - 1 \in 0 .. N
        BY <1>1, <2>2
    <3>2. c[j - 1] \in S
        BY <1>4, <3>1
    <3>3. c[j] = step[j][c[j - 1]]
        BY <1>4, <2>2 DEF Iterates
    <3> HIDE DEF After, S
    <3> QED
        BY <2>2, <3>1, <3>2, <3>3
  <2> QED
      BY <2>1, <2>2
<1>6. c = [j \in 0 .. N |-> IF j = 0 THEN {0} ELSE After(j, c[j - 1])]
  <2> HIDE DEF After, S, N
  <2> QED
      BY <1>4, <1>5
<1>7. IsCuts(c, t, p, vals)
    BY <1>6, Zenon DEF IsCuts
<1> QED
    BY <1>7

\* What ParametersGivePath says of the template, the path and the parameters of a request.
ParamsFit(t, p, vals) ==
    LET First(j) == \A i \in 1 .. j - 1 :
                        IsKey(t[i]) => ParameterName(t, i) # ParameterName(t, j)
        Fits(j, text) ==
            IsKey(t[j]) /\ First(j) =>
                LET value == vals[ParameterName(t, j)]
                IN  IF value = <<>> THEN text \in {<<>>, Separator(t, j)}
                    ELSE text = Separator(t, j) \o value
        cuts[j \in 0 .. Len(t) + 1] ==
            IF j = 0 THEN {0}
            ELSE UNION {{e \in s .. Len(p) :
                            /\ SubSeq(p, s + 1, e) \in PieceTexts(t, j)
                            /\ j <= Len(t) => Fits(j, SubSeq(p, s + 1, e))} : s \in cuts[j - 1]}
    IN  /\ DOMAIN vals = {ParameterName(t, j) : j \in KeyPositions(t)}
        /\ Len(p) \in cuts[Len(t) + 1]

\* A place after every piece: the part between two places stands for the piece.
CutAt(pos, t, p, vals, j) ==
    /\ pos[j] \in pos[j - 1] .. Len(p)
    /\ SubSeq(p, pos[j - 1] + 1, pos[j]) \in PieceTexts(t, j)
    /\ j <= Len(t) => FitsAt(vals, t, j, SubSeq(p, pos[j - 1] + 1, pos[j]))

\* If there is a place after every piece, the path is cut to its end.
LEMMA CutsReached ==
    ASSUME NEW t \in Seq(Pieces), NEW p, NEW vals, NEW pos, pos[0] = 0, pos[Len(t) + 1] = Len(p),
           \A j \in 1 .. Len(t) + 1 : CutAt(pos, t, p, vals, j),
           DOMAIN vals = {ParameterName(t, j) : j \in KeyPositions(t)}
    PROVE  ParamsFit(t, p, vals)
<1> DEFINE N == Len(t) + 1
           c == CHOOSE c : IsCuts(c, t, p, vals)
           Good == {j \in 0 .. N : pos[j] \in c[j]}
<1>1. IsCuts(c, t, p, vals)
  <2>1. PICK d : IsCuts(d, t, p, vals)
      BY CutsExist
  <2> QED
      BY <2>1, Zenon
<1>2. Len(p) \in c[N] => ParamsFit(t, p, vals)
    BY Zenon DEF ParamsFit, IsCuts, FitsAt, FirstOfName, IsValue
<1> HIDE DEF c
<1>3. N \in Nat /\ 0 \in 0 .. N
    OBVIOUS
<1>4. 0 \in Good
    BY <1>1, <1>3 DEF IsCuts
<1>5. ASSUME NEW j \in 0 .. N - 1, j \in Good PROVE j + 1 \in Good
  <2>1. j + 1 \in 0 .. N /\ j + 1 \in 1 .. N /\ j + 1 # 0 /\ (j + 1) - 1 = j
      BY <1>3
  <2> DEFINE i == j + 1
             s == pos[i - 1]
  <2>2. c[i] = UNION {{e \in w .. Len(p) :
                         /\ SubSeq(p, w + 1, e) \in PieceTexts(t, i)
                         /\ i <= Len(t) => FitsAt(vals, t, i, SubSeq(p, w + 1, e))} : w \in c[i - 1]}
      BY <1>1, <2>1 DEF IsCuts
  <2>3. s \in c[i - 1] /\ CutAt(pos, t, p, vals, i)
      BY <1>5, <2>1
  <2> HIDE DEF i
  <2>4. pos[i] \in c[i]
      BY <2>2, <2>3 DEF CutAt
  <2> QED
      BY <2>1, <2>4 DEF i
<1>6. \A j \in 0 .. N : j \in Good
  <2> HIDE DEF Good, N
  <2> QED
      BY <1>3, <1>4, <1>5, InductionUpTo
<1> QED
    BY <1>2, <1>3, <1>6

\* A way stays within the path.
LEMMA WayInside ==
    ASSUME NEW r \in Seq(Elements), NEW p \in Text, NEW way, IsWay(way, r, p, Len(r))
    PROVE  \A i \in 0 .. Len(r) : way[i + 1] \in 0 .. Len(p)
<1> DEFINE Good == {i \in 0 .. Len(r) : way[i + 1] \in 0 .. Len(p)}
<1>1. Len(r) \in Nat /\ Len(p) \in Nat /\ 0 \in 0 .. Len(r) /\ 0 + 1 = 1
    BY DEF Text
<1>2. 0 \in Good
    BY <1>1 DEF IsWay
<1>3. ASSUME NEW i \in 0 .. Len(r) - 1, i \in Good PROVE i + 1 \in Good
  <2>1. i + 1 \in 1 .. Len(r) /\ i + 1 \in 0 .. Len(r)
      BY <1>1
  <2>2. way[(i + 1) + 1] \in way[i + 1] .. Len(p) /\ way[i + 1] \in 0 .. Len(p)
      BY <1>3, <2>1 DEF IsWay
  <2>3. way[(i + 1) + 1] \in 0 .. Len(p)
      BY <1>1, <2>2
  <2> QED
      BY <2>1, <2>3
<1> HIDE DEF Good
<1>4. \A i \in 0 .. Len(r) : i \in Good
    BY <1>1, <1>2, <1>3, InductionUpTo
<1> QED
    BY <1>4 DEF Good

\* An entry of the table, for the template it was made from.
EntryFits(e, t) ==
    /\ e.expr \in Seq(Elements) /\ e.keys \in Seq(KeyTokens)
    /\ t \in Seq(Pieces)
    /\ NamedAs(e.keys, t, Len(t))
    /\ \E m : Made(m, e.expr, t)

\* The part of the path that a group has matched fits the key it is made for.
LEMMA KeyFits ==
    ASSUME NEW e, NEW t, EntryFits(e, t), NEW p \in Paths, NEW way, IsWay(way, e.expr, p, Len(e.expr)),
           NEW m, Made(m, e.expr, t), NEW j \in KeyPositions(t)
    PROVE  LET text == TextOn(p, way, m[j])
           IN  text \in PieceTexts(t, j) /\ FitsAt(Values(e, p, way), t, j, text)
<1> DEFINE r == e.expr
           b == m[j]
           text == TextOn(p, way, b)
           vals == Values(e, p, way)
<1>1. r \in Seq(Elements) /\ e.keys \in Seq(KeyTokens) /\ t \in Seq(Pieces) /\ NamedAs(e.keys, t, Len(t))
    BY DEF EntryFits
<1>2. Len(t) \in Nat /\ j \in 1 .. Len(t) /\ j \in 1 .. Len(t) + 1 /\ j \in 0 .. Len(t) + 1
      /\ j - 1 \in 0 .. Len(t) + 1 /\ ~ (j > Len(t)) /\ IsKey(t[j])
  <2>1. Len(t) \in Nat /\ j \in 1 .. Len(t) /\ IsKey(t[j])
      BY <1>1, KeysAreNumbers DEF KeyPositions
  <2> QED
      BY <2>1
<1>3. p \in Text /\ Len(p) \in Nat /\ Len(p) <= MaxPath
    BY PathAssumption DEF Paths, Text
<1>4. b \in 0 .. Len(r) /\ m[j - 1] \in 0 .. Len(r) /\ IsMade(m, r, t, j)
    BY <1>2 DEF Made
<1>5. b = m[j - 1] + 1 /\ \E token : IsTokenOf(token, t, j) /\ r[b] = Group(token)
    BY <1>4 DEF IsMade
<1>6. PICK token : IsTokenOf(token, t, j) /\ r[b] = Group(token)
    BY <1>5
<1>7. Len(r) \in Nat /\ b \in 1 .. Len(r) /\ b - 1 \in 0 .. Len(r) /\ (b - 1) + 1 = b
    BY <1>1, <1>4, <1>5
<1>8. way[b] \in 0 .. Len(p) /\ way[b + 1] \in way[b] .. Len(p) /\ text \in ElementPaths(Group(token))
  <2>1. way[(b - 1) + 1] \in 0 .. Len(p)
      BY <1>1, <1>3, <1>7, WayInside
  <2>2. way[b + 1] \in way[b] .. Len(p) /\ TextOn(p, way, b) \in ElementPaths(r[b])
      BY <1>7 DEF IsWay
  <2> QED
      BY <1>6, <1>7, <2>1, <2>2
<1>9. token \in KeyTokens /\ token.prefix = Separator(t, j)
    BY <1>6 DEF IsTokenOf
<1> DEFINE off == Len(Group(token).before) + Len(Group(token).within)
           s == way[b]
           x == way[b + 1]
<1>10. Len(Group(token).before) \in Nat /\ Len(Group(token).within) \in Nat /\ off \in Nat
  <2>1. token.prefix \in {<<>>, <<"/">>} /\ Len(<<>>) = 0 /\ Len(<<"/">>) = 1
      BY <1>9 DEF KeyTokens, Separators
  <2>2. Group(token).before \in {<<>>, <<"/">>} /\ Group(token).within \in {<<>>, <<"/">>}
      BY <2>1 DEF Group
  <2> DEFINE lb == Len(Group(token).before)
             lw == Len(Group(token).within)
  <2>3. lb \in Nat /\ lw \in Nat
      BY <2>1, <2>2
  <2> HIDE DEF lb, lw
  <2>4. lb + lw \in Nat
      BY <2>3
  <2> QED
      BY <2>3, <2>4 DEF lb, lw
<1>11. /\ Len(text) = x - s
       /\ SubSeq(p, s + 1 + off, x) = SubSeq(text, off + 1, Len(text))
  <2>1. p \in Seq(Alphabet) /\ s \in 0 .. Len(p) /\ x \in s .. Len(p) /\ text = SubSeq(p, s + 1, x)
      BY <1>3, <1>8 DEF Text, TextOn
  <2> HIDE DEF off, s, x, text
  <2> QED
      BY <1>10, <2>1, PartOfPart
<1>12. text \in PieceTexts(t, j)
  <2>1. Len(text) <= MaxPath
      BY <1>3, <1>8, <1>11, PathAssumption
  <2>2. t[j] \in KeyPieces
      BY <1>1, <1>2, PieceKinds
  <2>3. Short(ElementPaths(Group(token))) = Short(KeyPaths(t, j))
      BY <1>6, <2>2, GroupPaths
  <2>4. text \in Short(KeyPaths(t, j))
      BY <1>8, <2>1, <2>3 DEF Short
  <2>5. PieceTexts(t, j) = KeyPaths(t, j)
      BY <1>2 DEF PieceTexts
  <2> QED
      BY <2>4, <2>5 DEF Short
<1>13. FitsAt(vals, t, j, text)
  <2> SUFFICES ASSUME FirstOfName(t, j)
               PROVE  IsValue(vals[ParameterName(t, j)], text, Separator(t, j))
      BY DEF FitsAt
  <2> DEFINE value == vals[ParameterName(t, j)]
             lb == Len(Group(token).before)
             lw == Len(Group(token).within)
  <2>1. value = Res(r, p, way, Cardinality(KeysUpTo(t, j)))
      BY <1>1, ValuesAre
  <2>2. value = SubSeq(p, s + 1 + lb + lw, x)
    <3>1. Res(r, p, way, Cardinality(KeysUpTo(t, j)))
              = SubSeq(p, s + 1 + Len(r[b].before) + Len(r[b].within), x)
        BY <1>1, GroupFound
    <3> QED
        BY <1>6, <2>1, <3>1
  <2>3. s + 1 + lb + lw = s + 1 + off
    <3> HIDE DEF lb, lw
    <3>1. lb \in Nat /\ lw \in Nat /\ s \in Int
        BY <1>8, <1>10 DEF lb, lw
    <3>2. s + 1 + lb + lw = s + 1 + (lb + lw)
        BY <3>1
    <3> QED
        BY <3>2 DEF lb, lw
  <2>4. value = SubSeq(text, off + 1, Len(text))
      BY <1>11, <2>2, <2>3
  <2> HIDE DEF text, value
  <2>5. IsValue(value, text, token.prefix)
      BY <1>8, <1>9, <2>4, Captured, Zenon
  <2> QED
      BY <1>9, <2>5 DEF value
<1> QED
    BY <1>12, <1>13

\* The parameters that a route gives a path fit the template of the route.
LEMMA ParametersFit ==
    ASSUME NEW e, NEW t, EntryFits(e, t), NEW p \in Paths, NEW way \in Ways(e.expr, p)
    PROVE  ParamsFit(t, p, Values(e, p, way))
<1> DEFINE r == e.expr
           N == Len(t) + 1
           vals == Values(e, p, way)
<1>1. r \in Seq(Elements) /\ e.keys \in Seq(KeyTokens) /\ t \in Seq(Pieces) /\ NamedAs(e.keys, t, Len(t))
    BY DEF EntryFits
<1>2. PICK m : Made(m, r, t)
    BY DEF EntryFits
<1>3. p \in Text /\ Len(p) \in Nat
    BY DEF Paths, Text
<1>4. IsWay(way, r, p, Len(r)) /\ way[Len(r) + 1] = Len(p)
    BY <1>1, WaysAreWays
<1>5. \A i \in 0 .. Len(r) : way[i + 1] \in 0 .. Len(p)
    BY <1>1, <1>3, <1>4, WayInside
<1>6. /\ Len(t) \in Nat /\ N \in Nat /\ 0 \in 0 .. N /\ N \in 0 .. N /\ Len(r) \in Nat
      /\ KeyPositions(t) \subseteq 1 .. Len(t)
    BY <1>1, KeysAreNumbers
<1>7. m \in [0 .. N -> 0 .. Len(r)] /\ m[0] = 0 /\ m[N] = Len(r) /\ \A j \in 1 .. N : IsMade(m, r, t, j)
    BY <1>2 DEF Made
<1> DEFINE pos == [j \in 0 .. N |-> way[m[j] + 1]]
<1> HIDE DEF N
<1>8. pos[0] = 0 /\ pos[N] = Len(p)
    BY <1>4, <1>6, <1>7 DEF IsWay
<1>9. ASSUME NEW j \in 1 .. N PROVE CutAt(pos, t, p, vals, j)
  <2> DEFINE a == m[j - 1]
             b == m[j]
             s == pos[j - 1]
             x == pos[j]
             text == SubSeq(p, s + 1, x)
  <2>1. j \in 0 .. N /\ j - 1 \in 0 .. N /\ a \in 0 .. Len(r) /\ b \in 0 .. Len(r)
      BY <1>6, <1>7
  <2>2. s = way[a + 1] /\ x = way[b + 1] /\ s \in 0 .. Len(p) /\ x \in 0 .. Len(p)
      BY <1>5, <2>1
  <2>3. IsMade(m, r, t, j)
      BY <1>7
  <2>4. ASSUME b = a + 1
        PROVE  x \in s .. Len(p) /\ text = TextOn(p, way, b) /\ text \in ElementPaths(r[b])
    <3>1. b \in 1 .. Len(r)
        BY <1>6, <2>1, <2>4
    <3>2. way[b + 1] \in way[b] .. Len(p) /\ TextOn(p, way, b) \in ElementPaths(r[b])
        BY <1>4, <3>1 DEF IsWay
    <3> QED
        BY <2>2, <2>4, <3>2 DEF TextOn
  <2> HIDE DEF pos
  <2>5. CASE j \in KeyPositions(t)
    <3>1. b = a + 1
        BY <2>3, <2>5 DEF IsMade
    <3>2. TextOn(p, way, b) \in PieceTexts(t, j) /\ FitsAt(vals, t, j, TextOn(p, way, b))
        BY <1>2, <1>4, <2>5, KeyFits
    <3>3. x \in s .. Len(p) /\ text = TextOn(p, way, b)
        BY <2>4, <3>1
    <3> QED
        BY <3>2, <3>3 DEF CutAt
  <2>6. CASE j \notin KeyPositions(t)
    <3>1. j <= Len(t) => FitsAt(vals, t, j, text)
      <4>1. j <= Len(t) => ~ IsKey(t[j])
        <5>1. j <= Len(t) => j \in 1 .. Len(t)
            BY <1>6
        <5> QED
            BY <1>1, <2>6, <5>1 DEF KeyPositions
      <4> QED
          BY <4>1 DEF FitsAt
    <3>2. x \in s .. Len(p) /\ text \in PieceTexts(t, j)
      <4>1. CASE b = a /\ PieceTexts(t, j) = {<<>>}
        <5>1. x = s
            BY <2>2, <4>1
        <5>2. text = <<>>
            BY <1>3, <2>2, <5>1
        <5> QED
            BY <2>2, <4>1, <5>1, <5>2
      <4>2. CASE b = a + 1 /\ ElementPaths(r[b]) = PieceTexts(t, j)
          BY <2>4, <4>2
      <4> QED
          BY <2>3, <2>6, <4>1, <4>2 DEF IsMade
    <3> QED
        BY <3>1, <3>2 DEF CutAt
  <2> QED
      BY <2>5, <2>6
<1>10. DOMAIN vals = {ParameterName(t, j) : j \in KeyPositions(t)}
    BY <1>1, ValuesAre
<1> HIDE DEF pos, vals
<1>11. ParamsFit(t, p, vals)
    BY <1>1, <1>8, <1>9, <1>10, CutsReached DEF N
<1> QED
    BY <1>11 DEF vals

-----------------------------------------------------------------------------
(* The entries of the table, and the parameters of the requests. *)

\* Every entry of a vector fits the template that its route was registered with.
AllFit(list, reg) ==
    \A i \in DOMAIN list : list[i].job \in DOMAIN reg /\ EntryFits(list[i], reg[list[i].job].template)

\* Where a handler runs, its parameters fit the template of its route.
Given(place, n, path_, vals, reg) ==
    place = "handler" => n \in DOMAIN reg /\ ParamsFit(reg[n].template, path_, vals)

\* So does every entry, in the table and in the copies that are searched, races included.
ParamsInv ==
    /\ \A m \in DOMAIN route_table_ : AllFit(route_table_[m], registered)
    /\ \A w \in Thread : AllFit(routes[w], registered)
    /\ Calls /\ DOMAIN params = Thread
    /\ \A w \in Thread : Given(at[w], job[w], request[w].path, params[w], registered)

\* The conversion that runs keeps meaning, numbers and layout.
LayoutIsKept == ConversionInv /\ LayoutInv

\* The inductive invariant of ParametersGivePath.
ServedInv == TypeInv /\ RaceInv /\ LayoutIsKept /\ ParamsInv

\* An empty vector has no entry that could not fit.
LEMMA NothingFits == \A reg : AllFit(<<>>, reg)
    BY DEF AllFit

\* What was registered stays.
LEMMA FitStays ==
    ASSUME NEW reg, NEW more, \A n \in DOMAIN reg : n \in DOMAIN more /\ more[n] = reg[n]
    PROVE  /\ \A list : AllFit(list, reg) => AllFit(list, more)
           /\ \A place, n, path_, vals : Given(place, n, path_, vals, reg) => Given(place, n, path_, vals, more)
    BY DEF AllFit, Given

\* A new entry of the table is empty.
LEMMA NewEntryIsFit ==
    ASSUME ParamsInv, NEW k
    PROVE  \A m \in DOMAIN WithEntry(route_table_, k) : AllFit(WithEntry(route_table_, k)[m], registered)
    BY NothingFits DEF ParamsInv, WithEntry

\* The route that the constructor has made fits its template.
LEMMA MadeFits ==
    ASSUME LayoutIsKept, pc = "done", NEW e, e.expr = route, e.keys = keys
    PROVE  EntryFits(e, template)
<1>1. template \in Seq(Pieces) /\ tokens \in Seq(Tokens) /\ route \in Seq(Elements)
    BY DEF LayoutIsKept, ConversionInv, MeaningInv, ParsedTypes
<1>2. keys = Keys(tokens) /\ NamedAs(keys, template, Len(template))
    BY DEF LayoutIsKept, ConversionInv, NumberingInv
<1>3. keys \in Seq(KeyTokens)
    BY <1>1, <1>2, KeptIs
<1>4. \E m : Made(m, route, template)
    BY DEF LayoutIsKept, LayoutInv
<1> QED
    BY <1>1, <1>2, <1>3, <1>4 DEF EntryFits

\* The steps of registration keep the invariant.
LEMMA RegistrationKeepsParams ==
    ASSUME ServedInv, Registration
    PROVE  ParamsInv'
<1> USE DEF ServedInv
<1>1. at' = at /\ request' = request /\ job' = job /\ routes' = routes /\ params' = params
    BY DEF Registration, on, Construct, emplace_back, RegexError, Start, calls
<1>2. ASSUME NEW method \in Method, NEW ex \in Templates, on(method, ex) PROVE ParamsInv'
  <2>1. route_table_' = WithEntry(route_table_, method) /\ registered' = registered
      BY <1>2 DEF on
  <2>2. \A m \in DOMAIN route_table_' : AllFit(route_table_'[m], registered)
      BY <2>1, NewEntryIsFit
  <2> QED
      BY <1>1, <2>1, <2>2 DEF ParamsInv, Calls
<1>3. CASE emplace_back
  <2> DEFINE e == [method |-> adding, template |-> template]
             r == [expr |-> route, keys |-> keys, job |-> Len(registered) + 1, hits |-> 0]
             N == Len(registered) + 1
  <2>1. /\ registered' = Append(registered, e) /\ pc = "done"
        /\ route_table_' = [route_table_ EXCEPT ![adding] = Append(@, r)]
      BY <1>3 DEF emplace_back
  <2>2. r.expr = route /\ r.keys = keys /\ r.job = N /\ e.template = template
      OBVIOUS
  <2>3. EntryFits(r, template)
      BY <2>1, <2>2, MadeFits
  <2>4. IsList(registered)
      BY DEF RaceInv, Registered
  <2> HIDE DEF e, r, N
  <2>5. /\ \A n \in DOMAIN registered : n \in DOMAIN registered' /\ registered'[n] = registered[n]
        /\ N \in DOMAIN registered' /\ registered'[N] = e
    <3>1. /\ Len(registered) \in Nat
          /\ DOMAIN registered = 1 .. Len(registered)
          /\ DOMAIN Append(registered, e) = 1 .. Len(registered) + 1
          /\ Append(registered, e)[Len(registered) + 1] = e
          /\ \A i \in 1 .. Len(registered) : Append(registered, e)[i] = registered[i]
        BY <2>4, AppendToList
    <3> QED
        BY <2>1, <3>1 DEF N
  <2>6. /\ \A list : AllFit(list, registered) => AllFit(list, registered')
        /\ \A place, n, path_, vals :
               Given(place, n, path_, vals, registered) => Given(place, n, path_, vals, registered')
      BY <2>5, FitStays
  <2>7. ASSUME NEW list, IsList(list), AllFit(list, registered) PROVE AllFit(Append(list, r), registered')
    <3>1. /\ Len(list) \in Nat
          /\ DOMAIN list = 1 .. Len(list)
          /\ DOMAIN Append(list, r) = 1 .. Len(list) + 1
          /\ Append(list, r)[Len(list) + 1] = r
          /\ \A i \in 1 .. Len(list) : Append(list, r)[i] = list[i]
        BY <2>7, AppendToList
    <3>2. AllFit(list, registered')
        BY <2>6, <2>7
    <3>3. r.job \in DOMAIN registered' /\ EntryFits(r, registered'[r.job].template)
        BY <2>2, <2>3, <2>5
    <3>4. ASSUME NEW i \in DOMAIN Append(list, r)
          PROVE  /\ Append(list, r)[i].job \in DOMAIN registered'
                 /\ EntryFits(Append(list, r)[i], registered'[Append(list, r)[i].job].template)
      <4>1. CASE i \in 1 .. Len(list)
          BY <3>1, <3>2, <4>1 DEF AllFit
      <4>2. CASE i = Len(list) + 1
          BY <3>1, <3>3, <4>2
      <4>3. i \in 1 .. Len(list) \/ i = Len(list) + 1
          BY <3>1
      <4> QED
          BY <4>1, <4>2, <4>3
    <3> QED
        BY <3>4 DEF AllFit
  <2>8. ASSUME NEW m \in DOMAIN route_table_' PROVE AllFit(route_table_'[m], registered')
    <3>1. m \in DOMAIN route_table_ /\ route_table_'[m] \in {route_table_[m], Append(route_table_[m], r)}
        BY <2>1
    <3>2. IsList(route_table_[m]) /\ AllFit(route_table_[m], registered)
        BY <3>1 DEF TypeInv, Lists, RouteList, ParamsInv
    <3> QED
        BY <2>6, <2>7, <3>1, <3>2
  <2>9. /\ \A w \in Thread : AllFit(routes[w], registered')
        /\ \A w \in Thread : Given(at[w], job[w], request[w].path, params[w], registered')
      BY <2>6 DEF ParamsInv
  <2> QED
      BY <1>1, <2>8, <2>9 DEF ParamsInv, Calls
<1>4. CASE UNCHANGED <<route_table_, registered>>
    BY <1>1, <1>4 DEF ParamsInv, Calls
<1> QED
    BY <1>2, <1>3, <1>4 DEF Registration, Construct, RegexError, Start

\* A call hands over the parameters that the route it has found gives the path.
LEMMA CallsKeepParams ==
    ASSUME ServedInv, NEW w \in Thread, Call(w)
    PROVE  ParamsInv'
<1> USE DEF ServedInv
<1>1. UNCHANGED registered
    BY CallsKeepRegistered
<1>2. \A m \in DOMAIN WithEntry(route_table_, request[w].method) :
          AllFit(WithEntry(route_table_, request[w].method)[m], registered)
    BY NewEntryIsFit
<1>3. \A m \in DOMAIN route_table_' : AllFit(route_table_'[m], registered)
  <2>1. \/ UNCHANGED route_table_
        \/ route_table_' = WithEntry(route_table_, request[w].method)
        \/ route_table_' = [WithEntry(route_table_, request[w].method) EXCEPT ![request[w].method] = <<>>]
      BY DEF Call, Lookup, process_route, Copy, Insert, TornLookup, Search, Return
  <2> QED
      BY <1>2, <2>1, NothingFits DEF ParamsInv
<1>4. \A v \in Thread : AllFit(routes'[v], registered)
  <2>1. CASE Copy(w)
      BY <2>1 DEF Copy, ParamsInv, Calls
  <2>2. CASE TornLookup(w)
    <3>1. request[w].method \in DOMAIN WithEntry(route_table_, request[w].method)
        BY DEF WithEntry
    <3>2. PICK list : routes' = [routes EXCEPT ![w] = list] /\ AllFit(list, registered)
        BY <1>2, <2>2, <3>1, NothingFits DEF TornLookup
    <3> QED
        BY <3>2 DEF ParamsInv, Calls
  <2>3. CASE Insert(w) \/ Search(w) \/ process_route(w) \/ Return(w)
      BY <2>3, NothingFits DEF Insert, Search, process_route, Return, ParamsInv, Calls
  <2> QED
      BY <2>1, <2>2, <2>3 DEF Call, Lookup
<1>5. Calls' /\ DOMAIN params' = Thread
    BY DEF ParamsInv, Calls, Call, Lookup, process_route, Copy, Insert, TornLookup, Search, Return
<1>6. ASSUME NEW v \in Thread PROVE Given(at'[v], job'[v], request'[v].path, params'[v], registered)
  <2>0. Given(at[v], job[v], request[v].path, params[v], registered)
      BY DEF ParamsInv
  <2>1. CASE Search(w)
    <3>1. CASE v # w
      <4>1. at'[v] = at[v] /\ job'[v] = job[v] /\ request'[v] = request[v] /\ params'[v] = params[v]
          BY <2>1, <3>1 DEF Search, ParamsInv, Calls, RaceInv, Requests
      <4> QED
          BY <2>0, <4>1
    <3>2. CASE v = w /\ at'[w] = "handler"
      <4>1. PICK i \in Fitting(routes[w], request[w].path) :
                /\ job' = [job EXCEPT ![w] = routes[w][i].job]
                /\ \E way \in Ways(routes[w][i].expr, request[w].path) :
                      params' = [params EXCEPT ![w] = Values(routes[w][i], request[w].path, way)]
          BY <2>1, <3>2 DEF Search, RaceInv, Requests
      <4>2. PICK way \in Ways(routes[w][i].expr, request[w].path) :
                params' = [params EXCEPT ![w] = Values(routes[w][i], request[w].path, way)]
          BY <4>1
      <4> DEFINE r == routes[w][i]
                 p == request[w].path
      <4>3. job'[w] = r.job /\ params'[w] = Values(r, p, way) /\ request' = request
          BY <2>1, <4>1, <4>2 DEF Search, ParamsInv, Calls
      <4>4. r.job \in DOMAIN registered /\ EntryFits(r, registered[r.job].template)
          BY DEF Fitting, ParamsInv, AllFit
      <4>5. p \in Paths
          BY <2>1, RouterAssumption DEF Search, RaceInv, Requests
      <4>6. ParamsFit(registered[r.job].template, p, Values(r, p, way))
        <5> HIDE DEF r, p
        <5> QED
            BY <4>4, <4>5, ParametersFit DEF r, p
      <4> QED
          BY <3>2, <4>3, <4>4, <4>6 DEF Given
    <3>3. CASE v = w /\ at'[w] # "handler"
        BY <3>3 DEF Given
    <3> QED
        BY <3>1, <3>2, <3>3
  <2>2. CASE ~ Search(w)
    <3>1. CASE at'[v] = "handler"
      <4>1. at[v] = at'[v] /\ request'[v] = request[v] /\ job'[v] = job[v] /\ params'[v] = params[v]
          BY <2>2, <3>1 DEF ParamsInv, Calls, RaceInv, Requests, Call, Lookup, process_route, Copy,
             Insert, TornLookup, Return
      <4> QED
          BY <2>0, <4>1
    <3>2. CASE at'[v] # "handler"
        BY <3>2 DEF Given
    <3> QED
        BY <3>1, <3>2
  <2> QED
      BY <2>1, <2>2
<1> QED
    BY <1>1, <1>3, <1>4, <1>5, <1>6 DEF ParamsInv

\* on() begins a conversion with nothing laid out.
LEMMA LayoutBegins == Begun' => LayoutInv'
<1>1. Begun => LayoutInv
    BY StartOfLayout DEF Begun
<1> QED
    BY <1>1, PTL

\* The constructor of a route lays its template out; nothing else touches it.
LEMMA RouterKeepsLayout ==
    ASSUME TemplatesOfPieces, LayoutIsKept, [RouterNext]_routerVars
    PROVE  LayoutIsKept'
<1>1. ConversionInv /\ LayoutInv /\ MeaningInv
    BY DEF LayoutIsKept, ConversionInv
<1>2. ConversionInv'
    BY <1>1, RouterKeepsConversion
<1> SUFFICES LayoutInv'
    BY <1>2 DEF LayoutIsKept
<1>3. ASSUME NEW method \in Method, NEW ex \in Templates, on(method, ex) PROVE LayoutInv'
  <2>1. Begun'
      BY <1>3 DEF on, Begun, TemplatesOfPieces
  <2> QED
      BY <2>1, LayoutBegins
<1>4. CASE Construct
  <2>1. Parse \/ tokens_to_keys \/ tokens_to_regex
      BY <1>4 DEF Construct
  <2> QED
      BY <1>1, <2>1, ParseKeepsLayout, OthersKeepLayout
<1>5. CASE UNCHANGED conversion
  <2>1. UNCHANGED <<template, index, path, tokens, translated, route, pc>>
      BY <1>5 DEF conversion, vars
  <2> QED
      BY <1>1, <2>1 DEF LayoutInv
<1>6. CASE Registration
    BY <1>3, <1>4, <1>5, <1>6 DEF Registration, emplace_back, RegexError, Start
<1>7. ASSUME NEW w \in Thread, Call(w) PROVE UNCHANGED conversion
    BY <1>7, CallsKeepRegistered
<1> QED
    BY <1>5, <1>6, <1>7 DEF RouterNext, Terminated, routerVars

\* Before the first route nothing is laid out.
LEMMA NothingLaid == RouterInit => LayoutIsKept
<1> SUFFICES ASSUME RouterInit PROVE LayoutInv
    BY NothingConverted DEF LayoutIsKept
<1>1. template = <<>> /\ route = <<>> /\ pc = "done"
    BY DEF RouterInit
<1> DEFINE m == [j \in 0 .. 1 |-> 0]
<1>2. Len(<<>>) = 0 /\ 0 + 1 = 1 /\ 0 .. 0 = {0} /\ 1 .. 1 = {1} /\ 1 - 1 = 0 /\ 1 > 0
    OBVIOUS
<1>3. m \in [0 .. 1 -> 0 .. 0] /\ m[0] = 0 /\ m[1] = 0
    OBVIOUS
<1>4. 1 \notin KeyPositions(<<>>) /\ PieceTexts(<<>>, 1) = {<<>>}
    BY <1>2 DEF KeyPositions, PieceTexts
<1> HIDE DEF m
<1>5. IsMade(m, <<>>, <<>>, 1)
    BY <1>2, <1>3, <1>4 DEF IsMade
<1>6. Made(m, <<>>, <<>>)
    BY <1>2, <1>3, <1>5 DEF Made
<1> QED
    BY <1>1, <1>6 DEF LayoutInv

\* Nobody calls before the first route is registered.
LEMMA NoParameters == RouterInit => ParamsInv
    BY DEF RouterInit, ParamsInv, Calls, AllFit, Given

\* The parameters that a handler finds are those that the template of its route names,
\* and put into the template they give the path of the request again, whatever else
\* is asked for at the same time (http_router.hpp:54-69), if the characters and
\* separators of the templates mean nothing in a regex.
THEOREM ParametersGivePathAgain ==
    ASSUME TemplatesOfPieces
    PROVE  RouterSpec => []ParametersGivePath
<1>1. RouterInit => ServedInv
    BY RouterStartsTyped, NothingLaid, NoParameters DEF ServedInv
<1>2. ServedInv /\ [RouterNext]_routerVars => ServedInv'
  <2> SUFFICES ASSUME ServedInv, [RouterNext]_routerVars PROVE ServedInv'
      OBVIOUS
  <2>1. TypeInv' /\ RaceInv' /\ LayoutIsKept'
      BY RouterKeepsTypes, RouterKeepsLayout DEF ServedInv
  <2>2. ParamsInv'
    <3>1. CASE UNCHANGED routerVars
      <4>1. UNCHANGED <<route_table_, registered, at, request, routes, params, job>>
          BY <3>1 DEF routerVars, calls
      <4> QED
          BY <4>1 DEF ServedInv, ParamsInv, Calls
    <3> QED
        BY <3>1, RegistrationKeepsParams, CallsKeepParams DEF RouterNext, Terminated
  <2> QED
      BY <2>1, <2>2 DEF ServedInv
<1>3. ServedInv => ParametersGivePath
  <2> SUFFICES ASSUME ServedInv, NEW w \in Thread, at[w] = "handler"
               PROVE  ParamsFit(registered[job[w]].template, request[w].path, params[w])
      BY Zenon DEF ParametersGivePath, ParamsFit
  <2> QED
      BY DEF ServedInv, ParamsInv, Given
<1> QED
    BY <1>1, <1>2, <1>3, PTL DEF RouterSpec
=============================================================================
