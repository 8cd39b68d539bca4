------------------------------ MODULE RouteTemplate ------------------------------
(***************************************************************************)
(* The route templates of http_router, such as "/users/:id(\\d+)", and what  *)
(* they promise: the paths a template stands for and the parameters it      *)
(* names.  A template is the sequence of the pieces PATH_REGEXP tells       *)
(* apart: plain characters, escaped characters, and keys (":name",          *)
(* ":name(pattern)", "(pattern)" or "*", with a modifier).  Paths are       *)
(* sequences of characters of Alphabet, up to a bound.                      *)
(***************************************************************************)
EXTENDS Integers, Sequences, FiniteSets, TLC

CONSTANTS
    Alphabet,   \* the characters of paths
    MaxPath     \* bound: the length of paths

ASSUME PathAssumption == "/" \in Alphabet /\ MaxPath \in Nat

Plain(char) == [kind |-> "plain", char |-> char]

Escaped(char) == [kind |-> "escaped", char |-> char]

\* pattern "segment": none given; "any": the key is "*"; otherwise the text that
\* the given pattern matches.  A key without a name has the name "".
Key(name, pattern, modifier) ==
    [kind |-> "key", name |-> name, pattern |-> pattern, modifier |-> modifier]

IsKey(piece) == piece.kind = "key"

Named(piece) == IsKey(piece) /\ piece.name # ""

\* The characters that a key takes along as its prefix.
IsSeparator(piece) == piece.kind = "plain" /\ piece.char \in {"/", "."}

\* The character a piece of a template begins with.
FirstChar(piece) ==
    CASE piece.kind = "plain"   -> piece.char
      [] piece.kind = "escaped" -> "\\"
      [] OTHER -> IF Named(piece) THEN ":" ELSE IF piece.pattern = "any" THEN "*" ELSE "("

\* The sequences of pieces that are the cut of some template: a modifier, and a
\* letter or a pattern after a bare name, belong to the key before them.
WellCut(t) ==
    \A j \in 1 .. Len(t) - 1 :
        IsKey(t[j]) /\ t[j].pattern # "any" /\ t[j].modifier = "" =>
            /\ FirstChar(t[j + 1]) # "*"
            /\ Named(t[j]) /\ t[j].pattern = "segment" =>
                   FirstChar(t[j + 1]) \in {"/", ".", "\\", ":"}

-----------------------------------------------------------------------------
(* Sets of paths. *)

Paths == UNION {[1 .. n -> Alphabet] : n \in 0 .. MaxPath}

Cat(A, B) == {p \in {a \o b : a \in A, b \in B} : Len(p) <= MaxPath}

\* What one occurrence of a key stands for, next to the separator `sep'.
Unit(pattern, sep) ==
    CASE pattern = "segment" -> {p \in Paths \ {<<>>} : \A i \in DOMAIN p : p[i] # sep}
      [] pattern = "any"     -> Paths
      [] OTHER               -> {<<pattern>>}

-----------------------------------------------------------------------------
(* What a template promises. *)

Counts(modifier) ==
    CASE modifier = ""  -> {1}
      [] modifier = "?" -> {0, 1}
      [] modifier = "+" -> 1 .. MaxPath + 1
      [] modifier = "*" -> 0 .. MaxPath + 1

\* A separator right before a key belongs to the key.
Attached(t, j) == j < Len(t) /\ IsSeparator(t[j]) /\ IsKey(t[j + 1])

Separator(t, j) == IF j > 1 /\ Attached(t, j - 1) THEN <<t[j - 1].char>> ELSE <<>>

\* The separator stays when the key is left out, if something else follows.
SeparatorStays(t, j) ==
    Separator(t, j) # <<>> /\ j < Len(t) /\ <<FirstChar(t[j + 1])>> # Separator(t, j)

\* The paths the key at j stands for: as many occurrences as its modifier allows,
\* each after the separator.
KeyPaths(t, j) ==
    LET sep  == Separator(t, j)
        unit == Unit(t[j].pattern, IF sep = <<>> THEN "/" ELSE sep[1])
        copies[n \in Nat] == IF n = 0 THEN {<<>>} ELSE Cat(copies[n - 1], Cat({sep}, unit))
        none == IF SeparatorStays(t, j) THEN {sep} ELSE {<<>>}
    IN  UNION {IF n = 0 THEN none ELSE copies[n] : n \in Counts(t[j].modifier)}

PathsUpTo(t, last) ==
    LET upto[j \in 0 .. last] ==
            IF j = 0 THEN {<<>>}
            ELSE IF IsKey(t[j]) THEN Cat(upto[j - 1], KeyPaths(t, j))
            ELSE IF Attached(t, j) THEN upto[j - 1]
            ELSE Cat(upto[j - 1], {<<t[j].char>>})
    IN  upto[last]

\* The paths a template stands for: a slash may end the path whether the template
\* ends with one or not.
Denotes(t) ==
    IF t = <<>> THEN {<<>>}
    ELSE LET slashed == ~IsKey(t[Len(t)]) /\ t[Len(t)].char = "/"
             body == PathsUpTo(t, IF slashed THEN Len(t) - 1 ELSE Len(t))
         IN  body \cup Cat(body, {<<"/">>})

\* The positions of the keys, and what they are called: keys without a name are
\* numbered from 0.
KeyPositions(t) == {j \in DOMAIN t : IsKey(t[j])}

ParameterName(t, j) ==
    IF Named(t[j]) THEN t[j].name
    ELSE ToString(Cardinality({i \in KeyPositions(t) : i < j /\ ~Named(t[i])}))

\* The names of the parameters, in the order of the template.
Parameters(t) ==
    [n \in 1 .. Cardinality(KeyPositions(t)) |->
        LET j == CHOOSE p \in KeyPositions(t) :
                     Cardinality({i \in KeyPositions(t) : i <= p}) = n
        IN  ParameterName(t, j)]
=============================================================================
