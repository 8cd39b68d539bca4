------------------------------- MODULE JsonLexer -------------------------------
(***************************************************************************)
(* iguana::json::reader_t (persistence/json.hpp): next() and what it calls. *)
(* A text t is a sequence of characters, "NUL" behind its end (the texts    *)
(* are C strings); "QUOTE" and "BSL" are the double quote and the backslash, *)
(* "SP" also stands for a tab and a carriage return, "NL" for a line feed.   *)
(* The reader is the position `at' of its cursor and the token it peeks at. *)
(***************************************************************************)
EXTENDS Integers, Sequences, FiniteSetsExt, SequencesExt

\* read(): the character under the cursor.
At(t, i) == IF i <= Len(t) THEN t[i] ELSE "NUL"

\* The first position from i on with a character of S, or the end of the text.
Seek(t, i, S) == Min({j \in i .. Len(t) : t[j] \in S} \cup {Len(t) + 1})

\* The first position from i on with a character outside S, or the end.
Pass(t, i, S) == Min({j \in i .. Len(t) : t[j] \notin S} \cup {Len(t) + 1})

Blank == {"SP", "NL"}

Control == {"{", "}", "[", "]", ":", ","}

Digit == <<"0", "1", "2", "3", "4", "5", "6", "7", "8", "9">>

Digits == ToSet(Digit)

\* char_to_hex(): `v < 'f'' leaves out the small f.
Hex == Digits \cup {"a", "b", "c", "d", "e", "A", "B", "C", "D", "E", "F"}

\* A token and the cursor behind it.
Found(type, start, len, value, at) ==
    [tok |-> [type |-> type, start |-> start, len |-> len, value |-> value], at |-> at]

\* error() throws.
Failed == Found("error", 0, 0, 0, 0)

\* cur_tok_ before the first call of next().
Uninitialized == [type |-> "none", start |-> 0, len |-> 0, value |-> 0]

-----------------------------------------------------------------------------
\* The character of Stops that ends the string whose text goes on at i, and how many
\* characters its escapes take off its length; 0 when the string does not end.
\* The `continue' after \uXXXX goes on with the `u' in c: the character behind the
\* digits is passed over without a look.
StringEnd(t, i, Stops, Escapes) ==
    LET Shorter(end, n) == <<end[1], end[2] + n>>
        scan[j \in Nat] ==
            IF At(t, j) \in {"NUL", "NL"} THEN <<0, 0>>
            ELSE IF At(t, j) \in Stops THEN <<j, 0>>
            ELSE IF At(t, j) # "BSL" THEN scan[j + 1]
            ELSE IF At(t, j + 1) \in Escapes THEN Shorter(scan[j + 2], 1)
            ELSE IF At(t, j + 1) = "u" /\ \A k \in 2 .. 5 : At(t, j + k) \in Hex
                    THEN Shorter(scan[j + 7], 6)
            ELSE <<0, 0>>
    IN  scan[i]

Escape == {"b", "f", "n", "r", "t"}

\* Mutation: a comma does not end a bare word.
EndOfWordNoComma == (Blank \cup Control) \ {","}

\* What ends a bare word, apart from the line feed, which is an error.
EndOfWord == Blank \cup Control

parser_quote_string(t, i) ==
    LET end == StringEnd(t, i + 1, {"QUOTE"}, Escape \cup {"QUOTE"})
    IN  IF end[1] = 0 THEN Failed
        ELSE Found("string", i + 1, end[1] - end[2] - (i + 1), 0, end[1] + 1)

\* The first character is taken whatever it is, what ends the word is not.
parser_string(t, i) ==
    LET end == StringEnd(t, i + 1, EndOfWord, Escape)
    IN  IF end[1] = 0 THEN Failed
        ELSE Found("string", i, end[1] - end[2] - i, 0, end[1])

\* Mutation: a number begins with 0 whatever its first digit is.
NumberFromSecond(s) ==
    FoldLeft(LAMBDA v, c : 10 * v + (CHOOSE d \in 0 .. 9 : Digit[d + 1] = c), 0,
             SubSeq(s, 2, Len(s)))

\* The digits of a number, of which the first may be a minus: it counts '0' - '-'.
NumberOf(s) ==
    LET Weight(c) == IF c = "-" THEN 3 ELSE CHOOSE d \in 0 .. 9 : Digit[d + 1] = c
    IN  FoldLeft(LAMBDA v, c : 10 * v + Weight(c), 0, s)

\* The digits behind a point are left out: the cast to an integer drops them.
parser_number(t, i) ==
    LET stop == Pass(t, i + 1, Digits \cup {"."})
        point == Seek(t, i + 1, {"."})
        whole == NumberOf(SubSeq(t, i, Min({stop, point}) - 1))
        type == IF point < stop THEN "number" ELSE IF t[i] = "-" THEN "int" ELSE "uint"
    IN  IF Seek(t, point + 1, {"."}) < stop THEN Failed
        ELSE Found(type, i, stop - i, whole, stop)

-----------------------------------------------------------------------------
\* A comment that begins before i never ends.
Unclosed(t, i) == \A j \in i .. Len(t) - 1 : <<t[j], t[j + 1]>> # <<"*", "/">>

\* Mutation: at the end of the text the token stays.
AtEndStays(i, tok) == [tok |-> tok, at |-> i]

AtEnd(i, tok) == Found("end", i, 1, 0, i)

\* next(): a line comment is passed over.  A block comment that ends is an error
\* (the `break' behind it leaves the loop only), and one that does not end takes
\* the rest of the text and leaves the token as it was.
next(t, at, tok) ==
    LET from[k \in 1 .. Len(t) + 1] ==
            LET i == Pass(t, k, Blank)
                c == At(t, i)
            IN  IF c = "NUL" THEN AtEnd(i, tok)
                ELSE IF c \in Control THEN Found("ctrl", i, 1, 0, i + 1)
                ELSE IF c = "/" /\ At(t, i + 1) = "/" THEN from[Seek(t, i + 2, {"NL"})]
                ELSE IF c = "/" /\ At(t, i + 1) = "*" /\ Unclosed(t, i + 2)
                        THEN [tok |-> tok, at |-> Len(t) + 1]
                ELSE IF c = "/" THEN Failed
                ELSE IF c = "QUOTE" THEN parser_quote_string(t, i)
                ELSE IF c \in Digits \cup {"-"} THEN parser_number(t, i)
                ELSE parser_string(t, i)
    IN  from[at]
=============================================================================
