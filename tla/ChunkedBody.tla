------------------------------- MODULE ChunkedBody -------------------------------
(***************************************************************************)
(* The chunked encoding as phr_decode_chunked (picohttpparser.c) accepts     *)
(* it, said of a whole body at once.  A body is a sequence of chunks: a line *)
(* with the size, in hexadecimal, and an extension, then the data and a line *)
(* end; a chunk of size 0 is the last, and may be followed by a trailer,     *)
(* which a blank line ends.  Any number of carriage returns may come before  *)
(* the line feed that ends the data or the blank line.                       *)
(***************************************************************************)
EXTENDS Integers, Sequences, FiniteSetsExt

CONSTANT HexDigits   \* how many digits a size may have: those of a size_t

ASSUME DigitsAssumption == HexDigits \in Nat \ {0}

\* 16 to the power n: how many sizes n digits can give.
SixteenTo[n \in 0 .. HexDigits] == IF n = 0 THEN 1 ELSE 16 * SixteenTo[n - 1]

\* The units of a body: digits, line ends, and anything else.
Digits == {"0", "1", "2"}

Value == [digit \in Digits |-> CASE digit = "0" -> 0 [] digit = "1" -> 1 [] digit = "2" -> 2]

\* The first unit of s at i or later that is (not) one of `units'; past the end if
\* there is none.
First(s, i, units) == Min({j \in i .. Len(s) : s[j] \in units} \cup {Len(s) + 1})

FirstOther(s, i, units) == Min({j \in i .. Len(s) : s[j] \notin units} \cup {Len(s) + 1})

Number(s, i, j) ==
    LET upto[k \in i - 1 .. j] == IF k < i THEN 0 ELSE upto[k - 1] * 16 + Value[s[k]]
    IN  upto[j]

\* The line feed of the first blank line at i or later, past the end if there is none.
BlankLine(s, i) ==
    Min({j \in i .. Len(s) :
            /\ s[j] = "LF"
            /\ \E b \in i .. j : /\ b = i \/ s[b - 1] = "LF"
                                 /\ \A k \in b .. j - 1 : s[k] = "CR"} \cup {Len(s) + 1})

Outcome(verdict, data, end) == [verdict |-> verdict, data |-> data, end |-> end]

\* The last chunk: the body ends at `line', or with the blank line after it.
LastChunk(s, line, trailer) ==
    LET end == IF trailer THEN BlankLine(s, line + 1) ELSE line
    IN  Outcome(IF end <= Len(s) THEN "complete" ELSE "incomplete", <<>>, end)

\* What s decodes to: its data, and whether the body is complete, and where.
Decoded(s, trailer) ==
    LET chunk[i \in 1 .. Len(s) + 1] ==
            LET nondigit == FirstOther(s, i, Digits)
                line == First(s, nondigit, {"LF"})
                size == Number(s, i, nondigit - 1)
                end == FirstOther(s, line + 1 + size, {"CR"})
                data == SubSeq(s, line + 1, Min({line + size, Len(s)}))
            IN  IF nondigit - i > HexDigits THEN Outcome("error", <<>>, i)
                ELSE IF nondigit > Len(s) THEN Outcome("incomplete", <<>>, i)
                ELSE IF nondigit = i THEN Outcome("error", <<>>, i)
                ELSE IF line > Len(s) THEN Outcome("incomplete", <<>>, i)
                ELSE IF size = 0 THEN LastChunk(s, line, trailer)
                ELSE IF end > Len(s) THEN Outcome("incomplete", data, i)
                ELSE IF s[end] # "LF" THEN Outcome("error", data, i)
                ELSE [chunk[end + 1] EXCEPT !.data = data \o @]
    IN  chunk[1]
=============================================================================
