------------------------------- MODULE JsonReader -------------------------------
(***************************************************************************)
(* read_json and skip (persistence/json.hpp) on a reader_t: the recursion   *)
(* over the type of the value, or over the text when a value is skipped,    *)
(* with one call of next() in each step.  A type is the sequence of its     *)
(* containers, outermost first, and of what they hold in the end, "uint" or *)
(* "string".  A "map" has unsigned integers for keys, a "dict" has strings. *)
(***************************************************************************)
EXTENDS JsonLexer

CONSTANTS
    Document,   \* renderings of values: records [op, type, text, written]
    Stub,       \* beginnings of other texts: records [op, type, begin, alphabet]
    MaxMore,    \* bound: the length of what comes after the beginning
    UintRange,  \* how many values an unsigned int has, 2^32; it divides 2^64
    Unwritten   \* `written' of a text that is not the rendering of a value

IsType(type) ==
    /\ type \in Seq({"seq", "map", "dict", "uint", "string"})
    /\ Len(type) > 1
    /\ \A i \in 1 .. Len(type) : type[i] \in {"uint", "string"} <=> i = Len(type)

ASSUME InputAssumption ==
    /\ UintRange \in Nat \ {0}
    /\ MaxMore \in Nat
    /\ \A c \in Document \cup Stub : c.op \in {"read", "skip"} /\ IsType(c.type)
    /\ \A c \in Document : c.text \in Seq(STRING)
    /\ \A c \in Stub : c.begin \in Seq(STRING) /\ c.alphabet \subseteq STRING

VARIABLES
    input,   \* the call: "read" or "skip", the type, the text
    at,      \* cur_offset_
    tok,     \* cur_tok_
    frames,  \* the containers being read, or the brackets being skipped, outermost first
    pc,      \* what the innermost call does next
    value    \* what was read

vars == <<input, at, tok, frames, pc, value>>

Opening(kind) == IF kind = "seq" THEN "[" ELSE "{"

Closing(kind) == IF kind = "seq" THEN "]" ELSE "}"

\* expect(c), and the comparisons with tok->str.str[0]: the first character of the
\* token, whatever its type is.
Expect(c) == At(input.text, tok.start) = c

\* next() and go on with `to', unless it throws.
Advance(to) ==
    LET n == next(input.text, at, tok)
    IN  /\ tok' = n.tok
        /\ at' = n.at
        /\ pc' = IF n.tok.type = "error" THEN "error"
                 ELSE IF n.tok.type = "none" THEN "undefined"
                 ELSE to

Throw == pc' = "error" /\ UNCHANGED <<at, tok, frames, value>>

Depth == Len(frames)

Inner == frames[Depth]

-----------------------------------------------------------------------------
(* read_json *)

\* The kind of the innermost container, and of the value to be read next.
Kind == input.type[Depth]

Wanted == input.type[Depth + 1]

\* A value is to be read: the whole one, the one behind a colon, or an element.
AtValue == pc = "value" \/ (pc = "item" /\ Kind = "seq" /\ ~Expect("]"))

\* strtoull() of the token's text, which does not know where the token ends.
strtoull(i) ==
    LET start == Pass(input.text, i, Blank)
        minus == At(input.text, start) = "-"
        first == IF At(input.text, start) \in {"-", "+"} THEN start + 1 ELSE start
        digits == SubSeq(input.text, first, Pass(input.text, first, Digits) - 1)
    IN  IF minus THEN -NumberOf(digits) ELSE NumberOf(digits)

\* The token may be read as an unsigned int, and the number it then is.
IsUint == tok.type \in {"string", "int", "uint", "number"} /\ tok.value >= 0

Uint == (IF tok.type = "string" THEN strtoull(tok.start) ELSE tok.value) % UintRange

\* The text of a token.
Text == SubSeq(input.text, tok.start, tok.start + tok.len - 1)

\* emplace_back, or val[key] = value, in the innermost container of fs.
Deliver(fs, kind, v) ==
    [fs EXCEPT ![Len(fs)].items =
        IF kind = "seq" THEN Append(@, v)
        ELSE [k \in DOMAIN @ \cup {fs[Len(fs)].key} |-> IF k = fs[Len(fs)].key THEN v ELSE @[k]]]

ReadUint ==
    /\ AtValue /\ Wanted = "uint"
    /\ IF IsUint
          THEN /\ frames' = Deliver(frames, Kind, Uint)
               /\ Advance("after")
               /\ UNCHANGED value
          ELSE Throw

ReadString ==
    /\ AtValue /\ Wanted = "string"
    /\ IF tok.type = "string"
          THEN /\ frames' = Deliver(frames, Kind, Text)
               /\ Advance("after")
               /\ UNCHANGED value
          ELSE Throw

\* An empty container; its key is not looked at before one was read.
NewContainer(kind) == [items |-> <<>>, key |-> IF kind = "map" THEN 0 ELSE <<>>]

OpenContainer ==
    /\ AtValue /\ Wanted \in {"seq", "map", "dict"}
    /\ IF Expect(Opening(Wanted))
          THEN /\ frames' = Append(frames, NewContainer(Wanted))
               /\ Advance("item")
               /\ UNCHANGED value
          ELSE Throw

\* A key is read by the read_json of its type.
IsKey == IF Kind = "map" THEN IsUint ELSE tok.type = "string"

Key == IF Kind = "map" THEN Uint ELSE Text

ReadKey ==
    /\ pc = "item" /\ Kind \in {"map", "dict"} /\ ~Expect("}")
    /\ IF IsKey
          THEN /\ frames' = [frames EXCEPT ![Depth].key = Key]
               /\ Advance("colon")
               /\ UNCHANGED value
          ELSE Throw

Colon ==
    /\ pc = "colon"
    /\ IF Expect(":") THEN Advance("value") /\ UNCHANGED <<frames, value>> ELSE Throw

Comma ==
    /\ pc = "after" /\ Expect(",")
    /\ Advance("item")
    /\ UNCHANGED <<frames, value>>

\* The closing bracket, after an element, after a comma or at once.
CloseContainer ==
    /\ pc \in {"item", "after"} /\ Expect(Closing(Kind))
    /\ IF Depth = 1
          THEN frames' = <<>> /\ value' = Inner.items /\ Advance("done")
          ELSE /\ frames' = Deliver(Front(frames), input.type[Depth - 1], Inner.items)
               /\ Advance("after")
               /\ UNCHANGED value

NoSeparator ==
    /\ pc = "after" /\ ~Expect(",") /\ ~Expect(Closing(Kind))
    /\ Throw

-----------------------------------------------------------------------------
(* skip, skip_array, skip_object and skip_key; frames are the open brackets. *)

\* Where a call of skip goes on when it was made with the brackets fs open.
Return(fs) == IF fs = <<>> THEN "done" ELSE "skipped"

Scalar == tok.type \in {"string", "int", "uint", "number"}

Skip ==
    /\ pc = "skip"
    /\ \/ /\ Scalar
          /\ Advance(Return(frames)) /\ UNCHANGED frames
       \/ /\ tok.type = "ctrl" /\ (Expect("[") \/ Expect("{"))
          /\ frames' = Append(frames, IF Expect("[") THEN "seq" ELSE "map")
          /\ Advance("loop")
       \/ /\ ~Scalar /\ ~(tok.type = "ctrl" /\ (Expect("[") \/ Expect("{")))
          /\ pc' = Return(frames) /\ UNCHANGED <<at, tok, frames>>
    /\ UNCHANGED value

\* Mutation: the comma behind an element is not taken.
CommaLeft ==
    /\ pc = "skipped"
    /\ pc' = "loop" /\ UNCHANGED <<at, tok, frames, value>>

\* Behind an element: a comma is taken, but nothing has to be there.
SkipComma ==
    /\ pc = "skipped"
    /\ IF Expect(",") THEN Advance("loop") ELSE pc' = "loop" /\ UNCHANGED <<at, tok>>
    /\ UNCHANGED <<frames, value>>

SkipLoop ==
    /\ pc = "loop"
    /\ IF Expect(Closing(Inner)) THEN Advance(Return(Front(frames))) /\ frames' = Front(frames)
       ELSE IF Inner = "seq" THEN pc' = "skip" /\ UNCHANGED <<at, tok, frames>>
       ELSE IF Scalar THEN Advance("skip colon") /\ UNCHANGED frames
       ELSE Throw
    /\ UNCHANGED value

SkipColon ==
    /\ pc = "skip colon"
    /\ IF Expect(":") THEN Advance("skip") /\ UNCHANGED <<frames, value>> ELSE Throw

-----------------------------------------------------------------------------
Init ==
    /\ \/ input \in Document
       \/ \E stub \in Stub, n \in 0 .. MaxMore : \E more \in [1 .. n -> stub.alphabet] :
             input = [op |-> stub.op, type |-> stub.type,
                      text |-> stub.begin \o more, written |-> Unwritten]
    /\ at = 1
    /\ tok = Uninitialized
    /\ frames = <<>>
    /\ pc = "new"
    /\ value = <<>>

\* The constructor of reader_t ends with next().
Construct ==
    /\ pc = "new"
    /\ Advance(IF input.op = "read" THEN "value" ELSE "skip")
    /\ UNCHANGED <<frames, value>>

Read ==
    \/ ReadUint \/ ReadString \/ OpenContainer \/ ReadKey \/ Colon
    \/ Comma \/ CloseContainer \/ NoSeparator

SkipOver == Skip \/ SkipComma \/ SkipLoop \/ SkipColon

Over == pc \in {"done", "error", "undefined"} /\ UNCHANGED vars

Next ==
    \/ Construct /\ UNCHANGED input
    \/ Read /\ UNCHANGED input
    \/ SkipOver /\ UNCHANGED input
    \/ Over

Spec == Init /\ [][Next]_vars /\ WF_vars(Next)

-----------------------------------------------------------------------------
(* Properties. *)

\* The values in the innermost containers of v.
Held(type, v) == FoldLeft(LAMBDA values, kind : UNION {Range(c) : c \in values}, {v}, Front(type))

\* A string that the lexer takes for one word when it stands without quotes.
BareWord(s) ==
    /\ s # <<>>
    /\ s[1] \notin Blank \cup Control \cup Digits \cup {"-", "/", "QUOTE"}
    /\ \A i \in 2 .. Len(s) : s[i] \notin Blank \cup Control \cup {"BSL"}

\* Every string of the value that was written is a bare word.
Harmless ==
    /\ input.written # Unwritten
    /\ Last(input.type) = "string" => \A s \in Held(input.type, input.written) : BareWord(s)

\* What render_json_value writes is what read_json reads, whatever blanks and line
\* comments stand between the tokens, for containers of unsigned integers, the keys of
\* maps being quoted numbers, in containers inside containers too.  Strings are written
\* without quotes or escapes: a value with strings is read back if all of them are bare
\* words, and if one is not (empty, or with a comma, blank or bracket, or beginning like
\* a number, a comment or a quoted string), reading fails or gives something else.
RoundTrip ==
    (input.op = "read" /\ input.written # Unwritten /\ pc \in {"done", "error", "undefined"})
        => ((pc = "done" /\ value = input.written) <=> Harmless)

\* Reading ends: the loops of read_json over elements (json.hpp:888, 913) end only when
\* a token says so, and the end of the text, an unclosed comment or a string that looks
\* like a comma must not keep them going.  No container ever has more
\* elements than characters were passed.
ElementsFitText ==
    \A i \in 1 .. Depth : input.op = "read" => (Cardinality(DOMAIN frames[i].items) < at \/ pc = "error")

\* No element is lost and none invented: a sequence read from any text without strings,
\* comments and escapes has an element for each piece between its commas; only what is
\* behind the last comma may be nothing.
NoElementLost ==
    LET t == input.text
        open == Pass(t, 1, Blank)
        close == Seek(t, open + 1, {"]"})
        commas == {j \in open .. close - 1 : t[j] = ","}
        last == Max(commas \cup {open})
        more == IF \E j \in last + 1 .. close - 1 : t[j] \notin Blank THEN 1 ELSE 0
    IN  (pc = "done" /\ input.op = "read" /\ input.type[1] = "seq" /\ Len(input.type) = 2
            /\ ToSet(t) \cap {"QUOTE", "BSL", "/"} = {})
            => Len(value) = Cardinality(commas) + more

\* skip() passes over a whole value and nothing else, and comes to an end with it,
\* although its loops go on without a word when a separator is missing.
SkipPassesOver ==
    (input.op = "skip" /\ Harmless) ~> (pc = "done" /\ tok.type = "end")
=============================================================================
