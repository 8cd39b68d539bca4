------------------------------ MODULE RequestParser ------------------------------
(***************************************************************************)
(* phr_parse_request (picohttpparser.c), which request_t::parse calls, and  *)
(* the parser's other entries, phr_parse_response and phr_parse_headers.    *)
(* A buffer is a sequence of units: "CR", "LF", "SP" (also for a tab, after  *)
(* a header has begun), "COLON", "CTL" for any other control character,     *)
(* "VER" for the text HTTP/1.x, and words.  As in the source, a function    *)
(* returns the position where it stopped, or Partial or Error instead.      *)
(***************************************************************************)
EXTENDS Integers, Sequences, FiniteSetsExt

CONSTANT MaxHeaders   \* the size of the array `headers', 15 in request_t::parse

ASSUME MaxHeadersAssumption == MaxHeaders \in Nat

Error == -1

Partial == -2

\* What follows a step that ended at p, unless the step failed.
Then(p, Rest(_)) == IF p < 0 THEN p ELSE Rest(p)

\* The first position from i on with a unit of S, or the end of the buffer.
FindChar(b, i, S) == Min({j \in i .. Len(b) : b[j] \in S} \cup {Len(b) + 1})

\* Mutation: the end of the buffer is not checked.
ExpectCharUnchecked(b, i, ch) == IF i > Len(b) \/ b[i] # ch THEN Error ELSE i + 1

\* EXPECT_CHAR
ExpectChar(b, i, ch) ==
    IF i > Len(b) THEN Partial ELSE IF b[i] # ch THEN Error ELSE i + 1

\* ADVANCE_TOKEN: up to the next space.
AdvanceToken(b, i) ==
    LET j == FindChar(b, i, {"SP", "CR", "LF", "CTL"})
    IN  IF j > Len(b) THEN Partial ELSE IF b[j] # "SP" THEN Error ELSE j

\* The line has to end at i.
EndOfLine(b, i) ==
    IF i > Len(b) THEN Partial
    ELSE IF b[i] = "CR" THEN ExpectChar(b, i + 1, "LF")
    ELSE IF b[i] = "LF" THEN i + 1
    ELSE Error

get_token_to_eol(b, i) == EndOfLine(b, FindChar(b, i, {"CR", "LF", "CTL"}))

\* Where the value of the header line at i begins.  A line that begins with a
\* space continues the header before it; a name ends at its colon.
ValueStart(b, i, num_headers) ==
    LET colon == FindChar(b, i, {"COLON", "SP", "CR", "LF", "CTL", "VER"})
        first == CHOOSE j \in i .. Len(b) + 1 :
                     /\ j > colon
                     /\ j > Len(b) \/ b[j] # "SP"
                     /\ \A k \in colon + 1 .. j - 1 : b[k] = "SP"
    IN  IF num_headers # 0 /\ b[i] = "SP" THEN i
        ELSE IF colon > Len(b) THEN Partial
        ELSE IF b[colon] # "COLON" \/ colon = i THEN Error
        ELSE IF first > Len(b) THEN Partial
        ELSE first

\* Where the line after that of the header at i begins.
HeaderLine(b, i, num_headers) ==
    Then(ValueStart(b, i, num_headers), LAMBDA value : get_token_to_eol(b, value))

\* at: where a header line begins, and how many came before.
parse_headers(b, start) ==
    LET headers[at \in (1 .. Len(b) + 1) \X (0 .. MaxHeaders)] ==
            LET i == at[1]
                num_headers == at[2]
            IN  IF i > Len(b) THEN Partial
                ELSE IF b[i] \in {"CR", "LF"} THEN EndOfLine(b, i)
                ELSE IF num_headers = MaxHeaders THEN Error
                ELSE Then(HeaderLine(b, i, num_headers),
                          LAMBDA next : headers[<<next, num_headers + 1>>])
    IN  headers[<<start, 0>>]

\* A number, and something other than a digit that ends it.
parse_int(b, i) ==
    LET j == FindChar(b, i, {b[k] : k \in i .. Len(b)} \ {"NUM"})
    IN  IF j > Len(b) THEN Partial ELSE IF j = i THEN Error ELSE j

\* "HTTP/1.x": more digits of the minor version may follow.
parse_http_version(b, i) ==
    IF i > Len(b) THEN Partial
    ELSE IF b[i] # "VER" THEN Error
    ELSE LET j == parse_int(b, i + 1) IN IF j = Error THEN i + 1 ELSE j

\* The request line, with the empty line that may come before it.
RequestLine(b) ==
    Then(IF b = <<>> THEN Partial ELSE IF b[1] \in {"CR", "LF"} THEN EndOfLine(b, 1) ELSE 1,
         LAMBDA method : Then(AdvanceToken(b, method),
             LAMBDA path : Then(AdvanceToken(b, path + 1),
                 LAMBDA version : Then(parse_http_version(b, version + 1),
                     LAMBDA rest : EndOfLine(b, rest)))))

parse_request(b) == Then(RequestLine(b), LAMBDA first : parse_headers(b, first))

\* parse_response: version, status and message.  The blanks are compared without
\* a look at the end of the buffer, before which a number always stops.
StatusLine(b) ==
    LET Blank(i) == IF b[i] # "SP" THEN Error ELSE i + 1
    IN  Then(parse_http_version(b, 1),
             LAMBDA version : Then(Blank(version),
                 LAMBDA number : Then(parse_int(b, number),
                     LAMBDA status : Then(Blank(status),
                         LAMBDA msg : get_token_to_eol(b, msg)))))

parse_response(b) == Then(StatusLine(b), LAMBDA first : parse_headers(b, first))

\* Mutation: the search resumes right where the last one ended.
ResumeAtEnd(last_len) == last_len + 1

\* The end of the head may have begun up to three bytes ago.
ResumeAt(last_len) == IF last_len < 3 THEN 1 ELSE last_len - 2

\* Two line ends in a row, from the bytes on that were not there before.
is_complete(b, last_len) ==
    LET scan[at \in (1 .. Len(b) + 1) \X (0 .. 2)] ==
            LET i == at[1]
                ret_cnt == at[2]
            IN  IF ret_cnt = 2 THEN i
                ELSE IF i > Len(b) THEN Partial
                ELSE IF b[i] \in {"CR", "LF"}
                        THEN Then(EndOfLine(b, i), LAMBDA next : scan[<<next, ret_cnt + 1>>])
                ELSE scan[<<i + 1, 0>>]
    IN  scan[<<ResumeAt(last_len), 0>>]

\* How many units the head takes, or Partial or Error, when Parse reads it.  It is
\* parsed only when it may be complete, unless this is the first attempt.
Attempt(Parse(_), b, last_len) ==
    Then(IF last_len = 0 THEN 1 ELSE is_complete(b, last_len),
         LAMBDA complete : Then(Parse(b), LAMBDA end : end - 1))

phr_parse_request(b, last_len) == Attempt(parse_request, b, last_len)

phr_parse_response(b, last_len) == Attempt(parse_response, b, last_len)

phr_parse_headers(b, last_len) == Attempt(LAMBDA c : parse_headers(c, 1), b, last_len)
=============================================================================
