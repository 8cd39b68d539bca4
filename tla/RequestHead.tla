------------------------------- MODULE RequestHead -------------------------------
(***************************************************************************)
(* request_t::parse (request.hpp) over a request that arrives in pieces:     *)
(* after each read it is called for the whole buffer with the length of the *)
(* buffer at the call before, as long as it returns -2.  The same driver    *)
(* calls the parser's other entries, for a response or for bare headers.    *)
(***************************************************************************)
EXTENDS RequestParser

CONSTANTS
    Unit,       \* the units that arrive
    FirstRead,  \* what the first read may have brought, for each entry
    MaxMore     \* bound: the number of units that arrive after the first read

Entry == {"request", "response", "headers"}

ASSUME UnitAssumption ==
    /\ MaxMore \in Nat
    /\ "absent" \notin Unit
    /\ DOMAIN FirstRead = Entry
    /\ \A e \in Entry : FirstRead[e] \subseteq Seq(Unit)

VARIABLES
    entry,      \* which of the parser's entries is called
    buf,        \* what was read so far
    last_len,   \* the length of buf at the call before
    result,     \* what the call returned
    headers_,   \* request_t::headers_
    body_len_,  \* request_t::body_len_
    more        \* history: how many units came after the first read

vars == <<entry, buf, last_len, result, headers_, body_len_, more>>

-----------------------------------------------------------------------------
(* request_t::parse *)

\* Returned for a header that is not there.
Absent == <<"absent">>

\* The names and values of the headers of a complete head, up to the line that is
\* none; a continuation line has no name.
Fields(b) ==
    LET fields[at \in (1 .. Len(b) + 1) \X (0 .. MaxHeaders)] ==
            LET i == at[1]
                value == ValueStart(b, i, at[2])
                colon == FindChar(b, i, {"COLON"})
                name == IF value = i THEN <<>> ELSE SubSeq(b, i, colon - 1)
                stop == FindChar(b, value, {"CR", "LF"})
                next == HeaderLine(b, i, at[2])
            IN  IF i > Len(b) \/ at[2] = MaxHeaders \/ next < 0 THEN <<>>
                ELSE <<[name |-> name, value |-> SubSeq(b, value, stop - 1)]>>
                         \o fields[<<next, at[2] + 1>>]
    IN  fields[<<RequestLine(b), 0>>]

\* Mutation: a later header of the same name replaces an earlier one.
EmplaceLast(map, fields) ==
    LET names == {fields[i].name : i \in DOMAIN fields}
        Nth(name) == Max({i \in DOMAIN fields : fields[i].name = name})
    IN  [name \in DOMAIN map \cup names |->
            IF name \in names THEN fields[Nth(name)].value ELSE map[name]]

\* headers_.emplace for every field: the first value of a name stays.
Emplace(map, fields) ==
    LET names == {fields[i].name : i \in DOMAIN fields}
        Nth(name) == Min({i \in DOMAIN fields : fields[i].name = name})
    IN  [name \in DOMAIN map \cup names |->
            IF name \in DOMAIN map THEN map[name] ELSE fields[Nth(name)].value]

ContentLength(map) == IF <<"CL">> \in DOMAIN map THEN map[<<"CL">>] ELSE Absent

\* lexical_cast<unsigned int> of a header's value: a number and nothing else.
IsNumber(value) == value # <<>> /\ \A i \in DOMAIN value : value[i] = "NUM"

\* Its end, after the parser returned r and headers_ became `map'.
Finish(r, map, length) ==
    /\ headers_' = map
    /\ IF r < 0 \/ length = Absent THEN result' = r /\ UNCHANGED body_len_
       ELSE IF IsNumber(length) THEN result' = r /\ body_len_' = length
       ELSE result' = Error /\ UNCHANGED body_len_

\* What the parser says of the buffer b, `last' units of which it saw before.
Verdict(b, last) ==
    CASE entry = "request" -> phr_parse_request(b, last)
      [] entry = "response" -> phr_parse_response(b, last)
      [] entry = "headers" -> phr_parse_headers(b, last)

\* One call for the buffer b.
parse(b, last) ==
    /\ entry = "request"
    /\ \E r \in {Verdict(b, last)} :
          \E map \in {IF r < 0 THEN headers_ ELSE Emplace(headers_, Fields(b))} :
              Finish(r, map, ContentLength(map))

-----------------------------------------------------------------------------
\* A call of one of the other entries, by which no request_t is filled.
ParseOther(b, last) ==
    /\ entry # "request"
    /\ result' = Verdict(b, last)
    /\ UNCHANGED <<headers_, body_len_>>

Call(b, last) ==
    /\ buf' = b
    /\ last_len' = last
    /\ parse(b, last) \/ ParseOther(b, last)
    /\ UNCHANGED entry

Init ==
    /\ entry \in {e \in Entry : FirstRead[e] # {}}
    /\ buf = <<>>
    /\ last_len = 0
    /\ result = Partial
    /\ headers_ = <<>>
    /\ body_len_ = <<>>
    /\ more = 0

Begin ==
    /\ buf = <<>>
    /\ \E b \in FirstRead[entry] : b # <<>> /\ Call(b, 0)
    /\ UNCHANGED more

\* The head was incomplete, and up to three more units have arrived.
Continue ==
    /\ buf # <<>>
    /\ result = Partial
    /\ \E n \in 1 .. 3 :
        /\ more + n <= MaxMore
        /\ more' = more + n
        /\ \E units \in [1 .. n -> Unit] : Call(buf \o units, Len(buf))

Stop ==
    /\ buf # <<>>
    /\ result # Partial \/ more = MaxMore
    /\ UNCHANGED vars

Next == Begin \/ Continue \/ Stop

Spec == Init /\ [][Next]_vars

-----------------------------------------------------------------------------
(* Properties. *)

\* Whether the head is complete, and where it ends, does not depend on how it was
\* split into reads, whichever entry parses it: resuming at last_len - 3
\* (picohttpparser.c:203) never misses
\* the end of a head and never takes for one what is none.  At most an error is
\* reported late, and not later than the empty line that would end the head.
SplitIndependent ==
    LET r == IF buf = <<>> THEN Partial ELSE Verdict(buf, last_len)
        whole == Verdict(buf, 0)
    IN  \/ r = whole
        \/ r = Partial /\ whole = Error /\ is_complete(buf, 0) < 0

\* "returns number of bytes consumed if successful, -2 if request is partial"
\* (picohttpparser.h:51, and "ditto" for responses and headers): a head that would
\* be accepted in one piece is not reported as partial when it came in several.
CompleteIsReported ==
    buf # <<>> /\ Verdict(buf, 0) > 0 => result # Partial

\* The verdict on a buffer stands whatever comes after it: a head is not taken
\* back when a pipelined request follows, and what was an error is not repaired.
VerdictStands ==
    \A n \in 1 .. Len(buf) - 1 :
        LET r == Verdict(SubSeq(buf, 1, n), 0)
        IN  r # Partial => Verdict(buf, 0) = r

\* The length of the body is that of the first Content-Length line of the head
\* (headers_.emplace keeps the first, request.hpp:66-77), none means 0, and
\* a later line never overrides it: otherwise the body would be cut elsewhere than
\* where the headers that were kept say.  The line of the request is none of them,
\* even if it looks like one.
BodyFollowsFirstLength ==
    entry = "request" /\ result > 0 =>
        LET Length(i) ==   \* a line break, the name, a colon
                /\ i + 2 <= result /\ buf[i] = "LF" /\ buf[i + 1] = "CL" /\ buf[i + 2] = "COLON"
            lines == {i \in RequestLine(buf) - 1 .. result : Length(i)}
        IN  IF lines = {} THEN body_len_ = <<>>
            ELSE LET start == FindChar(buf, Min(lines) + 3, {"NUM"})
                     stop == FindChar(buf, start, {"CR", "LF"})
                 IN  body_len_ = SubSeq(buf, start, stop - 1)
=============================================================================
