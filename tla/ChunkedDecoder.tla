------------------------------ MODULE ChunkedDecoder ------------------------------
(***************************************************************************)
(* phr_decode_chunked (picohttpparser.c): called for every piece of a body   *)
(* as it arrives, it decodes the piece in place.  Its loop is stepped, one   *)
(* unit or one block of data at a time; buf[1 .. dst] is what was decoded,   *)
(* buf[src + 1 .. bufsz] what is still to be read.                           *)
(***************************************************************************)
EXTENDS ChunkedBody

CONSTANTS
    Unit,       \* the units that arrive
    MaxPiece,   \* bound: the length of a piece
    MaxStream   \* bound: the length of a body

ASSUME StreamAssumption == MaxPiece \in Nat /\ MaxStream \in Nat

VARIABLES
    consume_trailer, bytes_left_in_chunk, _hex_count, _state,   \* phr_chunked_decoder
    buf, src, dst,  \* the call: the piece, how much of it was read, how much decoded
    calling,        \* whether a call is under way
    ret,            \* what the last call returned
    stream,         \* history: all that has arrived
    output          \* history: all that calls have handed over

decoder == <<consume_trailer, bytes_left_in_chunk, _hex_count, _state>>

vars == <<decoder, buf, src, dst, calling, ret, stream, output>>

Incomplete == -2

Error == -1

bufsz == Len(buf)

Init ==
    /\ consume_trailer \in BOOLEAN
    /\ bytes_left_in_chunk = 0
    /\ _hex_count = 0
    /\ _state = "CHUNK_SIZE"
    /\ buf = <<>> /\ src = 0 /\ dst = 0
    /\ calling = FALSE
    /\ ret = Incomplete
    /\ stream = <<>> /\ output = <<>>

\* Data arrives and the body was not complete: the next call.
Arrive ==
    /\ ~calling
    /\ ret = Incomplete
    /\ \E n \in 0 .. MaxPiece :
        /\ Len(stream) + n <= MaxStream
        /\ \E piece \in [1 .. n -> Unit] : buf' = piece /\ stream' = stream \o piece
    /\ src' = 0 /\ dst' = 0
    /\ calling' = TRUE
    /\ UNCHANGED <<decoder, ret, output>>

-----------------------------------------------------------------------------
(* The loop of phr_decode_chunked. *)

In(state) == calling /\ _state = state

Next1 == buf[src + 1]

\* memmove(buf + to, buf + from, n)
Moved(to, from, n) ==
    [i \in 1 .. bufsz |-> IF to < i /\ i <= to + n THEN buf[i - to + from] ELSE buf[i]]

\* The labels Complete and Exit, with s units read and d decoded: the rest is moved up
\* to the decoded data.
Exit(moved, s, d, r) ==
    /\ buf' = [i \in 1 .. bufsz |-> IF d < i /\ i <= d + bufsz - s THEN moved[i - d + s] ELSE moved[i]]
    /\ src' = s
    /\ dst' = d
    /\ ret' = r
    /\ calling' = FALSE
    /\ output' = output \o SubSeq(buf', 1, d)
    /\ UNCHANGED stream

\* The loop goes on behind s units.
Continue(s) ==
    /\ src' = s
    /\ UNCHANGED <<buf, dst, calling, ret, stream, output>>

\* In every state but one, the end of the piece ends the call.
OutOfInput ==
    /\ calling /\ _state # "CHUNK_DATA"
    /\ src = bufsz
    /\ Exit(buf, src, dst, Incomplete)
    /\ UNCHANGED decoder

\* Mutation: one digit too many is taken.
DigitTooMany ==
    /\ In("CHUNK_SIZE") /\ src < bufsz /\ Next1 \in Digits
    /\ IF _hex_count = HexDigits + 1
       THEN Exit(buf, src, dst, Error) /\ UNCHANGED decoder
       ELSE /\ bytes_left_in_chunk' = (bytes_left_in_chunk * 16 + Value[Next1]) % SixteenTo[HexDigits]
            /\ _hex_count' = _hex_count + 1
            /\ Continue(src + 1)
            /\ UNCHANGED <<consume_trailer, _state>>

Digit ==
    /\ In("CHUNK_SIZE") /\ src < bufsz /\ Next1 \in Digits
    /\ IF _hex_count = HexDigits
       THEN Exit(buf, src, dst, Error) /\ UNCHANGED decoder
       ELSE /\ bytes_left_in_chunk' = (bytes_left_in_chunk * 16 + Value[Next1]) % SixteenTo[HexDigits]
            /\ _hex_count' = _hex_count + 1
            /\ Continue(src + 1)
            /\ UNCHANGED <<consume_trailer, _state>>

SizeEnds ==
    /\ In("CHUNK_SIZE") /\ src < bufsz /\ Next1 \notin Digits
    /\ IF _hex_count = 0
       THEN Exit(buf, src, dst, Error) /\ UNCHANGED decoder
       ELSE /\ _hex_count' = 0
            /\ _state' = "CHUNK_EXT"
            /\ Continue(src)
            /\ UNCHANGED <<consume_trailer, bytes_left_in_chunk>>

ChunkExt ==
    /\ In("CHUNK_EXT") /\ src < bufsz
    /\ IF Next1 = "LF" /\ bytes_left_in_chunk = 0 /\ ~consume_trailer
       THEN Exit(buf, src + 1, dst, bufsz - (src + 1)) ELSE Continue(src + 1)
    /\ _state' = IF Next1 # "LF" THEN _state
                 ELSE IF bytes_left_in_chunk > 0 THEN "CHUNK_DATA"
                 ELSE IF consume_trailer THEN "TRAILERS_LINE_HEAD" ELSE _state
    /\ UNCHANGED <<consume_trailer, bytes_left_in_chunk, _hex_count>>

\* The data goes on beyond the piece.
DataEndsPiece ==
    LET avail == bufsz - src
    IN  /\ In("CHUNK_DATA") /\ avail < bytes_left_in_chunk
        /\ bytes_left_in_chunk' = bytes_left_in_chunk - avail
        /\ Exit(Moved(dst, src, avail), src + avail, dst + avail, Incomplete)
        /\ UNCHANGED <<consume_trailer, _hex_count, _state>>

\* Mutation: dst is moved on before the data is.
ChunkDataLate ==
    /\ In("CHUNK_DATA") /\ bufsz - src >= bytes_left_in_chunk
    /\ buf' = Moved(dst + bytes_left_in_chunk, src, bytes_left_in_chunk)
    /\ src' = src + bytes_left_in_chunk
    /\ dst' = dst + bytes_left_in_chunk
    /\ bytes_left_in_chunk' = 0
    /\ _state' = "CHUNK_CRLF"
    /\ UNCHANGED <<consume_trailer, _hex_count, calling, ret, stream, output>>

\* The rest of the data is in the piece.
ChunkData ==
    /\ In("CHUNK_DATA") /\ bufsz - src >= bytes_left_in_chunk
    /\ buf' = Moved(dst, src, bytes_left_in_chunk)
    /\ src' = src + bytes_left_in_chunk
    /\ dst' = dst + bytes_left_in_chunk
    /\ bytes_left_in_chunk' = 0
    /\ _state' = "CHUNK_CRLF"
    /\ UNCHANGED <<consume_trailer, _hex_count, calling, ret, stream, output>>

ChunkCrlf ==
    /\ In("CHUNK_CRLF") /\ src < bufsz
    /\ IF Next1 \in {"CR", "LF"} THEN Continue(src + 1) ELSE Exit(buf, src, dst, Error)
    /\ _state' = IF Next1 = "LF" THEN "CHUNK_SIZE" ELSE _state
    /\ UNCHANGED <<consume_trailer, bytes_left_in_chunk, _hex_count>>

TrailersLineHead ==
    /\ In("TRAILERS_LINE_HEAD") /\ src < bufsz
    /\ IF Next1 = "LF" THEN Exit(buf, src + 1, dst, bufsz - (src + 1)) ELSE Continue(src + 1)
    /\ _state' = IF Next1 \in {"CR", "LF"} THEN _state ELSE "TRAILERS_LINE_MIDDLE"
    /\ UNCHANGED <<consume_trailer, bytes_left_in_chunk, _hex_count>>

TrailersLineMiddle ==
    /\ In("TRAILERS_LINE_MIDDLE") /\ src < bufsz
    /\ Continue(src + 1)
    /\ _state' = IF Next1 = "LF" THEN "TRAILERS_LINE_HEAD" ELSE _state
    /\ UNCHANGED <<consume_trailer, bytes_left_in_chunk, _hex_count>>

\* The body is complete or wrong, or the bound is reached.
Stop == ~calling /\ (ret # Incomplete \/ Len(stream) = MaxStream) /\ UNCHANGED vars

phr_decode_chunked ==
    \/ OutOfInput
    \/ Digit \/ SizeEnds
    \/ ChunkExt
    \/ DataEndsPiece \/ ChunkData
    \/ ChunkCrlf
    \/ TrailersLineHead \/ TrailersLineMiddle

Next == Arrive \/ phr_decode_chunked \/ Stop

Spec == Init /\ [][Next]_vars

-----------------------------------------------------------------------------
(* Properties. *)

\* Wherever the pieces are cut, after every call the data handed over and the verdict
\* are those of all that arrived, decoded at once; when the body is complete, the
\* call returns how much of the piece lies behind it, and that much is left behind
\* the decoded data (picohttpparser.h:71-79).
DecodesWholeStream ==
    ~calling =>
        LET whole == Decoded(stream, consume_trailer)
        IN  /\ output = whole.data
            /\ CASE whole.verdict = "incomplete" -> ret = Incomplete
                 [] whole.verdict = "error"      -> ret = Error
                 [] whole.verdict = "complete"   ->
                        /\ ret = Len(stream) - whole.end
                        /\ SubSeq(buf, dst + 1, dst + ret)
                               = SubSeq(stream, whole.end + 1, Len(stream))

\* Decoding in place never overtakes reading: what is still to be read stays as it
\* arrived (picohttpparser.c:541, 549, 600).
UnreadIntact ==
    calling =>
        /\ dst <= src
        /\ src <= bufsz
        /\ \A i \in src + 1 .. bufsz : buf[i] = stream[Len(stream) - bufsz + i]
=============================================================================
