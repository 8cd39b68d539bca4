-------------------------------- MODULE Exchange --------------------------------
(***************************************************************************)
(* The other half of timax::connection (connection.cpp:93-146, 189-208),    *)
(* compiled but called by nothing: response(), read_body() and write(), and *)
(* read_head(), which write() calls again.  Whoever calls the first two is  *)
(* external: HandOver stands for the calls in the comments of read_head().  *)
(* One connection object for each client; it is held by the handlers of its *)
(* outstanding operations, and destroyed, its socket closed, with the last. *)
(***************************************************************************)
EXTENDS Tcp

CONSTANTS
    ReadBuf,   \* the size of read_buf_, 4096 in the source
    MaxBody    \* bound: the length of a body

ASSUME SizesAssumption == ReadBuf \in Nat \ {0} /\ MaxBody \in Nat \ {0}

VARIABLES
    sock,   \* sock[k]: the socket to k: "none", "open", "shut" (both ways) or "closed"
    ops,    \* ops[k]: the outstanding operations of that socket, oldest first
    up      \* the process runs

vars == <<tcpVars, sock, ops, up>>

\* An operation, with what its handler was given; a read_body has `got' so many units.
Op(type, need_close, len) ==
    [type |-> type, need_close |-> need_close, len |-> len, got |-> 0]

ReadHead == Op("head", TRUE, 0)

Operation ==
    [type : {"head", "body", "canned", "response"}, need_close : BOOLEAN,
     len : 0 .. MaxBody, got : 0 .. ReadBuf - 1]

Least(a, b) == IF a < b THEN a ELSE b

-----------------------------------------------------------------------------
\* What need_close_conneciton() looks at: the minor version and the value of the header
\* "Connection", "" when there is none.
Requests == [minor_version : 0 .. 2, connection : {"", "keep-alive", "close", "other"},
             body_len : 0 .. MaxBody]

has_keepalive_attr(request) == request.connection = "keep-alive"

has_close_attr(request) == request.connection = "close"

need_close_conneciton(request) ==
    \/ request.minor_version = 0 /\ ~has_keepalive_attr(request)
    \/ request.minor_version = 1 /\ has_close_attr(request)

-----------------------------------------------------------------------------
\* The handler of the oldest operation of k may run.
Runs(k, type) == up /\ ops[k] # <<>> /\ Head(ops[k]).type = type

\* It started the operations of `more' and left the socket as `s': an object without
\* operations is destroyed.
Handled(k, more, s) ==
    LET left == Tail(ops[k]) \o more
    IN  /\ ops' = [ops EXCEPT ![k] = left]
        /\ sock' = [sock EXCEPT ![k] = IF left = <<>> THEN "closed" ELSE s]
        /\ UNCHANGED <<up, backlog>>

\* An exception leaves run() on a thread of the pool: std::terminate().
Terminate ==
    /\ up' = FALSE
    /\ backlog' = <<>>
    /\ ops' = [k \in Client |-> <<>>]
    /\ sock' = [k \in Client |-> IF sock[k] = "none" /\ k \notin Waiting THEN "none" ELSE "closed"]

\* response_t::send_response() calls write(), which starts the write: of no bytes, since
\* response_buffers_ is filled in comments only.
send_response(need_close) == <<Op("response", need_close, 0)>>

\* Mutation: what may throw comes behind the write.
ResponseThrowsLate(need_close) ==
    [started : {send_response(need_close)}, throws : BOOLEAN]

\* response(): a write is started, or an exception is thrown before it, as by make_shared.
response(need_close) ==
    {[started |-> send_response(need_close), throws |-> FALSE],
     [started |-> <<>>, throws |-> TRUE]}

\* Mutation: a read that failed is tried again.
ReadAgain(k) == Handled(k, <<Head(ops[k])>>, sock[k])

\* An error, or end of file.
ReadFails(k) == Handled(k, <<>>, "closed")

\* The caller of response() and read_body(), with the request it has parsed.
HandOver(k, request) ==
    LET need_close == need_close_conneciton(request)
    IN  IF request.body_len > 0
           THEN Handled(k, <<Op("body", need_close, request.body_len)>>, sock[k])
           ELSE \E call \in response(need_close) :
                    IF call.throws THEN Terminate ELSE Handled(k, call.started, sock[k])

\* The handler of read_head: as it is compiled the canned response follows whatever was
\* read.  A socket that was shut down gives what is left, then end of file.
HeadCompletes(k) ==
    LET n == Least(inbox[k], ReadBuf)
    IN  /\ Runs(k, "head")
        /\ Readable(k) \/ sock[k] = "shut"
        /\ inbox' = [inbox EXCEPT ![k] = @ - n]
        /\ IF n = 0 THEN ReadFails(k)
           ELSE \/ Handled(k, <<Op("canned", TRUE, 0)>>, sock[k])
                \/ \E request \in Requests : HandOver(k, request)
        /\ UNCHANGED <<link, asked, replies>>

\* Mutation: a body is as long as its request says.
WholeBody(op) == op.len

\* async_read ends with the body, or with read_buf_ full.
Wanted(op) == Least(op.len, ReadBuf)

\* The handler of read_body: response(), and once more when it throws.
Respond(k, need_close) ==
    \E first, second \in response(need_close) :
        IF ~first.throws THEN Handled(k, first.started, sock[k])
        ELSE IF ~second.throws THEN Handled(k, first.started \o second.started, sock[k])
        ELSE Terminate

\* The next read of async_read; its handler runs after an error or the last one.
BodyCompletes(k) ==
    LET op == Head(ops[k])
        n == Least(inbox[k], Wanted(op) - op.got)
    IN  /\ Runs(k, "body")
        /\ Readable(k) \/ sock[k] = "shut"
        /\ inbox' = [inbox EXCEPT ![k] = @ - n]
        /\ IF n = 0 THEN ReadFails(k)
           ELSE IF op.got + n < Wanted(op)
              THEN Handled(k, <<[op EXCEPT !.got = @ + n]>>, sock[k])
              ELSE Respond(k, op.need_close)
        /\ UNCHANGED <<link, asked, replies>>

\* A response that reaches the client.
Replied(k) ==
    replies' = IF sock[k] = "open" /\ Writable(k) THEN [replies EXCEPT ![k] = @ + 1] ELSE replies

\* Mutation: the connection is read again instead of closed.
CannedThenReads(k) ==
    /\ Runs(k, "canned")
    /\ Replied(k)
    /\ Handled(k, <<ReadHead>>, sock[k])
    /\ UNCHANGED <<link, inbox, asked>>

CannedWritten(k) ==
    /\ Runs(k, "canned")
    /\ Replied(k)
    /\ Handled(k, <<>>, "closed")
    /\ UNCHANGED <<link, inbox, asked>>

\* Mutation: the socket is not shut down.
StaysOpen(k) == sock[k]

\* socket_.shutdown(shutdown_both)
ShutDown(k) == "shut"

\* The handler of write().
ResponseWritten(k) ==
    /\ Runs(k, "response")
    /\ Replied(k)
    /\ IF Head(ops[k]).need_close THEN Handled(k, <<>>, "closed")
       ELSE Handled(k, <<ReadHead>>, ShutDown(k))
    /\ UNCHANGED <<link, inbox, asked>>

Handler(k) == HeadCompletes(k) \/ BodyCompletes(k) \/ CannedWritten(k) \/ ResponseWritten(k)

-----------------------------------------------------------------------------
Init ==
    /\ TcpInit
    /\ sock = [k \in Client |-> "none"]
    /\ ops = [k \in Client |-> <<>>]
    /\ up = TRUE

\* start() of the connection that was accepted.
start ==
    /\ up /\ backlog # <<>>
    /\ backlog' = Tail(backlog)
    /\ sock' = [sock EXCEPT ![Head(backlog)] = "open"]
    /\ ops' = [ops EXCEPT ![Head(backlog)] = <<ReadHead>>]
    /\ UNCHANGED <<link, inbox, asked, replies, up>>

\* A client keeps its end until the server has closed the other one.
ClientStep(k) ==
    /\ \/ up /\ Connect(k) /\ UNCHANGED sock
       \/ sock[k] # "closed" /\ Send(k) /\ UNCHANGED sock
       \/ Finish(k) /\ UNCHANGED sock
       \/ Abort(k) /\ UNCHANGED sock
       \/ sock[k] = "closed" /\ Forget(k) /\ sock' = [sock EXCEPT ![k] = "none"]
    /\ UNCHANGED <<ops, up>>

Next == start \/ \E k \in Client : Handler(k) \/ ClientStep(k)

\* A handler whose operation has completed is run; clients owe nothing.
Spec == Init /\ [][Next]_vars /\ \A k \in Client : WF_vars(Handler(k))

-----------------------------------------------------------------------------
(* Properties. *)

SockState == {"none", "open", "shut", "closed"}

\* Among the types: a read_body() that goes on has room left in read_buf_, whatever
\* length its request gave; a longer body is cut off and answered (connection.cpp:96).
TypeOK ==
    /\ TcpTypeOK
    /\ sock \in [Client -> SockState]
    /\ ops \in [Client -> Seq(Operation)]
    /\ up \in BOOLEAN

\* Two operations never run on a socket at once, however often response() throws
\* (connection.cpp:108-122), and a socket that is open has one, which will decide about
\* it: none is kept by the process for nobody.
OneOperation ==
    \A k \in Client : Len(ops[k]) = IF sock[k] \in {"open", "shut"} THEN 1 ELSE 0

\* A connection that write() keeps alive answers nothing any more: it was shut down
\* (connection.cpp:201-206), and is closed as soon as its client pauses, even if the
\* client neither closes nor resets it.
KeptAliveIsClosed ==
    \A k \in Client :
        (replies[k] > 0 /\ inbox[k] = 0) ~> (sock[k] \in {"closed", "none"} \/ inbox[k] > 0)

\* A client that has closed or reset its end is closed, whatever its connection was
\* waiting for: a head, the rest of a body or the end of a write.
FinishedIsClosed ==
    \A k \in Client :
        (sock[k] # "none" /\ link[k] \in {"fin", "rst"}) ~> (sock[k] \in {"closed", "none"})

\* What a client's session is, told from its socket and the operation on it.
sessionOf(k) ==
    CASE sock[k] = "none" -> IF k \in Waiting THEN "waiting" ELSE "none"
      [] sock[k] = "open" ->
            IF Head(ops[k]).type \in {"head", "body"} THEN "served" ELSE "answering"
      [] OTHER -> "over"

sessions == [k \in Client |-> sessionOf(k)]

Service == INSTANCE OneShotService WITH
    session <- sessions,
    heard <- asked,
    answers <- replies,
    queue <- backlog

\* With bodies, keep-alive and exceptions, too, the service is the one that Server gives:
\* one response in a session, after the client sent something.  The promise of keep-alive
\* in response_file() (connection.cpp:173-176) is not kept.
ImplementsOneShotService == Service!Spec
=============================================================================
