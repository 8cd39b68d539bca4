------------------------------- MODULE Connection -------------------------------
(***************************************************************************)
(* timax::connection (connection.hpp, connection.cpp): one accepted socket, *)
(* one read, the canned response g_str, close.  The connection objects are  *)
(* held by shared_ptrs only: by server_t::conn_ and by the completion       *)
(* handlers of the read and of the write, which capture `self'.  An object  *)
(* no shared_ptr refers to is destroyed, and its destructor closes the      *)
(* socket.  Conn is the set of storage slots the allocator can use again.   *)
(***************************************************************************)
EXTENDS Tcp

CONSTANTS
    Conn,      \* storage of the connection objects
    NoConn,    \* the null shared_ptr
    NoPeer,    \* the peer of a socket that is not open
    ReadBuf    \* the size of read_buf_, 4096 in the source

ASSUME ConnAssumption ==
    /\ NoConn \notin Conn
    /\ NoPeer \notin Client
    /\ ReadBuf \in Nat \ {0}

VARIABLES
    conn_,      \* server_t::conn_
    accepting,  \* targets of an outstanding async_accept
    reading,    \* connections with an outstanding async_read_some
    writing,    \* connections with an outstanding async_write
    peer,       \* peer[c]: the client c's socket is open to, or NoPeer
    svc         \* svc[c]: the io_service c was constructed with

connVars == <<conn_, accepting, reading, writing, peer, svc>>

\* Mutation: the handler of the read captures `this' but not `self'.
OwnedByWriteOnly(cur, r, w) == ({cur} \ {NoConn}) \cup w

\* The objects some shared_ptr refers to: the conn_ of the server, and the
\* `self' of every outstanding read and write.  The handler of async_accept
\* captures the server only.
Owned(cur, r, w) == ({cur} \ {NoConn}) \cup r \cup w

Live == Owned(conn_, reading, writing)

IsOpen(c) == peer[c] # NoPeer

Open == {c \in Conn : IsOpen(c)}

\* The shared_ptrs after a step: conn_ is `cur', the outstanding operations are
\* `r' and `w', the sockets are `sock' on the io_services `home'.  An object that
\* nothing refers to any more is destroyed: ~connection() calls close().
Settle(cur, r, w, sock, home) ==
    LET live == Owned(cur, r, w)
    IN  /\ conn_' = cur
        /\ reading' = r
        /\ writing' = w
        /\ peer' = [c \in Conn |-> IF c \in live THEN sock[c] ELSE NoPeer]
        /\ svc' = [c \in Conn |-> IF c \in live THEN home[c] ELSE 0]

\* close(): nothing to do when the socket is not open.
Closed(c) == IF IsOpen(c) THEN [peer EXCEPT ![c] = NoPeer] ELSE peer

-----------------------------------------------------------------------------
\* The bytes async_read_some finds, as many as the buffer has room for.
Received(k, offset) == IF inbox[k] < ReadBuf - offset THEN inbox[k] ELSE ReadBuf - offset

\* read_head(offset) has offset 0 at its only call, start().
HeadOffset == 0

\* Mutation: the error code is not looked at.
NeverFails(bytes) == FALSE

\* An error or end of file: no byte was transferred.
Fails(bytes) == bytes = 0

TooLong(offset, bytes) == offset + bytes > ReadBuf

\* The completion handler of read_head: an error or end of file closes the
\* socket; more bytes than the buffer holds return without a response; any other
\* number of bytes, whatever they are, is answered.
ReadCompletes(c) ==
    LET k == peer[c]
        n == IF IsOpen(c) THEN Received(k, HeadOffset) ELSE 0
    IN  /\ c \in reading
        /\ IF Fails(n)
              THEN /\ Settle(conn_, reading \ {c}, writing, Closed(c), svc)
                   /\ UNCHANGED inbox
              ELSE /\ inbox' = [inbox EXCEPT ![k] = @ - n]
                   /\ IF TooLong(HeadOffset, n)
                         THEN Settle(conn_, reading \ {c}, writing, peer, svc)
                         ELSE Settle(conn_, reading \ {c}, writing \cup {c}, peer, svc)
        /\ UNCHANGED <<accepting, link, asked, replies, backlog>>

\* Mutation: the connection is read again instead of closed.
WriteThenReads(c) ==
    LET k == peer[c]
    IN  /\ c \in writing
        /\ Settle(conn_, reading \cup {c}, writing \ {c}, peer, svc)
        /\ replies' = IF IsOpen(c) /\ Writable(k)
                         THEN [replies EXCEPT ![k] = @ + 1] ELSE replies
        /\ UNCHANGED <<accepting, link, inbox, asked, backlog>>

\* The completion handler of async_write: whether the response could be sent
\* or not, the socket is closed.
WriteCompletes(c) ==
    LET k == peer[c]
    IN  /\ c \in writing
        /\ Settle(conn_, reading, writing \ {c}, Closed(c), svc)
        /\ replies' = IF IsOpen(c) /\ Writable(k)
                         THEN [replies EXCEPT ![k] = @ + 1] ELSE replies
        /\ UNCHANGED <<accepting, link, inbox, asked, backlog>>
=============================================================================
