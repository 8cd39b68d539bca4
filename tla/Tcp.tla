---------------------------------- MODULE Tcp ----------------------------------
(***************************************************************************)
(* The clients and the kernel's side of TCP, as the server sees them        *)
(* through Boost.Asio.  External to the repository: modelled from what      *)
(* server.cpp and connection.cpp use of it.  A client connects (the kernel  *)
(* queues it until it is accepted), sends some bytes, may close its sending *)
(* side or reset the connection at any time, and may come back later.       *)
(* Nothing obliges it to do any of this.                                    *)
(***************************************************************************)
EXTENDS Integers, Sequences, FiniteSets

CONSTANTS
    Client,     \* the clients
    MaxInbox    \* bound: units of bytes a client has sent and the server not read

ASSUME MaxInboxAssumption == MaxInbox \in Nat \ {0}

VARIABLES
    link,     \* link[k]: client k's end of its connection
    inbox,    \* inbox[k]: units of bytes received from k and not yet read
    asked,    \* history: the clients that have sent a byte over this connection
    replies,  \* replies[k]: complete responses sent to k over this connection
    backlog   \* connections established by the kernel, not yet accepted

tcpVars == <<link, inbox, asked, replies, backlog>>

\* "away": not connected, "open", "fin": k sends no more, "rst": k reset it.
LinkState == {"away", "open", "fin", "rst"}

TcpTypeOK ==
    /\ link \in [Client -> LinkState]
    /\ inbox \in [Client -> 0 .. MaxInbox]
    /\ asked \subseteq Client
    /\ replies \in [Client -> Nat]
    /\ backlog \in Seq(Client)

Waiting == {backlog[i] : i \in DOMAIN backlog}

TcpInit ==
    /\ link = [k \in Client |-> "away"]
    /\ inbox = [k \in Client |-> 0]
    /\ asked = {}
    /\ replies = [k \in Client |-> 0]
    /\ backlog = <<>>

-----------------------------------------------------------------------------
(* The clients. *)

Connect(k) ==
    /\ link[k] = "away"
    /\ link' = [link EXCEPT ![k] = "open"]
    /\ backlog' = Append(backlog, k)
    /\ UNCHANGED <<inbox, asked, replies>>

Send(k) ==
    /\ link[k] = "open"
    /\ inbox[k] < MaxInbox
    /\ inbox' = [inbox EXCEPT ![k] = @ + 1]
    /\ asked' = asked \cup {k}
    /\ UNCHANGED <<link, replies, backlog>>

Finish(k) ==
    /\ link[k] = "open"
    /\ link' = [link EXCEPT ![k] = "fin"]
    /\ UNCHANGED <<inbox, asked, replies, backlog>>

\* What was received before the reset may or may not still be readable.
Abort(k) ==
    /\ link[k] \in {"open", "fin"}
    /\ link' = [link EXCEPT ![k] = "rst"]
    /\ \E left \in {0, inbox[k]} : inbox' = [inbox EXCEPT ![k] = left]
    /\ UNCHANGED <<asked, replies, backlog>>

\* The client drops its end of a connection the server has closed.
Forget(k) ==
    /\ link[k] # "away"
    /\ link' = [link EXCEPT ![k] = "away"]
    /\ inbox' = [inbox EXCEPT ![k] = 0]
    /\ asked' = asked \ {k}
    /\ replies' = [replies EXCEPT ![k] = 0]
    /\ UNCHANGED backlog

-----------------------------------------------------------------------------
(* What the server's socket operations observe. *)

\* async_read_some on k's connection completes: bytes, end of file or an error.
Readable(k) == inbox[k] > 0 \/ link[k] \in {"fin", "rst"}

\* async_write of the response reaches the client.
Writable(k) == link[k] # "rst"
=============================================================================
