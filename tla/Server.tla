--------------------------------- MODULE Server ---------------------------------
(***************************************************************************)
(* timax::server_t (server.hpp, server.cpp): the acceptor on io_service 0,  *)
(* the chain of do_accept() and its completion handler, the connections on  *)
(* the io_services of the pool, and the lifecycle from the constructor to   *)
(* the destructor.  Threads interleave between completion handlers, and     *)
(* between the two halves of the accept handler.                            *)
(***************************************************************************)
EXTENDS IoServicePool, Connection

CONSTANT MaxOpen   \* sockets the process may have open to clients (EMFILE above)

ASSUME MaxOpenAssumption ==
    /\ MaxOpen \in Nat \ {0}
    /\ IsFiniteSet(Conn)
    /\ Cardinality(Conn) >= MaxOpen + 2   \* heap never runs out before descriptors

vars == <<poolVars, connVars, tcpVars>>

TypeOK ==
    /\ PoolTypeOK
    /\ TcpTypeOK
    /\ conn_ \in Conn \cup {NoConn}
    /\ accepting \subseteq Conn
    /\ reading \subseteq Conn
    /\ writing \subseteq Conn
    /\ peer \in [Conn -> Client \cup {NoPeer}]
    /\ svc \in [Conn -> Services]

\* The constructor: the acceptor listens, on the first io_service of the pool.
Init ==
    /\ PoolInit(1)
    /\ TcpInit
    /\ conn_ = NoConn
    /\ accepting = {}
    /\ reading = {}
    /\ writing = {}
    /\ peer = [c \in Conn |-> NoPeer]
    /\ svc = [c \in Conn |-> 0]

AcceptorService == 0

-----------------------------------------------------------------------------
\* Mutation: the io_service is looked up after the increment.
ServiceTakenLate == next_io_service_ + 1

\* The io_service get_io_service() returns.
ServiceTaken == next_io_service_

\* do_accept(): conn_ becomes a new connection on the next io_service, and is
\* the target of the next async_accept.
DoAccept ==
    \E c \in Conn \ Live :
        /\ accepting' = accepting \cup {c}
        /\ Settle(c, reading, writing, peer, [svc EXCEPT ![c] = ServiceTaken])
        /\ TakeService

\* start(): do_accept() on the caller's thread, then ios_pool_.start().
start ==
    /\ BeginStart
    /\ DoAccept
    /\ UNCHANGED <<work_, stopped, thread, stopping, tcpVars>>

SpawnThread(i) == Spawn(i) /\ UNCHANGED <<connVars, tcpVars>>

\* An operation in progress on io_service i keeps its run() from returning.
Busy(i) ==
    \/ i = AcceptorService /\ accepting # {}
    \/ \E c \in reading \cup writing : svc[c] = i

ThreadReturns(i) == RunReturns(i, Busy(i)) /\ UNCHANGED <<connVars, tcpVars>>

StartEnds == StartReturns /\ UNCHANGED <<connVars, tcpVars>>

-----------------------------------------------------------------------------
(* The accept chain, on the thread of the acceptor's io_service. *)

Exhausted == Cardinality(Open) >= MaxOpen

\* async_accept has a connection or an error to report.
AcceptReady ==
    /\ Dispatching(AcceptorService)
    /\ accepting # {}
    /\ backlog # <<>>

\* The socket of the target is opened and the handler calls start() on conn_,
\* which issues the read of the request's head.
AcceptOk ==
    /\ AcceptReady
    /\ ~Exhausted
    /\ \E t \in accepting :
        /\ accepting' = accepting \ {t}
        /\ Settle(conn_, reading \cup {conn_}, writing,
                  [peer EXCEPT ![t] = Head(backlog)], svc)
    /\ backlog' = Tail(backlog)
    /\ thread' = [thread EXCEPT ![AcceptorService] = "handler"]
    /\ UNCHANGED <<next_io_service_, work_, stopped, main, stopping,
                   link, inbox, asked, replies>>

\* Mutation: do_accept() is called on success only.
AcceptErrorEndsChain ==
    /\ AcceptReady
    /\ Exhausted
    /\ \E t \in accepting : accepting' = accepting \ {t}
    /\ UNCHANGED <<poolVars, conn_, reading, writing, peer, svc, tcpVars>>

\* No descriptor is left: the connection stays in the backlog, the handler does
\* nothing about the error ("TODO log error").
AcceptError ==
    /\ AcceptReady
    /\ Exhausted
    /\ \E t \in accepting : accepting' = accepting \ {t}
    /\ thread' = [thread EXCEPT ![AcceptorService] = "handler"]
    /\ UNCHANGED <<next_io_service_, work_, stopped, main, stopping,
                   conn_, reading, writing, peer, svc, tcpVars>>

\* The handler ends with do_accept(), with or without an error.
Rearm ==
    /\ thread[AcceptorService] = "handler"
    /\ DoAccept
    /\ thread' = [thread EXCEPT ![AcceptorService] = "loop"]
    /\ UNCHANGED <<work_, stopped, main, stopping, tcpVars>>

-----------------------------------------------------------------------------
(* The connections, each on the thread of its own io_service. *)

ReadHandler(c) ==
    /\ Dispatching(svc[c])
    /\ c \in reading
    /\ IsOpen(c) => Readable(peer[c])
    /\ ReadCompletes(c)
    /\ UNCHANGED poolVars

WriteHandler(c) ==
    /\ Dispatching(svc[c])
    /\ WriteCompletes(c)
    /\ UNCHANGED poolVars

-----------------------------------------------------------------------------
(* stop() and the destructor. *)

stop == StopCalled /\ UNCHANGED <<connVars, tcpVars>>

StopStep == StopNext /\ UNCHANGED <<connVars, tcpVars>>

\* ~server_t(): stop(), then its members in reverse order: conn_ is released,
\* the acceptor is closed (the kernel resets what was not accepted), and the
\* io_services drop the handlers still queued, with the shared_ptrs they hold.
Destroy ==
    /\ DestroyPool
    /\ accepting' = {}
    /\ Settle(NoConn, {}, {}, peer, svc)
    /\ backlog' = <<>>
    /\ UNCHANGED <<link, inbox, asked, replies>>

-----------------------------------------------------------------------------
Served == {peer[c] : c \in Open}   \* the clients the server has a socket to

ClientStep(k) ==
    /\ \/ main # "destroyed" /\ Connect(k)
       \/ k \in Waiting \cup Served /\ Send(k)
       \/ Finish(k)
       \/ Abort(k)
       \/ k \notin Waiting \cup Served /\ Forget(k)
    /\ UNCHANGED <<poolVars, connVars>>

Terminated == main = "destroyed" /\ UNCHANGED vars

\* The thread in start(), which creates and joins the others.
MainStep == start \/ StartEnds \/ \E i \in Services : SpawnThread(i)

\* The handler of async_accept, and what it ends with.
AcceptStep == AcceptOk \/ AcceptError \/ Rearm

\* The handler of the operation that connection c has outstanding.
Handler(c) == ReadHandler(c) \/ WriteHandler(c)

ServerStep ==
    \/ MainStep
    \/ AcceptStep
    \/ \E c \in Conn : Handler(c)
    \/ \E i \in Services : ThreadReturns(i)
    \/ stop
    \/ StopStep
    \/ Destroy

Next ==
    \/ ServerStep
    \/ \E k \in Client : ClientStep(k)
    \/ Terminated

Spec == Init /\ [][Next]_vars

\* The threads of the pool and the thread in start() or stop() are never starved.
\* The handler of a ready operation is run eventually although others keep
\* becoming ready on the same thread (the hot loop of failing accepts does): the
\* queue of an io_service is first in, first out.  Clients, and who calls stop()
\* or the destructor, owe nothing.
Fairness ==
    /\ WF_vars(MainStep)
    /\ WF_vars(StopStep)
    /\ \A i \in Services : WF_vars(ThreadReturns(i))
    /\ WF_vars(AcceptStep)
    /\ \A c \in Conn : SF_vars(Handler(c))

FairSpec == Spec /\ Fairness

-----------------------------------------------------------------------------
(* Properties. *)

Running == main \in {"spawning", "joining", "returned"}

\* The lambda passed to async_accept captures `this' and calls start() on the
\* member conn_, not on the connection whose socket it was given
\* (server.cpp:6-12): from start() to the destructor the accept chain never
\* breaks nor forks, and whenever an accept is outstanding its target is conn_,
\* still unopened.
AcceptChain ==
    Running =>
        /\ conn_ \in Conn
        /\ IF thread[AcceptorService] = "handler"
              THEN accepting = {}
              ELSE accepting = {conn_} /\ ~IsOpen(conn_) /\ conn_ \notin reading \cup writing

\* A connection outlives every handler that uses it and none is forgotten: until
\* the destructor a socket is open exactly while one read or one write of it is
\* outstanding, never both (connection.cpp:8-9, 55), so neither a handler runs on
\* a closed or reused socket nor does a socket stay open that nothing will close.
OneOperationPerSocket ==
    /\ reading \cap writing = {}
    /\ Open = reading \cup writing

\* start() joins all its threads before it returns (io_service_pool.hpp:51-53):
\* no handler runs, and no connection changes, from then until the destructor
\* destroys what is left, nor after it.
QuietOnceReturned ==
    [][(main \in {"returned", "destroyed"}) => (main' # main \/ UNCHANGED connVars)]_vars

\* Two connections made one after the other are served by neighbouring threads,
\* across failed accepts as well: do_accept() takes the io_service that follows
\* the one of the connection it replaces (server.cpp:6, io_service_pool.hpp:64-73).
NeighbouringServices ==
    [][(conn_' \notin {conn_, NoConn} /\ conn_ # NoConn) => svc'[conn_'] = Following(svc[conn_])]_vars

-----------------------------------------------------------------------------
(* Liveness, under FairSpec. *)

\* A connection that sent a byte, closed or was reset is closed by the server, on
\* whatever thread it is and whatever the other connections do, unless stop() is
\* called: one read, one response, close.
EveryRequestEnds ==
    \A k \in Client :
        (k \in Served /\ (k \in asked \/ link[k] \in {"fin", "rst"}))
            ~> (k \notin Served \/ StopWasCalled)

\* A failed accept does not end the chain: when there is a free descriptor again
\* and again, whoever waits in the backlog is accepted, unless stop() is called.
EveryClientAccepted ==
    []<>~Exhausted =>
        \A k \in Client : k \in Waiting ~> (k \notin Waiting \/ StopWasCalled)

\* stop() ends start() whatever the handlers are doing and whatever is still
\* outstanding: reads nobody will answer do not keep a thread in run().
StopEndsServer ==
    (stopped # {} /\ main \in {"spawning", "joining"}) ~> main \in {"returned", "destroyed"}
=============================================================================
