------------------------------ MODULE ServerProofs ------------------------------
(***************************************************************************)
(* Theorems about Server, for every number of threads, clients, connection  *)
(* slots and descriptors: its invariants, and that it implements            *)
(* OneShotService.                                                          *)
(***************************************************************************)
EXTENDS ServerRefinement, RecursionLemmas, FiniteSetTheorems

-----------------------------------------------------------------------------
(* The clients. *)

\* A client waits in one place.
BacklogDistinct == \A i, j \in DOMAIN backlog : backlog[i] = backlog[j] => i = j

\* Connecting appends a client that is not yet in the queue.
LEMMA AppendDistinct ==
    ASSUME backlog \in Seq(Client), BacklogDistinct, NEW k \in Client, k \notin Waiting,
           backlog' = Append(backlog, k)
    PROVE  Waiting' = Waiting \cup {k} /\ BacklogDistinct'
  BY AppendedOnce DEF Waiting, BacklogDistinct, Members, NothingTwice

\* Accepting takes the first client out of the queue, for good.
LEMMA TailDistinct ==
    ASSUME backlog \in Seq(Client), backlog # <<>>, BacklogDistinct, backlog' = Tail(backlog)
    PROVE  /\ Waiting' = Waiting \ {Head(backlog)} /\ Head(backlog) \in Waiting
           /\ BacklogDistinct'
  BY TakenOnce DEF Waiting, BacklogDistinct, Members, NothingTwice

\* The clients keep the types of their connections.
LEMMA ClientMoveTypes ==
    ASSUME TcpTypeOK, NEW k \in Client,
           Connect(k) \/ Send(k) \/ Finish(k) \/ Abort(k) \/ Forget(k)
    PROVE  TcpTypeOK'
  <1> USE MaxInboxAssumption DEF TcpTypeOK, LinkState
  <1>1. CASE Connect(k) BY <1>1 DEF Connect
  <1>2. CASE Send(k) BY <1>2 DEF Send
  <1>3. CASE Finish(k) BY <1>3 DEF Finish
  <1>4. CASE Abort(k)
    <2>1. PICK left \in {0, inbox[k]} : inbox' = [inbox EXCEPT ![k] = left]
      BY <1>4 DEF Abort
    <2> QED BY <1>4, <2>1 DEF Abort
  <1>5. CASE Forget(k) BY <1>5 DEF Forget
  <1> QED BY <1>1, <1>2, <1>3, <1>4, <1>5

-----------------------------------------------------------------------------
(* The inductive invariant. *)

\* Before start() nothing is accepted or open and no thread exists; once start()
\* has returned every thread has exited; the destructor leaves nothing.
Lifecycle ==
    /\ main = "built" => \A i \in Services : thread[i] = "unborn"
    /\ main \in {"returned", "destroyed"} => \A i \in Services : thread[i] = "exited"
    /\ main \in {"built", "destroyed"} =>
          conn_ = NoConn /\ accepting = {} /\ reading = {} /\ writing = {}

\* The io_service handed out next follows the one of the current conn_.
Rotation == Running => next_io_service_ = Following(svc[conn_])

\* A client that is away is neither queued nor served.
AwayIsGone == \A k \in Client : link[k] = "away" => k \notin Waiting \cup Served

\* Two sockets never have the same client.
PeersDistinct == \A c, d \in Open : peer[c] = peer[d] => c = d

ClientsPlaced ==
    /\ PeersDistinct
    /\ Served \cap Waiting = {}
    /\ BacklogDistinct
    /\ AwayIsGone

\* The socket side of the inductive invariant, and its client side.
SocketIInv == TypeOK /\ Lifecycle /\ AcceptChain /\ OneOperationPerSocket /\ Rotation

IInv == SocketIInv /\ ClientsPlaced /\ Cardinality(Open) <= MaxOpen

-----------------------------------------------------------------------------
(* Steps of the pool alone, and steps of the clients alone. *)

PoolStep ==
    \/ \E i \in Services : SpawnThread(i) \/ ThreadReturns(i)
    \/ StartEnds
    \/ stop
    \/ StopStep

\* The kinds of steps: every proof below goes through them.
LEMMA StepKinds ==
    ASSUME [Next]_vars
    PROVE  \/ PoolStep \/ start \/ Rearm \/ AcceptOk \/ AcceptError \/ Destroy
           \/ \E c \in Conn : ReadHandler(c) \/ WriteHandler(c)
           \/ \E k \in Client : ClientStep(k)
           \/ UNCHANGED vars
  BY DEF Next, ServerStep, MainStep, AcceptStep, Handler, PoolStep, Terminated

\* The pool's own steps touch neither connections nor clients.
LEMMA PoolStepKeepsConnections ==
    ASSUME PoolStep PROVE UNCHANGED <<connVars, tcpVars>>
  BY DEF PoolStep, SpawnThread, ThreadReturns, StartEnds, stop, StopStep

\* The acceptor's io_service is one of the pool's.
LEMMA ServicesNonEmpty == 0 \in Services /\ AcceptorService \in Services
  BY PoolSizeAssumption DEF Services, AcceptorService

\* get_io_service() stays within the pool.
LEMMA FollowingInPool ==
    ASSUME NEW i \in Services PROVE Following(i) \in Services
  BY PoolSizeAssumption DEF Following, Services

\* Settling shared_ptrs yields well-typed pointers, sockets and io_services.
LEMMA SettleTypes ==
    ASSUME NEW cur \in Conn \cup {NoConn}, NEW r \in SUBSET Conn, NEW w \in SUBSET Conn,
           NEW sock \in [Conn -> Client \cup {NoPeer}], NEW home \in [Conn -> Services],
           Settle(cur, r, w, sock, home)
    PROVE  /\ conn_' \in Conn \cup {NoConn}
           /\ reading' \subseteq Conn /\ writing' \subseteq Conn
           /\ peer' \in [Conn -> Client \cup {NoPeer}]
           /\ svc' \in [Conn -> Services]
  BY ServicesNonEmpty DEF Settle

\* close() on a typed socket table.
LEMMA ClosedTypes ==
    ASSUME NEW c \in Conn, peer \in [Conn -> Client \cup {NoPeer}]
    PROVE  Closed(c) \in [Conn -> Client \cup {NoPeer}]
  BY DEF Closed

\* async_read_some never returns more than is there, nor more than fits.
LEMMA ReceivedBounds ==
    ASSUME TypeOK, NEW k \in Client
    PROVE  /\ Received(k, HeadOffset) \in 0 .. inbox[k]
           /\ Received(k, HeadOffset) <= ReadBuf
           /\ ~TooLong(HeadOffset, Received(k, HeadOffset))
  BY ConnAssumption, MaxInboxAssumption
  DEF TypeOK, TcpTypeOK, Received, HeadOffset, TooLong

\* The pool and the clients keep their types.
LEMMA PoolStepTypes ==
    ASSUME TypeOK, PoolStep PROVE PoolTypeOK'
  <1> USE PoolSizeAssumption DEF TypeOK, PoolTypeOK
  <1>1. ASSUME NEW i \in Services, SpawnThread(i) PROVE PoolTypeOK'
    BY <1>1 DEF SpawnThread, Spawn, ThreadState, MainState
  <1>2. ASSUME NEW i \in Services, ThreadReturns(i) PROVE PoolTypeOK'
    BY <1>2 DEF ThreadReturns, RunReturns, MayReturn, ThreadState
  <1>3. CASE StartEnds
    BY <1>3 DEF StartEnds, StartReturns, MainState
  <1>4. CASE stop
    BY <1>4 DEF stop, StopCalled, Services
  <1>5. CASE StopStep
    BY <1>5 DEF StopStep, StopNext, AfterStopping, Services, NotStopping
  <1> QED BY <1>1, <1>2, <1>3, <1>4, <1>5 DEF PoolStep

\* The clients' steps keep the types of their connections.
LEMMA ClientStepTypes ==
    ASSUME TypeOK, NEW k \in Client, ClientStep(k) PROVE TcpTypeOK'
  BY ClientMoveTypes DEF TypeOK, ClientStep

\* What DoAccept needs and does: the object it constructs is new, and becomes
\* conn_ and the target of the accept.
LEMMA DoAcceptEffect ==
    ASSUME SocketIInv, accepting = {}, DoAccept
    PROVE  \E c \in Conn \ Live :
              /\ conn_' = c /\ accepting' = {c}
              /\ reading' = reading /\ writing' = writing
              /\ peer' = [d \in Conn |-> IF d = c THEN NoPeer ELSE peer[d]]
              /\ svc' \in [Conn -> Services] /\ svc'[c] = next_io_service_
              /\ next_io_service_' = Following(next_io_service_)
  <1>1. PICK c \in Conn \ Live :
          /\ accepting' = accepting \cup {c}
          /\ Settle(c, reading, writing, peer, [svc EXCEPT ![c] = next_io_service_])
          /\ TakeService
    BY DEF DoAccept, ServiceTaken
  <1>2. \A d \in Conn : d \notin reading \cup writing => peer[d] = NoPeer
    BY DEF SocketIInv, OneOperationPerSocket, Open, IsOpen
  <1>3. peer' = [d \in Conn |-> IF d = c THEN NoPeer ELSE peer[d]]
    BY <1>1, <1>2 DEF Settle, Owned, Live
  <1>4. svc' \in [Conn -> Services]
    BY <1>1, ServicesNonEmpty DEF Settle, SocketIInv, TypeOK, PoolTypeOK
  <1>5. svc'[c] = next_io_service_
    BY <1>1, ConnAssumption DEF Settle, Owned, SocketIInv, TypeOK
  <1> QED BY <1>1, <1>3, <1>4, <1>5 DEF Settle, TakeService

\* A handler only runs, and the accept chain only moves, while start() is
\* running: before and after, no thread is in run().
LEMMA ThreadsRunInStart ==
    ASSUME SocketIInv, NEW i \in Services, thread[i] \in {"loop", "handler"}
    PROVE  main \in {"spawning", "joining"}
  BY DEF SocketIInv, Lifecycle, TypeOK, PoolTypeOK, MainState

\* When an accept has something to report, its target is conn_, still unopened.
LEMMA ChainAtReady ==
    ASSUME SocketIInv, AcceptReady
    PROVE  /\ main \in {"spawning", "joining"} /\ Running
           /\ conn_ \in Conn /\ accepting = {conn_}
           /\ peer[conn_] = NoPeer /\ conn_ \notin reading \cup writing
           /\ Head(backlog) \in Client /\ Tail(backlog) \in Seq(Client)
  <1>1. main \in {"spawning", "joining"}
    BY ServicesNonEmpty, ThreadsRunInStart DEF AcceptReady, Dispatching
  <1>2. backlog \in Seq(Client) /\ backlog # <<>>
    BY DEF AcceptReady, SocketIInv, TypeOK, TcpTypeOK
  <1> QED BY <1>1, <1>2 DEF AcceptReady, Dispatching, SocketIInv, AcceptChain, Running, IsOpen

\* When the accept handler calls do_accept(), no accept is outstanding.
LEMMA ChainAtRearm ==
    ASSUME SocketIInv, Rearm
    PROVE  /\ main \in {"spawning", "joining"} /\ Running
           /\ accepting = {}
  <1>1. main \in {"spawning", "joining"}
    BY ServicesNonEmpty, ThreadsRunInStart DEF Rearm
  <1> QED BY <1>1 DEF Rearm, SocketIInv, AcceptChain, Running

\* Settling where every live object with a socket keeps it: only the sockets of
\* the objects in `sock' that are live matter.
LEMMA SettlePeers ==
    ASSUME SocketIInv, NEW r \in SUBSET Conn, NEW w \in SUBSET Conn,
           NEW sock \in [Conn -> Client \cup {NoPeer}],
           {d \in Conn : sock[d] # NoPeer} \subseteq r \cup w,
           Settle(conn_, r, w, sock, svc)
    PROVE  peer' = sock /\ reading' = r /\ writing' = w /\ conn_' = conn_
           /\ (conn_ \in Conn => svc'[conn_] = svc[conn_])
  BY ConnAssumption DEF Settle, Owned

\* The handler of a successful accept: conn_ is open to the client that waited
\* longest, and its request is being read.
LEMMA AcceptEffect ==
    ASSUME SocketIInv, AcceptOk
    PROVE  /\ conn_ \in Conn /\ conn_' = conn_ /\ conn_ \notin reading \cup writing
           /\ accepting' = {}
           /\ reading' = reading \cup {conn_} /\ writing' = writing
           /\ peer[conn_] = NoPeer /\ peer' = [peer EXCEPT ![conn_] = Head(backlog)]
           /\ svc'[conn_] = svc[conn_] /\ svc' \in [Conn -> Services]
  <1> DEFINE sock == [peer EXCEPT ![conn_] = Head(backlog)]
  <1>1. /\ conn_ \in Conn /\ accepting = {conn_}
        /\ peer[conn_] = NoPeer /\ conn_ \notin reading \cup writing
        /\ Head(backlog) \in Client
    BY ChainAtReady DEF AcceptOk
  <1>2. accepting' = {} /\ Settle(conn_, reading \cup {conn_}, writing, sock, svc)
    BY <1>1 DEF AcceptOk
  <1>3. /\ reading \subseteq Conn /\ writing \subseteq Conn
        /\ sock \in [Conn -> Client \cup {NoPeer}]
        /\ {d \in Conn : peer[d] # NoPeer} = reading \cup writing
    BY <1>1 DEF SocketIInv, TypeOK, OneOperationPerSocket, Open, IsOpen
  <1>4. {d \in Conn : sock[d] # NoPeer} \subseteq (reading \cup {conn_}) \cup writing
    BY <1>1, <1>3 DEF SocketIInv, TypeOK
  <1>5. svc' \in [Conn -> Services]
    BY <1>1, <1>2, <1>3, SettleTypes DEF SocketIInv, TypeOK
  <1> QED BY <1>1, <1>2, <1>3, <1>4, <1>5, SettlePeers

\* The handler of a read: closed, or waiting for the write of the response.
LEMMA ReadEffect ==
    ASSUME SocketIInv, NEW c \in Conn, ReadCompletes(c)
    PROVE  /\ c \in reading /\ peer[c] \in Client /\ conn_' = conn_
           /\ reading' = reading \ {c}
           /\ \/ writing' = writing /\ peer' = [peer EXCEPT ![c] = NoPeer]
              \/ writing' = writing \cup {c} /\ peer' = peer
           /\ conn_ \in Conn => svc'[conn_] = svc[conn_]
  <1> DEFINE k == peer[c]
             n == Received(k, HeadOffset)
  <1>1. c \in reading /\ IsOpen(c)
    BY DEF ReadCompletes, Fails, SocketIInv, OneOperationPerSocket, Open
  <1>2. k \in Client
    BY <1>1 DEF IsOpen, SocketIInv, TypeOK
  <1>3. ~TooLong(HeadOffset, n)
    BY <1>2, ReceivedBounds DEF SocketIInv
  <1>4. \/ Settle(conn_, reading \ {c}, writing, Closed(c), svc)
        \/ Settle(conn_, reading \ {c}, writing \cup {c}, peer, svc)
    BY <1>1, <1>3 DEF ReadCompletes, Fails
  <1>5. Closed(c) = [peer EXCEPT ![c] = NoPeer] /\ Closed(c) \in [Conn -> Client \cup {NoPeer}]
    BY <1>1, ClosedTypes DEF Closed, SocketIInv, TypeOK
  <1>6. /\ reading \subseteq Conn /\ writing \subseteq Conn
        /\ peer \in [Conn -> Client \cup {NoPeer}]
        /\ reading \cap writing = {}
        /\ {d \in Conn : peer[d] # NoPeer} = reading \cup writing
    BY DEF SocketIInv, TypeOK, OneOperationPerSocket, Open, IsOpen
  <1>7. CASE Settle(conn_, reading \ {c}, writing, Closed(c), svc)
    <2>1. {d \in Conn : Closed(c)[d] # NoPeer} \subseteq (reading \ {c}) \cup writing
      BY <1>5, <1>6
    <2> QED BY <1>1, <1>2, <1>5, <1>6, <1>7, <2>1, SettlePeers
  <1>8. CASE Settle(conn_, reading \ {c}, writing \cup {c}, peer, svc)
    <2>1. {d \in Conn : peer[d] # NoPeer} \subseteq (reading \ {c}) \cup (writing \cup {c})
      BY <1>6
    <2> QED BY <1>1, <1>2, <1>6, <1>8, <2>1, SettlePeers
  <1> QED BY <1>4, <1>7, <1>8

\* The handler of a write: closed.
LEMMA WriteEffect ==
    ASSUME SocketIInv, NEW c \in Conn, WriteCompletes(c)
    PROVE  /\ c \in writing /\ peer[c] \in Client /\ conn_' = conn_
           /\ reading' = reading /\ writing' = writing \ {c}
           /\ peer' = [peer EXCEPT ![c] = NoPeer]
           /\ conn_ \in Conn => svc'[conn_] = svc[conn_]
  <1>1. c \in writing /\ IsOpen(c)
    BY DEF WriteCompletes, SocketIInv, OneOperationPerSocket, Open
  <1>2. Closed(c) = [peer EXCEPT ![c] = NoPeer] /\ Closed(c) \in [Conn -> Client \cup {NoPeer}]
    BY <1>1, ClosedTypes DEF Closed, SocketIInv, TypeOK
  <1>3. /\ reading \subseteq Conn /\ writing \subseteq Conn
        /\ peer \in [Conn -> Client \cup {NoPeer}]
        /\ reading \cap writing = {}
        /\ {d \in Conn : peer[d] # NoPeer} = reading \cup writing
    BY DEF SocketIInv, TypeOK, OneOperationPerSocket, Open, IsOpen
  <1>4. {d \in Conn : Closed(c)[d] # NoPeer} \subseteq reading \cup (writing \ {c})
    BY <1>1, <1>2, <1>3
  <1>5. Settle(conn_, reading, writing \ {c}, Closed(c), svc)
    BY DEF WriteCompletes
  <1> QED BY <1>1, <1>2, <1>3, <1>4, <1>5, SettlePeers DEF IsOpen

-----------------------------------------------------------------------------
(* The socket side is invariant: one lemma for each kind of step. *)

\* The server as constructed satisfies the socket side of the invariant.
LEMMA SocketInit == Init => SocketIInv
  <1> SUFFICES ASSUME Init PROVE SocketIInv
    OBVIOUS
  <1> USE DEF Init
  <1>1. TypeOK
    <2>1. PoolTypeOK
      BY PoolSizeAssumption
      DEF PoolInit, GivenWork, PoolTypeOK, Services, Following, ThreadState, MainState, NotStopping
    <2>2. TcpTypeOK
      BY MaxInboxAssumption DEF TcpInit, TcpTypeOK, LinkState
    <2> QED BY <2>1, <2>2, ServicesNonEmpty DEF TypeOK
  <1>2. Lifecycle /\ AcceptChain /\ Rotation
    BY DEF PoolInit, GivenWork, Lifecycle, AcceptChain, Rotation, Running
  <1>3. OneOperationPerSocket
    BY DEF OneOperationPerSocket, Open, IsOpen
  <1> QED BY <1>1, <1>2, <1>3 DEF SocketIInv

\* The pool's own steps preserve it.
LEMMA SocketPoolStep == ASSUME SocketIInv, PoolStep PROVE SocketIInv'
  <1>1. UNCHANGED <<connVars, tcpVars>>
    BY PoolStepKeepsConnections
  <1>2. PoolTypeOK' /\ TypeOK'
    BY <1>1, PoolStepTypes DEF SocketIInv, TypeOK, TcpTypeOK, connVars, tcpVars, PoolTypeOK
  <1>3. OneOperationPerSocket'
    BY <1>1 DEF connVars, OneOperationPerSocket, Open, IsOpen, SocketIInv
  <1>4. Lifecycle' /\ AcceptChain' /\ Rotation'
    <2> USE <1>1 DEF SocketIInv, Lifecycle, AcceptChain, Rotation, Running, connVars,
                     IsOpen, TypeOK, PoolTypeOK
    <2>1. ASSUME NEW i \in Services, SpawnThread(i) PROVE Lifecycle' /\ AcceptChain' /\ Rotation'
      BY <2>1, ServicesNonEmpty DEF SpawnThread, Spawn
    <2>2. ASSUME NEW i \in Services, ThreadReturns(i) PROVE Lifecycle' /\ AcceptChain' /\ Rotation'
      BY <2>2, ServicesNonEmpty DEF ThreadReturns, RunReturns, MayReturn
    <2>3. CASE StartEnds
      BY <2>3 DEF StartEnds, StartReturns, AllJoined
    <2>4. CASE stop
      BY <2>4 DEF stop, StopCalled
    <2>5. CASE StopStep
      BY <2>5 DEF StopStep, StopNext, AfterStopping
    <2> QED BY <2>1, <2>2, <2>3, <2>4, <2>5 DEF PoolStep
  <1> QED BY <1>2, <1>3, <1>4 DEF SocketIInv

\* So do the clients' steps, which the sockets do not see.
LEMMA SocketClientStep ==
    ASSUME SocketIInv, NEW k \in Client, ClientStep(k) PROVE SocketIInv'
  <1>1. TcpTypeOK' /\ UNCHANGED <<poolVars, connVars>>
    BY ClientStepTypes DEF SocketIInv, ClientStep
  <1> QED BY <1>1 DEF SocketIInv, TypeOK, PoolTypeOK, Lifecycle, AcceptChain,
                      OneOperationPerSocket, Rotation, Running, Open, IsOpen, poolVars, connVars

\* do_accept(), from start() and from the accept handler.
LEMMA SocketArmed ==
    ASSUME SocketIInv, accepting = {}, DoAccept, UNCHANGED <<work_, stopped, stopping, tcpVars>>,
           thread' \in [Services -> ThreadState], thread'[AcceptorService] # "handler",
           main' \in {"spawning", "joining"}
    PROVE  SocketIInv'
  <1>1. PICK c \in Conn \ Live :
          /\ conn_' = c /\ accepting' = {c}
          /\ reading' = reading /\ writing' = writing
          /\ peer' = [d \in Conn |-> IF d = c THEN NoPeer ELSE peer[d]]
          /\ svc' \in [Conn -> Services] /\ svc'[c] = next_io_service_
          /\ next_io_service_' = Following(next_io_service_)
    BY DoAcceptEffect
  <1>2. c \notin reading \cup writing
    BY DEF Live, Owned
  <1>3. TypeOK'
    <2>1. PoolTypeOK'
      BY <1>1, FollowingInPool DEF SocketIInv, TypeOK, PoolTypeOK, MainState
    <2> QED BY <1>1, <2>1 DEF SocketIInv, TypeOK, TcpTypeOK, tcpVars
  <1>4. AcceptChain'
    BY <1>1, <1>2 DEF AcceptChain, IsOpen
  <1>5. OneOperationPerSocket'
    BY <1>1, <1>2 DEF SocketIInv, OneOperationPerSocket, Open, IsOpen
  <1>6. Lifecycle' /\ Rotation'
    BY <1>1 DEF Lifecycle, Rotation
  <1> QED BY <1>3, <1>4, <1>5, <1>6 DEF SocketIInv

\* start(): the first accept is armed.
LEMMA SocketStart == ASSUME SocketIInv, start PROVE SocketIInv'
  <1>1. accepting = {} /\ thread[AcceptorService] = "unborn"
    BY ServicesNonEmpty DEF start, BeginStart, SocketIInv, Lifecycle
  <1>2. thread' = thread /\ thread \in [Services -> ThreadState] /\ main' = "spawning"
    BY DEF start, BeginStart, SocketIInv, TypeOK, PoolTypeOK
  <1> QED BY <1>1, <1>2, SocketArmed DEF start

\* The end of the accept handler: the next accept is armed.
LEMMA SocketRearm == ASSUME SocketIInv, Rearm PROVE SocketIInv'
  <1>1. /\ thread' \in [Services -> ThreadState]
        /\ thread'[AcceptorService] = "loop"
    BY ServicesNonEmpty DEF Rearm, SocketIInv, TypeOK, PoolTypeOK, ThreadState
  <1> QED BY <1>1, ChainAtRearm, SocketArmed DEF Rearm

\* A connection is accepted, and read from the same step on.
LEMMA SocketAcceptOk == ASSUME SocketIInv, AcceptOk PROVE SocketIInv'
  <1>1. /\ main \in {"spawning", "joining"} /\ Running
        /\ Head(backlog) \in Client /\ Tail(backlog) \in Seq(Client)
    BY ChainAtReady DEF AcceptOk
  <1>2. /\ conn_ \in Conn /\ conn_' = conn_ /\ conn_ \notin reading \cup writing
        /\ accepting' = {}
        /\ reading' = reading \cup {conn_} /\ writing' = writing
        /\ peer[conn_] = NoPeer /\ peer' = [peer EXCEPT ![conn_] = Head(backlog)]
        /\ svc'[conn_] = svc[conn_] /\ svc' \in [Conn -> Services]
    BY AcceptEffect
  <1>3. /\ reading \subseteq Conn /\ writing \subseteq Conn
        /\ peer \in [Conn -> Client \cup {NoPeer}]
        /\ reading \cap writing = {}
        /\ {d \in Conn : peer[d] # NoPeer} = reading \cup writing
    BY DEF SocketIInv, TypeOK, OneOperationPerSocket, Open, IsOpen
  <1>4. {d \in Conn : peer'[d] # NoPeer} = reading' \cup writing'
    BY <1>1, <1>2, <1>3, ConnAssumption
  <1>5. TypeOK'
    <2>1. PoolTypeOK'
      BY ServicesNonEmpty DEF AcceptOk, SocketIInv, TypeOK, PoolTypeOK, ThreadState
    <2>2. TcpTypeOK'
      BY <1>1 DEF AcceptOk, SocketIInv, TypeOK, TcpTypeOK
    <2> QED BY <1>1, <1>2, <1>3, <2>1, <2>2 DEF TypeOK
  <1>6. OneOperationPerSocket'
    BY <1>2, <1>3, <1>4 DEF OneOperationPerSocket, Open, IsOpen
  <1>7. AcceptChain'
    BY <1>1, <1>2, ServicesNonEmpty
    DEF AcceptOk, AcceptChain, Running, SocketIInv, TypeOK, PoolTypeOK
  <1>8. Lifecycle' /\ Rotation'
    BY <1>1, <1>2 DEF AcceptOk, Lifecycle, Rotation, Running, SocketIInv
  <1> QED BY <1>5, <1>6, <1>7, <1>8 DEF SocketIInv

\* An accept fails: the chain waits for the end of its handler.
LEMMA SocketAcceptError == ASSUME SocketIInv, AcceptError PROVE SocketIInv'
  <1>1. /\ main \in {"spawning", "joining"} /\ Running
        /\ conn_ \in Conn /\ accepting = {conn_}
    BY ChainAtReady DEF AcceptError
  <1>2. accepting' = {}
    BY <1>1 DEF AcceptError
  <1>3. TypeOK'
    BY <1>2, ServicesNonEmpty
    DEF AcceptError, SocketIInv, TypeOK, PoolTypeOK, TcpTypeOK, tcpVars, ThreadState
  <1>4. OneOperationPerSocket'
    BY DEF AcceptError, SocketIInv, OneOperationPerSocket, Open, IsOpen
  <1>5. AcceptChain'
    BY <1>1, <1>2, ServicesNonEmpty
    DEF AcceptError, AcceptChain, Running, SocketIInv, TypeOK, PoolTypeOK
  <1>6. Lifecycle' /\ Rotation'
    BY <1>1 DEF AcceptError, Lifecycle, Rotation, Running, SocketIInv
  <1> QED BY <1>3, <1>4, <1>5, <1>6 DEF SocketIInv

\* A handler of a connection, seen from the server: one operation of c is over,
\* the pool and the accept chain are not concerned, unless c is still conn_, in
\* which case the accept handler has yet to replace it.
LEMMA SocketHandler ==
    ASSUME SocketIInv, NEW c \in Conn, UNCHANGED <<poolVars, accepting>>,
           thread[svc[c]] = "loop", c \in reading \cup writing,
           conn_' = conn_, conn_ \in Conn => svc'[conn_] = svc[conn_],
           svc' \in [Conn -> Services], TcpTypeOK',
           reading' \subseteq reading, writing' \subseteq writing \cup {c},
           peer' \in [Conn -> Client \cup {NoPeer}],
           \A d \in Conn \ {c} : peer'[d] = peer[d],
           reading' \cap writing' = {},
           {d \in Conn : peer'[d] # NoPeer} = reading' \cup writing'
    PROVE  SocketIInv'
  <1>1. TypeOK'
    BY DEF SocketIInv, TypeOK, PoolTypeOK, poolVars
  <1>2. OneOperationPerSocket'
    BY DEF OneOperationPerSocket, Open, IsOpen
  <1>3. main \in {"spawning", "joining"}
    BY ThreadsRunInStart DEF SocketIInv, TypeOK
  <1>4. AcceptChain'
    BY <1>3 DEF SocketIInv, AcceptChain, Running, IsOpen, poolVars
  <1>5. Lifecycle' /\ Rotation'
    BY <1>3 DEF SocketIInv, Lifecycle, Rotation, Running, AcceptChain, poolVars
  <1> QED BY <1>1, <1>2, <1>4, <1>5 DEF SocketIInv

\* The handler of a read closes the socket or writes to it.
LEMMA SocketRead == ASSUME SocketIInv, NEW c \in Conn, ReadHandler(c) PROVE SocketIInv'
  <1>1. /\ c \in reading /\ peer[c] \in Client /\ conn_' = conn_
        /\ reading' = reading \ {c}
        /\ \/ writing' = writing /\ peer' = [peer EXCEPT ![c] = NoPeer]
           \/ writing' = writing \cup {c} /\ peer' = peer
        /\ conn_ \in Conn => svc'[conn_] = svc[conn_]
    BY ReadEffect DEF ReadHandler
  <1>2. /\ reading \subseteq Conn /\ writing \subseteq Conn
        /\ peer \in [Conn -> Client \cup {NoPeer}]
        /\ reading \cap writing = {}
        /\ {d \in Conn : peer[d] # NoPeer} = reading \cup writing
    BY DEF SocketIInv, TypeOK, OneOperationPerSocket, Open, IsOpen
  <1>3. /\ peer' \in [Conn -> Client \cup {NoPeer}]
        /\ reading' \cap writing' = {}
        /\ {d \in Conn : peer'[d] # NoPeer} = reading' \cup writing'
    BY <1>1, <1>2
  <1>4. svc' \in [Conn -> Services]
    BY ServicesNonEmpty DEF ReadHandler, ReadCompletes, Fails, Settle, SocketIInv, TypeOK
  <1>5. TcpTypeOK'
    <2>1. inbox' \in [Client -> 0 .. MaxInbox]
      <3>1. inbox' = inbox \/ inbox' = [inbox EXCEPT ![peer[c]] = @ - Received(peer[c], HeadOffset)]
        BY <1>1, ConnAssumption DEF ReadHandler, ReadCompletes, Fails, IsOpen
      <3>2. Received(peer[c], HeadOffset) \in 0 .. inbox[peer[c]]
        BY <1>1, ReceivedBounds DEF SocketIInv
      <3>3. inbox \in [Client -> 0 .. MaxInbox]
        BY DEF SocketIInv, TypeOK, TcpTypeOK
      <3>4. inbox[peer[c]] - Received(peer[c], HeadOffset) \in 0 .. MaxInbox
        BY <1>1, <3>2, <3>3, MaxInboxAssumption
      <3> QED BY <3>1, <3>3, <3>4
    <2> QED BY <2>1 DEF ReadHandler, ReadCompletes, Fails, SocketIInv, TypeOK, TcpTypeOK
  <1>6. UNCHANGED <<poolVars, accepting>> /\ thread[svc[c]] = "loop"
    BY DEF ReadHandler, ReadCompletes, Fails, Dispatching
  <1>7. \A d \in Conn \ {c} : peer'[d] = peer[d]
    BY <1>1, <1>2
  <1> QED BY <1>1, <1>2, <1>3, <1>4, <1>5, <1>6, <1>7, SocketHandler

\* The handler of a write closes the socket.
LEMMA SocketWrite == ASSUME SocketIInv, NEW c \in Conn, WriteHandler(c) PROVE SocketIInv'
  <1>1. /\ c \in writing /\ peer[c] \in Client /\ conn_' = conn_
        /\ reading' = reading /\ writing' = writing \ {c}
        /\ peer' = [peer EXCEPT ![c] = NoPeer]
        /\ conn_ \in Conn => svc'[conn_] = svc[conn_]
    BY WriteEffect DEF WriteHandler
  <1>2. /\ reading \subseteq Conn /\ writing \subseteq Conn
        /\ peer \in [Conn -> Client \cup {NoPeer}]
        /\ reading \cap writing = {}
        /\ {d \in Conn : peer[d] # NoPeer} = reading \cup writing
    BY DEF SocketIInv, TypeOK, OneOperationPerSocket, Open, IsOpen
  <1>3. /\ peer' \in [Conn -> Client \cup {NoPeer}]
        /\ reading' \cap writing' = {}
        /\ {d \in Conn : peer'[d] # NoPeer} = reading' \cup writing'
    BY <1>1, <1>2
  <1>4. svc' \in [Conn -> Services]
    BY ServicesNonEmpty DEF WriteHandler, WriteCompletes, Settle, SocketIInv, TypeOK
  <1>5. TcpTypeOK'
    <2>1. replies' \in [Client -> Nat]
      <3>1. replies' = replies \/ replies' = [replies EXCEPT ![peer[c]] = @ + 1]
        BY DEF WriteHandler, WriteCompletes
      <3>2. replies \in [Client -> Nat]
        BY DEF SocketIInv, TypeOK, TcpTypeOK
      <3>3. replies[peer[c]] + 1 \in Nat
        BY <1>1, <3>2
      <3> QED BY <3>1, <3>2, <3>3
    <2> QED BY <2>1 DEF WriteHandler, WriteCompletes, SocketIInv, TypeOK, TcpTypeOK
  <1>6. UNCHANGED <<poolVars, accepting>> /\ thread[svc[c]] = "loop"
    BY DEF WriteHandler, WriteCompletes, Dispatching
  <1>7. \A d \in Conn \ {c} : peer'[d] = peer[d]
    BY <1>1, <1>2
  <1> QED BY <1>1, <1>2, <1>3, <1>4, <1>5, <1>6, <1>7, SocketHandler

\* The destructor leaves no socket and no operation.
LEMMA SocketDestroy == ASSUME SocketIInv, Destroy PROVE SocketIInv'
  <1>1. /\ conn_' = NoConn /\ accepting' = {} /\ reading' = {} /\ writing' = {}
        /\ peer' = [c \in Conn |-> NoPeer]
        /\ svc' \in [Conn -> Services]
    BY ServicesNonEmpty DEF Destroy, Settle, Owned
  <1>2. main = "returned" /\ main' = "destroyed" /\ thread' = thread
    BY DEF Destroy, DestroyPool
  <1>3. TypeOK'
    BY <1>1 DEF Destroy, DestroyPool, SocketIInv, TypeOK, PoolTypeOK, TcpTypeOK, MainState
  <1>4. OneOperationPerSocket'
    BY <1>1 DEF OneOperationPerSocket, Open, IsOpen
  <1>5. Lifecycle' /\ AcceptChain' /\ Rotation'
    BY <1>1, <1>2 DEF SocketIInv, Lifecycle, AcceptChain, Rotation, Running
  <1> QED BY <1>3, <1>4, <1>5 DEF SocketIInv

\* Every step preserves the socket side of the invariant ...
LEMMA SocketStep == ASSUME SocketIInv, [Next]_vars PROVE SocketIInv'
  <1>1. CASE UNCHANGED vars
    BY <1>1 DEF SocketIInv, TypeOK, PoolTypeOK, TcpTypeOK, Lifecycle, AcceptChain,
                OneOperationPerSocket, Rotation, Running, Open, IsOpen,
                vars, poolVars, connVars, tcpVars
  <1> QED BY <1>1, StepKinds, SocketPoolStep, SocketClientStep, SocketStart, SocketRearm,
             SocketAcceptOk, SocketAcceptError, SocketDestroy, SocketRead, SocketWrite

\* ... which every behaviour therefore satisfies.
LEMMA SocketInvariant == Spec => []SocketIInv
  BY SocketInit, SocketStep, PTL DEF Spec

-----------------------------------------------------------------------------

\* Every variable of the server keeps its type.
THEOREM TypeCorrect == Spec => []TypeOK
  <1>1. SocketIInv => TypeOK BY DEF SocketIInv
  <1> QED BY <1>1, SocketInvariant, PTL

\* The accept chain never breaks, never forks and always accepts into conn_,
\* although its handler captures only the server.
THEOREM AcceptChainUnbroken == Spec => []AcceptChain
  <1>1. SocketIInv => AcceptChain BY DEF SocketIInv
  <1> QED BY <1>1, SocketInvariant, PTL

\* No open socket without an operation that will end in close(), no operation
\* on a socket that is closed, never two operations on one.
THEOREM EverySocketIsWaitedFor == Spec => []OneOperationPerSocket
  <1>1. SocketIInv => OneOperationPerSocket BY DEF SocketIInv
  <1> QED BY <1>1, SocketInvariant, PTL

\* No connection changes once start() has returned, until it is destroyed.
THEOREM QuietAfterStart == Spec => QuietOnceReturned
  <1>1. SocketIInv /\ [Next]_vars =>
           [(main \in {"returned", "destroyed"}) => (main' # main \/ UNCHANGED connVars)]_vars
    <2> SUFFICES ASSUME SocketIInv, [Next]_vars, main \in {"returned", "destroyed"}
                 PROVE  main' # main \/ UNCHANGED connVars
      OBVIOUS
    <2>1. \A i \in Services : thread[i] = "exited"
      BY DEF SocketIInv, Lifecycle
    <2>2. \A c \in Conn : svc[c] \in Services
      BY DEF SocketIInv, TypeOK
    <2>3. ~AcceptReady /\ ~Rearm /\ \A c \in Conn : ~ReadHandler(c) /\ ~WriteHandler(c)
      BY <2>1, <2>2, ServicesNonEmpty DEF AcceptReady, Rearm, ReadHandler, WriteHandler, Dispatching
    <2>4. ~start
      BY DEF start, BeginStart
    <2>5. Destroy => main' # main
      BY DEF Destroy, DestroyPool
    <2>6. \A k \in Client : ClientStep(k) => UNCHANGED connVars
      BY DEF ClientStep
    <2>7. UNCHANGED vars => UNCHANGED connVars
      BY DEF vars, connVars
    <2> QED BY <2>3, <2>4, <2>5, <2>6, <2>7, StepKinds, PoolStepKeepsConnections
            DEF AcceptOk, AcceptError
  <1> QED BY <1>1, SocketInvariant, PTL DEF Spec, QuietOnceReturned

\* Two connections made one after the other are on neighbouring io_services.
THEOREM ConsecutiveConnectionsNeighbours == Spec => NeighbouringServices
  <1>1. SocketIInv /\ [Next]_vars =>
           [(conn_' \notin {conn_, NoConn} /\ conn_ # NoConn)
                => svc'[conn_'] = Following(svc[conn_])]_vars
    <2> SUFFICES ASSUME SocketIInv, [Next]_vars, conn_' \notin {conn_, NoConn}, conn_ # NoConn
                 PROVE  svc'[conn_'] = Following(svc[conn_])
      OBVIOUS
    <2>1. Rearm
      <3>1. ~start
        BY DEF start, BeginStart, SocketIInv, Lifecycle
      <3>2. AcceptOk \/ AcceptError \/ Destroy => conn_' \in {conn_, NoConn}
        BY DEF AcceptOk, AcceptError, Destroy, Settle
      <3>3. \A c \in Conn : ReadHandler(c) \/ WriteHandler(c) => conn_' = conn_
        BY DEF ReadHandler, ReadCompletes, Fails, WriteHandler, WriteCompletes, Settle
      <3>4. PoolStep \/ (\E k \in Client : ClientStep(k)) \/ UNCHANGED vars => conn_' = conn_
        BY PoolStepKeepsConnections DEF ClientStep, vars, connVars
      <3> QED BY <3>1, <3>2, <3>3, <3>4, StepKinds
    <2>2. svc'[conn_'] = next_io_service_
      BY <2>1, ChainAtRearm, DoAcceptEffect DEF Rearm
    <2>3. next_io_service_ = Following(svc[conn_])
      BY <2>1, ChainAtRearm DEF SocketIInv, Rotation
    <2> QED BY <2>2, <2>3
  <1> QED BY <1>1, SocketInvariant, PTL DEF Spec, NeighbouringServices

-----------------------------------------------------------------------------
(* The client side: who is queued, who is served, and within which limit. *)

\* Closing sockets, or none, disturbs neither.
LEMMA PlacedClosing ==
    ASSUME ClientsPlaced, Cardinality(Open) <= MaxOpen,
           Open' \subseteq Open, \A d \in Open' : peer'[d] = peer[d],
           link' = link, backlog' = backlog \/ backlog' = <<>>
    PROVE  ClientsPlaced' /\ Cardinality(Open') <= MaxOpen
  <1>1. Waiting' \subseteq Waiting /\ BacklogDistinct'
    BY DEF Waiting, BacklogDistinct, ClientsPlaced
  <1>2. Served' \subseteq Served
    BY DEF Served
  <1>3. PeersDistinct'
    BY DEF PeersDistinct, ClientsPlaced
  <1>4. AwayIsGone'
    BY <1>1, <1>2 DEF AwayIsGone, ClientsPlaced
  <1>5. Cardinality(Open') <= Cardinality(Open)
           /\ Cardinality(Open) \in Nat /\ Cardinality(Open') \in Nat
    <2>1. IsFiniteSet(Open)
      BY MaxOpenAssumption, FS_Subset DEF Open
    <2> QED BY <2>1, FS_Subset, FS_CardinalityType
  <1> QED BY <1>1, <1>2, <1>3, <1>4, <1>5, MaxOpenAssumption DEF ClientsPlaced

\* Accepting moves a client from the backlog to a socket.
LEMMA PlacedAcceptOk ==
    ASSUME SocketIInv, ClientsPlaced, Cardinality(Open) <= MaxOpen, AcceptOk
    PROVE  ClientsPlaced' /\ Cardinality(Open') <= MaxOpen
  <1> DEFINE k == Head(backlog)
  <1>1. k \in Client
    BY ChainAtReady DEF AcceptOk
  <1>2. /\ conn_ \in Conn /\ peer[conn_] = NoPeer
        /\ peer' = [peer EXCEPT ![conn_] = k]
    BY AcceptEffect
  <1>3. /\ peer \in [Conn -> Client \cup {NoPeer}]
        /\ backlog \in Seq(Client) /\ backlog # <<>> /\ backlog' = Tail(backlog)
        /\ link' = link
    BY DEF AcceptOk, AcceptReady, SocketIInv, TypeOK, TcpTypeOK
  <1>4. /\ Waiting' = Waiting \ {k} /\ k \in Waiting /\ BacklogDistinct'
    BY <1>3, TailDistinct DEF ClientsPlaced
  <1>5. Open' = Open \cup {conn_} /\ conn_ \notin Open
    BY <1>1, <1>2, <1>3, ConnAssumption DEF Open, IsOpen
  <1>6. /\ \A d \in Open : peer'[d] = peer[d]
        /\ peer'[conn_] = k
    BY <1>1, <1>2, <1>3, <1>5 DEF Open
  <1>7. Served' = Served \cup {k}
    BY <1>5, <1>6 DEF Served
  <1>8. k \notin Served
    BY <1>4 DEF ClientsPlaced
  <1>9. PeersDistinct'
    BY <1>5, <1>6, <1>8 DEF PeersDistinct, ClientsPlaced, Served
  <1>10. AwayIsGone'
    BY <1>3, <1>4, <1>7 DEF AwayIsGone, ClientsPlaced
  <1>11. Cardinality(Open') <= MaxOpen
    <2>1. IsFiniteSet(Open)
      BY MaxOpenAssumption, FS_Subset DEF Open
    <2>2. Cardinality(Open') = Cardinality(Open) + 1
      BY <1>5, <2>1, FS_AddElement
    <2>3. Cardinality(Open) < MaxOpen
      BY <2>1, FS_CardinalityType, MaxOpenAssumption DEF AcceptOk, Exhausted
    <2> QED BY <2>1, <2>2, <2>3, FS_CardinalityType, MaxOpenAssumption
  <1> QED BY <1>4, <1>7, <1>8, <1>9, <1>10, <1>11 DEF ClientsPlaced

\* A client that connects was nowhere; one that forgets its connection is nowhere.
LEMMA PlacedClientStep ==
    ASSUME SocketIInv, ClientsPlaced, Cardinality(Open) <= MaxOpen,
           NEW k \in Client, ClientStep(k)
    PROVE  ClientsPlaced' /\ Cardinality(Open') <= MaxOpen
  <1>1. peer' = peer /\ Open' = Open /\ Served' = Served
    BY DEF ClientStep, connVars, Open, IsOpen, Served
  <1>2. link \in [Client -> LinkState] /\ backlog \in Seq(Client)
    BY DEF SocketIInv, TypeOK, TcpTypeOK
  <1>3. PeersDistinct'
    BY <1>1 DEF PeersDistinct, ClientsPlaced
  <1>4. CASE Connect(k)
    <2>1. k \notin Waiting \cup Served
      BY <1>4 DEF Connect, ClientsPlaced, AwayIsGone
    <2>2. Waiting' = Waiting \cup {k} /\ BacklogDistinct'
      BY <1>2, <1>4, <2>1, AppendDistinct DEF Connect, ClientsPlaced
    <2>3. \A j \in Client : link'[j] = "away" => j # k /\ link[j] = "away"
      BY <1>2, <1>4 DEF Connect
    <2>4. AwayIsGone'
      BY <1>1, <2>2, <2>3 DEF AwayIsGone, ClientsPlaced
    <2> QED BY <1>1, <1>3, <2>1, <2>2, <2>4 DEF ClientsPlaced
  <1>5. CASE ~Connect(k)
    <2>1. backlog' = backlog /\ Waiting' = Waiting /\ BacklogDistinct'
      BY <1>5 DEF ClientStep, Send, Finish, Abort, Forget, Waiting, BacklogDistinct, ClientsPlaced
    <2>2. \A j \in Client : link'[j] = "away" => link[j] = "away" \/ j \notin Waiting \cup Served
      BY <1>2, <1>5 DEF ClientStep, Send, Finish, Abort, Forget
    <2>3. AwayIsGone'
      BY <1>1, <2>1, <2>2 DEF AwayIsGone, ClientsPlaced
    <2> QED BY <1>1, <1>3, <2>1, <2>3 DEF ClientsPlaced
  <1> QED BY <1>4, <1>5

\* What every other step does to the sockets: nothing, or it closes some.
LEMMA OtherStepsClose ==
    ASSUME SocketIInv, [Next]_vars, ~AcceptOk, \A k \in Client : ~ClientStep(k)
    PROVE  /\ Open' \subseteq Open /\ \A d \in Open' : peer'[d] = peer[d]
           /\ link' = link /\ (backlog' = backlog \/ backlog' = <<>>)
  <1>1. peer \in [Conn -> Client \cup {NoPeer}]
    BY DEF SocketIInv, TypeOK
  <1>2. CASE UNCHANGED <<connVars, tcpVars>>
    BY <1>2 DEF connVars, tcpVars, Open, IsOpen
  <1>3. CASE start \/ Rearm
    <2>1. accepting = {} /\ DoAccept /\ UNCHANGED tcpVars
      BY <1>3, ChainAtRearm DEF start, BeginStart, SocketIInv, Lifecycle, Rearm
    <2>2. PICK c \in Conn : peer' = [d \in Conn |-> IF d = c THEN NoPeer ELSE peer[d]]
      BY <2>1, DoAcceptEffect
    <2> QED BY <1>1, <2>1, <2>2 DEF tcpVars, Open, IsOpen
  <1>4. CASE AcceptError
    BY <1>4 DEF AcceptError, tcpVars, Open, IsOpen
  <1>5. CASE Destroy
    BY <1>5 DEF Destroy, Settle, Open, IsOpen, Owned
  <1>6. ASSUME NEW c \in Conn, ReadHandler(c) \/ WriteHandler(c) PROVE
           /\ Open' \subseteq Open /\ \A d \in Open' : peer'[d] = peer[d]
           /\ link' = link /\ backlog' = backlog
    <2>1. peer' = peer \/ peer' = [peer EXCEPT ![c] = NoPeer]
      BY <1>6, ReadEffect, WriteEffect DEF ReadHandler, WriteHandler
    <2>2. link' = link /\ backlog' = backlog
      BY <1>6 DEF ReadHandler, ReadCompletes, Fails, WriteHandler, WriteCompletes
    <2> QED BY <1>1, <2>1, <2>2 DEF Open, IsOpen
  <1>7. UNCHANGED vars => UNCHANGED <<connVars, tcpVars>>
    BY DEF vars
  <1> QED BY <1>2, <1>3, <1>4, <1>5, <1>6, <1>7, StepKinds, PoolStepKeepsConnections

\* Sockets and clients are in one-to-one correspondence, within the limit of
\* descriptors: what the refinement of OneShotService rests on.
LEMMA Invariance == Spec => []IInv
  <1>1. Init => IInv
    <2> SUFFICES ASSUME Init PROVE IInv
      OBVIOUS
    <2>1. Open = {} /\ Served = {} /\ Waiting = {}
      BY DEF Init, TcpInit, Open, IsOpen, Served, Waiting
    <2>2. ClientsPlaced
      BY <2>1 DEF ClientsPlaced, PeersDistinct, BacklogDistinct, AwayIsGone, Init, TcpInit
    <2>3. Cardinality(Open) <= MaxOpen
      BY <2>1, FS_EmptySet, MaxOpenAssumption
    <2> QED BY <2>2, <2>3, SocketInit DEF IInv
  <1>2. IInv /\ [Next]_vars => IInv'
    <2> SUFFICES ASSUME IInv, [Next]_vars PROVE IInv'
      OBVIOUS
    <2>1. SocketIInv'
      BY SocketStep DEF IInv
    <2>2. ClientsPlaced' /\ Cardinality(Open') <= MaxOpen
      <3>1. CASE AcceptOk
        BY <3>1, PlacedAcceptOk DEF IInv
      <3>2. CASE \E k \in Client : ClientStep(k)
        BY <3>2, PlacedClientStep DEF IInv
      <3>3. CASE ~AcceptOk /\ \A k \in Client : ~ClientStep(k)
        BY <3>3, OtherStepsClose, PlacedClosing DEF IInv
      <3> QED BY <3>1, <3>2, <3>3
    <2> QED BY <2>1, <2>2 DEF IInv
  <1> QED BY <1>1, <1>2, PTL DEF Spec

-----------------------------------------------------------------------------
(* Server implements OneShotService. *)

\* Nothing is unread that was never sent: what a read returns was asked.
InboxAsked == \A k \in Client : inbox[k] > 0 => k \in asked

RInv == IInv /\ InboxAsked

\* The state of every session, read off the sockets.
SessionsTold ==
    \A k \in Client :
        /\ link[k] = "away" => sessionOf(k) = "none"
        /\ k \in Waiting => sessionOf(k) = "waiting"
        /\ k \in ReadFrom => sessionOf(k) = "served"
        /\ k \in WrittenTo => sessionOf(k) = "answering"
        /\ link[k] # "away" /\ k \notin Waiting \cup Served => sessionOf(k) = "over"

\* The refinement mapping tells the sessions as SessionsTold says ...
LEMMA SessionFacts == IInv => SessionsTold
  <1> SUFFICES ASSUME IInv, NEW k \in Client
               PROVE  /\ link[k] = "away" => sessionOf(k) = "none"
                      /\ k \in Waiting => sessionOf(k) = "waiting"
                      /\ k \in ReadFrom => sessionOf(k) = "served"
                      /\ k \in WrittenTo => sessionOf(k) = "answering"
                      /\ link[k] # "away" /\ k \notin Waiting \cup Served
                            => sessionOf(k) = "over"
    BY DEF SessionsTold
  <1>1. link[k] = "away" => sessionOf(k) = "none"
    BY DEF sessionOf
  <1>2. k \in Waiting \cup Served => link[k] # "away"
    BY DEF IInv, ClientsPlaced, AwayIsGone
  <1>3. k \in Waiting => k \notin Served
    BY DEF IInv, ClientsPlaced
  <1>4. /\ Open = reading \cup writing /\ reading \cap writing = {}
    BY DEF IInv, SocketIInv, OneOperationPerSocket
  <1>5. Served = ReadFrom \cup WrittenTo
    BY <1>4 DEF Served, ReadFrom, WrittenTo
  <1>6. ReadFrom \cap WrittenTo = {}
    BY <1>4 DEF ReadFrom, WrittenTo, IInv, ClientsPlaced, PeersDistinct
  <1> QED BY <1>1, <1>2, <1>3, <1>5, <1>6 DEF sessionOf

\* ... in the next state as well.
LEMMA NextSessionFacts == IInv' => SessionsTold'
  BY SessionFacts, PTL

\* The clients with a socket are those being read from and those being written to.
ServedSplit == Served = ReadFrom \cup WrittenTo

\* Who is served is read from or written to ...
LEMMA ServedSplits == IInv => ServedSplit
  BY DEF IInv, SocketIInv, OneOperationPerSocket, Served, ReadFrom, WrittenTo, ServedSplit

\* ... in the next state as well.
LEMMA NextServedSplits == IInv' => ServedSplit'
  BY ServedSplits, PTL

-----------------------------------------------------------------------------
(* How the sessions change with a step. *)

\* A session is told from four facts about its client.
LEMMA SameSession ==
    ASSUME NEW j \in Client,
           (link[j] = "away")' <=> link[j] = "away",
           (j \in Waiting)' <=> j \in Waiting,
           (j \in ReadFrom)' <=> j \in ReadFrom,
           (j \in WrittenTo)' <=> j \in WrittenTo
    PROVE  sessionOf(j)' = sessionOf(j)
  BY DEF sessionOf

\* When one session changes and no other, the mapping changes at one place.
LEMMA OneSession ==
    ASSUME NEW k \in Client, NEW s, sessionOf(k)' = s,
           \A j \in Client \ {k} : sessionOf(j)' = sessionOf(j)
    PROVE  sessions' = [sessions EXCEPT ![k] = s]
  BY DEF sessions

\* A step that leaves sockets, operations and clients alone is no step of the
\* service.
LEMMA Stutter ==
    ASSUME UNCHANGED <<reading, writing, peer, link, asked, replies, backlog>>
    PROVE  UNCHANGED Service!vars
  BY DEF Service!vars, sessions, sessionOf, ReadFrom, WrittenTo, Waiting

\* do_accept() is a step no client can tell.
LEMMA ArmingStutters ==
    ASSUME IInv, start \/ Rearm PROVE UNCHANGED Service!vars
  <1>1. SocketIInv /\ accepting = {} /\ DoAccept /\ UNCHANGED tcpVars
    BY ChainAtRearm DEF start, BeginStart, IInv, SocketIInv, Lifecycle, Rearm
  <1>2. PICK c \in Conn \ Live :
          /\ reading' = reading /\ writing' = writing
          /\ peer' = [d \in Conn |-> IF d = c THEN NoPeer ELSE peer[d]]
    BY <1>1, DoAcceptEffect
  <1>3. peer[c] = NoPeer /\ peer \in [Conn -> Client \cup {NoPeer}]
    BY <1>1, <1>2 DEF SocketIInv, TypeOK, OneOperationPerSocket, Open, IsOpen, Live, Owned
  <1>4. peer' = peer
    BY <1>2, <1>3
  <1> QED BY <1>1, <1>2, <1>4, Stutter DEF tcpVars

\* A client connects, sends, ends its sending side, resets or leaves.
LEMMA ClientRefines ==
    ASSUME IInv, IInv', NEW k \in Client, ClientStep(k)
    PROVE  Service!Next \/ UNCHANGED Service!vars
  <1>1. /\ link \in [Client -> LinkState] /\ backlog \in Seq(Client) /\ BacklogDistinct
    BY DEF IInv, SocketIInv, TypeOK, TcpTypeOK, ClientsPlaced
  <1>2. /\ UNCHANGED <<reading, writing, peer>>
        /\ ReadFrom' = ReadFrom /\ WrittenTo' = WrittenTo /\ Served' = Served
    BY DEF ClientStep, connVars, ReadFrom, WrittenTo, Served, Open, IsOpen
  <1>3. CASE Connect(k)
    <2>1. link[k] = "away" /\ k \notin Waiting \cup Served
      BY <1>3 DEF Connect, IInv, ClientsPlaced, AwayIsGone
    <2>2. Waiting' = Waiting \cup {k}
      BY <1>1, <1>3, <2>1, AppendDistinct DEF Connect
    <2>3. sessionOf(k) = "none" /\ sessionOf(k)' = "waiting"
      BY <2>1, <2>2, SessionFacts, NextSessionFacts DEF SessionsTold
    <2>4. \A j \in Client \ {k} : sessionOf(j)' = sessionOf(j)
      BY <1>1, <1>2, <1>3, <2>2, SameSession DEF Connect
    <2>5. sessions' = [sessions EXCEPT ![k] = "waiting"]
      BY <2>3, <2>4, OneSession
    <2>6. Service!Arrive(k)
      BY <1>3, <2>3, <2>5 DEF Service!Arrive, Connect, sessions
    <2> QED BY <2>6 DEF Service!Next
  <1>4. CASE k \in Waiting \cup Served /\ Send(k)
    <2>1. sessions' = sessions
      BY <1>2, <1>4 DEF Send, sessions, sessionOf, Waiting
    <2>2. sessions[k] \in {"waiting", "served", "answering"}
      BY <1>4, SessionFacts, ServedSplits DEF ServedSplit, SessionsTold, sessions
    <2>3. Service!Ask(k)
      BY <1>4, <2>1, <2>2 DEF Service!Ask, Send
    <2> QED BY <2>3 DEF Service!Next
  <1>5. CASE Finish(k) \/ Abort(k)
    <2>1. \A j \in Client : link'[j] = "away" <=> link[j] = "away"
      BY <1>1, <1>5 DEF Finish, Abort
    <2>2. Waiting' = Waiting /\ UNCHANGED <<asked, replies, backlog>>
      BY <1>5 DEF Finish, Abort, Waiting
    <2>3. \A j \in Client : sessionOf(j)' = sessionOf(j)
      BY <1>2, <2>1, <2>2, SameSession
    <2> QED BY <2>2, <2>3 DEF Service!vars, sessions
  <1>6. CASE k \notin Waiting \cup Served /\ Forget(k)
    <2>1. sessionOf(k) = "over" /\ sessionOf(k)' = "none"
      BY <1>1, <1>6, SessionFacts DEF Forget, SessionsTold, sessionOf
    <2>2. \A j \in Client \ {k} : sessionOf(j)' = sessionOf(j)
      BY <1>1, <1>2, <1>6, SameSession DEF Forget, Waiting
    <2>3. sessions' = [sessions EXCEPT ![k] = "none"]
      BY <2>1, <2>2, OneSession
    <2>4. Service!Leave(k)
      BY <1>6, <2>1, <2>3 DEF Service!Leave, Forget, sessions
    <2> QED BY <2>4 DEF Service!Next
  <1> QED BY <1>3, <1>4, <1>5, <1>6 DEF ClientStep

\* An accept serves the client that waited longest.
LEMMA AcceptRefines ==
    ASSUME IInv, IInv', AcceptOk, NEW k, k = Head(backlog) PROVE Service!Next
  <1>1. /\ k \in Client /\ backlog \in Seq(Client) /\ backlog # <<>>
        /\ BacklogDistinct /\ backlog' = Tail(backlog)
        /\ UNCHANGED <<link, asked, replies>>
    BY ChainAtReady DEF AcceptOk, AcceptReady, IInv, SocketIInv, TypeOK, TcpTypeOK, ClientsPlaced
  <1>2. Waiting' = Waiting \ {k} /\ k \in Waiting
    BY <1>1, TailDistinct
  <1>3. /\ conn_ \in Conn /\ conn_ \notin reading \cup writing
        /\ reading' = reading \cup {conn_} /\ writing' = writing
        /\ peer' = [peer EXCEPT ![conn_] = k]
        /\ peer \in [Conn -> Client \cup {NoPeer}]
        /\ reading \subseteq Conn /\ writing \subseteq Conn
    BY AcceptEffect DEF IInv, SocketIInv, TypeOK
  <1>4. ReadFrom' = ReadFrom \cup {k} /\ WrittenTo' = WrittenTo
    BY <1>3 DEF ReadFrom, WrittenTo
  <1>5. sessionOf(k)' = "served"
    BY <1>1, <1>4, NextSessionFacts DEF SessionsTold
  <1>6. \A j \in Client \ {k} : sessionOf(j)' = sessionOf(j)
    BY <1>1, <1>2, <1>4, SameSession
  <1>7. sessions' = [sessions EXCEPT ![k] = "served"]
    BY <1>1, <1>5, <1>6, OneSession
  <1> QED BY <1>1, <1>7 DEF Service!Next, Service!Serve

\* What a handler of connection c does to the client sets.
LEMMA PeersOfOperations ==
    ASSUME IInv, NEW c \in reading \cup writing
    PROVE  /\ c \in Conn /\ peer[c] \in Client
           /\ \A d \in reading \cup writing : peer[d] = peer[c] => d = c
           /\ link[peer[c]] # "away" /\ peer[c] \notin Waiting
           /\ peer \in [Conn -> Client \cup {NoPeer}]
           /\ reading \subseteq Conn /\ writing \subseteq Conn /\ reading \cap writing = {}
           /\ c \in reading => sessionOf(peer[c]) = "served"
           /\ c \in writing => sessionOf(peer[c]) = "answering"
  <1>1. Open = reading \cup writing /\ reading \cap writing = {}
        /\ reading \subseteq Conn /\ writing \subseteq Conn
        /\ peer \in [Conn -> Client \cup {NoPeer}]
    BY DEF IInv, SocketIInv, OneOperationPerSocket, TypeOK
  <1>2. c \in Conn /\ peer[c] \in Client /\ peer[c] \in Served
    BY <1>1 DEF Open, IsOpen, Served
  <1>3. \A d \in reading \cup writing : peer[d] = peer[c] => d = c
    BY <1>1 DEF IInv, ClientsPlaced, PeersDistinct
  <1>4. link[peer[c]] # "away" /\ peer[c] \notin Waiting
    BY <1>2 DEF IInv, ClientsPlaced, AwayIsGone
  <1>5. /\ c \in reading => peer[c] \in ReadFrom
        /\ c \in writing => peer[c] \in WrittenTo
    BY DEF ReadFrom, WrittenTo
  <1> QED BY <1>1, <1>2, <1>3, <1>4, <1>5, SessionFacts DEF SessionsTold

\* A read that found a byte answers the client that sent it, any other read
\* ends the session.
LEMMA ReadRefines ==
    ASSUME RInv, IInv', NEW c \in Conn, ReadHandler(c), NEW k, k = peer[c]
    PROVE  Service!Next
  <1>1. /\ c \in reading /\ reading' = reading \ {c}
        /\ \/ writing' = writing /\ peer' = [peer EXCEPT ![c] = NoPeer]
           \/ writing' = writing \cup {c} /\ peer' = peer
    BY ReadEffect DEF ReadHandler, RInv, IInv
  <1>2. UNCHANGED <<link, asked, replies, backlog>> /\ Waiting' = Waiting
    BY DEF ReadHandler, ReadCompletes, Fails, Waiting
  <1>3. /\ k \in Client
        /\ \A d \in reading \cup writing : peer[d] = k => d = c
        /\ link[k] # "away" /\ k \notin Waiting /\ sessionOf(k) = "served"
        /\ peer \in [Conn -> Client \cup {NoPeer}]
        /\ reading \subseteq Conn /\ writing \subseteq Conn /\ reading \cap writing = {}
    BY <1>1, PeersOfOperations DEF RInv
  <1>4. ReadFrom' = ReadFrom \ {k}
    BY <1>1, <1>3 DEF ReadFrom
  <1>5. CASE writing' = writing /\ peer' = [peer EXCEPT ![c] = NoPeer]
    <2>1. WrittenTo' = WrittenTo /\ k \notin WrittenTo
      BY <1>1, <1>3, <1>5 DEF WrittenTo
    <2>2. k \notin Served'
      <3>1. Served' = ReadFrom' \cup WrittenTo'
        BY NextServedSplits DEF ServedSplit
      <3> QED BY <1>4, <2>1, <3>1
    <2>3. sessionOf(k)' = "over"
      BY <1>2, <1>3, <2>2, NextSessionFacts DEF SessionsTold
    <2>4. \A j \in Client \ {k} : sessionOf(j)' = sessionOf(j)
      BY <1>2, <1>4, <2>1, SameSession
    <2>5. sessions' = [sessions EXCEPT ![k] = "over"]
      BY <1>3, <2>3, <2>4, OneSession
    <2>6. Service!GiveUp(k)
      BY <1>2, <1>3, <2>5 DEF Service!GiveUp, sessions
    <2> QED BY <1>3, <2>6 DEF Service!Next
  <1>6. CASE writing' = writing \cup {c} /\ peer' = peer
    <2>1. WrittenTo' = WrittenTo \cup {k}
      BY <1>3, <1>6 DEF WrittenTo
    <2>2. sessionOf(k)' = "answering"
      BY <1>3, <2>1, NextSessionFacts DEF SessionsTold
    <2>3. \A j \in Client \ {k} : sessionOf(j)' = sessionOf(j)
      BY <1>2, <1>4, <2>1, SameSession
    <2>4. sessions' = [sessions EXCEPT ![k] = "answering"]
      BY <1>3, <2>2, <2>3, OneSession
    <2>5. k \in asked
      <3>1. Received(k, HeadOffset) # 0
        BY <1>1, <1>3, <1>6, ConnAssumption DEF ReadHandler, ReadCompletes, Fails, Settle, IsOpen
      <3>2. inbox[k] > 0
        BY <1>3, <3>1, ReceivedBounds DEF RInv, IInv, SocketIInv, TypeOK, TcpTypeOK
      <3> QED BY <1>3, <3>2 DEF RInv, InboxAsked
    <2>6. Service!Answer(k)
      BY <1>2, <1>3, <2>4, <2>5 DEF Service!Answer, sessions
    <2> QED BY <1>3, <2>6 DEF Service!Next
  <1> QED BY <1>1, <1>5, <1>6

\* A write, sent or failed, ends the session.
LEMMA WriteRefines ==
    ASSUME IInv, IInv', NEW c \in Conn, WriteHandler(c), NEW k, k = peer[c]
    PROVE  Service!Next
  <1>1. /\ c \in writing /\ reading' = reading /\ writing' = writing \ {c}
        /\ peer' = [peer EXCEPT ![c] = NoPeer]
    BY WriteEffect DEF WriteHandler, IInv
  <1>2. UNCHANGED <<link, asked, backlog>> /\ Waiting' = Waiting
    BY DEF WriteHandler, WriteCompletes, Waiting
  <1>3. /\ k \in Client
        /\ \A d \in reading \cup writing : peer[d] = k => d = c
        /\ link[k] # "away" /\ k \notin Waiting /\ sessionOf(k) = "answering"
        /\ peer \in [Conn -> Client \cup {NoPeer}]
        /\ reading \subseteq Conn /\ writing \subseteq Conn /\ reading \cap writing = {}
    BY <1>1, PeersOfOperations
  <1>4. WrittenTo' = WrittenTo \ {k}
    BY <1>1, <1>3 DEF WrittenTo
  <1>5. ReadFrom' = ReadFrom /\ k \notin ReadFrom
    BY <1>1, <1>3 DEF ReadFrom
  <1>6. k \notin Served'
    BY <1>4, <1>5, NextServedSplits DEF ServedSplit
  <1>7. sessionOf(k)' = "over"
    BY <1>2, <1>3, <1>6, NextSessionFacts DEF SessionsTold
  <1>8. \A j \in Client \ {k} : sessionOf(j)' = sessionOf(j)
    BY <1>2, <1>4, <1>5, SameSession
  <1>9. sessions' = [sessions EXCEPT ![k] = "over"]
    BY <1>3, <1>7, <1>8, OneSession
  <1>10. replies' = replies \/ replies' = [replies EXCEPT ![k] = @ + 1]
    BY DEF WriteHandler, WriteCompletes
  <1>11. Service!Complete(k) \/ Service!GiveUp(k)
    BY <1>2, <1>3, <1>9, <1>10 DEF Service!Complete, Service!GiveUp, sessions
  <1> QED BY <1>3, <1>11 DEF Service!Next

\* The destructor ends every session.
LEMMA DestroyRefines ==
    ASSUME IInv, IInv', Destroy PROVE Service!Next
  <1>1. /\ backlog' = <<>> /\ UNCHANGED <<link, asked, replies>>
        /\ reading' = {} /\ writing' = {}
    BY DEF Destroy, Settle
  <1>2. Waiting' = {} /\ ReadFrom' = {} /\ WrittenTo' = {}
    BY <1>1 DEF Waiting, ReadFrom, WrittenTo
  <1>3. \A k \in Client : sessionOf(k)' = IF link[k] = "away" THEN "none" ELSE "over"
    BY <1>1, <1>2 DEF sessionOf
  <1>4. \A k \in Client : sessionOf(k) = "none" <=> link[k] = "away"
    BY DEF sessionOf
  <1>5. sessions' = [k \in Client |-> IF sessions[k] = "none" THEN "none" ELSE "over"]
    BY <1>3, <1>4 DEF sessions
  <1> QED BY <1>1, <1>5 DEF Service!Next, Service!ShutDown

\* Reading takes bytes away, sending adds them along with the question.
LEMMA InboxStep == ASSUME RInv, [Next]_vars PROVE InboxAsked'
  <1>1. inbox \in [Client -> 0 .. MaxInbox]
    BY DEF RInv, IInv, SocketIInv, TypeOK, TcpTypeOK
  <1>2. CASE UNCHANGED <<inbox, asked>>
    BY <1>2 DEF RInv, InboxAsked
  <1>3. UNCHANGED tcpVars => UNCHANGED <<inbox, asked>>
    BY DEF tcpVars
  <1>4. ASSUME NEW c \in Conn, ReadHandler(c) PROVE InboxAsked'
    <2>1. asked' = asked
      BY <1>4 DEF ReadHandler, ReadCompletes, Fails
    <2>2. peer[c] \in Client
      BY <1>4, ReadEffect DEF ReadHandler, RInv, IInv
    <2>3. inbox' = inbox \/ inbox' = [inbox EXCEPT ![peer[c]] = @ - Received(peer[c], HeadOffset)]
      BY <1>4, <2>2, ConnAssumption DEF ReadHandler, ReadCompletes, Fails, IsOpen
    <2>4. Received(peer[c], HeadOffset) \in 0 .. inbox[peer[c]]
      BY <2>2, ReceivedBounds DEF RInv, IInv, SocketIInv
    <2>5. \A k \in Client : inbox'[k] > 0 => inbox[k] > 0
      BY <1>1, <2>2, <2>3, <2>4, MaxInboxAssumption
    <2> QED BY <2>1, <2>5 DEF RInv, InboxAsked
  <1>5. ASSUME NEW k \in Client, ClientStep(k) PROVE InboxAsked'
    <2>1. CASE Connect(k) \/ Finish(k)
      BY <1>2, <2>1 DEF Connect, Finish
    <2>2. CASE Send(k)
      BY <1>1, <2>2 DEF Send, RInv, InboxAsked
    <2>3. CASE Abort(k)
      BY <1>1, <2>3 DEF Abort, RInv, InboxAsked
    <2>4. CASE Forget(k)
      BY <1>1, <2>4 DEF Forget, RInv, InboxAsked
    <2> QED BY <1>5, <2>1, <2>2, <2>3, <2>4 DEF ClientStep
  <1>6. CASE start \/ Rearm \/ AcceptOk \/ AcceptError \/ Destroy \/ UNCHANGED vars
            \/ \E c \in Conn : WriteHandler(c)
    BY <1>2, <1>3, <1>6
    DEF start, Rearm, AcceptOk, AcceptError, Destroy, vars, WriteHandler, WriteCompletes
  <1>7. CASE PoolStep
    BY <1>2, <1>3, <1>7, PoolStepKeepsConnections
  <1> QED BY <1>4, <1>5, <1>6, <1>7, StepKinds

-----------------------------------------------------------------------------

\* The server implements the one-shot service: the initial states map to initial
\* states, and every step maps to a step of the service or to a stutter.
THEOREM ServerImplementsService == Spec => ImplementsOneShotService
  <1>1. Init => Service!Init
    BY DEF Init, TcpInit, Service!Init, sessions, sessionOf
  <1>2. Init => InboxAsked
    BY DEF Init, TcpInit, InboxAsked
  <1>3. Spec => []RInv
    <2>1. IInv /\ InboxAsked /\ [Next]_vars => InboxAsked'
      BY InboxStep DEF RInv
    <2> QED BY <1>2, <2>1, Invariance, PTL DEF Spec, RInv
  <1>4. RInv /\ RInv' /\ [Next]_vars => [Service!Next]_(Service!vars)
    <2> SUFFICES ASSUME RInv, RInv', [Next]_vars
                 PROVE  Service!Next \/ UNCHANGED Service!vars
      OBVIOUS
    <2> USE DEF RInv
    <2>1. CASE PoolStep \/ UNCHANGED vars
      <3>1. UNCHANGED <<reading, writing, peer, link, asked, replies, backlog>>
        BY <2>1, PoolStepKeepsConnections DEF vars, connVars, tcpVars
      <3> QED BY <3>1, Stutter
    <2>2. CASE AcceptError
      <3>1. UNCHANGED <<reading, writing, peer, link, asked, replies, backlog>>
        BY <2>2 DEF AcceptError, tcpVars
      <3> QED BY <3>1, Stutter
    <2> QED BY <2>1, <2>2, StepKinds, ArmingStutters, ClientRefines, AcceptRefines,
               ReadRefines, WriteRefines, DestroyRefines
  <1> QED BY <1>1, <1>3, <1>4, PTL DEF Spec, ImplementsOneShotService, Service!Spec

-----------------------------------------------------------------------------

(* What OneShotService promises its clients. *)

SessionState == {"none", "waiting", "served", "answering", "over"}

ServiceTypeOK ==
    /\ sessions \in [Client -> SessionState]
    /\ asked \subseteq Client
    /\ replies \in [Client -> Nat]
    /\ backlog \in Seq(Client)

\* Who is in the queue waits, and is there once.
QueueWaits ==
    /\ \A i \in DOMAIN backlog : sessions[backlog[i]] = "waiting"
    /\ \A i, j \in DOMAIN backlog : backlog[i] = backlog[j] => i = j

\* A response comes last in a session, once, and after something was heard.
AnswerLast ==
    \A k \in Client :
        /\ sessions[k] = "answering" => k \in asked
        /\ replies[k] # 0 => replies[k] = 1 /\ k \in asked /\ sessions[k] = "over"

ServiceInv == ServiceTypeOK /\ QueueWaits /\ AnswerLast

\* What a typed queue is, for the provers.
LEMMA QueueFacts ==
    ASSUME backlog \in Seq(Client)
    PROVE  /\ Len(backlog) \in Nat /\ DOMAIN backlog = 1 .. Len(backlog)
           /\ \A i \in DOMAIN backlog : backlog[i] \in Client
  OBVIOUS

\* Serving the head of the queue keeps the invariant: who is behind it still waits.
LEMMA ServeKeeps == ASSUME ServiceInv, Service!Serve PROVE ServiceInv'
  <1>1. /\ Len(backlog) \in Nat \ {0} /\ DOMAIN backlog = 1 .. Len(backlog)
        /\ DOMAIN backlog' = 1 .. Len(backlog) - 1
        /\ Head(backlog) = backlog[1] /\ backlog[1] \in Client
        /\ backlog' \in Seq(Client)
        /\ \A i \in 1 .. Len(backlog) - 1 : backlog'[i] = backlog[i + 1]
    BY DEF Service!Serve, ServiceInv, ServiceTypeOK
  <1>2. sessions' = [sessions EXCEPT ![backlog[1]] = "served"] /\ sessions[backlog[1]] = "waiting"
    BY <1>1 DEF Service!Serve, ServiceInv, QueueWaits
  <1>3. ServiceTypeOK'
    BY <1>1, <1>2 DEF Service!Serve, ServiceInv, ServiceTypeOK, SessionState
  <1>4. QueueWaits'
    <2>1. ASSUME NEW i \in 1 .. Len(backlog) - 1
          PROVE  backlog[i + 1] # backlog[1] /\ sessions[backlog[i + 1]] = "waiting"
                 /\ backlog[i + 1] \in Client
      <3>1. i + 1 \in DOMAIN backlog /\ 1 \in DOMAIN backlog /\ i + 1 # 1
        BY <1>1
      <3> QED BY <3>1, QueueFacts DEF ServiceInv, ServiceTypeOK, QueueWaits
    <2>2. \A i \in DOMAIN backlog' : sessions'[backlog'[i]] = "waiting"
      BY <1>1, <1>2, <2>1 DEF ServiceInv, ServiceTypeOK
    <2>3. \A i, j \in DOMAIN backlog' : backlog'[i] = backlog'[j] => i = j
      BY <1>1 DEF ServiceInv, QueueWaits
    <2> QED BY <2>2, <2>3 DEF QueueWaits
  <1>5. AnswerLast'
    BY <1>1, <1>2 DEF Service!Serve, ServiceInv, AnswerLast, ServiceTypeOK
  <1> QED BY <1>3, <1>4, <1>5 DEF ServiceInv

\* Who arrives was in no session, so it is in the queue once.
LEMMA ArriveKeeps == ASSUME ServiceInv, NEW k \in Client, Service!Arrive(k) PROVE ServiceInv'
  <1>1. /\ Len(backlog) \in Nat /\ DOMAIN backlog = 1 .. Len(backlog)
        /\ DOMAIN backlog' = 1 .. Len(backlog) + 1
        /\ backlog' \in Seq(Client) /\ backlog'[Len(backlog) + 1] = k
        /\ \A i \in 1 .. Len(backlog) : backlog'[i] = backlog[i] /\ backlog[i] \in Client
    BY DEF Service!Arrive, ServiceInv, ServiceTypeOK
  <1>2. sessions' = [sessions EXCEPT ![k] = "waiting"] /\ sessions[k] = "none"
    BY DEF Service!Arrive
  <1>3. \A i \in 1 .. Len(backlog) : backlog[i] # k /\ sessions[backlog[i]] = "waiting"
    BY <1>1, <1>2 DEF ServiceInv, QueueWaits
  <1>4. ServiceTypeOK'
    BY <1>1, <1>2 DEF Service!Arrive, ServiceInv, ServiceTypeOK, SessionState
  <1>5. QueueWaits'
    <2>1. ASSUME NEW i \in DOMAIN backlog' PROVE sessions'[backlog'[i]] = "waiting"
      <3>1. CASE i \in 1 .. Len(backlog)
        BY <1>1, <1>2, <1>3, <3>1 DEF ServiceInv, ServiceTypeOK
      <3>2. CASE i = Len(backlog) + 1
        BY <1>1, <1>2, <3>2 DEF ServiceInv, ServiceTypeOK
      <3> QED BY <1>1, <3>1, <3>2
    <2>2. ASSUME NEW i \in DOMAIN backlog', NEW j \in DOMAIN backlog', backlog'[i] = backlog'[j]
          PROVE  i = j
      <3>1. CASE i \in 1 .. Len(backlog) /\ j \in 1 .. Len(backlog)
        BY <1>1, <2>2, <3>1 DEF ServiceInv, QueueWaits
      <3>2. CASE i = Len(backlog) + 1 \/ j = Len(backlog) + 1
        BY <1>1, <1>3, <2>2, <3>2
      <3> QED BY <1>1, <3>1, <3>2
    <2> QED BY <2>1, <2>2 DEF QueueWaits
  <1>6. AnswerLast'
    BY <1>2 DEF Service!Arrive, ServiceInv, AnswerLast, ServiceTypeOK
  <1> QED BY <1>4, <1>5, <1>6 DEF ServiceInv

\* A step of a session that is not waiting leaves the queue alone.
LEMMA SessionKeeps ==
    ASSUME ServiceInv, NEW k \in Client,
           Service!Ask(k) \/ Service!Answer(k) \/ Service!Complete(k) \/ Service!GiveUp(k) \/ Service!Leave(k)
    PROVE  ServiceInv'
  <1>1. backlog' = backlog
    BY DEF Service!Ask, Service!Answer, Service!Complete, Service!GiveUp, Service!Leave
  <1>2. sessions' = sessions \/ (sessions[k] # "waiting" /\ \E s \in SessionState :
            sessions' = [sessions EXCEPT ![k] = s])
    BY DEF Service!Ask, Service!Answer, Service!Complete, Service!GiveUp, Service!Leave, SessionState
  <1>3. QueueWaits'
    BY <1>1, <1>2, QueueFacts DEF ServiceInv, ServiceTypeOK, QueueWaits
  <1>4. ServiceTypeOK' /\ AnswerLast'
    <2> USE DEF ServiceInv, ServiceTypeOK, AnswerLast, SessionState
    <2>1. CASE Service!Ask(k) BY <2>1 DEF Service!Ask
    <2>2. CASE Service!Answer(k) BY <2>2 DEF Service!Answer
    <2>3. CASE Service!Complete(k) BY <2>3 DEF Service!Complete
    <2>4. CASE Service!GiveUp(k) BY <2>4 DEF Service!GiveUp
    <2>5. CASE Service!Leave(k) BY <2>5 DEF Service!Leave
    <2> QED BY <2>1, <2>2, <2>3, <2>4, <2>5
  <1> QED BY <1>3, <1>4 DEF ServiceInv

\* Whoever implements this service answers a session at most once, and never
\* unasked.
LEMMA AnsweredAtMostOnce == Service!Spec => []Service!AtMostOneAnswer
  <1>1. Service!Init => ServiceInv
    BY DEF Service!Init, ServiceInv, ServiceTypeOK, QueueWaits, AnswerLast, SessionState
  <1>2. ServiceInv /\ [Service!Next]_(Service!vars) => ServiceInv'
    <2> SUFFICES ASSUME ServiceInv, [Service!Next]_(Service!vars) PROVE ServiceInv'
      OBVIOUS
    <2>1. CASE Service!ShutDown
      BY <2>1 DEF Service!ShutDown, ServiceInv, ServiceTypeOK, QueueWaits, AnswerLast, SessionState
    <2>2. CASE UNCHANGED Service!vars
      BY <2>2 DEF Service!vars, ServiceInv, ServiceTypeOK, QueueWaits, AnswerLast
    <2> QED BY <2>1, <2>2, ServeKeeps, ArriveKeeps, SessionKeeps DEF Service!Next
  <1>3. ServiceInv => Service!AtMostOneAnswer
    <2> SUFFICES ASSUME ServiceInv, NEW k \in Client
                 PROVE  replies[k] <= 1 /\ (replies[k] = 1 => k \in asked /\ sessions[k] = "over")
      BY DEF Service!AtMostOneAnswer
    <2>1. replies[k] \in Nat
      BY DEF ServiceInv, ServiceTypeOK
    <2>2. replies[k] # 0 => replies[k] = 1 /\ k \in asked /\ sessions[k] = "over"
      BY DEF ServiceInv, AnswerLast
    <2> QED BY <2>1, <2>2
  <1> QED BY <1>1, <1>2, <1>3, PTL DEF Service!Spec

\* What OneShotService promises its clients holds of the server: in a session
\* never a second response, and never one before the client sent something.
THEOREM AtMostOneResponsePerSession == Spec => []AtMostOneResponse
  <1> QED BY ServerImplementsService, AnsweredAtMostOnce, PTL DEF ImplementsOneShotService, AtMostOneResponse
=============================================================================
