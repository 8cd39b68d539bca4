----------------------------- MODULE IoServicePool -----------------------------
(***************************************************************************)
(* timax::io_service_pool (io_service_pool.hpp): PoolSize io_services, one  *)
(* thread for each, handed out round-robin.  The module holds the state of  *)
(* the pool and one action per operation; PoolRotation closes it with the    *)
(* callers of get_io_service, Server with the whole server.                 *)
(*                                                                         *)
(* io_service::run() is external code (Boost.Asio).  What the source relies *)
(* on, and what is modelled: run() executes one completion handler at a     *)
(* time, returns once stop() was called (stop() is sticky, nothing calls    *)
(* reset()), and returns as well when the io_service has nothing left to do, *)
(* neither an operation in progress nor an io_service::work object.          *)
(***************************************************************************)
EXTENDS Integers, FiniteSets

CONSTANT PoolSize   \* pool_size, std::thread::hardware_concurrency() by default

\* The constructor throws "io_service_pool size is 0" otherwise.
ASSUME PoolSizeAssumption == PoolSize \in Nat \ {0}

Services == 0 .. PoolSize - 1

NotStopping == -1   \* no call of stop() is in its loop

VARIABLES
    next_io_service_, \* the io_service get_io_service() hands out next
    work_,            \* the io_services that hold a work object
    stopped,          \* the io_services whose stop() was called
    thread,           \* thread[i]: where the thread of io_service i is
    main,             \* where the thread that owns the pool is
    stopping          \* the next iteration of the loop of stop()

poolVars == <<next_io_service_, work_, stopped, thread, main, stopping>>

ThreadState == {"unborn", "loop", "handler", "exited"}

MainState == {"built", "spawning", "joining", "returned", "destroyed"}

PoolTypeOK ==
    /\ next_io_service_ \in Services
    /\ work_ \subseteq Services
    /\ stopped \subseteq Services
    /\ thread \in [Services -> ThreadState]
    /\ main \in MainState
    /\ stopping \in Services \cup {NotStopping}

-----------------------------------------------------------------------------
\* Mutation: the index does not wrap.
FollowingUnwrapped(i) == i + 1

\* Mutation: the index wraps one place early.
FollowingShort(i) == IF i + 2 >= PoolSize THEN 0 ELSE i + 1

\* get_io_service(): the index after i, wrapping at the size of the pool.
Following(i) == IF i + 1 = PoolSize THEN 0 ELSE i + 1

\* Mutation: the constructor creates no work objects.
NoWork == {}

\* The work objects the constructor creates.
GivenWork == Services

\* The pool as its constructor leaves it, after `taken' calls (0 or 1) of
\* get_io_service().
PoolInit(taken) ==
    /\ next_io_service_ = IF taken = 0 THEN 0 ELSE Following(0)
    /\ work_ = GivenWork
    /\ stopped = {}
    /\ thread = [i \in Services |-> "unborn"]
    /\ main = "built"
    /\ stopping = NotStopping

\* Mutation: the increment is missing.
TakeServiceStuck == next_io_service_' = next_io_service_

\* get_io_service() as a step of its caller, which takes next_io_service_.
TakeService == next_io_service_' = Following(next_io_service_)

\* start() begins to create the threads.
BeginStart ==
    /\ main = "built"
    /\ main' = "spawning"

\* The first loop of start(): one more thread, whose body is run().
Spawn(i) ==
    /\ main = "spawning"
    /\ thread[i] = "unborn"
    /\ \A j \in 0 .. i - 1 : thread[j] # "unborn"
    /\ thread' = [thread EXCEPT ![i] = "loop"]
    /\ main' = IF i = PoolSize - 1 THEN "joining" ELSE "spawning"
    /\ UNCHANGED <<next_io_service_, work_, stopped, stopping>>

\* The io_service of thread i may take up a completion handler.
Dispatching(i) == thread[i] = "loop" /\ i \notin stopped

\* The io_service is stopped, or has no work left, where `busy' tells that an
\* operation is in progress on it.
MayReturn(i, busy) == i \in stopped \/ (i \notin work_ /\ ~busy)

\* run() returns, and with it the thread.
RunReturns(i, busy) ==
    /\ thread[i] = "loop"
    /\ MayReturn(i, busy)
    /\ thread' = [thread EXCEPT ![i] = "exited"]
    /\ UNCHANGED <<next_io_service_, work_, stopped, main, stopping>>

\* Mutation: only the first thread is joined.
FirstJoined == thread[0] = "exited"

\* The second loop of start() has joined every thread: start() returns.
AllJoined == \A i \in Services : thread[i] = "exited"

StartReturns ==
    /\ main = "joining"
    /\ AllJoined
    /\ main' = "returned"
    /\ UNCHANGED <<next_io_service_, work_, stopped, thread, stopping>>

\* Another thread calls stop() ...
StopCalled ==
    /\ stopping = NotStopping
    /\ main \in {"built", "spawning", "joining", "returned"}
    /\ stopping' = 0
    /\ UNCHANGED <<next_io_service_, work_, stopped, thread, main>>

\* Mutation: the loop ends after its first iteration.
AfterStoppingFirst(i) == NotStopping

AfterStopping(i) == IF i = PoolSize - 1 THEN NotStopping ELSE i + 1

\* ... whose loop stops one io_service at a time.
StopNext ==
    /\ stopping # NotStopping
    /\ stopped' = stopped \cup {stopping}
    /\ stopping' = AfterStopping(stopping)
    /\ UNCHANGED <<next_io_service_, work_, thread, main>>

\* ~io_service_pool(): stop(), then the work objects and the io_services are
\* destroyed.  It runs on the thread that owns the pool, after start() returned;
\* whoever calls stop() from another thread has to be done with the call by then.
DestroyPool ==
    /\ main = "returned"
    /\ stopping = NotStopping
    /\ main' = "destroyed"
    /\ stopped' = Services
    /\ work_' = {}
    /\ UNCHANGED <<next_io_service_, thread, stopping>>

StopWasCalled == stopping # NotStopping \/ stopped # {}
=============================================================================
