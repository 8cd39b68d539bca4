------------------------------ MODULE PoolRotation ------------------------------
(***************************************************************************)
(* The io_service_pool with nothing but callers of get_io_service(), and a  *)
(* history of what they were given: how evenly the pool spreads the         *)
(* connections over its threads, and what its threads and its stop() do.    *)
(***************************************************************************)
EXTENDS IoServicePool

CONSTANT MaxHanded   \* bound: at most this many calls of get_io_service()

ASSUME MaxHandedAssumption == MaxHanded \in Nat

VARIABLES
    handed,  \* history: handed[i] counts the calls that returned io_service i
    calls    \* history: the number of calls

vars == <<poolVars, handed, calls>>

TypeOK ==
    /\ PoolTypeOK
    /\ handed \in [Services -> Nat]
    /\ calls \in Nat

Init ==
    /\ PoolInit(0)
    /\ handed = [i \in Services |-> 0]
    /\ calls = 0

\* get_io_service() returns io_service next_io_service_.
get_io_service ==
    /\ calls < MaxHanded
    /\ main # "destroyed"
    /\ handed' = [handed EXCEPT ![next_io_service_] = @ + 1]
    /\ calls' = calls + 1
    /\ TakeService
    /\ UNCHANGED <<work_, stopped, thread, main, stopping>>

Start ==
    /\ BeginStart
    /\ UNCHANGED <<next_io_service_, work_, stopped, thread, stopping, handed, calls>>

PoolThread(i) ==
    /\ Spawn(i) \/ RunReturns(i, FALSE)
    /\ UNCHANGED <<handed, calls>>

Lifecycle ==
    /\ StartReturns \/ StopCalled \/ StopNext \/ DestroyPool
    /\ UNCHANGED <<handed, calls>>

Terminated ==
    /\ main = "destroyed"
    /\ UNCHANGED vars

Next ==
    \/ get_io_service
    \/ Start
    \/ \E i \in Services : PoolThread(i)
    \/ Lifecycle
    \/ Terminated

Spec == Init /\ [][Next]_vars

\* Every thread that can take a step takes one, and a call of stop() that began
\* runs to its end; nobody has to call stop(), start() or the destructor.
Fairness ==
    /\ \A i \in Services : WF_vars(PoolThread(i))
    /\ WF_vars(StopNext /\ UNCHANGED <<handed, calls>>)
    /\ WF_vars(StartReturns /\ UNCHANGED <<handed, calls>>)

FairSpec == Spec /\ Fairness

-----------------------------------------------------------------------------
(* Properties. *)

\* No io_service ever gets two connections more than another one: the
\* round-robin of get_io_service() (io_service_pool.hpp:64-73) spreads any
\* number of calls evenly, whatever the size of the pool.
Balanced == \A i, j \in Services : handed[i] - handed[j] <= 1

\* The inductive form of Balanced: after q full rounds exactly the io_services
\* before next_io_service_ have been handed out once more.
Round ==
    \E q \in Nat : \A i \in Services :
        handed[i] = IF i < next_io_service_ THEN q + 1 ELSE q

\* The io_services run "until they are explicitly stopped" (comment at
\* io_service_pool.hpp:22-23): an idle thread never leaves run(), so start()
\* returns only after stop() has reached every io_service.
WorkKeepsRunning ==
    /\ \A i \in Services : thread[i] = "exited" => i \in stopped
    /\ main \in {"returned", "destroyed"} => stopped = Services

\* stop() is never lost, even when it is called before start() has created all
\* the threads or any of them: start() returns.
StopEndsStart ==
    (stopped # {} /\ main \in {"spawning", "joining"}) ~> main \in {"returned", "destroyed"}
=============================================================================
