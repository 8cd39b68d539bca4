--------------------------- MODULE PoolRotationProofs ---------------------------
(***************************************************************************)
(* Theorems about PoolRotation, for every number of io_services and every   *)
(* number of calls.                                                         *)
(***************************************************************************)
EXTENDS PoolRotation, TLAPS

\* get_io_service() stays within the pool and moves one place on, or from the
\* last io_service back to the first (io_service_pool.hpp:68-71).
LEMMA FollowingInPool ==
    ASSUME NEW i \in Services
    PROVE  /\ Following(i) \in Services
           /\ Following(i) = i + 1 \/ (i = PoolSize - 1 /\ Following(i) = 0)
  BY PoolSizeAssumption DEF Following, Services

\* Every variable of the pool keeps its type.
THEOREM TypeCorrect == Spec => []TypeOK
<1>1. Init => TypeOK
  BY PoolSizeAssumption
  DEF Init, PoolInit, GivenWork, TypeOK, PoolTypeOK, Services, ThreadState, MainState, NotStopping
<1>2. TypeOK /\ [Next]_vars => TypeOK'
  <2> SUFFICES ASSUME TypeOK, [Next]_vars PROVE TypeOK'
    OBVIOUS
  <2> USE PoolSizeAssumption DEF TypeOK, PoolTypeOK
  <2>1. CASE get_io_service
    BY <2>1, FollowingInPool DEF get_io_service, TakeService
  <2>2. CASE Start
    BY <2>2 DEF Start, BeginStart, MainState
  <2>3. ASSUME NEW i \in Services, PoolThread(i) PROVE TypeOK'
    <3>1. CASE Spawn(i)
      BY <2>3, <3>1 DEF PoolThread, Spawn, ThreadState, MainState
    <3>2. CASE RunReturns(i, FALSE)
      BY <2>3, <3>2 DEF PoolThread, RunReturns, MayReturn, ThreadState
    <3> QED BY <2>3, <3>1, <3>2 DEF PoolThread
  <2>4. CASE Lifecycle
    <3>1. CASE StartReturns
      BY <2>4, <3>1 DEF Lifecycle, StartReturns, MainState
    <3>2. CASE StopCalled
      BY <2>4, <3>2 DEF Lifecycle, StopCalled, Services
    <3>3. CASE StopNext
      BY <2>4, <3>3 DEF Lifecycle, StopNext, AfterStopping, Services, NotStopping
    <3>4. CASE DestroyPool
      BY <2>4, <3>4 DEF Lifecycle, DestroyPool, MainState
    <3> QED BY <2>4, <3>1, <3>2, <3>3, <3>4 DEF Lifecycle
  <2>5. CASE UNCHANGED vars
    BY <2>5 DEF vars, poolVars
  <2> QED BY <2>1, <2>2, <2>3, <2>4, <2>5 DEF Next, Terminated
<1> QED BY <1>1, <1>2, PTL DEF Spec

-----------------------------------------------------------------------------
(* Even distribution. *)

\* The history only changes when an io_service is handed out.
LEMMA OnlyHandingCounts ==
    ASSUME Next, ~get_io_service
    PROVE  UNCHANGED <<handed, next_io_service_>>
  BY DEF Next, Start, PoolThread, Spawn, RunReturns, MayReturn, Lifecycle, StartReturns,
         StopCalled, StopNext, AfterStopping, DestroyPool, Terminated, vars, poolVars

\* After any number of calls the io_services before next_io_service_ have been handed
\* out exactly once more than the others (io_service_pool.hpp:64-73).
THEOREM RoundInvariant == Spec => []Round
<1>1. Init => Round
  <2> SUFFICES ASSUME Init PROVE Round
    OBVIOUS
  <2>1. \A i \in Services : handed[i] = IF i < next_io_service_ THEN 0 + 1 ELSE 0
    BY PoolSizeAssumption DEF Init, PoolInit, GivenWork, Services
  <2> QED BY <2>1 DEF Round
<1>2. TypeOK /\ Round /\ [Next]_vars => Round'
  <2> SUFFICES ASSUME TypeOK, Round, [Next]_vars PROVE Round'
    OBVIOUS
  <2>1. PICK q \in Nat : \A i \in Services :
            handed[i] = IF i < next_io_service_ THEN q + 1 ELSE q
    BY DEF Round
  <2>2. CASE get_io_service
    <3> DEFINE n == next_io_service_
    <3>1. /\ n \in Services
          /\ handed \in [Services -> Nat]
          /\ handed' = [handed EXCEPT ![n] = @ + 1]
          /\ next_io_service_' = Following(n)
      BY <2>2 DEF get_io_service, TakeService, TypeOK, PoolTypeOK
    <3>2. CASE Following(n) = n + 1
      <4>1. \A i \in Services :
              handed'[i] = IF i < next_io_service_' THEN q + 1 ELSE q
        BY <2>1, <3>1, <3>2, PoolSizeAssumption DEF Services
      <4> QED BY <4>1 DEF Round
    \* The last io_service: a round is complete.
    <3>3. CASE n = PoolSize - 1 /\ Following(n) = 0
      <4>1. \A i \in Services :
              handed'[i] = IF i < next_io_service_' THEN (q + 1) + 1 ELSE q + 1
        BY <2>1, <3>1, <3>3, PoolSizeAssumption DEF Services
      <4>2. q + 1 \in Nat
        OBVIOUS
      <4> QED BY <4>1, <4>2 DEF Round
    <3> QED BY <3>1, <3>2, <3>3, FollowingInPool
  <2>3. CASE ~get_io_service
    <3>1. UNCHANGED <<handed, next_io_service_>>
      BY <2>3, OnlyHandingCounts DEF vars, poolVars
    <3> QED BY <2>1, <3>1 DEF Round
  <2> QED BY <2>2, <2>3
<1> QED BY <1>1, <1>2, TypeCorrect, PTL DEF Spec

\* However many connections the server makes and however many threads it has, no
\* thread is given two more than another.
THEOREM EvenDistribution == Spec => []Balanced
<1>1. Round => Balanced
  <2> SUFFICES ASSUME Round, NEW i \in Services, NEW j \in Services
               PROVE  handed[i] - handed[j] <= 1
    BY DEF Balanced
  <2>1. PICK q \in Nat : \A k \in Services :
            handed[k] = IF k < next_io_service_ THEN q + 1 ELSE q
    BY DEF Round
  <2> QED BY <2>1
<1> QED BY <1>1, RoundInvariant, PTL

-----------------------------------------------------------------------------
(* No thread leaves run() before stop(). *)

\* Until the pool is destroyed every io_service has its work object; when start()
\* has returned every thread has exited.
WorkIInv ==
    /\ main # "destroyed" => work_ = Services
    /\ \A i \in Services : thread[i] = "exited" => i \in stopped
    /\ main = "returned" => AllJoined
    /\ main = "destroyed" => stopped = Services

\* Threads run until they are explicitly stopped, whatever the size of the pool.
THEOREM RunsUntilStopped == Spec => []WorkKeepsRunning
<1>1. Init => WorkIInv
  BY DEF Init, PoolInit, GivenWork, WorkIInv
<1>2. TypeOK /\ WorkIInv /\ [Next]_vars => WorkIInv'
  <2> SUFFICES ASSUME TypeOK, WorkIInv, [Next]_vars PROVE WorkIInv'
    OBVIOUS
  <2> USE DEF TypeOK, PoolTypeOK, WorkIInv, AllJoined
  <2>1. CASE get_io_service
    BY <2>1 DEF get_io_service
  <2>2. CASE Start
    BY <2>2 DEF Start, BeginStart
  <2>3. ASSUME NEW i \in Services, PoolThread(i) PROVE WorkIInv'
    <3>1. CASE Spawn(i)
      BY <2>3, <3>1 DEF PoolThread, Spawn
    <3>2. CASE RunReturns(i, FALSE)
      <4>1. main # "destroyed" => i \in stopped
        BY <3>2 DEF RunReturns, MayReturn
      <4> QED BY <2>3, <3>2, <4>1 DEF PoolThread, RunReturns, MayReturn
    <3> QED BY <2>3, <3>1, <3>2 DEF PoolThread
  <2>4. CASE Lifecycle
    <3>1. CASE StartReturns
      BY <2>4, <3>1 DEF Lifecycle, StartReturns
    <3>2. CASE StopCalled
      BY <2>4, <3>2 DEF Lifecycle, StopCalled
    <3>3. CASE StopNext
      BY <2>4, <3>3 DEF Lifecycle, StopNext, AfterStopping
    <3>4. CASE DestroyPool
      BY <2>4, <3>4 DEF Lifecycle, DestroyPool
    <3> QED BY <2>4, <3>1, <3>2, <3>3, <3>4 DEF Lifecycle
  <2>5. CASE UNCHANGED vars
    BY <2>5 DEF vars, poolVars
  <2> QED BY <2>1, <2>2, <2>3, <2>4, <2>5 DEF Next, Terminated
<1>3. TypeOK /\ WorkIInv => WorkKeepsRunning
  BY DEF TypeOK, PoolTypeOK, WorkIInv, WorkKeepsRunning, AllJoined
<1> QED BY <1>1, <1>2, <1>3, TypeCorrect, PTL DEF Spec
=============================================================================
