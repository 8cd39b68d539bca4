-------------------------------- MODULE MCServer --------------------------------
(* For the safety runs of Server, symmetry: connection slots are              *)
(* interchangeable, and so are clients.  For the liveness run, where symmetry *)
(* is not sound, the allocator always returns the same free slot for the same *)
(* live objects: slots carry no state of their own, so what a fair behaviour   *)
(* does is the same up to the names of the slots.                             *)
EXTENDS ServerRefinement, TLC

ConnsAndClients == Permutations(Conn) \cup Permutations(Client)

FirstSlot == conn_' \in {conn_, NoConn, CHOOSE c \in Conn \ Live : TRUE}

LivenessSpec == Init /\ [][Next /\ FirstSlot]_vars /\ Fairness
=============================================================================
