----------------------------- MODULE OneShotService -----------------------------
(***************************************************************************)
(* What the server promises its clients, without threads, handlers, sockets *)
(* or objects: first come, first served; a session that was served gets at  *)
(* most one response, only after the client sent something, and is over     *)
(* with it; a session may also end without a response.                      *)
(***************************************************************************)
EXTENDS Naturals, Sequences

CONSTANT Client

VARIABLES
    session,  \* session[k]: "none", "waiting", "served", "answering", "over"
    heard,    \* the clients that have sent something in this session
    answers,  \* answers[k]: responses sent to k in this session
    queue     \* the clients that wait, in the order they came

vars == <<session, heard, answers, queue>>

Init ==
    /\ session = [k \in Client |-> "none"]
    /\ heard = {}
    /\ answers = [k \in Client |-> 0]
    /\ queue = <<>>

Arrive(k) ==
    /\ session[k] = "none"
    /\ session' = [session EXCEPT ![k] = "waiting"]
    /\ queue' = Append(queue, k)
    /\ UNCHANGED <<heard, answers>>

Ask(k) ==
    /\ session[k] \in {"waiting", "served", "answering"}
    /\ heard' = heard \cup {k}
    /\ UNCHANGED <<session, answers, queue>>

Serve ==
    /\ queue # <<>>
    /\ session' = [session EXCEPT ![Head(queue)] = "served"]
    /\ queue' = Tail(queue)
    /\ UNCHANGED <<heard, answers>>

Answer(k) ==
    /\ session[k] = "served"
    /\ k \in heard
    /\ session' = [session EXCEPT ![k] = "answering"]
    /\ UNCHANGED <<heard, answers, queue>>

\* The response is sent, and the session is over with it.
Complete(k) ==
    /\ session[k] = "answering"
    /\ session' = [session EXCEPT ![k] = "over"]
    /\ answers' = [answers EXCEPT ![k] = @ + 1]
    /\ UNCHANGED <<heard, queue>>

\* The session is over without a response: the client left.
GiveUp(k) ==
    /\ session[k] \in {"served", "answering"}
    /\ session' = [session EXCEPT ![k] = "over"]
    /\ UNCHANGED <<heard, answers, queue>>

Leave(k) ==
    /\ session[k] = "over"
    /\ session' = [session EXCEPT ![k] = "none"]
    /\ heard' = heard \ {k}
    /\ answers' = [answers EXCEPT ![k] = 0]
    /\ UNCHANGED queue

\* The server is destroyed: every session that had begun is over.
ShutDown ==
    /\ session' = [k \in Client |-> IF session[k] = "none" THEN "none" ELSE "over"]
    /\ queue' = <<>>
    /\ UNCHANGED <<heard, answers>>

Next ==
    \/ Serve
    \/ ShutDown
    \/ \E k \in Client :
        Arrive(k) \/ Ask(k) \/ Answer(k) \/ Complete(k) \/ GiveUp(k) \/ Leave(k)

Spec == Init /\ [][Next]_vars

\* What follows for a client: never a second response in a session, and never
\* one it did not ask for.
AtMostOneAnswer ==
    \A k \in Client : answers[k] <= 1 /\ (answers[k] = 1 => k \in heard /\ session[k] = "over")
=============================================================================
