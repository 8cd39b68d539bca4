---------------------------- MODULE ServerRefinement ----------------------------
(***************************************************************************)
(* Server implements OneShotService.                                        *)
(***************************************************************************)
EXTENDS Server

\* What a client's session is, told from the server's sockets and the backlog.
ReadFrom == {peer[c] : c \in reading}
WrittenTo == {peer[c] : c \in writing}

sessionOf(k) ==
    IF link[k] = "away" THEN "none"
    ELSE IF k \in Waiting THEN "waiting"
    ELSE IF k \in ReadFrom THEN "served"
    ELSE IF k \in WrittenTo THEN "answering"
    ELSE "over"

sessions == [k \in Client |-> sessionOf(k)]

Service == INSTANCE OneShotService WITH
    session <- sessions,
    heard <- asked,
    answers <- replies,
    queue <- backlog

\* Every step of the server, its threads and its clients is a step of
\* OneShotService or none: whatever the interleaving, however often slots,
\* descriptors and clients are used again and whenever stop() comes, a client is
\* accepted in its turn, is answered at most once in a session and only after it
\* sent something, never gets the response of another, and is closed with it
\* (server.cpp:4-20, connection.cpp:6-91).
ImplementsOneShotService == Service!Spec

\* No client is ever sent a second response, nor one before it sent anything.
AtMostOneResponse == Service!AtMostOneAnswer
=============================================================================
