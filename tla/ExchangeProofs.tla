----------------------------- MODULE ExchangeProofs -----------------------------
(***************************************************************************)
(* Theorems about Exchange, for every number of clients and every size of   *)
(* the buffer and of the bodies.                                            *)
(***************************************************************************)
EXTENDS Exchange, RecursionLemmas, SequenceTheorems

-----------------------------------------------------------------------------
(* The clients. *)

\* A client waits in one place.
BacklogDistinct == \A i, j \in DOMAIN backlog : backlog[i] = backlog[j] => i = j

\* Connecting appends a client that is not yet in the queue.
LEMMA AppendDistinct ==
    ASSUME backlog \in Seq(Client), BacklogDistinct, NEW k \in Client, k \notin Waiting,
           backlog' = Append(backlog, k)
    PROVE  Waiting' = Waiting \cup {k} /\ BacklogDistinct'
  BY AppendedOnce DEF Waiting, BacklogDistinct, Members, NothingTwice

\* Accepting takes the first client out of the queue, for good.
LEMMA TailDistinct ==
    ASSUME backlog \in Seq(Client), backlog # <<>>, BacklogDistinct, backlog' = Tail(backlog)
    PROVE  /\ Waiting' = Waiting \ {Head(backlog)} /\ Head(backlog) \in Waiting
           /\ BacklogDistinct'
  BY TakenOnce DEF Waiting, BacklogDistinct, Members, NothingTwice

\* The clients keep the types of their connections.
LEMMA ClientMoveTypes ==
    ASSUME TcpTypeOK, NEW k \in Client,
           Connect(k) \/ Send(k) \/ Finish(k) \/ Abort(k) \/ Forget(k)
    PROVE  TcpTypeOK'
  <1> USE MaxInboxAssumption DEF TcpTypeOK, LinkState
  <1>1. CASE Connect(k) BY <1>1 DEF Connect
  <1>2. CASE Send(k) BY <1>2 DEF Send
  <1>3. CASE Finish(k) BY <1>3 DEF Finish
  <1>4. CASE Abort(k)
    <2>1. PICK left \in {0, inbox[k]} : inbox' = [inbox EXCEPT ![k] = left]
      BY <1>4 DEF Abort
    <2> QED BY <1>4, <2>1 DEF Abort
  <1>5. CASE Forget(k) BY <1>5 DEF Forget
  <1> QED BY <1>1, <1>2, <1>3, <1>4, <1>5

-----------------------------------------------------------------------------
(* The inductive invariant. *)

\* A body that is read has units left to read.
BodyHasRoom ==
    \A k \in Client :
        ops[k] # <<>> /\ Head(ops[k]).type = "body" => Head(ops[k]).got < Wanted(Head(ops[k]))

\* A client has a connection exactly while it is not away, and waits before it has a socket.
Placed ==
    /\ BacklogDistinct
    /\ \A k \in Client :
        /\ k \in Waiting => sock[k] = "none"
        /\ sock[k] = "none" /\ k \notin Waiting <=> link[k] = "away"

\* What was received was asked, and only an answered client's socket is shut down.
Heard ==
    \A k \in Client : inbox[k] > 0 \/ sock[k] = "shut" => k \in asked

\* A write is outstanding for a client that asked.
AnswersAsked ==
    \A k \in Client :
        ops[k] # <<>> /\ Head(ops[k]).type \in {"canned", "response"} => k \in asked

IInv == TypeOK /\ OneOperation /\ BodyHasRoom /\ Placed /\ Heard /\ AnswersAsked

-----------------------------------------------------------------------------
(* What the handlers do, apart from what they read. *)

\* The outcome of a handler: the operation that follows it, and the socket.
Goes(k, more, s) ==
    /\ ops' = [ops EXCEPT ![k] = more]
    /\ sock' = [sock EXCEPT ![k] = s]
    /\ UNCHANGED <<up, backlog>>

\* A handler of k's operation has started one operation, on the socket as it was; a body
\* it goes on to read has units left.
Continues(k) ==
    \E o \in Operation :
        /\ Goes(k, <<o>>, sock[k])
        /\ o.type = "body" => o.got < Wanted(o)

\* The sizes are positive numbers.
LEMMA Sizes ==
    /\ ReadBuf \in Nat /\ ReadBuf > 0 /\ MaxBody \in Nat /\ MaxBody > 0
    /\ MaxInbox \in Nat /\ MaxInbox > 0
  BY SizesAssumption, MaxInboxAssumption

\* A sequence of one.
LEMMA Single ==
    ASSUME NEW S, NEW s \in Seq(S), Len(s) = 1 PROVE Tail(s) = <<>> /\ Head(s) \in S
  <1>1. s # <<>>
    BY EmptySeq
  <1>2. Head(s) \in S /\ Tail(s) \in Seq(S) /\ Len(Tail(s)) = 0
    BY <1>1, HeadTailProperties
  <1> QED BY <1>2, EmptySeq

\* The operation whose handler runs is the only one, on a socket that is not closed.
LEMMA TheOperation ==
    ASSUME TypeOK, OneOperation, NEW k \in Client, ops[k] # <<>>
    PROVE  /\ Tail(ops[k]) = <<>> /\ Head(ops[k]) \in Operation
           /\ sock[k] \in {"open", "shut"}
  <1>1. ops[k] \in Seq(Operation) /\ Len(ops[k]) # 0
    BY DEF TypeOK
  <1>2. sock[k] \in {"open", "shut"} /\ Len(ops[k]) = 1
    BY <1>1 DEF OneOperation
  <1> QED BY <1>1, <1>2, Single

\* What a handler leaves: its operations are those it started.
LEMMA HandledGoes ==
    ASSUME TypeOK, OneOperation, NEW k \in Client, ops[k] # <<>>, NEW s,
           NEW more \in Seq(Operation), Handled(k, more, s)
    PROVE  Goes(k, more, IF more = <<>> THEN "closed" ELSE s)
  <1>1. Tail(ops[k]) \o more = more
    BY TheOperation, ConcatEmptySeq
  <1> QED BY <1>1 DEF Handled, Goes

\* The operations there are.
LEMMA Operations ==
    /\ ReadHead \in Operation /\ ReadHead.type = "head"
    /\ Op("canned", TRUE, 0) \in Operation /\ Op("canned", TRUE, 0).type = "canned"
    /\ \A b \in BOOLEAN :
        /\ Op("response", b, 0) \in Operation /\ Op("response", b, 0).type = "response"
        /\ \A len \in 1 .. MaxBody :
            /\ Op("body", b, len) \in Operation /\ Op("body", b, len).type = "body"
            /\ Op("body", b, len).got = 0 /\ Wanted(Op("body", b, len)) > 0
  BY Sizes DEF Op, ReadHead, Operation, Wanted, Least

\* A call of response() starts a write or nothing.
LEMMA Responses ==
    ASSUME NEW need_close \in BOOLEAN, NEW call \in response(need_close)
    PROVE  \/ ~call.throws /\ call.started = <<Op("response", need_close, 0)>>
           \/ call.throws /\ call.started = <<>>
  BY DEF response, send_response

\* Whether a connection is to be closed is decided for every request.
LEMMA Requested ==
    ASSUME NEW request \in Requests PROVE need_close_conneciton(request) \in BOOLEAN
  BY DEF need_close_conneciton

\* One operation goes on.
LEMMA GoesOn ==
    ASSUME TypeOK, OneOperation, NEW k \in Client, ops[k] # <<>>,
           NEW o \in Operation, Handled(k, <<o>>, sock[k]), o.type = "body" => o.got < Wanted(o)
    PROVE  Continues(k)
  <1>1. <<o>> \in Seq(Operation) /\ <<o>> # <<>>
    OBVIOUS
  <1> QED BY <1>1, HandledGoes DEF Continues

\* The end: nothing is started.
LEMMA Ends ==
    ASSUME TypeOK, OneOperation, NEW k \in Client, ops[k] # <<>>, NEW s, Handled(k, <<>>, s)
    PROVE  Goes(k, <<>>, "closed")
  <1>1. <<>> \in Seq(Operation)
    OBVIOUS
  <1> QED BY <1>1, HandledGoes

\* The handler of read_head.
LEMMA HeadEffect ==
    ASSUME TypeOK, OneOperation, NEW k \in Client, HeadCompletes(k)
    PROVE  /\ ops[k] # <<>> /\ sock[k] \in {"open", "shut"}
           /\ Head(ops[k]).type = "head"
           /\ \/ Goes(k, <<>>, "closed")
              \/ (Continues(k) \/ Terminate) /\ inbox[k] > 0
  <1> DEFINE n == Least(inbox[k], ReadBuf)
  <1>1. ops[k] # <<>> /\ Head(ops[k]).type = "head"
    BY DEF HeadCompletes, Runs
  <1>2. sock[k] \in {"open", "shut"}
    BY <1>1, TheOperation
  <1>3. n # 0 => inbox[k] > 0
    BY Sizes DEF TypeOK, TcpTypeOK, Least
  <1>4. CASE n = 0
    BY <1>1, <1>2, <1>4, Ends DEF HeadCompletes, ReadFails
  <1>5. CASE Handled(k, <<Op("canned", TRUE, 0)>>, sock[k]) /\ n # 0
    BY <1>1, <1>2, <1>3, <1>5, GoesOn, Operations
  <1>6. ASSUME n # 0, NEW request \in Requests, HandOver(k, request)
        PROVE  Continues(k) \/ Terminate
    <2> DEFINE b == need_close_conneciton(request)
    <2>1. b \in BOOLEAN /\ request.body_len \in 0 .. MaxBody
      BY Requested DEF Requests
    <2> HIDE DEF b
    <2>2. CASE request.body_len > 0
      <3>1. Handled(k, <<Op("body", b, request.body_len)>>, sock[k])
        BY <1>6, <2>2 DEF HandOver, b
      <3>2. request.body_len \in 1 .. MaxBody
        BY <2>1, <2>2
      <3> QED BY <1>1, <2>1, <3>1, <3>2, GoesOn, Operations
    <2>3. CASE ~(request.body_len > 0)
      <3>1. PICK call \in response(b) :
              IF call.throws THEN Terminate ELSE Handled(k, call.started, sock[k])
        BY <1>6, <2>3 DEF HandOver, b
      <3>2. CASE ~call.throws /\ call.started = <<Op("response", b, 0)>>
        BY <1>1, <2>1, <3>1, <3>2, GoesOn, Operations
      <3> QED BY <2>1, <3>1, <3>2, Responses
    <2> QED BY <2>2, <2>3
  <1> QED BY <1>1, <1>2, <1>3, <1>4, <1>5, <1>6 DEF HeadCompletes

\* The handler of read_body.
LEMMA BodyEffect ==
    ASSUME TypeOK, OneOperation, BodyHasRoom, NEW k \in Client, BodyCompletes(k)
    PROVE  /\ ops[k] # <<>> /\ sock[k] \in {"open", "shut"}
           /\ Head(ops[k]).type = "body"
           /\ \/ Goes(k, <<>>, "closed")
              \/ (Continues(k) \/ Terminate) /\ inbox[k] > 0
           /\ \E n \in 0 .. inbox[k] : inbox' = [inbox EXCEPT ![k] = @ - n]
  <1> DEFINE op == Head(ops[k])
             n == Least(inbox[k], Wanted(op) - op.got)
  <1>1. ops[k] # <<>> /\ op.type = "body"
    BY DEF BodyCompletes, Runs
  <1>2. sock[k] \in {"open", "shut"} /\ op \in Operation
    BY <1>1, TheOperation
  <1>3. op.got < Wanted(op) /\ op.got \in Nat /\ Wanted(op) \in Nat /\ Wanted(op) <= ReadBuf
    BY <1>1, <1>2, Sizes DEF BodyHasRoom, Operation, Wanted, Least
  <1>4. n \in 0 .. inbox[k] /\ (n # 0 => inbox[k] > 0)
    BY <1>3 DEF TypeOK, TcpTypeOK, Least
  <1>5. inbox' = [inbox EXCEPT ![k] = @ - n]
    BY DEF BodyCompletes
  <1>6. CASE n = 0
    BY <1>1, <1>2, <1>4, <1>5, <1>6, Ends DEF BodyCompletes, ReadFails
  <1>7. CASE n # 0 /\ op.got + n < Wanted(op)
    <2> DEFINE o == [op EXCEPT !.got = @ + n]
    <2>1. Handled(k, <<o>>, sock[k])
      BY <1>7 DEF BodyCompletes
    <2>2. o \in Operation
      <3>1. n \in Nat
        BY <1>4
      <3> HIDE DEF n
      <3>2. op.got + n \in 0 .. ReadBuf - 1
        BY <1>3, <1>7, <3>1, Sizes
      <3> QED BY <1>2, <3>2 DEF Operation
    <2>3. o.got = op.got + n /\ Wanted(o) = Wanted(op)
      BY <1>2 DEF Operation, Wanted
    <2> HIDE DEF o, n, op
    <2>4. Continues(k)
      BY <1>1, <1>7, <2>1, <2>2, <2>3, GoesOn DEF n, op
    <2> QED BY <1>1, <1>2, <1>4, <1>5, <1>7, <2>4 DEF op
  <1>8. CASE n # 0 /\ ~(op.got + n < Wanted(op))
    <2>1. op.need_close \in BOOLEAN
      BY <1>2 DEF Operation
    <2>2. Respond(k, op.need_close)
      BY <1>8 DEF BodyCompletes
    <2>3. PICK first \in response(op.need_close), second \in response(op.need_close) :
            IF ~first.throws THEN Handled(k, first.started, sock[k])
            ELSE IF ~second.throws THEN Handled(k, first.started \o second.started, sock[k])
            ELSE Terminate
      BY <2>2 DEF Respond
    <2>4. /\ ~first.throws => first.started = <<Op("response", op.need_close, 0)>>
          /\ first.throws /\ ~second.throws =>
                first.started \o second.started = <<Op("response", op.need_close, 0)>>
      <3>1. first.throws => first.started = <<>>
        BY <2>1, Responses
      <3>2. ~second.throws => second.started = <<Op("response", op.need_close, 0)>>
        BY <2>1, Responses
      <3>3. <<Op("response", op.need_close, 0)>> \in Seq(Operation)
        BY <2>1, Operations
      <3> QED BY <2>1, <3>1, <3>2, <3>3, Responses, ConcatEmptySeq
    <2>5. Terminate \/ Handled(k, <<Op("response", op.need_close, 0)>>, sock[k])
      BY <2>3, <2>4
    <2>6. Continues(k) \/ Terminate
      BY <1>1, <2>1, <2>5, GoesOn, Operations
    <2> QED BY <1>1, <1>2, <1>4, <1>5, <1>8, <2>6
  <1> QED BY <1>6, <1>7, <1>8

\* The handlers of the two writes.
LEMMA WriteEffect ==
    ASSUME TypeOK, OneOperation, NEW k \in Client, CannedWritten(k) \/ ResponseWritten(k)
    PROVE  /\ ops[k] # <<>> /\ sock[k] \in {"open", "shut"}
           /\ Head(ops[k]).type \in {"canned", "response"}
           /\ Goes(k, <<>>, "closed") \/ Goes(k, <<ReadHead>>, "shut")
           /\ UNCHANGED <<link, inbox, asked>>
           /\ \/ replies' = replies
              \/ sock[k] = "open" /\ replies' = [replies EXCEPT ![k] = @ + 1]
  <1>1. ops[k] # <<>> /\ Head(ops[k]).type \in {"canned", "response"}
    BY DEF CannedWritten, ResponseWritten, Runs
  <1>2. sock[k] \in {"open", "shut"}
    BY <1>1, TheOperation
  <1>3. \/ Handled(k, <<>>, "closed")
        \/ Handled(k, <<ReadHead>>, "shut")
    BY DEF CannedWritten, ResponseWritten, ShutDown
  <1>4. <<ReadHead>> \in Seq(Operation) /\ <<ReadHead>> # <<>>
    BY Operations
  <1>5. Goes(k, <<>>, "closed") \/ Goes(k, <<ReadHead>>, "shut")
    BY <1>1, <1>3, <1>4, Ends, HandledGoes
  <1>6. \/ replies' = replies
        \/ sock[k] = "open" /\ replies' = [replies EXCEPT ![k] = @ + 1]
    BY DEF CannedWritten, ResponseWritten, Replied
  <1> QED BY <1>1, <1>2, <1>5, <1>6 DEF CannedWritten, ResponseWritten
-----------------------------------------------------------------------------
(* The invariant is inductive. *)

\* Every handler of k's operation goes on with one operation, ends, or ends the process.
LEMMA HandlerOutcome ==
    ASSUME IInv, NEW k \in Client, Handler(k)
    PROVE  /\ ops[k] # <<>> /\ sock[k] \in {"open", "shut"}
           /\ \/ Goes(k, <<>>, "closed")
              \/ Goes(k, <<ReadHead>>, "shut") /\ k \in asked
              \/ Continues(k) /\ k \in asked
              \/ Terminate
           /\ UNCHANGED <<link, asked>>
           /\ replies' = replies \/ replies' = [replies EXCEPT ![k] = @ + 1]
           /\ \E n \in 0 .. inbox[k] : inbox' = [inbox EXCEPT ![k] = @ - n]
  <1> USE DEF IInv
  <1>1. inbox \in [Client -> 0 .. MaxInbox]
    BY DEF TypeOK, TcpTypeOK
  <1>2. CASE HeadCompletes(k)
    <2>1. /\ Least(inbox[k], ReadBuf) \in 0 .. inbox[k]
          /\ inbox' = [inbox EXCEPT ![k] = @ - Least(inbox[k], ReadBuf)]
          /\ UNCHANGED <<link, asked, replies>>
      BY <1>1, <1>2, Sizes DEF HeadCompletes, Least
    <2> QED BY <1>2, <2>1, HeadEffect DEF Heard
  <1>3. CASE BodyCompletes(k)
    <2>1. UNCHANGED <<link, asked, replies>>
      BY <1>3 DEF BodyCompletes
    <2> QED BY <1>3, <2>1, BodyEffect DEF Heard
  <1>4. CASE CannedWritten(k) \/ ResponseWritten(k)
    <2>1. 0 \in 0 .. inbox[k] /\ inbox = [inbox EXCEPT ![k] = @ - 0]
      BY <1>1, Sizes
    <2>2. /\ ops[k] # <<>> /\ sock[k] \in {"open", "shut"}
          /\ Goes(k, <<>>, "closed") \/ Goes(k, <<ReadHead>>, "shut")
          /\ Head(ops[k]).type \in {"canned", "response"}
          /\ UNCHANGED <<link, inbox, asked>>
          /\ replies' = replies \/ replies' = [replies EXCEPT ![k] = @ + 1]
      BY <1>4, WriteEffect
    <2>3. k \in asked
      BY <2>2 DEF AnswersAsked
    <2> QED BY <2>1, <2>2, <2>3
  <1> QED BY <1>2, <1>3, <1>4 DEF Handler

\* What holds of one operation on a socket that is not closed.
LEMMA GoesKeeps ==
    ASSUME IInv, NEW k \in Client, NEW more, NEW s \in SockState, Goes(k, more, s),
           \/ more = <<>> /\ s = "closed"
           \/ \E o \in Operation : /\ more = <<o>> /\ s \in {"open", "shut"}
                                   /\ o.type = "body" => o.got < Wanted(o),
           UNCHANGED asked, k \in asked \/ more = <<>>
    PROVE  /\ sock' \in [Client -> SockState] /\ ops' \in [Client -> Seq(Operation)]
           /\ up' \in BOOLEAN
           /\ OneOperation' /\ BodyHasRoom' /\ AnswersAsked'
  <1>1. /\ sock \in [Client -> SockState] /\ ops \in [Client -> Seq(Operation)]
        /\ up \in BOOLEAN
    BY DEF IInv, TypeOK
  <1>2. /\ ops' = [ops EXCEPT ![k] = more] /\ sock' = [sock EXCEPT ![k] = s]
        /\ up' = up
    BY DEF Goes
  <1>3. \A o \in Operation : <<o>> \in Seq(Operation) /\ Len(<<o>>) = 1 /\ Head(<<o>>) = o
    OBVIOUS
  <1>4. more \in Seq(Operation) /\ Len(more) = IF s \in {"open", "shut"} THEN 1 ELSE 0
    <2>1. CASE more = <<>> /\ s = "closed"
      BY <2>1, EmptySeq
    <2>2. ASSUME NEW o \in Operation, more = <<o>>, s \in {"open", "shut"}
          PROVE  more \in Seq(Operation) /\ Len(more) = 1
      BY <1>3, <2>2
    <2> QED BY <2>1, <2>2
  <1>5. sock' \in [Client -> SockState] /\ ops' \in [Client -> Seq(Operation)]
    BY <1>1, <1>2, <1>4
  <1>6. /\ ops'[k] = more /\ sock'[k] = s
        /\ \A j \in Client \ {k} : ops'[j] = ops[j] /\ sock'[j] = sock[j]
    BY <1>1, <1>2
  <1>7. OneOperation'
    BY <1>4, <1>6 DEF IInv, OneOperation
  <1>8. more # <<>> /\ Head(more).type = "body" => Head(more).got < Wanted(Head(more))
    BY <1>3
  <1>9. BodyHasRoom'
    <2>1. ASSUME NEW j \in Client, ops'[j] # <<>>, Head(ops'[j]).type = "body"
          PROVE  Head(ops'[j]).got < Wanted(Head(ops'[j]))
      BY <1>6, <1>8, <2>1 DEF IInv, BodyHasRoom
    <2> QED BY <2>1 DEF BodyHasRoom, Wanted
  <1>10. AnswersAsked'
    BY <1>6 DEF IInv, AnswersAsked
  <1> QED BY <1>1, <1>2, <1>5, <1>7, <1>9, <1>10

\* The clients' steps: bytes come with the question, and they come and go in order.
LEMMA ClientKeeps ==
    ASSUME IInv, NEW k \in Client, ClientStep(k) PROVE IInv'
  <1>1. /\ link \in [Client -> LinkState] /\ inbox \in [Client -> 0 .. MaxInbox]
        /\ sock \in [Client -> SockState] /\ ops \in [Client -> Seq(Operation)]
        /\ up \in BOOLEAN /\ TcpTypeOK /\ backlog \in Seq(Client)
    BY DEF IInv, TypeOK, TcpTypeOK
  <1>2. TcpTypeOK' /\ ops' = ops /\ up' = up
    BY <1>1, ClientMoveTypes DEF ClientStep
  <1>3. sock' = sock \/ (sock[k] = "closed" /\ sock' = [sock EXCEPT ![k] = "none"])
    BY Zenon DEF ClientStep
  <1>4. sock' \in [Client -> SockState] /\ OneOperation'
    BY <1>1, <1>2, <1>3 DEF IInv, OneOperation, SockState
  <1>5. TypeOK' /\ BodyHasRoom'
    BY <1>1, <1>2, <1>4 DEF TypeOK, IInv, BodyHasRoom, Wanted
  <1>6. CASE Connect(k) /\ sock' = sock
    <2>1. k \notin Waiting /\ sock[k] = "none"
      BY <1>6 DEF Connect, IInv, Placed
    <2>2. Waiting' = Waiting \cup {k} /\ BacklogDistinct'
      BY <1>1, <1>6, <2>1, AppendDistinct DEF Connect, IInv, Placed
    <2>3. link' = [link EXCEPT ![k] = "open"] /\ UNCHANGED <<inbox, asked>>
      BY <1>6 DEF Connect
    <2>4. Placed'
      BY <1>1, <1>6, <2>1, <2>2, <2>3 DEF IInv, Placed
    <2>5. Heard' /\ AnswersAsked'
      BY <1>2, <1>6, <2>3 DEF IInv, Heard, AnswersAsked
    <2> QED BY <1>4, <1>5, <2>4, <2>5 DEF IInv
  <1>7. CASE (Send(k) \/ Finish(k) \/ Abort(k)) /\ sock' = sock
    <2>1. backlog' = backlog /\ Waiting' = Waiting /\ BacklogDistinct'
      BY <1>7 DEF Send, Finish, Abort, Waiting, IInv, Placed, BacklogDistinct
    <2>2. \A j \in Client : link'[j] = "away" <=> link[j] = "away"
      BY <1>1, <1>7 DEF Send, Finish, Abort
    <2>3. Placed'
      BY <1>7, <2>1, <2>2 DEF IInv, Placed
    <2>4. asked \subseteq asked'
      BY <1>7 DEF Send, Finish, Abort
    <2>5. ASSUME NEW j \in Client, inbox'[j] > 0 PROVE inbox[j] > 0 \/ j \in asked'
      <3>1. CASE Send(k)
        BY <1>1, <2>5, <3>1 DEF Send
      <3>2. CASE Finish(k)
        BY <2>5, <3>2 DEF Finish
      <3>3. CASE Abort(k)
        BY <1>1, <2>5, <3>3 DEF Abort
      <3> QED BY <1>7, <3>1, <3>2, <3>3
    <2>6. Heard' /\ AnswersAsked'
      BY <1>2, <1>7, <2>4, <2>5 DEF IInv, Heard, AnswersAsked
    <2> QED BY <1>4, <1>5, <2>3, <2>6 DEF IInv
  <1>8. CASE Forget(k) /\ sock[k] = "closed" /\ sock' = [sock EXCEPT ![k] = "none"]
    <2>1. /\ backlog' = backlog /\ Waiting' = Waiting /\ BacklogDistinct'
          /\ link' = [link EXCEPT ![k] = "away"] /\ inbox' = [inbox EXCEPT ![k] = 0]
          /\ asked' = asked \ {k}
      BY <1>8 DEF Forget, Waiting, IInv, Placed, BacklogDistinct
    <2>2. k \notin Waiting /\ ops[k] = <<>>
      <3>1. Len(ops[k]) = 0
        BY <1>8 DEF IInv, OneOperation
      <3> QED BY <1>1, <1>8, <3>1, EmptySeq DEF IInv, Placed
    <2>3. Placed'
      BY <1>1, <1>8, <2>1, <2>2 DEF IInv, Placed
    <2>4. Heard' /\ AnswersAsked'
      BY <1>1, <1>2, <1>8, <2>1, <2>2 DEF IInv, Heard, AnswersAsked
    <2> QED BY <1>4, <1>5, <2>3, <2>4 DEF IInv
  <1> QED BY <1>6, <1>7, <1>8 DEF ClientStep

\* A connection is accepted and reads.
LEMMA StartKeeps ==
    ASSUME IInv, start PROVE IInv'
  <1> DEFINE k == Head(backlog)
  <1>1. /\ backlog \in Seq(Client) /\ backlog # <<>> /\ backlog' = Tail(backlog)
        /\ sock \in [Client -> SockState] /\ ops \in [Client -> Seq(Operation)]
        /\ BacklogDistinct
    BY DEF start, IInv, TypeOK, TcpTypeOK, Placed
  <1>2. k \in Client /\ backlog' \in Seq(Client)
    BY <1>1, HeadTailProperties
  <1>3. Waiting' = Waiting \ {k} /\ k \in Waiting /\ BacklogDistinct'
    BY <1>1, TailDistinct
  <1>4. /\ sock' = [sock EXCEPT ![k] = "open"] /\ ops' = [ops EXCEPT ![k] = <<ReadHead>>]
        /\ UNCHANGED <<link, inbox, asked, replies, up>>
    BY DEF start
  <1> HIDE DEF k
  <1>5. TypeOK'
    BY <1>1, <1>2, <1>4, Operations DEF IInv, TypeOK, TcpTypeOK, SockState
  <1>6. Len(<<ReadHead>>) = 1 /\ Head(<<ReadHead>>).type = "head"
    BY Operations
  <1>7. OneOperation'
    BY <1>1, <1>4, <1>6 DEF IInv, OneOperation
  <1>8. BodyHasRoom' /\ AnswersAsked'
    BY <1>1, <1>4, <1>6 DEF IInv, BodyHasRoom, AnswersAsked, Wanted
  <1>9. Placed'
    BY <1>1, <1>3, <1>4 DEF IInv, Placed
  <1>10. Heard'
    BY <1>1, <1>3, <1>4 DEF IInv, Heard
  <1> QED BY <1>5, <1>7, <1>8, <1>9, <1>10 DEF IInv

\* The handlers.
LEMMA HandlerKeeps ==
    ASSUME IInv, NEW k \in Client, Handler(k) PROVE IInv'
  <1>1. /\ link \in [Client -> LinkState] /\ inbox \in [Client -> 0 .. MaxInbox]
        /\ replies \in [Client -> Nat] /\ backlog \in Seq(Client)
        /\ sock \in [Client -> SockState] /\ asked \subseteq Client
    BY DEF IInv, TypeOK, TcpTypeOK
  <1>2. /\ ops[k] # <<>> /\ sock[k] \in {"open", "shut"}
        /\ UNCHANGED <<link, asked>>
        /\ replies' = replies \/ replies' = [replies EXCEPT ![k] = @ + 1]
    BY HandlerOutcome
  <1>3. PICK n \in 0 .. inbox[k] : inbox' = [inbox EXCEPT ![k] = @ - n]
    BY HandlerOutcome
  <1>4. inbox' \in [Client -> 0 .. MaxInbox] /\ \A j \in Client : inbox'[j] > 0 => inbox[j] > 0
    BY <1>1, <1>3, Sizes
  <1>5. replies' \in [Client -> Nat]
    <2>1. CASE replies' = replies
      BY <1>1, <2>1
    <2>2. CASE replies' = [replies EXCEPT ![k] = @ + 1]
      <3>1. replies[k] + 1 \in Nat
        BY <1>1
      <3> QED BY <1>1, <2>2, <3>1
    <2> QED BY <1>2, <2>1, <2>2
  <1>6. ASSUME NEW more, NEW s \in {"open", "shut", "closed"}, Goes(k, more, s),
               \/ more = <<>> /\ s = "closed"
               \/ \E o \in Operation : /\ more = <<o>> /\ s \in {"open", "shut"}
                                       /\ o.type = "body" => o.got < Wanted(o),
               k \in asked \/ more = <<>>
        PROVE  IInv'
    <2>1. s \in SockState /\ UNCHANGED <<backlog, asked>>
      BY <1>2, <1>6 DEF SockState, Goes
    <2>2. /\ sock' \in [Client -> SockState] /\ ops' \in [Client -> Seq(Operation)]
          /\ up' \in BOOLEAN /\ OneOperation' /\ BodyHasRoom' /\ AnswersAsked'
      BY <1>6, <2>1, GoesKeeps
    <2>3. TypeOK'
      BY <1>1, <1>2, <1>4, <1>5, <2>1, <2>2 DEF TypeOK, TcpTypeOK
    <2>4. Waiting' = Waiting /\ BacklogDistinct'
      BY <2>1 DEF Waiting, IInv, Placed, BacklogDistinct
    <2>5. sock' = [sock EXCEPT ![k] = s]
      BY <1>6 DEF Goes
    <2>6. Placed'
      BY <1>1, <1>2, <1>6, <2>4, <2>5 DEF IInv, Placed
    <2>7. s = "shut" => k \in asked
      BY <1>6
    <2>8. Heard'
      BY <1>1, <1>2, <1>4, <2>5, <2>7 DEF IInv, Heard
    <2> QED BY <2>2, <2>3, <2>6, <2>8 DEF IInv
  <1>7. CASE Goes(k, <<>>, "closed")
    BY <1>6, <1>7
  <1>8. CASE Goes(k, <<ReadHead>>, "shut") /\ k \in asked
    BY <1>6, <1>8, Operations
  <1>9. CASE Continues(k) /\ k \in asked
    <2>1. PICK o \in Operation : Goes(k, <<o>>, sock[k]) /\ (o.type = "body" => o.got < Wanted(o))
      BY <1>9 DEF Continues
    <2> QED BY <1>2, <1>6, <1>9, <2>1
  <1>10. CASE Terminate
    <2>1. /\ up' = FALSE /\ backlog' = <<>> /\ ops' = [j \in Client |-> <<>>]
          /\ sock' = [j \in Client |->
                IF sock[j] = "none" /\ j \notin Waiting THEN "none" ELSE "closed"]
      BY <1>10 DEF Terminate
    <2>2. <<>> \in Seq(Client) /\ <<>> \in Seq(Operation) /\ Len(<<>>) = 0
      BY EmptySeq
    <2>3. TypeOK'
      BY <1>1, <1>2, <1>4, <1>5, <2>1, <2>2 DEF TypeOK, TcpTypeOK, SockState
    <2>4. Waiting' = {} /\ BacklogDistinct'
      BY <2>1 DEF Waiting, BacklogDistinct
    <2>5. OneOperation' /\ BodyHasRoom' /\ AnswersAsked'
      BY <2>1, <2>2 DEF OneOperation, BodyHasRoom, AnswersAsked
    <2>6. Placed'
      BY <1>2, <2>1, <2>4 DEF IInv, Placed
    <2>7. Heard'
      BY <1>2, <1>4, <2>1 DEF IInv, Heard
    <2> QED BY <2>3, <2>5, <2>6, <2>7 DEF IInv
  <1> QED BY <1>7, <1>8, <1>9, <1>10, HandlerOutcome

-----------------------------------------------------------------------------

\* The invariant holds throughout.
LEMMA Invariance == Spec => []IInv
  <1>1. Init => IInv
    <2> SUFFICES ASSUME Init PROVE IInv
      OBVIOUS
    <2>1. <<>> \in Seq(Client) /\ <<>> \in Seq(Operation) /\ Len(<<>>) = 0
      BY EmptySeq
    <2>2. TypeOK
      BY <2>1, Sizes DEF Init, TcpInit, TypeOK, TcpTypeOK, LinkState, SockState
    <2>3. OneOperation /\ BodyHasRoom /\ AnswersAsked /\ Heard
      BY <2>1 DEF Init, TcpInit, OneOperation, BodyHasRoom, AnswersAsked, Heard
    <2>4. Waiting = {}
      BY DEF Init, TcpInit, Waiting
    <2>5. Placed
      BY <2>4 DEF Init, TcpInit, Placed, BacklogDistinct
    <2> QED BY <2>2, <2>3, <2>5 DEF IInv
  <1>2. IInv /\ [Next]_vars => IInv'
    <2> SUFFICES ASSUME IInv, [Next]_vars PROVE IInv'
      OBVIOUS
    <2>1. CASE UNCHANGED vars
      BY <2>1 DEF vars, tcpVars, IInv, TypeOK, TcpTypeOK, OneOperation, BodyHasRoom, Placed,
         BacklogDistinct, Waiting, Heard, AnswersAsked, Wanted
    <2> QED BY <2>1, StartKeeps, ClientKeeps, HandlerKeeps DEF Next
  <1> QED BY <1>1, <1>2, PTL DEF Spec

\* Every variable keeps its type: a body never leaves the buffer it is read into.
THEOREM TypeCorrect == Spec => []TypeOK
  <1>1. IInv => TypeOK
    BY DEF IInv
  <1> QED BY <1>1, Invariance, PTL

\* A socket has one outstanding operation while it is open and none otherwise.
THEOREM OneOperationEach == Spec => []OneOperation
  <1>1. IInv => OneOperation
    BY DEF IInv
  <1> QED BY <1>1, Invariance, PTL

-----------------------------------------------------------------------------
(* The refinement. *)

\* A session is told from its socket, its operation and the queue.
LEMMA SameSession ==
    ASSUME NEW j \in Client, sock'[j] = sock[j], ops'[j] = ops[j], (j \in Waiting)' <=> j \in Waiting
    PROVE  sessionOf(j)' = sessionOf(j)
  BY DEF sessionOf

\* When one session changes and no other, the mapping changes at one place.
LEMMA OneSession ==
    ASSUME NEW k \in Client, NEW s, sessionOf(k)' = s,
           \A j \in Client \ {k} : sessionOf(j)' = sessionOf(j)
    PROVE  sessions' = [sessions EXCEPT ![k] = s]
  BY DEF sessions

\* A client connects, sends, ends its sending side, resets or leaves.
LEMMA ClientRefines ==
    ASSUME IInv, NEW k \in Client, ClientStep(k)
    PROVE  Service!Next \/ UNCHANGED Service!vars
  <1>1. /\ link \in [Client -> LinkState] /\ sock \in [Client -> SockState]
        /\ backlog \in Seq(Client) /\ BacklogDistinct
    BY DEF IInv, TypeOK, TcpTypeOK, Placed
  <1>2. ops' = ops
    BY DEF ClientStep
  <1>3. CASE Connect(k) /\ sock' = sock
    <2>1. k \notin Waiting /\ sock[k] = "none"
      BY <1>3 DEF Connect, IInv, Placed
    <2>2. Waiting' = Waiting \cup {k}
      BY <1>1, <1>3, <2>1, AppendDistinct DEF Connect
    <2>3. sessionOf(k) = "none" /\ sessionOf(k)' = "waiting"
      BY <1>3, <2>1, <2>2 DEF sessionOf
    <2>4. \A j \in Client \ {k} : sessionOf(j)' = sessionOf(j)
      BY <1>2, <1>3, <2>2, SameSession
    <2>5. sessions' = [sessions EXCEPT ![k] = "waiting"]
      BY <2>3, <2>4, OneSession
    <2>6. Service!Arrive(k)
      BY <1>3, <2>3, <2>5 DEF Service!Arrive, Connect, sessions
    <2> QED BY <2>6 DEF Service!Next
  <1>4. CASE (Finish(k) \/ Abort(k)) /\ sock' = sock
    <2>1. Waiting' = Waiting /\ UNCHANGED <<asked, replies, backlog>>
      BY <1>4 DEF Finish, Abort, Waiting
    <2>2. \A j \in Client : sessionOf(j)' = sessionOf(j)
      BY <1>2, <1>4, <2>1, SameSession
    <2> QED BY <2>1, <2>2 DEF Service!vars, sessions
  <1>5. CASE sock[k] # "closed" /\ Send(k) /\ sock' = sock
    <2>1. /\ Waiting' = Waiting /\ UNCHANGED <<replies, backlog>> /\ asked' = asked \cup {k}
          /\ link[k] = "open"
      BY <1>5 DEF Send, Waiting
    <2>2. \A j \in Client : sessionOf(j)' = sessionOf(j)
      BY <1>2, <1>5, <2>1, SameSession
    <2>3. sessions' = sessions
      BY <2>2 DEF sessions
    <2>4. CASE sock[k] = "shut"
      <3>1. asked' = asked
        BY <2>1, <2>4 DEF IInv, Heard
      <3> QED BY <2>1, <2>3, <3>1 DEF Service!vars
    <2>5. CASE sock[k] # "shut"
      <3>1. sock[k] \in {"none", "open"}
        BY <1>1, <1>5, <2>5 DEF SockState
      <3>2. sock[k] = "none" => k \in Waiting
        BY <2>1 DEF IInv, Placed
      <3>3. sessions[k] \in {"waiting", "served", "answering"}
        BY <3>1, <3>2 DEF sessions, sessionOf
      <3>4. Service!Ask(k)
        BY <2>1, <2>3, <3>3 DEF Service!Ask
      <3> QED BY <3>4 DEF Service!Next
    <2> QED BY <2>4, <2>5
  <1>6. CASE sock[k] = "closed" /\ Forget(k) /\ sock' = [sock EXCEPT ![k] = "none"]
    <2>1. k \notin Waiting
      BY <1>6 DEF IInv, Placed
    <2>2. Waiting' = Waiting
      BY <1>6 DEF Forget, Waiting
    <2>3. sessionOf(k) = "over" /\ sessionOf(k)' = "none"
      BY <1>1, <1>6, <2>1, <2>2 DEF sessionOf
    <2>4. \A j \in Client \ {k} : sessionOf(j)' = sessionOf(j)
      BY <1>1, <1>2, <1>6, <2>2, SameSession
    <2>5. sessions' = [sessions EXCEPT ![k] = "none"]
      BY <2>3, <2>4, OneSession
    <2>6. Service!Leave(k)
      BY <1>6, <2>3, <2>5 DEF Service!Leave, Forget, sessions
    <2> QED BY <2>6 DEF Service!Next
  <1> QED BY <1>3, <1>4, <1>5, <1>6 DEF ClientStep

\* An accept serves the client that waited longest.
LEMMA StartRefines ==
    ASSUME IInv, start, NEW k, k = Head(backlog) PROVE Service!Next
  <1>1. /\ backlog \in Seq(Client) /\ backlog # <<>> /\ backlog' = Tail(backlog)
        /\ sock \in [Client -> SockState] /\ ops \in [Client -> Seq(Operation)]
        /\ BacklogDistinct
    BY DEF start, IInv, TypeOK, TcpTypeOK, Placed
  <1>2. k \in Client
    BY <1>1, HeadTailProperties
  <1>3. Waiting' = Waiting \ {k}
    BY <1>1, TailDistinct
  <1>4. /\ sock' = [sock EXCEPT ![k] = "open"] /\ ops' = [ops EXCEPT ![k] = <<ReadHead>>]
        /\ UNCHANGED <<asked, replies>>
    BY DEF start
  <1>5. Head(<<ReadHead>>).type = "head"
    BY Operations
  <1>6. sock'[k] = "open" /\ ops'[k] = <<ReadHead>>
    BY <1>1, <1>2, <1>4
  <1>7. sessionOf(k)' = "served"
    BY <1>5, <1>6 DEF sessionOf
  <1>8. \A j \in Client \ {k} : sessionOf(j)' = sessionOf(j)
    BY <1>1, <1>3, <1>4, SameSession
  <1>9. sessions' = [sessions EXCEPT ![k] = "served"]
    BY <1>2, <1>7, <1>8, OneSession
  <1> QED BY <1>1, <1>4, <1>9 DEF Service!Next, Service!Serve

\* The end of the process ends every session.
LEMMA TerminateRefines ==
    ASSUME IInv, Terminate, UNCHANGED <<asked, replies>> PROVE Service!Next
  <1>1. /\ backlog' = <<>>
        /\ sock' = [j \in Client |->
              IF sock[j] = "none" /\ j \notin Waiting THEN "none" ELSE "closed"]
    BY DEF Terminate
  <1>2. Waiting' = {}
    BY <1>1 DEF Waiting
  <1>3. sock \in [Client -> SockState]
    BY DEF IInv, TypeOK
  <1>4. ASSUME NEW j \in Client
        PROVE  sessionOf(j)' = IF sessionOf(j) = "none" THEN "none" ELSE "over"
    <2>1. sessionOf(j) = "none" <=> sock[j] = "none" /\ j \notin Waiting
      BY <1>3 DEF sessionOf, SockState
    <2>2. sock'[j] = IF sessionOf(j) = "none" THEN "none" ELSE "closed"
      BY <1>1, <2>1
    <2> QED BY <1>2, <2>2 DEF sessionOf
  <1>5. sessions' = [j \in Client |-> IF sessions[j] = "none" THEN "none" ELSE "over"]
    BY <1>4 DEF sessions
  <1> QED BY <1>1, <1>5 DEF Service!Next, Service!ShutDown

\* Where a handler leaves the session of its client, and all others.
LEMMA GoesSession ==
    ASSUME IInv, NEW k \in Client, NEW more, NEW s, Goes(k, more, s)
    PROVE  /\ sock'[k] = s /\ ops'[k] = more /\ UNCHANGED backlog
           /\ \A j \in Client \ {k} : sessionOf(j)' = sessionOf(j)
           /\ s \in {"shut", "closed"} => sessionOf(k)' = "over"
  <1>1. sock \in [Client -> SockState] /\ ops \in [Client -> Seq(Operation)]
    BY DEF IInv, TypeOK
  <1>2. /\ sock' = [sock EXCEPT ![k] = s] /\ ops' = [ops EXCEPT ![k] = more] /\ backlog' = backlog
    BY DEF Goes
  <1>3. Waiting' = Waiting
    BY <1>2 DEF Waiting
  <1>4. sock'[k] = s /\ ops'[k] = more
    BY <1>1, <1>2
  <1>5. \A j \in Client \ {k} : sessionOf(j)' = sessionOf(j)
    BY <1>1, <1>2, <1>3, SameSession
  <1>6. s \in {"shut", "closed"} => sessionOf(k)' = "over"
    BY <1>4 DEF sessionOf
  <1> QED BY <1>2, <1>4, <1>5, <1>6

\* A read goes on, has its client answered, ends the session or the process.
LEMMA ReadRefines ==
    ASSUME IInv, NEW k \in Client, HeadCompletes(k) \/ BodyCompletes(k)
    PROVE  Service!Next \/ UNCHANGED Service!vars
  <1>1. UNCHANGED <<asked, replies>>
    BY DEF HeadCompletes, BodyCompletes
  <1>2. /\ sock[k] \in {"open", "shut"} /\ Head(ops[k]).type \in {"head", "body"}
        /\ Goes(k, <<>>, "closed") \/ ((Continues(k) \/ Terminate) /\ inbox[k] > 0)
    BY HeadEffect, BodyEffect DEF IInv
  <1>3. sessionOf(k) = IF sock[k] = "open" THEN "served" ELSE "over"
    BY <1>2 DEF sessionOf
  <1>4. ASSUME NEW s, sessionOf(k)' = s, s = sessionOf(k), UNCHANGED backlog,
               \A j \in Client \ {k} : sessionOf(j)' = sessionOf(j)
        PROVE  UNCHANGED Service!vars
    BY <1>1, <1>4 DEF Service!vars, sessions
  <1>5. CASE Goes(k, <<>>, "closed")
    <2>1. /\ sessionOf(k)' = "over" /\ UNCHANGED backlog
          /\ \A j \in Client \ {k} : sessionOf(j)' = sessionOf(j)
      BY <1>5, GoesSession
    <2>2. CASE sock[k] = "open"
      <3>1. sessions' = [sessions EXCEPT ![k] = "over"]
        BY <2>1, OneSession
      <3>2. Service!GiveUp(k)
        BY <1>1, <1>3, <2>1, <2>2, <3>1 DEF Service!GiveUp, sessions
      <3> QED BY <3>2 DEF Service!Next
    <2>3. CASE sock[k] = "shut"
      BY <1>3, <1>4, <2>1, <2>3
    <2> QED BY <1>2, <2>2, <2>3
  <1>6. CASE Continues(k) /\ inbox[k] > 0
    <2>1. PICK o \in Operation : Goes(k, <<o>>, sock[k])
      BY <1>6 DEF Continues
    <2>2. /\ sock'[k] = sock[k] /\ ops'[k] = <<o>> /\ UNCHANGED backlog
          /\ \A j \in Client \ {k} : sessionOf(j)' = sessionOf(j)
          /\ sock[k] = "shut" => sessionOf(k)' = "over"
      BY <2>1, GoesSession
    <2>3. Head(ops'[k]) = o
      BY <2>2
    <2>4. CASE sock[k] = "shut"
      BY <1>3, <1>4, <2>2, <2>4
    <2>5. CASE sock[k] = "open" /\ o.type \in {"head", "body"}
      <3>1. sessionOf(k)' = "served"
        BY <2>2, <2>3, <2>5 DEF sessionOf
      <3> QED BY <1>3, <1>4, <2>2, <2>5, <3>1
    <2>6. CASE sock[k] = "open" /\ o.type \notin {"head", "body"}
      <3>1. sessionOf(k)' = "answering"
        BY <2>2, <2>3, <2>6 DEF sessionOf
      <3>2. sessions' = [sessions EXCEPT ![k] = "answering"]
        BY <2>2, <3>1, OneSession
      <3>3. k \in asked
        BY <1>6 DEF IInv, Heard
      <3>4. Service!Answer(k)
        BY <1>1, <1>3, <2>2, <2>6, <3>2, <3>3 DEF Service!Answer, sessions
      <3> QED BY <3>4 DEF Service!Next
    <2> QED BY <1>2, <2>4, <2>5, <2>6
  <1>7. CASE Terminate
    BY <1>1, <1>7, TerminateRefines
  <1> QED BY <1>2, <1>5, <1>6, <1>7

\* A write ends the session, whether the connection is closed or kept alive; a write on
\* a socket that was shut down reaches nobody.
LEMMA WriteRefines ==
    ASSUME IInv, NEW k \in Client, CannedWritten(k) \/ ResponseWritten(k)
    PROVE  Service!Next \/ UNCHANGED Service!vars
  <1>1. /\ sock[k] \in {"open", "shut"} /\ Head(ops[k]).type \in {"canned", "response"}
        /\ Goes(k, <<>>, "closed") \/ Goes(k, <<ReadHead>>, "shut")
        /\ UNCHANGED asked
        /\ replies' = replies \/ (sock[k] = "open" /\ replies' = [replies EXCEPT ![k] = @ + 1])
    BY WriteEffect DEF IInv
  <1>2. /\ sessionOf(k)' = "over" /\ UNCHANGED backlog
        /\ \A j \in Client \ {k} : sessionOf(j)' = sessionOf(j)
    BY <1>1, GoesSession
  <1>3. sessionOf(k) = IF sock[k] = "open" THEN "answering" ELSE "over"
    BY <1>1 DEF sessionOf
  <1>4. CASE sock[k] = "open"
    <2>1. sessions' = [sessions EXCEPT ![k] = "over"]
      BY <1>2, OneSession
    <2>2. Service!Complete(k) \/ Service!GiveUp(k)
      BY <1>1, <1>2, <1>3, <1>4, <2>1 DEF Service!Complete, Service!GiveUp, sessions
    <2> QED BY <2>2 DEF Service!Next
  <1>5. CASE sock[k] = "shut"
    <2>1. replies' = replies /\ sessions' = sessions
      BY <1>1, <1>2, <1>3, <1>5 DEF sessions
    <2> QED BY <1>1, <1>2, <2>1 DEF Service!vars
  <1> QED BY <1>1, <1>4, <1>5

\* Bodies, keep-alive and exceptions included, the initial states map to initial states
\* of the one-shot service, and every step to a step or a stutter.
THEOREM ExchangeImplementsService == Spec => ImplementsOneShotService
  <1>1. Init => Service!Init
    <2> SUFFICES ASSUME Init PROVE Service!Init
      OBVIOUS
    <2>1. Waiting = {}
      BY DEF Init, TcpInit, Waiting
    <2>2. \A k \in Client : sessionOf(k) = "none"
      BY <2>1 DEF Init, sessionOf
    <2> QED BY <2>2 DEF Init, TcpInit, Service!Init, sessions
  <1>2. IInv /\ [Next]_vars => [Service!Next]_(Service!vars)
    <2> SUFFICES ASSUME IInv, [Next]_vars
                 PROVE  Service!Next \/ UNCHANGED Service!vars
      OBVIOUS
    <2>1. CASE UNCHANGED vars
      BY <2>1 DEF vars, tcpVars, Service!vars, sessions, sessionOf, Waiting
    <2> QED BY <2>1, StartRefines, ClientRefines, ReadRefines, WriteRefines DEF Next, Handler
  <1> QED BY <1>1, <1>2, Invariance, PTL DEF Spec, ImplementsOneShotService, Service!Spec
=============================================================================
