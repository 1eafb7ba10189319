-------------------------- MODULE CarbonConnection --------------------------
(***************************************************************************)
(* Metrics::Carbon::Connection: the connection to the metrics server.  One *)
(* thread runs the handlers of asynchronous operations; what is in ready   *)
(* has completed and waits for that thread, in the order of completion.    *)
(* Closing the socket completes the operations that are pending on it with *)
(* an error.  Other threads only call sendMessage.                         *)
(*                                                                         *)
(* A message is two characters long, so that a write can end inside one.   *)
(***************************************************************************)
EXTENDS Naturals, Sequences, FiniteSets

CONSTANTS
    Endpoints,             \* the numbers of endpoints a query may find
    MaxMessageQueueSize,
    MessageAdditionLimit,  \* in characters
    MaxSurprises           \* bound: operations that fail by themselves, and
                           \* answers of the server

ASSUME CarbonAssumption ==
    /\ Endpoints \subseteq Nat \ {0} /\ Endpoints # {}
    /\ {MaxMessageQueueSize, MessageAdditionLimit, MaxSurprises} \subseteq Nat

VARIABLES
    ConnectionState,
    isOpen,         \* Socket.is_open()
    endpoints,      \* endpoints that were not tried yet
    pending,        \* asynchronous operations that have not completed
    ready,          \* handlers to run, each with the outcome it is given
    Messages,       \* the queue
    MessageBuffer,  \* the characters that are being sent
    taken,          \* how many of them the socket has taken
    service,        \* "running", or "joined" once it is stopped
    offered,        \* history: messages that sendMessage has enqueued
    handed,         \* history: the characters the socket has taken
    surprises       \* history: failures and answers of the server

connection == <<ConnectionState, isOpen, endpoints, pending, ready,
                MessageBuffer, taken, handed>>
carbonVars == <<connection, Messages, service, offered, surprises>>

\* Operations on the socket, and the others.
SocketOps == {"connect", "receive", "write"}
Operation == SocketOps \cup {"resolve", "timer"}

\* What a handler is called with; n is the number of bytes of a write and the
\* number of endpoints of a query.
Completion(op, error, n) == [op |-> op, error |-> error, n |-> n]

Chars(id) == <<<<id, 1>>, <<id, 2>>>>

CarbonInit ==
    /\ ConnectionState = "ADDR_LOOKUP"
    /\ isOpen = FALSE
    /\ endpoints = 0
    /\ pending = {"resolve"}
    /\ ready = <<>>
    /\ Messages = <<>>
    /\ MessageBuffer = <<>>
    /\ taken = 0
    /\ service = "running"
    /\ offered = 0
    /\ handed = <<>>
    /\ surprises = 0

-----------------------------------------------------------------------------
\* The calls that handlers make, as functions of the connection
\* c = [state, open, left, pending, ready, queue, buffer, taken].
Connection ==
    [state |-> ConnectionState, open |-> isOpen, left |-> endpoints,
     pending |-> pending, ready |-> Tail(ready), queue |-> Messages,
     buffer |-> MessageBuffer, taken |-> taken]

Becomes(c) ==
    /\ ConnectionState' = c.state
    /\ isOpen' = c.open
    /\ endpoints' = c.left
    /\ pending' = c.pending
    /\ ready' = c.ready
    /\ Messages' = c.queue
    /\ MessageBuffer' = c.buffer
    /\ taken' = c.taken

\* An operation is started; on a socket that is closed it fails at once.
Start(c, op) ==
    IF op \in {"receive", "write"} /\ ~c.open
    THEN [c EXCEPT !.ready = Append(@, Completion(op, TRUE, 0))]
    ELSE [c EXCEPT !.pending = @ \cup {op}]

\* An operation on the socket, if it is under way, completes with an error.
Abort(c, op) ==
    IF op \in c.pending
    THEN [c EXCEPT !.pending = @ \ {op},
                   !.ready = Append(@, Completion(op, TRUE, IF op = "write"
                                                            THEN c.taken ELSE 0))]
    ELSE c

\* Socket.close(): the operations on the socket are aborted, those that read
\* before those that write or connect.
close(c) ==
    Abort(Abort(Abort([c EXCEPT !.open = FALSE], "receive"), "connect"), "write")

doAddressQuery(c) == Start([c EXCEPT !.state = "ADDR_LOOKUP"], "resolve")

reconnect(c) == Start([c EXCEPT !.state = "ADDR_RETRY_WAIT"], "timer")

\* QueryResult::getNextEndpoint.
getNextEndpoint(left) == IF left > 0 THEN left - 1 ELSE 0

\* Connecting opens the socket.
tryConnect(c) ==
    Start([c EXCEPT !.state = "CONNECT",
                    !.open = TRUE,
                    !.left = getNextEndpoint(@)],
          "connect")

Post(c) == [c EXCEPT !.ready = Append(@, Completion("wait", FALSE, 0))]

trySendMessage(c) ==
    CASE ~c.open -> c
      [] c.open /\ Len(c.buffer) > MessageAdditionLimit -> Start(c, "write")
      [] c.open /\ Len(c.buffer) <= MessageAdditionLimit /\ c.queue # <<>> ->
             Start([c EXCEPT !.buffer = @ \o Chars(Head(c.queue)),
                             !.queue = Tail(@)], "write")
      [] c.open /\ Len(c.buffer) <= MessageAdditionLimit /\ c.queue = <<>> ->
             IF c.buffer # <<>> THEN Start(c, "write") ELSE Post(c)

-----------------------------------------------------------------------------
\* The handlers.
resolverHandler(c, h) ==
    IF h.error
    THEN reconnect(c)
    ELSE tryConnect([c EXCEPT !.left = h.n])

connectHandler(c, h) ==
    IF ~h.error
    THEN trySendMessage(Start([c EXCEPT !.state = "SEND_LOOP"], "receive"))
    ELSE IF c.left = 0 THEN reconnect(close(c)) ELSE tryConnect(close(c))

receiveHandler(c, h) ==
    IF h.error THEN reconnect(close(c)) ELSE Start(c, "receive")

\* Mutant: what was sent of a buffer is forgotten only if it was all of it.
Remaining_AllOrNothing(buffer, n) ==
    IF n = Len(buffer) THEN <<>> ELSE buffer

Remaining(buffer, n) == SubSeq(buffer, n + 1, Len(buffer))

\* Mutant: a failed write reconnects, as a failed receive does.
sentMessageHandler_Reconnects(c, h) ==
    LET sent == [c EXCEPT !.buffer = Remaining(@, h.n), !.taken = 0]
    IN  IF h.error THEN reconnect(close(sent)) ELSE trySendMessage(sent)

sentMessageHandler(c, h) ==
    LET sent == [c EXCEPT !.buffer = Remaining(@, h.n), !.taken = 0]
    IN  IF h.error THEN close(sent) ELSE trySendMessage(sent)

\* Mutant: an idle connection does not look for messages.
waitForMessage_Idles(c) == IF c.open THEN Post(c) ELSE c

waitForMessage(c) ==
    CASE ~c.open -> c
      [] c.open /\ c.queue # <<>> -> trySendMessage(c)
      [] c.open /\ c.queue = <<>> -> Post(c)

Handled(c, h) ==
    CASE h.op = "resolve" -> resolverHandler(c, h)
      [] h.op = "connect" -> connectHandler(c, h)
      [] h.op = "receive" -> receiveHandler(c, h)
      [] h.op = "write" -> sentMessageHandler(c, h)
      [] h.op = "timer" -> doAddressQuery(c)
      [] h.op = "wait" -> waitForMessage(c)

\* threadFunction: the next handler runs.
Handle ==
    /\ service = "running"
    /\ ready # <<>>
    /\ Becomes(Handled(Connection, Head(ready)))
    /\ UNCHANGED <<service, offered, handed, surprises>>

\* The socket takes some of the characters of the write.
WriteSome ==
    /\ service = "running"
    /\ "write" \in pending
    /\ \E n \in taken + 1 .. Len(MessageBuffer) :
           /\ taken' = n
           /\ handed' = handed \o SubSeq(MessageBuffer, taken + 1, n)
    /\ UNCHANGED <<ConnectionState, isOpen, endpoints, pending, ready, Messages,
                   MessageBuffer, service, offered, surprises>>

\* An operation completes, well or by itself with an error.
Complete(op, error, n) ==
    /\ service = "running"
    /\ op \in pending
    /\ op = "timer" => ~error
    /\ error \/ op = "receive" => surprises < MaxSurprises
    /\ CASE op = "write" -> n = taken /\ (error <=> n < Len(MessageBuffer))
         [] op = "resolve" /\ ~error -> n \in Endpoints
         [] OTHER -> n = 0
    /\ pending' = pending \ {op}
    /\ surprises' = IF error \/ op = "receive"
                    THEN surprises + 1 ELSE surprises
    /\ ready' = Append(ready, Completion(op, error, n))
    /\ UNCHANGED <<ConnectionState, isOpen, endpoints, Messages, MessageBuffer,
                   taken, service, offered, handed>>

Network ==
    \/ WriteSome
    \/ \E op \in Operation, error \in BOOLEAN,
          n \in 0 .. Len(MessageBuffer) \cup Endpoints : Complete(op, error, n)

\* sendMessage: false, which callers ignore, if the queue is full.
sendMessage ==
    IF Len(Messages) < MaxMessageQueueSize
    THEN Messages' = Append(Messages, offered + 1) /\ offered' = offered + 1
    ELSE UNCHANGED <<Messages, offered>>

messageQueueSize == Len(Messages)

\* ~Impl: stop the service and wait for the thread.
DestroyConnection ==
    /\ service' = "joined"
    /\ UNCHANGED <<connection, Messages, offered, surprises>>

CarbonNext == Handle \/ Network

-----------------------------------------------------------------------------
\* How often an operation is pending or its handler is waiting to run.
Count(op) ==
    (IF op \in pending THEN 1 ELSE 0)
        + Cardinality({i \in DOMAIN ready : ready[i].op = op})

\* Whatever fails, in whichever order, exactly one attempt to connect is under
\* way or one connection is being listened to: a lost connection is always
\* re-established and never twice (receiveHandler, sentMessageHandler and
\* connectHandler after an error).
\* At most one write is under way, so that the buffer is not changed below it,
\* and an open connection always has its sending loop (trySendMessage,
\* waitForMessage).
OneConnection ==
    service = "running" =>
        /\ Count("resolve") + Count("connect") + Count("timer")
               + Count("receive") = 1
        /\ Count("write") + Count("wait") <= 1
        /\ isOpen /\ Count("receive") = 1 => Count("write") + Count("wait") = 1
=============================================================================
