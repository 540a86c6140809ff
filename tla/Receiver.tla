------------------------------- MODULE Receiver -------------------------------
(***************************************************************************)
(* The receiver of pqrs::local_datagram: base_impl::async_receive and the  *)
(* timers that watch the heartbeats of the senders.  A datagram is read by *)
(* the kernel into receive_buffer_, parsed by a handler of the io thread,  *)
(* and acted upon by a function of the dispatcher: the connection may be   *)
(* closed and replaced between any two of these.                           *)
(*                                                                         *)
(* The impl is a client_impl, which survives its connections; a            *)
(* server_impl lives for one of them.  Closing and connecting are posted   *)
(* by others at any time (BaseImpl and Client say by whom).  The code lets *)
(* connects overlap; SerialConnects leaves such behaviours out, as in      *)
(* BaseImpl.  Sending is left out.                                         *)
(*                                                                         *)
(* A function with a due time runs when no other is queued.  So do the two *)
(* steps of debounced_task::debounce_after with nothing due in between,    *)
(* and they are one step here.                                             *)
(***************************************************************************)
EXTENDS Integers, Sequences, FiniteSets

CONSTANTS
    Senders,         \* endpoints with a path
    Unnamed,         \* the endpoint of a sender that is not bound
    MaxDatagrams,    \* bound: datagrams ever read
    MaxConnections,  \* bound: connections ever made
    MaxHandlers,     \* bound: other threads post only below this length
    SerialConnects   \* TRUE: no connect is posted while another one is queued or
                     \* waits for its handler; the code does not see to it

ASSUME SendersAssumption == Unnamed \notin Senders
ASSUME SerialConnectsAssumption == SerialConnects \in BOOLEAN
ASSUME ReceiverBounds ==
    MaxDatagrams \in Nat /\ MaxConnections \in Nat /\ MaxHandlers \in Nat

VARIABLES
    ioq,             \* handlers of io_ctx_, oldest first
    socket,          \* socket_ is not null
    socket_ready,    \* socket_ready_
    receiving,       \* async_receive_from operations the socket has pending
    receive_buffer,  \* receive_buffer_ and receive_sender_endpoint_
    generation,      \* next_heartbeat_deadline_timers_generation_
    dq,              \* functions of the dispatcher that are due, in order
    timers,          \* next_heartbeat_deadline_timers_, by sender: the generation
                     \* their handler captured and the newest heartbeat
    delayed,         \* pending deadline functions of the timers
    connections,     \* history: number of connections made
    read,            \* history: the connection from which each datagram was read
    received,        \* history: datagrams handed to the user, in order
    latest,          \* history: newest heartbeat accepted, by sender
    reported         \* history: heartbeat whose deadline was reported last

socketVars == <<socket, socket_ready>>
bufferVars == <<receiving, receive_buffer>>
timerVars == <<timers, delayed, latest, reported>>
historyVars == <<connections, read, received>>
vars == <<ioq, socketVars, bufferVars, generation, dq, timerVars, historyVars>>

\* Datagrams by the order in which they are read; 0 is none.
Numbers == 0..MaxDatagrams

\* What a datagram is to the receiver: a heartbeat with a deadline, user data,
\* or nothing (a heartbeat with deadline zero or none, an unknown type, no byte).
Types == {"deadline", "user_data", "nothing"}
Datagrams ==
    [number : Numbers, type : Types, sender : Senders \union {Unnamed}]

Handler(op, result) == [op |-> op, result |-> result]
Handlers == [op : {"async_close", "async_connect", "connect_handler", "receive_handler"},
             result : {"none", "ok", "error"}]

Function(fn, g, s, n) == [fn |-> fn, generation |-> g, sender |-> s, number |-> n]
Functions ==
    [fn : {"closed", "received"}, generation : Nat,
     sender : Senders \union {Unnamed}, number : Numbers]
    \union [fn : {"heartbeat"}, generation : Nat, sender : Senders, number : Numbers]

Queued(ops) == {i \in DOMAIN ioq : ioq[i].op \in ops}

-------------------------------------------------------------------------------
(* The io thread *)

Runs(op) == ioq # <<>> /\ Head(ioq).op = op

\* Mutant: a closed socket does not end the loop.
AsyncReceiveAlways == receiving' = receiving + 1

\* async_receive(), at the end of a handler
AsyncReceive == receiving' = IF socket' /\ socket_ready' THEN receiving + 1 ELSE receiving

\* Mutant: the generation is not advanced.
SameGeneration == generation

NextGeneration == generation + 1

\* async_close: the pending receive comes back with operation_aborted.
Close ==
    /\ Runs("async_close")
    /\ ioq' = Tail(ioq) \o [i \in 1..receiving |-> Handler("receive_handler", "error")]
    /\ receiving' = 0
    /\ socket' = FALSE
    /\ IF socket /\ socket_ready
         THEN /\ socket_ready' = FALSE
              /\ generation' = NextGeneration
              /\ dq' = Append(dq, Function("closed", 0, Unnamed, 0))
         ELSE UNCHANGED <<socket_ready, generation, dq>>
    /\ UNCHANGED <<timerVars, historyVars, receive_buffer>>

\* async_connect: nothing with a socket; open, bind and the connect may fail.
AsyncConnect ==
    /\ Runs("async_connect")
    /\ \/ /\ socket
          /\ ioq' = Tail(ioq)
          /\ UNCHANGED socketVars
       \/ /\ ~socket
          /\ socket' = TRUE
          /\ socket_ready' = FALSE
          /\ \/ ioq' = Tail(ioq)
             \/ \E r \in {"ok", "error"} :
                    ioq' = Append(Tail(ioq), Handler("connect_handler", r))
    /\ UNCHANGED <<timerVars, bufferVars, historyVars, generation, dq>>

ConnectFails ==
    /\ Runs("connect_handler") /\ Head(ioq).result = "error"
    /\ ioq' = Tail(ioq)
    /\ UNCHANGED <<timerVars, socketVars, bufferVars, historyVars, generation, dq>>

\* The connection is made: socket_ready_, the generation, start_actors().
Connected ==
    /\ Runs("connect_handler") /\ Head(ioq).result = "ok"
    /\ ioq' = Tail(ioq)
    /\ socket_ready' = TRUE
    /\ generation' = NextGeneration
    /\ connections' = connections + 1
    /\ UNCHANGED <<timerVars, socket, receive_buffer, dq, read, received>>
    /\ AsyncReceive

\* Mutant: a deadline is accepted from a sender without a path.
ParsedOfAnySender(d) ==
    IF d.type = "user_data" THEN <<Function("received", 0, d.sender, d.number)>>
    ELSE IF d.type = "deadline" THEN <<Function("heartbeat", generation, d.sender, d.number)>>
    ELSE <<>>

\* What the receive handler hands to the dispatcher for datagram d.  A deadline
\* from an unnamed sender only gives a warning.
Parsed(d) ==
    IF d.type = "user_data" THEN <<Function("received", 0, d.sender, d.number)>>
    ELSE IF d.type = "deadline" /\ d.sender \in Senders
      THEN <<Function("heartbeat", generation, d.sender, d.number)>>
    ELSE <<>>

\* The handler of async_receive_from reads whatever receive_buffer_ holds and
\* receives again.
ReceiveHandler ==
    /\ Runs("receive_handler") /\ ioq' = Tail(ioq)
    /\ dq' = IF Head(ioq).result = "ok" THEN dq \o Parsed(receive_buffer) ELSE dq
    /\ UNCHANGED <<timerVars, socketVars, historyVars, receive_buffer, generation>>
    /\ AsyncReceive

-------------------------------------------------------------------------------
(* The kernel *)

\* A datagram is read for a pending receive.
ReceiveCompletes(t, s) ==
    /\ receiving > 0
    /\ Len(read) < MaxDatagrams
    /\ receiving' = receiving - 1
    /\ read' = Append(read, connections)
    /\ receive_buffer' = [number |-> Len(read'), type |-> t, sender |-> s]
    /\ ioq' = Append(ioq, Handler("receive_handler", "ok"))
    /\ UNCHANGED <<timerVars, socketVars, generation, dq, connections, received>>

\* A receive fails, e.g. because the connected peer is gone.
ReceiveFails ==
    /\ receiving > 0
    /\ receiving' = receiving - 1
    /\ ioq' = Append(ioq, Handler("receive_handler", "error"))
    /\ UNCHANGED <<timerVars, socketVars, historyVars, receive_buffer, generation, dq>>

-------------------------------------------------------------------------------
(* The dispatcher *)

Dispatches(fn) == dq # <<>> /\ Head(dq).fn = fn

\* The function async_close enqueued: the timers are destroyed, and with them
\* their functions.
Closed ==
    /\ Dispatches("closed") /\ dq' = Tail(dq)
    /\ timers' = [s \in {} |-> 0]
    /\ delayed' = {}
    /\ UNCHANGED <<socketVars, bufferVars, historyVars, ioq, generation, latest, reported>>

\* A new timer, or set_timer() on the one the sender has: only its deadline
\* function and not the generation its handler captured is replaced.
SetTimer(s, g, n) ==
    /\ timers' = [t \in DOMAIN timers \union {s} |->
                    IF t # s THEN timers[t]
                    ELSE [generation |-> IF s \in DOMAIN timers
                                           THEN timers[s].generation ELSE g,
                          number |-> n]]
    /\ delayed' = delayed \union {[sender |-> s, number |-> n]}
    /\ latest' = [latest EXCEPT ![s] = n]

\* The function of a heartbeat: nothing if its generation is over.
Heartbeat ==
    /\ Dispatches("heartbeat") /\ dq' = Tail(dq)
    /\ IF Head(dq).generation = generation
         THEN SetTimer(Head(dq).sender, Head(dq).generation, Head(dq).number)
         ELSE UNCHANGED <<timers, delayed, latest>>
    /\ UNCHANGED <<socketVars, bufferVars, historyVars, ioq, generation, reported>>

\* Mutant: the function reads the buffer instead of a copy of it.
ReceivedFromBuffer ==
    /\ Dispatches("received") /\ dq' = Tail(dq)
    /\ received' = Append(received, receive_buffer.number)
    /\ UNCHANGED <<timerVars, socketVars, bufferVars, ioq, generation, connections, read>>

Received ==
    /\ Dispatches("received") /\ dq' = Tail(dq)
    /\ received' = Append(received, Head(dq).number)
    /\ UNCHANGED <<timerVars, socketVars, bufferVars, ioq, generation, connections, read>>

\* Mutant: a deadline function that was debounced is called as well.
IsCurrentAlways(f) == f.sender \in DOMAIN timers

\* debounced_task: only the newest function of a timer is called.
IsCurrent(f) == f.sender \in DOMAIN timers /\ timers[f.sender].number = f.number

\* A deadline function is due.  The report erases the sender's timer.
DeadlinePasses(f) ==
    /\ dq = <<>>
    /\ IF IsCurrent(f) /\ timers[f.sender].generation = generation
         THEN /\ reported' = [reported EXCEPT ![f.sender] = f.number]
              /\ timers' = [s \in DOMAIN timers \ {f.sender} |-> timers[s]]
              /\ delayed' = {d \in delayed : d.sender # f.sender}
         ELSE /\ delayed' = delayed \ {f}
              /\ UNCHANGED <<timers, reported>>
    /\ UNCHANGED <<socketVars, bufferVars, historyVars, ioq, generation, dq, latest>>

-------------------------------------------------------------------------------
(* Others *)

\* async_close(): an aborted send, a deadline, a failed check, connect_failed
PostClose ==
    /\ Len(ioq) < MaxHandlers
    /\ ioq' = Append(ioq, Handler("async_close", "none"))
    /\ UNCHANGED <<timerVars, socketVars, bufferVars, historyVars, generation, dq>>

\* async_connect() of the reconnect timer
PostConnect ==
    /\ Len(ioq) < MaxHandlers
    /\ connections < MaxConnections
    /\ SerialConnects => Queued({"async_connect", "connect_handler"}) = {}
    /\ ioq' = Append(ioq, Handler("async_connect", "none"))
    /\ UNCHANGED <<timerVars, socketVars, bufferVars, historyVars, generation, dq>>

-------------------------------------------------------------------------------

Init ==
    /\ ioq = <<>>
    /\ socket = FALSE /\ socket_ready = FALSE
    /\ receiving = 0
    /\ receive_buffer = [number |-> 0, type |-> "nothing", sender |-> Unnamed]
    /\ generation = 0
    /\ dq = <<>>
    /\ timers = [s \in {} |-> 0]
    /\ delayed = {}
    /\ connections = 0
    /\ read = <<>>
    /\ received = <<>>
    /\ latest = [s \in Senders |-> 0]
    /\ reported = [s \in Senders |-> 0]

IoThread == Close \/ AsyncConnect \/ ConnectFails \/ Connected \/ ReceiveHandler

Kernel ==
    \/ \E t \in Types, s \in Senders \union {Unnamed} : ReceiveCompletes(t, s)
    \/ ReceiveFails

Dispatcher ==
    \/ Closed \/ Heartbeat \/ Received
    \/ \E f \in delayed : DeadlinePasses(f)

Next == IoThread \/ Kernel \/ Dispatcher \/ PostClose \/ PostConnect

Spec == Init /\ [][Next]_vars

-------------------------------------------------------------------------------
(* Properties *)

\* Every variable has its type.  In particular only a sender with a path has a
\* timer, which is found by that path (base_impl.hpp:195-198, 223).
TypeOK ==
    /\ ioq \in Seq(Handlers)
    /\ socket \in BOOLEAN /\ socket_ready \in BOOLEAN
    /\ receiving \in Nat
    /\ receive_buffer \in Datagrams
    /\ generation \in Nat
    /\ dq \in Seq(Functions)
    /\ DOMAIN timers \subseteq Senders
    /\ \A s \in DOMAIN timers : timers[s] \in [generation : Nat, number : Numbers]
    /\ delayed \subseteq [sender : Senders, number : Numbers]
    /\ connections \in Nat
    /\ read \in Seq(Nat) /\ Len(read) <= MaxDatagrams
    /\ received \in Seq(Numbers)
    /\ latest \in [Senders -> Numbers]
    /\ reported \in [Senders -> Numbers]

\* While the socket is open exactly one receive is pending or waits for its
\* handler, and none is pending otherwise: the handler of a closed connection
\* neither ends the next connection's loop nor becomes a second one, which
\* would share receive_buffer_ with it (base_impl.hpp:174-262).  It needs
\* SerialConnects: the handlers of two connects would both begin a loop.
OneReceive ==
    IF socket /\ socket_ready
      THEN Cardinality(Queued({"receive_handler"})) + receiving = 1
      ELSE receiving = 0

\* Data reaches the user in the order in which it was read and never twice,
\* although receive_buffer_ is used again for every datagram
\* (base_impl.hpp:180-181, 240-251).  It needs SerialConnects: the handlers of
\* two receives would both parse the datagram that was read last.
ReceivedInOrder ==
    \A i, j \in DOMAIN received : i < j => received[i] < received[j]

\* On an open connection a timer that would report was set by a heartbeat read
\* from this connection: the generation keeps apart what several threads still
\* have in hand from an earlier one (base_impl.hpp:154, 200-207, 218-221).  It
\* needs SerialConnects.
HeardOnThisConnection ==
    \A s \in DOMAIN timers :
        socket_ready /\ timers[s].generation = generation
          => read[timers[s].number] = connections

\* A missed deadline is reported for the newest heartbeat only, and once: a
\* heartbeat that was accepted in time withdraws the earlier deadline
\* (base_impl.hpp:223-232, next_heartbeat_deadline_timer.hpp:47-53).
ReportsNewestOnce ==
    [][\A s \in Senders : reported'[s] # reported[s]
          => reported'[s] = latest[s] /\ reported[s] < latest[s]]_vars

\* A heartbeat of this connection is watched by a timer that will report it:
\* "server should assume client is dead if the next heartbeat is not come until
\* the deadline" (send_entry.hpp:25-26).
DeadlineWillBeReported ==
    \A s \in DOMAIN timers :
        socket_ready /\ read[timers[s].number] = connections
          => timers[s].generation = generation
===============================================================================
