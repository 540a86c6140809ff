-------------------------------- MODULE Client --------------------------------
(***************************************************************************)
(* pqrs::local_datagram::client: connecting, losing and regaining the      *)
(* server, stopping, destroying, and what becomes of the datagrams that    *)
(* async_send was given.  The dispatcher thread (dq), the io thread of     *)
(* client_impl (ioq), the user, the server and the file system interleave. *)
(*                                                                         *)
(* The functions of client_impl and of client are told apart, because      *)
(* detach() erases them by object.  client_impl_ exists from the           *)
(* constructor to the first stop().  BaseImpl has the send loop in detail; *)
(* here one send at a time is in flight, succeeds or fails.                *)
(*                                                                         *)
(* Due times are abstracted: a delayed function may run whenever no other  *)
(* is queued.                                                              *)
(***************************************************************************)
EXTENDS Integers, Sequences, Functions, Queues

CONSTANTS
    MaxSends,      \* bound: calls of async_send
    MaxEvents,     \* bound: calls of async_start and async_stop, crashes of the
                   \* server, losses of our file and failed checks, together
    MaxDelayed     \* bound: the reconnect timer ticks only below this many

ASSUME ClientBounds ==
    MaxSends \in Nat /\ MaxEvents \in Nat /\ MaxDelayed \in Nat

VARIABLES
    attached,            \* the client is attached to the dispatcher
    detaching,           \* ~client has detached it and not yet enqueued stop()
    reconnect_interval,  \* reconnect_interval_ has a value
    dq,                  \* functions of the dispatcher that are due, in order
    joining,             \* the dispatcher thread is in ~client_impl
    delayed,             \* pending `reconnect_timer_.start` functions
    ticking,             \* reconnect_timer_ has a function and a pending call
    client_impl,         \* client_impl_ is not null
    ioq,                 \* handlers of io_ctx_, oldest first
    socket,              \* socket_ is not null
    socket_ready,        \* socket_ready_
    send_entries,        \* client_send_entries_: numbers, 0 for a heartbeat
    checking,            \* server_check_timer_ and client_socket_check_timer_, which
                         \* are started together, have not found the socket closed
    check_client,        \* client_socket_check_client_impl_: "none", "connecting",
                         \* or "done" once its signal has been delivered
    file,                \* client_socket_file_path: "absent", "ours" (bound to
                         \* socket_) or "stale"
    server,              \* the server is up
    peer,                \* what socket_ is connected to: "none", "live", "dead"
    reported,            \* history: the last of connected() and closed() reported
    accepted,            \* history: number of datagrams given to async_send
    processed,           \* history: `processed` callbacks called, in order
    events               \* counter of the bound

modeVars == <<attached, detaching, reconnect_interval, joining>>
timerVars == <<delayed, ticking>>
socketVars == <<socket, socket_ready, peer, file>>
checkVars == <<checking, check_client>>
implRest == <<client_impl, socketVars, send_entries, checkVars>>
historyVars == <<reported, accepted, processed>>
worldVars == <<server, historyVars, events>>
vars == <<modeVars, timerVars, dq, implRest, ioq, worldVars>>

\* A function of the dispatcher or a handler of the io thread; n is the number
\* of the datagram it carries.
Fn(f) == [fn |-> f, n |-> 0]
Carrying(f, n) == [fn |-> f, n |-> n]

ImplFunctions == {"impl_connected", "impl_connect_failed", "impl_closed", "impl_processed"}
ClientFunctions == {"connect", "stop", "send", "timer_start", "timer_stop", "reconnect",
                    "connected", "closed", "processed"}
IoHandlers == {"async_close", "async_connect", "connect_ok", "connect_error", "async_send",
               "send_ok", "send_error", "check_server", "check_client_socket",
               "check_reset", "reset"}

Calls(fs) == [fn : fs, n : 0..MaxSends]

\* The numbers carried by the functions f of queue q, in order.
Carried(q, f) ==
    LET mine == Kept(q, Calls({f}))
    IN  [i \in DOMAIN mine |-> mine[i].n]

-------------------------------------------------------------------------------
(* The dispatcher *)

\* enqueue_to_dispatcher of the client: refused once it is detached.
Enqueue(q, fs) == IF attached THEN q \o fs ELSE q

\* Mutant: the functions of the destroyed client_impl stay.
WithImplFunctions(q) == q

\* detach(object_id) erases the functions of an object.
WithoutImplFunctions(q) == Kept(q, Calls(ClientFunctions))
WithoutClientFunctions(q) == Kept(q, Calls(ImplFunctions))

Runs(f) == ~joining /\ dq # <<>> /\ Head(dq).fn = f

\* connect(): `if (client_impl_)`
Connect == ioq' = IF client_impl THEN Append(ioq, Fn("async_connect")) ELSE ioq

\* async_start
Start ==
    /\ Runs("connect") /\ dq' = Tail(dq)
    /\ Connect
    /\ UNCHANGED <<implRest, worldVars, modeVars, timerVars>>

\* stop(): the interval is unset, then ~client_impl posts async_close and the
\* reset of the work guard and joins the io thread.
Stop ==
    /\ Runs("stop") /\ dq' = Tail(dq)
    /\ reconnect_interval' = FALSE
    /\ joining' = client_impl
    /\ ioq' = IF client_impl THEN ioq \o <<Fn("async_close"), Fn("reset")>> ELSE ioq
    /\ UNCHANGED <<implRest, worldVars, timerVars, attached, detaching>>

\* The io thread has ended; client_impl is detached and gone.
Joined ==
    /\ joining /\ ioq = <<>>
    /\ joining' = FALSE
    /\ client_impl' = FALSE
    /\ checking' = FALSE /\ check_client' = "none"
    /\ dq' = WithoutImplFunctions(dq)
    /\ UNCHANGED <<worldVars, socketVars, timerVars, attached, detaching,
                   reconnect_interval, ioq, send_entries>>

\* The function of async_send
Send ==
    /\ Runs("send")
    /\ \/ /\ client_impl
          /\ dq' = Tail(dq)
          /\ ioq' = Append(ioq, Carrying("async_send", Head(dq).n))
       \/ /\ ~client_impl
          /\ dq' = Enqueue(Tail(dq), <<Carrying("processed", Head(dq).n)>>)
          /\ UNCHANGED ioq
    /\ UNCHANGED <<implRest, worldVars, modeVars, timerVars>>

\* start_reconnect_timer(), after `q` is queued
StartReconnectTimer(q) ==
    \/ /\ reconnect_interval
       /\ dq' = q
       /\ delayed' = IF attached THEN delayed + 1 ELSE delayed
    \/ /\ ~reconnect_interval
       /\ dq' = Enqueue(q, <<Fn("timer_stop")>>)
       /\ UNCHANGED delayed

\* The client's handler of client_impl's connected
ConnectedSignal ==
    /\ Runs("impl_connected")
    /\ dq' = Enqueue(Tail(dq), <<Fn("connected")>>)
    /\ UNCHANGED <<implRest, worldVars, modeVars, timerVars, ioq>>

\* Mutant: the socket of the failed connect stays.
ConnectFailedKeepsSocket ==
    /\ Runs("impl_connect_failed")
    /\ StartReconnectTimer(Tail(dq))
    /\ UNCHANGED <<implRest, worldVars, modeVars, ticking, ioq>>

\* connect_failed_handler; the report to the user is left out.
ConnectFailedSignal ==
    /\ Runs("impl_connect_failed")
    /\ ioq' = Append(ioq, Fn("async_close"))
    /\ StartReconnectTimer(Tail(dq))
    /\ UNCHANGED <<implRest, worldVars, modeVars, ticking>>

ClosedSignal ==
    /\ Runs("impl_closed")
    /\ StartReconnectTimer(Enqueue(Tail(dq), <<Fn("closed")>>))
    /\ UNCHANGED <<implRest, worldVars, modeVars, ticking, ioq>>

\* The user's slots and callbacks
Report ==
    /\ \/ /\ Runs("connected") \/ Runs("closed")
          /\ reported' = Head(dq).fn
          /\ UNCHANGED processed
       \/ /\ Runs("processed") \/ Runs("impl_processed")
          /\ processed' = Append(processed, Head(dq).n)
          /\ UNCHANGED reported
    /\ dq' = Tail(dq)
    /\ UNCHANGED <<implRest, modeVars, timerVars, ioq, server, accepted, events>>

\* timer::start's function: the function is called at once and then again
\* after every interval.
TimerStart ==
    /\ Runs("timer_start")
    /\ dq' = Enqueue(Tail(dq), <<Fn("reconnect")>>)
    /\ ticking' = TRUE
    /\ UNCHANGED <<implRest, worldVars, modeVars, delayed, ioq>>

TimerStop ==
    /\ Runs("timer_stop") /\ dq' = Tail(dq)
    /\ ticking' = FALSE
    /\ UNCHANGED <<implRest, worldVars, modeVars, delayed, ioq>>

\* Mutant: the timer is never stopped.
NeverStop(q) == q

\* reconnect_timer_'s function stops its timer once the interval is unset.
StopWithoutInterval(q) ==
    IF reconnect_interval THEN q ELSE Enqueue(q, <<Fn("timer_stop")>>)

\* The function of reconnect_timer_
Reconnect ==
    /\ Runs("reconnect")
    /\ dq' = StopWithoutInterval(Tail(dq))
    /\ Connect
    /\ UNCHANGED <<implRest, worldVars, modeVars, timerVars>>

\* The functions with a due time run when no other is queued.
Idle == ~joining /\ dq = <<>>

\* The io thread keeps up with the reconnect interval.
KeepsUp == ioq = <<>>

\* reconnect_timer_'s next call is due, connected or not.
Tick ==
    /\ Idle /\ KeepsUp
    /\ ticking
    /\ delayed < MaxDelayed
    /\ dq' = <<Fn("reconnect")>>
    /\ UNCHANGED <<implRest, worldVars, modeVars, timerVars, ioq>>

\* The function enqueued by start_reconnect_timer() is due.  It reads
\* *reconnect_interval_ whether or not stop() has unset it meanwhile.
DelayPasses ==
    /\ Idle /\ KeepsUp
    /\ delayed > 0
    /\ delayed' = delayed - 1
    /\ dq' = <<Fn("timer_start")>>
    /\ UNCHANGED <<implRest, worldVars, modeVars, ticking, ioq>>

\* server_check_timer_ and client_socket_check_timer_ post their check; there is
\* at most one heartbeat or check in the queues.
CheckTick(handler) ==
    /\ Idle
    /\ checking
    /\ \A i \in DOMAIN ioq : ioq[i].fn # handler
    /\ handler = "check_server" => 0 \notin Range(send_entries \o Carried(ioq, "async_send"))
    /\ ioq' = Append(ioq, Fn(handler))
    /\ UNCHANGED <<implRest, worldVars, modeVars, timerVars, dq>>

ServerCheckTick == CheckTick("check_server")
SocketCheckTick == CheckTick("check_client_socket")

-------------------------------------------------------------------------------
(* The io thread of client_impl *)

IoRuns(h) == ioq # <<>> /\ Head(ioq).fn = h

\* Mutant: socket_ready_ is not looked at.
Opened == socket

\* The guard of every handler: `!socket_ || !socket_ready_` returns.
Ready == socket /\ socket_ready

\* A send is in flight: none is while its handler is queued.
InFlight ==
    /\ Ready
    /\ send_entries # <<>>
    /\ \A i \in DOMAIN ioq : ioq[i].fn \notin {"send_ok", "send_error"}

\* async_close: nothing without a socket.  The send in flight, if any, comes
\* back with an error.  Only a connection that was ready takes its file along.
AsyncClose ==
    /\ IoRuns("async_close")
    /\ \/ ioq' = Tail(ioq)
       \/ InFlight /\ ioq' = Append(Tail(ioq), Fn("send_error"))
    /\ socket' = FALSE
    /\ peer' = "none"
    /\ IF Ready
         THEN /\ socket_ready' = FALSE
              /\ file' = "absent"
              /\ dq' = Append(dq, Fn("impl_closed"))
         ELSE /\ file' = IF file = "ours" THEN "stale" ELSE file
              /\ UNCHANGED <<socket_ready, dq>>
    /\ UNCHANGED <<worldVars, modeVars, timerVars, checkVars, client_impl, send_entries>>

\* async_connect with a socket: nothing
AsyncConnectAgain ==
    /\ IoRuns("async_connect")
    /\ socket
    /\ ioq' = Tail(ioq)
    /\ UNCHANGED <<implRest, worldVars, modeVars, timerVars, dq>>

\* The old file is removed, then open or bind fails.
AsyncConnectFails ==
    /\ IoRuns("async_connect")
    /\ ~socket
    /\ ioq' = Tail(ioq)
    /\ socket' = TRUE /\ socket_ready' = FALSE
    /\ file' = "absent"
    /\ dq' = Append(dq, Fn("impl_connect_failed"))
    /\ UNCHANGED <<worldVars, modeVars, timerVars, checkVars, client_impl, send_entries,
                   peer>>

\* The file is bound; the connect completes at once.
AsyncConnect ==
    /\ IoRuns("async_connect")
    /\ ~socket
    /\ socket' = TRUE /\ socket_ready' = FALSE
    /\ file' = "ours"
    /\ ioq' = Append(Tail(ioq), Fn(IF server THEN "connect_ok" ELSE "connect_error"))
    /\ peer' = IF server THEN "live" ELSE "none"
    /\ UNCHANGED <<worldVars, modeVars, timerVars, checkVars, dq, client_impl,
                   send_entries>>

ConnectFails ==
    /\ IoRuns("connect_error") /\ ioq' = Tail(ioq)
    /\ dq' = Append(dq, Fn("impl_connect_failed"))
    /\ UNCHANGED <<implRest, worldVars, modeVars, timerVars>>

\* The completion handler, even if the socket has been closed meanwhile
Connected ==
    /\ IoRuns("connect_ok") /\ ioq' = Tail(ioq)
    /\ socket_ready' = TRUE
    /\ checking' = TRUE /\ check_client' = "none"
    /\ dq' = Append(dq, Fn("impl_connected"))
    /\ UNCHANGED <<worldVars, modeVars, timerVars, client_impl, socket, peer, file,
                   send_entries>>

\* Mutant: push_front
PushFront(q, n) == <<n>> \o q

PushBack(q, n) == Append(q, n)

\* async_send of client_impl
AsyncSend ==
    /\ IoRuns("async_send") /\ ioq' = Tail(ioq)
    /\ send_entries' = PushBack(send_entries, Head(ioq).n)
    /\ UNCHANGED <<worldVars, modeVars, socketVars, timerVars, checkVars, dq, client_impl>>

\* Mutant: the entry stays at the front.
PopNothing(q) == q

PopFront(q) == Tail(q)

\* Mutant: a heartbeat has a callback too.
AlwaysProcessed(n) == <<Carrying("impl_processed", n)>>

\* pop_front_send_entry calls `processed` if the entry has one.
Processed(n) == IF n = 0 THEN <<>> ELSE <<Carrying("impl_processed", n)>>

\* handle_send: the entry was sent, or dropped for its size.
HandleSend ==
    /\ IoRuns("send_ok") /\ ioq' = Tail(ioq)
    /\ send_entries' = PopFront(send_entries)
    /\ dq' = dq \o Processed(Head(send_entries))
    /\ UNCHANGED <<worldVars, modeVars, socketVars, timerVars, checkVars, client_impl>>

\* handle_send: any other error posts async_close and keeps the entry.
HandleSendError ==
    /\ IoRuns("send_error")
    /\ ioq' = Append(Tail(ioq), Fn("async_close"))
    /\ UNCHANGED <<implRest, worldVars, modeVars, timerVars, dq>>

\* check_server: a heartbeat is sent.
CheckServer ==
    /\ IoRuns("check_server")
    /\ \/ /\ Ready
          /\ ioq' = Append(Tail(ioq), Fn("async_send"))
          /\ UNCHANGED checking
       \/ /\ ~Ready
          /\ ioq' = Tail(ioq)
          /\ checking' = FALSE
    /\ UNCHANGED <<worldVars, modeVars, socketVars, timerVars, dq, client_impl,
                   send_entries, check_client>>

\* check_client_socket
CheckClientSocket ==
    /\ IoRuns("check_client_socket") /\ ioq' = Tail(ioq)
    /\ IF Ready
         THEN /\ check_client' = IF check_client = "none" THEN "connecting" ELSE check_client
              /\ UNCHANGED checking
         ELSE checking' = FALSE /\ check_client' = "none"
    /\ UNCHANGED <<worldVars, modeVars, socketVars, timerVars, dq, client_impl,
                   send_entries>>

\* Posted by the nested client's connected handler
CheckReset ==
    /\ IoRuns("check_reset") /\ ioq' = Tail(ioq)
    /\ check_client' = "none"
    /\ UNCHANGED <<worldVars, modeVars, socketVars, timerVars, dq, client_impl,
                   send_entries, checking>>

ResetWorkGuard ==
    /\ IoRuns("reset") /\ ioq' = Tail(ioq)
    /\ UNCHANGED <<implRest, worldVars, modeVars, timerVars, dq>>

-------------------------------------------------------------------------------
(* The kernel and the nested client *)

Event == events < MaxEvents /\ events' = events + 1

\* The send in flight completes; a dead peer refuses it.
SendCompletes ==
    /\ InFlight
    /\ ioq' = Append(ioq, Fn(IF peer = "live" THEN "send_ok" ELSE "send_error"))
    /\ UNCHANGED <<implRest, worldVars, modeVars, timerVars, dq>>

\* The nested client has connected to our socket file, or could not, and the
\* dispatcher delivers its connected or connect_failed.
CheckDelivered ==
    /\ ~joining
    /\ check_client = "connecting"
    /\ check_client' = "done"
    /\ ioq' = Append(ioq, Fn(IF file = "ours" THEN "check_reset" ELSE "async_close"))
    /\ UNCHANGED <<worldVars, modeVars, socketVars, timerVars, dq, client_impl,
                   send_entries, checking>>

\* The nested client's own open has failed, so that the file is taken for lost.
CheckFails ==
    /\ ~joining
    /\ check_client = "connecting"
    /\ Event
    /\ check_client' = "done"
    /\ ioq' = Append(ioq, Fn("async_close"))
    /\ UNCHANGED <<modeVars, socketVars, timerVars, dq, client_impl, send_entries, checking,
                   server, historyVars>>

-------------------------------------------------------------------------------
(* The user, the server and the file system *)

\* async_start(), async_stop()
Request ==
    /\ attached
    /\ Event
    /\ \E f \in {"connect", "stop"} : dq' = Append(dq, Fn(f))
    /\ UNCHANGED <<implRest, modeVars, historyVars, timerVars, ioq, server>>

\* async_send(v, processed)
RequestSend ==
    /\ attached
    /\ accepted < MaxSends
    /\ accepted' = accepted + 1
    /\ dq' = Append(dq, Carrying("send", accepted'))
    /\ UNCHANGED <<implRest, modeVars, timerVars, ioq, server, reported, processed, events>>

\* ~client: detach(object_id) erases the client's functions.
Destroy ==
    /\ attached
    /\ attached' = FALSE
    /\ detaching' = TRUE
    /\ dq' = WithoutClientFunctions(dq)
    /\ delayed' = 0
    /\ ticking' = FALSE
    /\ UNCHANGED <<implRest, worldVars, reconnect_interval, joining, ioq>>

\* ~client goes on: it waits for a function of the client that is running
\* (joining) and puts stop() before the functions of client_impl.
EnqueueStop ==
    /\ detaching /\ ~joining
    /\ detaching' = FALSE
    /\ dq' = <<Fn("stop")>> \o dq
    /\ UNCHANGED <<implRest, worldVars, timerVars, attached, reconnect_interval, joining, ioq>>

ServerDown ==
    /\ server
    /\ Event
    /\ server' = FALSE
    /\ peer' = IF peer = "live" THEN "dead" ELSE peer
    /\ UNCHANGED <<modeVars, historyVars, timerVars, checkVars, dq, client_impl, ioq,
                   socket, socket_ready, file, send_entries>>

ServerUp ==
    /\ ~server
    /\ server' = TRUE
    /\ UNCHANGED <<implRest, modeVars, historyVars, timerVars, dq, ioq, events>>

\* Our socket file is removed from outside.
FileLost ==
    /\ file = "ours"
    /\ Event
    /\ file' = "absent"
    /\ UNCHANGED <<modeVars, historyVars, timerVars, checkVars, dq, client_impl, ioq,
                   socket, socket_ready, peer, send_entries, server>>

-------------------------------------------------------------------------------

\* Every interval and the client's socket file path have been set, and
\* async_start() has been called.
Init ==
    /\ attached = TRUE /\ detaching = FALSE /\ reconnect_interval = TRUE
    /\ dq = <<Fn("connect")>> /\ joining = FALSE
    /\ delayed = 0 /\ ticking = FALSE
    /\ client_impl = TRUE
    /\ ioq = <<>>
    /\ socket = FALSE /\ socket_ready = FALSE /\ peer = "none"
    /\ file = "absent"
    /\ send_entries = <<>>
    /\ checking = FALSE /\ check_client = "none"
    /\ server = TRUE
    /\ reported = "closed"
    /\ accepted = 0 /\ processed = <<>>
    /\ events = 0

Dispatcher ==
    \/ Start \/ Stop \/ Joined \/ Send
    \/ ConnectedSignal \/ ConnectFailedSignal \/ ClosedSignal \/ Report
    \/ TimerStart \/ TimerStop \/ Reconnect

Clock == Tick \/ DelayPasses \/ ServerCheckTick \/ SocketCheckTick

IoThread ==
    \/ AsyncClose \/ AsyncConnectAgain \/ AsyncConnectFails \/ AsyncConnect
    \/ ConnectFails \/ Connected
    \/ AsyncSend \/ HandleSend \/ HandleSendError
    \/ CheckServer \/ CheckClientSocket \/ CheckReset \/ ResetWorkGuard

User == Request \/ RequestSend \/ Destroy \/ EnqueueStop

Environment == SendCompletes \/ CheckDelivered \/ CheckFails
                 \/ ServerDown \/ ServerUp \/ FileLost

Next == Dispatcher \/ Clock \/ IoThread \/ User \/ Environment

Spec == Init /\ [][Next]_vars

\* Both threads go on, timers expire, sends complete, the nested client gets its
\* answer, and open and bind do not fail for ever.
LiveSpec ==
    /\ Spec
    /\ WF_vars(Dispatcher) /\ WF_vars(IoThread)
    /\ WF_vars(SendCompletes) /\ WF_vars(CheckDelivered)
    /\ SF_vars(Tick \/ DelayPasses)
    /\ SF_vars(ServerCheckTick) /\ SF_vars(SocketCheckTick)
    /\ SF_vars(AsyncConnect)

-------------------------------------------------------------------------------
(* Properties *)

\* Every variable has its type.
TypeOK ==
    /\ attached \in BOOLEAN /\ detaching \in BOOLEAN /\ reconnect_interval \in BOOLEAN
    /\ dq \in Seq(Calls(ImplFunctions \union ClientFunctions))
    /\ joining \in BOOLEAN
    /\ delayed \in Nat /\ ticking \in BOOLEAN
    /\ client_impl \in BOOLEAN
    /\ ioq \in Seq(Calls(IoHandlers))
    /\ socket \in BOOLEAN /\ socket_ready \in BOOLEAN
    /\ peer \in {"none", "live", "dead"}
    /\ file \in {"absent", "ours", "stale"}
    /\ send_entries \in Seq(0..MaxSends)
    /\ checking \in BOOLEAN
    /\ check_client \in {"none", "connecting", "done"}
    /\ server \in BOOLEAN
    /\ reported \in {"connected", "closed"}
    /\ accepted \in 0..MaxSends
    /\ processed \in Seq(1..MaxSends)
    /\ events \in 0..MaxEvents

\* Until the client is stopped every datagram given to async_send is in exactly
\* one place on its way from the caller's thread through both queues and
\* client_send_entries_ to its `processed` callback, and all in order, whatever
\* connections are lost meanwhile (client.hpp:224-241, base_impl.hpp:269-274,
\* 419-431; tests/src/client_test.hpp:111).
Pipeline ==
    attached /\ client_impl
      => processed
           \o Carried(dq, "impl_processed")
           \o Kept(send_entries, 1..MaxSends)
           \o Kept(Carried(ioq, "async_send"), 1..MaxSends)
           \o Carried(dq, "send")
         = [i \in 1..accepted |-> i]

\* A callback is never called twice nor after that of a later datagram, stopped
\* or not (client.hpp:233-238, base_impl.hpp:425-429).
ProcessedInOrder ==
    \A i, j \in DOMAIN processed : i < j => processed[i] < processed[j]

\* closed is reported only for a connection that was reported connected
\* (base_impl.hpp:152-166, client_impl.hpp:146-148).
ClosedFollowsConnected == Runs("closed") => reported = "connected"

\* Once the destructor's stop() has run no function, timer or signal of the
\* client or its client_impl is left in the dispatcher (client.hpp:107-111).
DestroyedIsQuiet ==
    ~attached /\ ~detaching /\ ~joining /\ (\A i \in DOMAIN dq : dq[i].fn # "stop")
      => ~client_impl /\ dq = <<>> /\ delayed = 0 /\ ~ticking

\* "Client will reconnect automatically when the connection is closed
\* unintendedly": while the server is up and the client not stopped, it is
\* connected to it through its own socket file again and again (README.md:11).
Reconnects ==
    []<>(\/ Ready /\ peer = "live" /\ file = "ours"
         \/ ~server \/ ~reconnect_interval \/ ~attached)

\* Although stop() leaves the reconnect timer and its delayed start alone, both
\* end for good, by the timer's own function (client.hpp:204-222).
TimerStops == ~reconnect_interval ~> [](~ticking /\ delayed = 0)
===============================================================================
