-------------------------------- MODULE Server --------------------------------
(***************************************************************************)
(* pqrs::local_datagram::server: starting, stopping and restarting the     *)
(* server.  Three parts run concurrently:                                  *)
(*                                                                         *)
(*   - the dispatcher thread runs the server's functions.  dq holds the    *)
(*     functions due at once, in order; functions with a later due time    *)
(*     (`delayed`, `ticking`) run only when dq is empty.  The destructor   *)
(*     of server_impl makes this thread wait for the io thread (joining);  *)
(*   - the io thread of the current server_impl runs ioq, one handler per  *)
(*     action.  Sending and receiving are left out: BaseImpl has them;     *)
(*   - the nested client_impl connects to the socket file to see whether   *)
(*     the server can still be reached.                                    *)
(*                                                                         *)
(* Due times are abstracted: a delayed function may run at any time.       *)
(***************************************************************************)
EXTENDS Integers, Sequences, Queues

CONSTANTS
    MaxRequests,   \* bound: calls of async_start and async_stop
    MaxLosses,     \* bound: times the socket file is lost
    MaxDelayed     \* bound: the reconnect timer ticks only below this many

ASSUME ServerBounds ==
    MaxRequests \in Nat /\ MaxLosses \in Nat /\ MaxDelayed \in Nat

VARIABLES
    attached,            \* the server is attached to the dispatcher
    detaching,           \* ~server has detached it and not yet enqueued stop()
    reconnect_interval,  \* reconnect_interval_ has a value
    dq,                  \* functions of the dispatcher that are due, in order
    joining,             \* the dispatcher thread is in ~server_impl: what it
                         \* does afterwards ("no": it is not)
    delayed,             \* pending `reconnect_timer_.start` functions
    ticking,             \* reconnect_timer_ has a function and a pending call
    server_impl,         \* server_impl_ is not null
    ioq,                 \* handlers posted to io_ctx_
    socket,              \* "none", "unbound" (socket_ready_ is false), "bound"
    work_guard,          \* work_guard_ is held
    checking,            \* server_check_timer_ is started
    check_client,        \* server_check_client_impl_: "none", "connecting",
                         \* "connected", "refused", or "done" once its signal
                         \* has been delivered
    file,                \* the socket file: "absent", "bound" to our socket
    stopped,             \* history: stop() has run and bind() was not asked for
    reported,            \* history: the last of bound() and closed() reported
    requests, losses     \* counters of the bounds

modeVars == <<attached, detaching, reconnect_interval, joining>>
timerVars == <<delayed, ticking>>
checkVars == <<checking, check_client>>
implVars == <<server_impl, ioq, socket, work_guard, checkVars, file>>
historyVars == <<stopped, reported>>
boundVars == <<requests, losses>>
worldVars == <<historyVars, boundVars>>
vars == <<modeVars, timerVars, dq, implVars, worldVars>>

\* Functions of server_impl's object id, and of the server's.
Signals == {"impl_bound", "impl_bind_failed", "impl_closed"}
Functions == {"bind", "stop", "reconnect", "timer_start", "timer_stop",
              "bound", "bind_failed", "closed"}
IoHandlers == {"async_close", "async_bind", "check_server", "check_reset", "reset"}

-------------------------------------------------------------------------------
(* The dispatcher *)

\* Mutant: object_ids_ is not looked at.
EnqueueAlways(q, fs) == q \o fs

\* enqueue_to_dispatcher of the server: refused once it is detached.
Enqueue(q, fs) == IF attached THEN q \o fs ELSE q

\* Mutant: the signals of the destroyed server_impl stay.
WithSignals(q) == q

\* detach(object_id) erases the functions of an object.
WithoutSignals(q) == Kept(q, Functions)

WithoutFunctions(q) == Kept(q, Signals)

Runs(f) == joining = "no" /\ dq # <<>> /\ Head(dq) = f

\* bind(): `if (server_impl_) return;`, a new server_impl and async_bind(),
\* which begins with async_close().
Bind ==
    \/ /\ server_impl
       /\ UNCHANGED implVars
    \/ /\ ~server_impl
       /\ server_impl' = TRUE
       /\ ioq' = <<"async_close", "async_bind">>
       /\ socket' = "none"
       /\ work_guard' = TRUE
       /\ checking' = FALSE
       /\ check_client' = "none"
       /\ UNCHANGED file

\* close() up to join(): ~server_impl posts async_close and the reset of the
\* work guard.  Afterwards the caller goes on with `next`.
Close(next) ==
    \/ /\ ~server_impl
       /\ joining' = IF next = "reconnect" THEN "reconnect" ELSE "no"
       /\ UNCHANGED implVars
    \/ /\ server_impl
       /\ joining' = next
       /\ ioq' = ioq \o <<"async_close", "reset">>
       /\ UNCHANGED <<checkVars, server_impl, socket, work_guard, file>>

\* async_start: bind()
Start ==
    /\ Runs("bind") /\ dq' = Tail(dq)
    /\ Bind
    /\ stopped' = FALSE
    /\ UNCHANGED <<modeVars, timerVars, boundVars, reported>>

\* async_stop: stop()
Stop ==
    /\ Runs("stop") /\ dq' = Tail(dq)
    /\ reconnect_interval' = FALSE
    /\ Close("nothing")
    /\ stopped' = TRUE
    /\ UNCHANGED <<timerVars, boundVars, attached, detaching, reported>>

\* Mutant: start_reconnect_timer() is not called.
FailedWithoutReconnect(signal, report) ==
    /\ Runs(signal)
    /\ dq' = Enqueue(Tail(dq), <<report>>)
    /\ Close("nothing")
    /\ UNCHANGED <<worldVars, timerVars, attached, detaching, reconnect_interval>>

\* The server's handlers of bind_failed and closed: report, close() and, when
\* it has returned, start_reconnect_timer().
Failed(signal, report) ==
    /\ Runs(signal)
    /\ dq' = Enqueue(Tail(dq), <<report>>)
    /\ Close("reconnect")
    /\ UNCHANGED <<worldVars, timerVars, attached, detaching, reconnect_interval>>

BindFailedSignal == Failed("impl_bind_failed", "bind_failed")
ClosedSignal == Failed("impl_closed", "closed")

BoundSignal ==
    /\ Runs("impl_bound")
    /\ dq' = Enqueue(Tail(dq), <<"bound">>)
    /\ UNCHANGED <<implVars, worldVars, modeVars, timerVars>>

\* The user's slots.
Report ==
    /\ \/ Runs("bound") /\ reported' = "bound"
       \/ Runs("closed") /\ reported' = "closed"
       \/ Runs("bind_failed") /\ UNCHANGED reported
    /\ dq' = Tail(dq)
    /\ UNCHANGED <<implVars, modeVars, timerVars, boundVars, stopped>>

\* timer::start's function: the function is called at once and then again
\* after every interval.
TimerStart ==
    /\ Runs("timer_start")
    /\ dq' = Enqueue(Tail(dq), <<"reconnect">>)
    /\ ticking' = TRUE
    /\ UNCHANGED <<implVars, worldVars, modeVars, delayed>>

TimerStop ==
    /\ Runs("timer_stop") /\ dq' = Tail(dq)
    /\ ticking' = FALSE
    /\ UNCHANGED <<implVars, worldVars, modeVars, delayed>>

\* The function of reconnect_timer_: bind() is called in either case.
Reconnect ==
    /\ Runs("reconnect")
    /\ dq' = IF reconnect_interval THEN Tail(dq)
             ELSE Enqueue(Tail(dq), <<"timer_stop">>)
    /\ Bind
    /\ UNCHANGED <<worldVars, modeVars, timerVars>>

\* reconnect_timer_'s next call is due.
Tick ==
    /\ joining = "no" /\ dq = <<>>
    /\ ticking
    /\ delayed < MaxDelayed
    /\ dq' = <<"reconnect">>
    /\ UNCHANGED <<implVars, worldVars, modeVars, timerVars>>

\* The function enqueued by start_reconnect_timer() is due.  It reads
\* *reconnect_interval_ whether or not stop() has unset it meanwhile; the
\* storage still holds a duration, so the timer starts.
DelayPasses ==
    /\ joining = "no" /\ dq = <<>>
    /\ delayed > 0
    /\ delayed' = delayed - 1
    /\ dq' = <<"timer_start">>
    /\ UNCHANGED <<implVars, worldVars, modeVars, ticking>>

-------------------------------------------------------------------------------
(* The io thread of server_impl *)

IoRuns(h) == server_impl /\ ioq # <<>> /\ Head(ioq) = h

\* Mutant: bound_path_ is not removed.
AsyncCloseKeepsFile ==
    /\ IoRuns("async_close") /\ ioq' = Tail(ioq)
    /\ socket' = "none"
    /\ dq' = IF socket = "bound" THEN Append(dq, "impl_closed") ELSE dq
    /\ UNCHANGED <<worldVars, modeVars, timerVars, checkVars, file, server_impl,
                   work_guard>>

\* Mutant: closed is signalled whatever the state of the socket.
AsyncCloseAlwaysSignals ==
    /\ IoRuns("async_close") /\ ioq' = Tail(ioq)
    /\ socket' = "none"
    /\ file' = "absent" /\ dq' = Append(dq, "impl_closed")
    /\ UNCHANGED <<worldVars, modeVars, timerVars, checkVars, server_impl, work_guard>>

\* async_close; the socket file is removed whoever has put it there.
AsyncClose ==
    /\ IoRuns("async_close") /\ ioq' = Tail(ioq)
    /\ socket' = "none"
    /\ IF socket = "bound"
         THEN file' = "absent" /\ dq' = Append(dq, "impl_closed")
         ELSE UNCHANGED <<file, dq>>
    /\ UNCHANGED <<worldVars, modeVars, timerVars, checkVars, server_impl, work_guard>>

\* async_bind: open or bind fails, after the old file was removed.
AsyncBindFails ==
    /\ IoRuns("async_bind") /\ ioq' = Tail(ioq)
    /\ socket' = "unbound"
    /\ file' = "absent"
    /\ dq' = Append(dq, "impl_bind_failed")
    /\ UNCHANGED <<worldVars, modeVars, timerVars, checkVars, server_impl, work_guard>>

AsyncBind ==
    /\ IoRuns("async_bind") /\ ioq' = Tail(ioq)
    /\ socket' = "bound"
    /\ file' = "bound"
    /\ checking' = TRUE
    /\ dq' = Append(dq, "impl_bound")
    /\ UNCHANGED <<worldVars, modeVars, timerVars, server_impl, work_guard, check_client>>

\* check_server
CheckServer ==
    /\ IoRuns("check_server") /\ ioq' = Tail(ioq)
    /\ IF socket # "bound"
         THEN checking' = FALSE /\ check_client' = "none"
         ELSE /\ check_client' = IF check_client = "none" THEN "connecting" ELSE check_client
              /\ UNCHANGED checking
    /\ UNCHANGED <<worldVars, modeVars, timerVars, dq, server_impl, socket, work_guard,
                   file>>

\* Posted by the nested client's connected handler.
CheckReset ==
    /\ IoRuns("check_reset") /\ ioq' = Tail(ioq)
    /\ check_client' = "none"
    /\ UNCHANGED <<worldVars, modeVars, timerVars, dq, server_impl, socket, work_guard,
                   checking, file>>

ResetWorkGuard ==
    /\ IoRuns("reset") /\ ioq' = Tail(ioq)
    /\ work_guard' = FALSE
    /\ UNCHANGED <<worldVars, modeVars, timerVars, checkVars, dq, server_impl, socket,
                   file>>

\* start_reconnect_timer()
StartReconnectTimer(q) ==
    \/ /\ reconnect_interval
       /\ dq' = q
       /\ delayed' = IF attached THEN delayed + 1 ELSE delayed
    \/ /\ ~reconnect_interval
       /\ dq' = Enqueue(q, <<"timer_stop">>)
       /\ UNCHANGED delayed

\* The io thread has ended: join() returns, terminate_base_impl() detaches
\* server_impl and the handler that called close() goes on.
Joined ==
    /\ joining # "no"
    /\ server_impl => ~work_guard /\ ioq = <<>>
    /\ joining' = "no"
    /\ server_impl' = FALSE
    /\ socket' = "none" /\ checking' = FALSE /\ check_client' = "none"
    /\ IF joining = "reconnect"
         THEN StartReconnectTimer(WithoutSignals(dq))
         ELSE dq' = WithoutSignals(dq) /\ UNCHANGED delayed
    /\ UNCHANGED <<worldVars, attached, detaching, reconnect_interval, ticking, ioq,
                   work_guard, file>>

-------------------------------------------------------------------------------
(* The nested client and server_check_timer_ *)

\* server_check_timer_ calls its function, which posts check_server; the io
\* thread keeps up with the check interval.
CheckTick ==
    /\ joining = "no" /\ dq = <<>>
    /\ server_impl /\ checking
    /\ \A i \in DOMAIN ioq : ioq[i] # "check_server"
    /\ ioq' = Append(ioq, "check_server")
    /\ UNCHANGED <<worldVars, modeVars, timerVars, checkVars, dq, server_impl, socket,
                   work_guard, file>>

\* The nested client connects to the socket file, or cannot; its own open may
\* fail as well.
CheckConnects ==
    /\ server_impl
    /\ check_client = "connecting"
    /\ \/ file = "bound" /\ check_client' = "connected"
       \/ check_client' = "refused"
    /\ UNCHANGED <<worldVars, modeVars, timerVars, dq, server_impl, ioq, socket, work_guard,
                   checking, file>>

\* The dispatcher delivers the nested client's connected or connect_failed.
CheckDelivered ==
    /\ joining = "no"
    /\ server_impl
    /\ check_client \in {"connected", "refused"}
    /\ check_client' = "done"
    /\ ioq' = Append(ioq, IF check_client = "connected" THEN "check_reset" ELSE "async_close")
    /\ UNCHANGED <<worldVars, modeVars, timerVars, dq, server_impl, socket, work_guard,
                   checking, file>>

-------------------------------------------------------------------------------
(* The user and the environment *)

\* async_start(), async_stop()
Request ==
    /\ attached
    /\ requests < MaxRequests
    /\ requests' = requests + 1
    /\ \E f \in {"bind", "stop"} : dq' = Append(dq, f)
    /\ UNCHANGED <<implVars, modeVars, timerVars, historyVars, losses>>

\* Mutant: the functions of the server stay in the queue.
DestroyWithoutErase ==
    /\ attached
    /\ attached' = FALSE
    /\ detaching' = TRUE
    /\ UNCHANGED <<implVars, worldVars, timerVars, dq, reconnect_interval, joining>>

\* ~server: detach(object_id) erases the server's functions.
Destroy ==
    /\ attached
    /\ attached' = FALSE
    /\ detaching' = TRUE
    /\ dq' = WithoutFunctions(dq)
    /\ delayed' = 0
    /\ ticking' = FALSE
    /\ UNCHANGED <<implVars, worldVars, reconnect_interval, joining>>

\* ~server goes on: it waits for a function of the server that is running
\* (joining = "nothing"), not for one of server_impl, and puts stop() in front.
EnqueueStop ==
    /\ detaching
    /\ joining # "nothing"
    /\ detaching' = FALSE
    /\ dq' = <<"stop">> \o dq
    /\ UNCHANGED <<implVars, worldVars, timerVars, attached, reconnect_interval, joining>>

\* The socket file is removed, or made unreachable, from outside.
FileLost ==
    /\ file = "bound"
    /\ losses < MaxLosses
    /\ losses' = losses + 1
    /\ file' = "absent"
    /\ UNCHANGED <<modeVars, timerVars, checkVars, historyVars, dq, server_impl, ioq,
                   socket, work_guard, requests>>

-------------------------------------------------------------------------------

\* set_reconnect_interval and set_server_check_interval have been called.
Init ==
    /\ attached = TRUE /\ detaching = FALSE
    /\ reconnect_interval = TRUE
    /\ dq = <<>>
    /\ joining = "no"
    /\ delayed = 0
    /\ ticking = FALSE
    /\ server_impl = FALSE
    /\ ioq = <<>>
    /\ socket = "none"
    /\ work_guard = FALSE
    /\ checking = FALSE
    /\ check_client = "none"
    /\ file = "absent"
    /\ stopped = TRUE
    /\ reported = "closed"
    /\ requests = 0 /\ losses = 0

Dispatcher ==
    \/ Start \/ Stop
    \/ BoundSignal \/ BindFailedSignal \/ ClosedSignal \/ Report
    \/ TimerStart \/ TimerStop \/ Reconnect
    \/ Joined

Clock == Tick \/ DelayPasses \/ CheckTick

IoThread ==
    \/ AsyncClose \/ AsyncBindFails \/ AsyncBind
    \/ CheckServer \/ CheckReset \/ ResetWorkGuard

Next == Dispatcher \/ Clock \/ IoThread \/ CheckConnects \/ CheckDelivered
          \/ Request \/ Destroy \/ EnqueueStop \/ FileLost

Spec == Init /\ [][Next]_vars

\* Every thread goes on, every timer expires, and a bind that is tried again
\* and again succeeds at last.
LiveSpec ==
    /\ Spec
    /\ WF_vars(Dispatcher) /\ WF_vars(IoThread)
    /\ WF_vars(CheckConnects) /\ WF_vars(CheckDelivered)
    /\ SF_vars(Tick) /\ SF_vars(DelayPasses) /\ SF_vars(CheckTick)
    /\ SF_vars(AsyncBind)

-------------------------------------------------------------------------------
(* Properties *)

VariablesOK ==
    /\ attached \in BOOLEAN /\ detaching \in BOOLEAN /\ reconnect_interval \in BOOLEAN
    /\ dq \in Seq(Signals \union Functions)
    /\ joining \in {"no", "nothing", "reconnect"}
    /\ delayed \in Nat
    /\ ticking \in BOOLEAN
    /\ server_impl \in BOOLEAN
    /\ ioq \in Seq(IoHandlers)
    /\ socket \in {"none", "unbound", "bound"}
    /\ work_guard \in BOOLEAN /\ checking \in BOOLEAN
    /\ check_client \in {"none", "connecting", "connected", "refused", "done"}
    /\ file \in {"absent", "bound"}
    /\ stopped \in BOOLEAN
    /\ reported \in {"bound", "closed"}
    /\ requests \in 0..MaxRequests /\ losses \in 0..MaxLosses

\* Every variable has its type, and once the server is detached from the
\* dispatcher no function of it but the destructor's stop() is queued
\* (dispatcher.hpp:184-195, 321-323, server.hpp:41-45).
TypeOK == VariablesOK /\ (~attached => dq \in Seq(Signals \union {"stop"}))

\* A signal of a destroyed server_impl is never delivered: a late closed would
\* make the server destroy the server_impl that replaced it
\* (base_impl.hpp:83, 163-166, server.hpp:130-137).
NoStaleSignal == ~server_impl => \A i \in DOMAIN dq : dq[i] \notin Signals

\* The socket file is gone when no server_impl is left to own it, however
\* binding, losing the file, stopping and destroying interleave
\* (base_impl.hpp:152-161; tests/src/server_test.hpp:28).
NoFileLeft == ~server_impl => file = "absent"

\* closed is reported only for a socket that was reported bound
\* (base_impl.hpp:152-166, server_impl.hpp:96-98).
ClosedFollowsBound == dq # <<>> /\ Head(dq) = "closed" => reported = "bound"

\* Once the destructor's stop() has run nothing can bring the server back: no
\* timer, delayed function or signal of it is left (server.hpp:41-45).
DestroyedIsClosed ==
    ~attached /\ ~detaching /\ joining = "no" /\ (\A i \in DOMAIN dq : dq[i] # "stop")
      => ~server_impl /\ dq = <<>> /\ delayed = 0 /\ ~ticking

\* A server whose socket file is lost, or whose bind failed, is bound again
\* unless it is stopped (README.md:10, server.hpp:121-137, 166-184).
Restarts ==
    (~stopped /\ reconnect_interval /\ file = "absent")
      ~> (file = "bound" \/ ~reconnect_interval \/ ~attached)

\* A stopped server has no server_impl until async_start() is called again:
\* stop() unsets reconnect_interval_ "to prevent `start_reconnect_timer`"
\* (server.hpp:94-97).
StaysStopped == stopped /\ joining = "no" => ~server_impl
===============================================================================
