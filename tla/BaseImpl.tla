------------------------------- MODULE BaseImpl -------------------------------
(***************************************************************************)
(* The sender of pqrs::local_datagram: base_impl (the io_context thread    *)
(* with its handlers, the send loop, the send deadline, closing and        *)
(* termination), with client_impl::async_connect in client mode and        *)
(* server_impl::async_bind in server mode.                                 *)
(*                                                                         *)
(* io_ctx_ is run by one thread, so a handler is one atomic action, and    *)
(* handlers start in the order in which they were posted: ioq is asio's    *)
(* operation queue.  The other threads (the dispatcher, the kernel, the    *)
(* clock) only append handlers to it:                                      *)
(*                                                                         *)
(*   - the dispatcher posts async_send, async_connect, async_close, the    *)
(*     destructor's async_close and work_guard_.reset();                   *)
(*   - the kernel completes the send at the head of the socket's queue;    *)
(*   - a timer whose expiry is reached, cancelled or replaced moves its    *)
(*     pending waits into ioq.                                             *)
(*                                                                         *)
(* Entries are numbered in the order in which they reach send_entries_.    *)
(* A unix datagram is sent whole or not at all, and async_connect on a     *)
(* datagram socket completes at once: its handler, with the result, is     *)
(* posted before async_connect returns.                                    *)
(***************************************************************************)
EXTENDS Integers, Sequences, FiniteSets

CONSTANTS
    Mode,                  \* mode_: "client" or "server"
    BufferSize,            \* buffer_.size() of a send_entry, the type byte included
    NoBufferSpaceLimit,    \* 10 in handle_send
    NoBufferSpaceAbort,    \* 100 in handle_send
    MaxEntries,            \* bound: entries ever given to async_send
    MaxHandlers,           \* bound: other threads post only below this length
    MaxFailed,             \* bound: failures not yet delivered when connecting again
    SerialConnects         \* TRUE: the io thread finishes one async_connect
                           \* before the reconnect timer posts the next one

ASSUME ModeAssumption == Mode \in {"client", "server"}
ASSUME BufferSizeAssumption == BufferSize \in Nat \ {0}
ASSUME NoBufferSpaceAssumption ==
    /\ NoBufferSpaceLimit \in Nat
    /\ NoBufferSpaceAbort \in Nat
ASSUME BoundsAssumption ==
    MaxEntries \in Nat /\ MaxHandlers \in Nat /\ MaxFailed \in Nat
ASSUME SerialConnectsAssumption == SerialConnects \in BOOLEAN

VARIABLES
    io_thread,        \* io_ctx_thread_: "absent", "running", "terminating"
    work_guard,       \* work_guard_ is held
    ioq,              \* handlers posted to io_ctx_, oldest first
    socket,           \* socket_ is not null
    socket_ready,     \* socket_ready_
    failed,           \* connect_failed / bind_failed signals not yet delivered
    check,            \* the nested client_impl that probes the socket file
    asked,            \* number of the newest entry given to async_send
    pushed,           \* number of the newest entry in send_entries_
    send_entries,     \* *send_entries_: entry numbers, front first
    bytes_transferred,            \* per entry
    no_buffer_space_error_count,  \* per entry
    send_invoker,     \* pending wait: "none", "infinite", "delay"
    send_deadline,    \* expiry of send_deadline_: "infinite", "armed", "passed"
    deadline_waits,   \* pending waits on send_deadline_
    sending,          \* sends the socket has not completed, oldest first
    begun_by,         \* history: who began the newest send
    wire,             \* datagrams the kernel accepted, in order
    dropped,          \* entries given up with an error
    processed         \* entries removed from send_entries_, in order

threadVars == <<io_thread, work_guard>>
socketVars == <<socket, socket_ready, failed, check>>
entryVars  == <<asked, pushed, send_entries, bytes_transferred,
                no_buffer_space_error_count, processed, dropped>>
timerVars  == <<send_invoker, send_deadline, deadline_waits>>
sendVars   == <<sending, begun_by, wire>>

vars == <<threadVars, ioq, socketVars, entryVars, timerVars, sendVars>>
allButQueue == <<threadVars, socketVars, entryVars, timerVars, sendVars>>

Entries == 1..MaxEntries
ConnectResults == {"ok", "error"}
SendResults == {"ok", "no_buffer_space", "message_size", "error"}

\* A handler with what its lambda captures; entry 0 and result "none" where
\* it captures nothing.
Post(op)          == [op |-> op, entry |-> 0, result |-> "none"]
ConnectHandler(r) == [op |-> "connect_handler", entry |-> 0, result |-> r]
SendHandler(e)    == [op |-> "async_send", entry |-> e, result |-> "none"]
HandleSend(e, r)  == [op |-> "handle_send", entry |-> e, result |-> r]

PlainOps == {"async_close", "async_connect", "async_bind", "await_send_entry",
             "check_send_deadline", "reset"}
Handlers ==
    [op : PlainOps, entry : {0}, result : {"none"}]
      \union [op : {"connect_handler"}, entry : {0}, result : ConnectResults]
      \union [op : {"async_send"}, entry : Entries, result : {"none"}]
      \union [op : {"handle_send"}, entry : Entries, result : SendResults]

Queued(ops) == {i \in DOMAIN ioq : ioq[i].op \in ops}

-------------------------------------------------------------------------------
(* Timers and sockets of asio: what a cancellation moves into the queue. *)

\* send_invoker_.cancel(), expires_after() and expires_at()
CancelledInvoker ==
    IF send_invoker = "none" THEN <<>> ELSE <<Post("await_send_entry")>>

\* send_deadline_.cancel(), expires_after() and expires_at(), n waits pending
CancelledDeadline(n) == [i \in 1..n |-> Post("check_send_deadline")]

\* socket_->cancel(): operation_aborted is an "other error" to handle_send
CancelledSends == [i \in 1..Len(sending) |-> HandleSend(sending[i], "error")]

-------------------------------------------------------------------------------
(* The send loop.  The operators below are the tail of a handler: q is the *)
(* queue and waits the pending deadline waits as the handler has left them *)
(* so far; socket_ and socket_ready_ are read after its assignments.       *)

\* Mutant: readiness is not looked at.
OpenBeforeReady == socket

Open == socket /\ socket_ready

\* `if (!socket_ || !socket_ready_) return;`
EndLoop(q, deadline, waits) ==
    /\ ~Open'
    /\ ioq' = q
    /\ send_deadline' = deadline
    /\ deadline_waits' = waits
    /\ UNCHANGED <<send_invoker, sending, begun_by>>

\* Sleep for the delay, or until async_send.
Sleep(q, delay, deadline, waits) ==
    /\ Open'
    /\ delay \/ send_entries' = <<>>
    /\ ioq' = q \o CancelledInvoker
    /\ send_invoker' = IF delay THEN "delay" ELSE "infinite"
    /\ send_deadline' = deadline
    /\ deadline_waits' = waits
    /\ UNCHANGED <<sending, begun_by>>

\* Mutant: the deadline of the previous send stays.
SendFrontWithoutDeadline(q, delay, waits) ==
    /\ Open' /\ ~delay /\ send_entries' # <<>>
    /\ ioq' = q
    /\ sending' = Append(sending, Head(send_entries'))
    /\ begun_by' = "await_send_entry"
    /\ deadline_waits' = waits
    /\ send_deadline' = "infinite"
    /\ UNCHANGED send_invoker

\* Send entry->make_buffer() with handle_send as the completion handler.
SendFront(q, delay, waits) ==
    /\ Open'
    /\ ~delay
    /\ send_entries' # <<>>
    /\ ioq' = q \o CancelledDeadline(waits)
    /\ send_deadline' = "armed"
    /\ deadline_waits' = 0
    /\ sending' = Append(sending, Head(send_entries'))
    /\ begun_by' = "await_send_entry"
    /\ UNCHANGED send_invoker

\* Mutant: the check for an empty deque is missing.
AwaitSendEntryUnchecked(q, delay, deadline, waits) ==
    \/ EndLoop(q, deadline, waits)
    \/ delay /\ Sleep(q, delay, deadline, waits)
    \/ SendFront(q, delay, waits)
    \/ /\ Open' /\ ~delay /\ send_entries' = <<>>
       /\ ioq' = q \o CancelledDeadline(waits)
       /\ send_deadline' = "armed"
       /\ deadline_waits' = 0
       /\ sending' = Append(sending, 0)
       /\ begun_by' = "await_send_entry"
       /\ UNCHANGED send_invoker

\* await_send_entry: the rest of the loop.
AwaitSendEntry(q, delay, deadline, waits) ==
    \/ EndLoop(q, deadline, waits)
    \/ Sleep(q, delay, deadline, waits)
    \/ SendFront(q, delay, waits)

\* start_actors(): await_send_entry(nullopt), then the deadline is set to
\* infinity whether or not a send was begun, then check_send_deadline().
StartActors(q) ==
    /\ send_deadline' = "infinite"
    /\ deadline_waits' = IF Open' /\ Mode = "client" THEN 1 ELSE 0
    /\ \/ /\ ~Open'
          /\ ioq' = q \o CancelledDeadline(deadline_waits)
          /\ UNCHANGED <<send_invoker, sending, begun_by>>
       \/ /\ Open' /\ send_entries = <<>>
          /\ ioq' = q \o (CancelledInvoker \o CancelledDeadline(deadline_waits))
          /\ send_invoker' = "infinite"
          /\ UNCHANGED <<sending, begun_by>>
       \/ /\ Open' /\ send_entries # <<>>
          /\ ioq' = q \o CancelledDeadline(deadline_waits)
          /\ sending' = Append(sending, Head(send_entries))
          /\ begun_by' = "start_actors"
          /\ UNCHANGED send_invoker

-------------------------------------------------------------------------------
(* Handlers of the io_context thread. *)

Runs(op) ==
    /\ io_thread # "absent"
    /\ ioq # <<>>
    /\ Head(ioq).op = op

\* async_close: `if (!socket_) return;`
CloseWithoutSocket ==
    /\ Runs("async_close")
    /\ ~socket
    /\ ioq' = Tail(ioq)
    /\ UNCHANGED allButQueue

\* What async_close does before the timers: cancelled holds the handlers of the
\* waits it goes on to cancel.
ReleaseSocket(cancelled) ==
    /\ Runs("async_close")
    /\ socket
    /\ ioq' = Tail(ioq) \o (CancelledSends \o cancelled)
    /\ socket' = FALSE
    /\ socket_ready' = FALSE
    /\ sending' = <<>>
    /\ UNCHANGED <<threadVars, failed, check, entryVars, send_deadline,
                   begun_by, wire>>

\* Mutant: send_invoker_.cancel() is missing.
CloseSocketKeepsInvoker ==
    /\ ReleaseSocket(CancelledDeadline(deadline_waits))
    /\ deadline_waits' = 0
    /\ UNCHANGED send_invoker

\* Mutant: send_deadline_.cancel() is missing.
CloseSocketKeepsDeadline ==
    /\ ReleaseSocket(CancelledInvoker)
    /\ send_invoker' = "none"
    /\ UNCHANGED deadline_waits

\* async_close: the sends, then the invoker, then the deadline are cancelled.
CloseSocket ==
    /\ ReleaseSocket(CancelledInvoker \o CancelledDeadline(deadline_waits))
    /\ send_invoker' = "none"
    /\ deadline_waits' = 0

\* async_connect while a socket exists: `if (socket_) return;`
ConnectWithSocket ==
    /\ Runs("async_connect")
    /\ socket
    /\ ioq' = Tail(ioq)
    /\ UNCHANGED allButQueue

\* async_connect: open or bind fails; the socket object stays.
OpenFails ==
    /\ Runs("async_connect")
    /\ ~socket
    /\ ioq' = Tail(ioq)
    /\ socket' = TRUE
    /\ socket_ready' = FALSE
    /\ failed' = failed + 1
    /\ UNCHANGED <<threadVars, check, entryVars, timerVars, sendVars>>

\* async_connect up to socket_->async_connect, with the result r.
Connect(r) ==
    /\ Runs("async_connect")
    /\ ~socket
    /\ ioq' = Append(Tail(ioq), ConnectHandler(r))
    /\ socket' = TRUE
    /\ socket_ready' = FALSE
    /\ UNCHANGED <<threadVars, failed, check, entryVars, timerVars, sendVars>>

\* The completion handler of socket_->async_connect, on error.
ConnectFails ==
    /\ Runs("connect_handler")
    /\ Head(ioq).result = "error"
    /\ ioq' = Tail(ioq)
    /\ failed' = failed + 1
    /\ UNCHANGED <<threadVars, socket, socket_ready, check, entryVars,
                   timerVars, sendVars>>

\* The completion handler on success; socket_ may have been closed meanwhile.
Connected ==
    /\ Runs("connect_handler")
    /\ Head(ioq).result = "ok"
    /\ socket_ready' = TRUE
    /\ check' = "none"
    /\ UNCHANGED <<threadVars, socket, failed, entryVars, wire>>
    /\ StartActors(Tail(ioq))

\* async_bind: open or bind fails.
BindFails ==
    /\ Runs("async_bind")
    /\ ioq' = Tail(ioq)
    /\ socket' = TRUE
    /\ socket_ready' = FALSE
    /\ failed' = failed + 1
    /\ UNCHANGED <<threadVars, check, entryVars, timerVars, sendVars>>

Bound ==
    /\ Runs("async_bind")
    /\ socket' = TRUE
    /\ socket_ready' = TRUE
    /\ UNCHANGED <<threadVars, failed, check, entryVars, wire>>
    /\ StartActors(Tail(ioq))

\* send_entries_->push_back(entry)
PushBack ==
    /\ Runs("async_send")
    /\ pushed' = Head(ioq).entry
    /\ send_entries' = Append(send_entries, pushed')
    /\ UNCHANGED <<threadVars, socketVars, asked, bytes_transferred,
                   no_buffer_space_error_count, processed, dropped,
                   send_deadline, deadline_waits, sendVars>>

\* Mutant: send_invoker_ is not touched.
PushEntryWithoutWakeup ==
    PushBack /\ ioq' = Tail(ioq) /\ UNCHANGED send_invoker

\* Mutant: await_send_entry() is called again while the loop is elsewhere.
PushEntryStartsLoop ==
    /\ PushBack
    /\ ioq' = Tail(ioq) \o <<Post("await_send_entry")>>
    /\ send_invoker' = "none"

\* Mutant: the cancelled wait does not call its handler.
PushEntryDropsHandler ==
    PushBack /\ ioq' = Tail(ioq) /\ send_invoker' = "none"

\* async_send: push_back and send_invoker_.expires_after(0).
PushEntry ==
    /\ PushBack
    /\ ioq' = Tail(ioq) \o CancelledInvoker
    /\ send_invoker' = "none"

\* The handler of send_invoker_.async_wait; it ignores its error code.
InvokerHandler ==
    /\ Runs("await_send_entry")
    /\ UNCHANGED <<threadVars, socketVars, entryVars, wire>>
    /\ AwaitSendEntry(Tail(ioq), FALSE, send_deadline, deadline_waits)

-------------------------------------------------------------------------------
(* handle_send *)

\* pop_front_send_entry()
PopFrontSendEntry ==
    \/ /\ send_entries = <<>>
       /\ UNCHANGED <<send_entries, processed>>
    \/ /\ send_entries # <<>>
       /\ send_entries' = Tail(send_entries)
       /\ processed' = Append(processed, Head(send_entries))

\* Mutant: the front entry is removed without transfer_complete().
FinishSendAlwaysPops(e, delay) ==
    /\ UNCHANGED <<threadVars, socketVars, asked, pushed, wire>>
    /\ PopFrontSendEntry
    /\ AwaitSendEntry(Tail(ioq) \o CancelledDeadline(deadline_waits),
                      delay, "infinite", 0)

\* The end of handle_send, once bytes_transferred' is known: remove the front
\* entry if e is complete, then await_send_entry(next_delay).  The deadline
\* was set to infinity at the start, which moved its waits into the queue.
FinishSend(e, delay) ==
    /\ UNCHANGED <<threadVars, socketVars, asked, pushed, wire>>
    /\ IF bytes_transferred'[e] >= BufferSize
         THEN PopFrontSendEntry
         ELSE UNCHANGED <<send_entries, processed>>
    /\ AwaitSendEntry(Tail(ioq) \o CancelledDeadline(deadline_waits),
                      delay, "infinite", 0)

AddBytesTransferred(e, n) ==
    bytes_transferred' = [bytes_transferred EXCEPT ![e] = @ + n]

RestBytes(e) ==
    IF bytes_transferred[e] >= BufferSize
      THEN 0 ELSE BufferSize - bytes_transferred[e]

HandlesSend(r) == Runs("handle_send") /\ Head(ioq).result = r

\* Mutant: add_bytes_transferred() is missing.
SendSucceededWithoutBytes ==
    /\ HandlesSend("ok")
    /\ UNCHANGED <<bytes_transferred, no_buffer_space_error_count, dropped>>
    /\ FinishSend(Head(ioq).entry, FALSE)

SendSucceeded ==
    /\ HandlesSend("ok")
    /\ AddBytesTransferred(Head(ioq).entry, BufferSize)
    /\ UNCHANGED <<no_buffer_space_error_count, dropped>>
    /\ FinishSend(Head(ioq).entry, FALSE)

\* no_buffer_space: keep the entry for a while, then drop it.
NoBufferSpace ==
    /\ HandlesSend("no_buffer_space")
    /\ LET e == Head(ioq).entry
           n == no_buffer_space_error_count[e] + 1
           givesUp == /\ n > NoBufferSpaceLimit
                      /\ \/ bytes_transferred[e] = 0
                         \/ n > NoBufferSpaceAbort
       IN /\ no_buffer_space_error_count' =
                [no_buffer_space_error_count EXCEPT ![e] = n]
          /\ AddBytesTransferred(e, IF givesUp THEN RestBytes(e) ELSE 0)
          /\ dropped' = IF givesUp THEN dropped \union {e} ELSE dropped
          /\ FinishSend(e, TRUE)

\* message_size in both modes; every other error in server mode.
DropEntry ==
    /\ \/ HandlesSend("message_size")
       \/ HandlesSend("error") /\ Mode = "server"
    /\ LET e == Head(ioq).entry
       IN /\ AddBytesTransferred(e, RestBytes(e))
          /\ dropped' = dropped \union {e}
          /\ UNCHANGED no_buffer_space_error_count
          /\ FinishSend(e, FALSE)

\* Any other error in client mode ends the loop.
AbortLoop(closing) ==
    /\ HandlesSend("error")
    /\ Mode = "client"
    /\ ioq' = Tail(ioq) \o (CancelledDeadline(deadline_waits) \o closing)
    /\ send_deadline' = "infinite"
    /\ deadline_waits' = 0
    /\ UNCHANGED <<threadVars, socketVars, entryVars, send_invoker, sendVars>>

\* Mutant: the loop ends and the connection stays.
ConnectionErrorWithoutClose == AbortLoop(<<>>)

\* async_close() and return.
ConnectionError == AbortLoop(<<Post("async_close")>>)

-------------------------------------------------------------------------------
(* check_send_deadline and the end of the thread *)

\* check_send_deadline() returns without waiting again.
DeadlineWithoutSocket ==
    /\ Runs("check_send_deadline")
    /\ ~Open
    /\ ioq' = Tail(ioq)
    /\ UNCHANGED allButQueue

\* Mutant: the deadline passes and nothing is closed.
DeadlineExpiredWithoutClose ==
    /\ Runs("check_send_deadline") /\ Open /\ send_deadline = "passed"
    /\ ioq' = Tail(ioq)
    /\ UNCHANGED allButQueue

\* The deadline has passed.
DeadlineExpired ==
    /\ Runs("check_send_deadline")
    /\ Open
    /\ send_deadline = "passed"
    /\ ioq' = Append(Tail(ioq), Post("async_close"))
    /\ UNCHANGED allButQueue

\* Mutant: the deadline is looked at once.
AwaitDeadlineOnce ==
    /\ Runs("check_send_deadline") /\ Open /\ send_deadline # "passed"
    /\ ioq' = Tail(ioq)
    /\ UNCHANGED allButQueue

\* send_deadline_.async_wait
AwaitDeadline ==
    /\ Runs("check_send_deadline")
    /\ Open
    /\ send_deadline # "passed"
    /\ ioq' = Tail(ioq)
    /\ deadline_waits' = deadline_waits + 1
    /\ UNCHANGED <<threadVars, socketVars, entryVars, send_invoker,
                   send_deadline, sendVars>>

\* work_guard_.reset(), posted by terminate_base_impl
ResetWorkGuard ==
    /\ Runs("reset")
    /\ work_guard' = FALSE
    /\ ioq' = Tail(ioq)
    /\ UNCHANGED <<io_thread, socketVars, entryVars, timerVars, sendVars>>

\* io_ctx_.run() returns when it has neither work nor handlers left; the
\* destructor goes on after join() and the members are destroyed.
ThreadExits ==
    /\ io_thread = "terminating"
    /\ ~work_guard
    /\ ioq = <<>>
    /\ send_invoker = "none" /\ deadline_waits = 0 /\ sending = <<>>
    /\ io_thread' = "absent"
    /\ socket' = FALSE
    /\ socket_ready' = FALSE
    /\ failed' = 0
    /\ check' = "none"
    /\ UNCHANGED <<work_guard, ioq, entryVars, timerVars, sendVars>>

-------------------------------------------------------------------------------
(* Steps of the other threads.  MaxHandlers bounds how far they run ahead. *)

MayPost == io_thread = "running" /\ Len(ioq) < MaxHandlers

PostAsyncSend ==
    /\ asked < MaxEntries
    /\ asked' = asked + 1
    /\ ioq' = Append(ioq, SendHandler(asked'))
    /\ UNCHANGED <<threadVars, socketVars, pushed, send_entries,
                   bytes_transferred, no_buffer_space_error_count, processed,
                   dropped, timerVars, sendVars>>

\* client::async_send and server::async_send reach base_impl::async_send.
AsyncSend == MayPost /\ PostAsyncSend

\* client_impl::check_server, run by the io thread, sends a heartbeat.  It
\* may still be queued when the destructor has started.
CheckServer ==
    /\ Mode = "client"
    /\ io_thread = "terminating"
    /\ Open
    /\ PostAsyncSend

\* client::connect, from async_start or from the reconnect timer.
AsyncConnect ==
    /\ Mode = "client"
    /\ MayPost
    /\ failed < MaxFailed
    /\ SerialConnects => Queued({"async_connect", "connect_handler"}) = {}
    /\ ioq' = Append(ioq, Post("async_connect"))
    /\ UNCHANGED allButQueue

\* A connect_failed or bind_failed signal is delivered.
FailureDelivered ==
    /\ Mode = "client"
    /\ io_thread = "running"
    /\ failed' = failed - 1
    /\ UNCHANGED <<threadVars, socket, socket_ready, check, entryVars,
                   timerVars, sendVars>>

\* Mutant: the socket of the failed connection is kept.
ConnectFailedHandlerWithoutClose ==
    failed > 0 /\ FailureDelivered /\ UNCHANGED ioq

\* client's connect_failed_handler; server's bind_failed handler is Destroy.
ConnectFailedHandler ==
    /\ failed > 0
    /\ FailureDelivered
    /\ ioq' = Append(ioq, Post("async_close"))

\* check_client_socket (client) and check_server (server): probe the socket
\* file with a nested client_impl.  The handler only reads the sender's
\* state, so it is taken at any point between two handlers.
StartCheck ==
    /\ io_thread # "absent"
    /\ Open
    /\ check = "none"
    /\ check' = "connecting"
    /\ UNCHANGED <<threadVars, ioq, socket, socket_ready, failed, entryVars,
                   timerVars, sendVars>>

\* The nested client has connected, or stop_..._check() found no socket.
EndCheck ==
    /\ io_thread # "absent"
    /\ \/ check = "connecting" /\ io_thread = "running"
       \/ check # "none" /\ ~Open
    /\ check' = "none"
    /\ UNCHANGED <<threadVars, ioq, socket, socket_ready, failed, entryVars,
                   timerVars, sendVars>>

\* connect_failed of the nested client: async_close().
CheckFailed ==
    /\ MayPost
    /\ check = "connecting"
    /\ check' = "failed"
    /\ ioq' = Append(ioq, Post("async_close"))
    /\ UNCHANGED <<threadVars, socket, socket_ready, failed, entryVars,
                   timerVars, sendVars>>

\* The kernel completes the oldest send.
SendCompletes(r) ==
    /\ sending # <<>>
    /\ sending' = Tail(sending)
    /\ wire' = IF r = "ok" THEN Append(wire, Head(sending)) ELSE wire
    /\ ioq' = Append(ioq, HandleSend(Head(sending), r))
    /\ UNCHANGED <<threadVars, socketVars, entryVars, timerVars, begun_by>>

\* 100 milliseconds after a no_buffer_space error
InvokerFires ==
    /\ send_invoker = "delay"
    /\ send_invoker' = "none"
    /\ ioq' = Append(ioq, Post("await_send_entry"))
    /\ UNCHANGED <<threadVars, socketVars, entryVars, send_deadline,
                   deadline_waits, sendVars>>

\* 5000 milliseconds after await_send_entry
DeadlinePasses ==
    /\ send_deadline = "armed"
    /\ send_deadline' = "passed"
    /\ deadline_waits' = 0
    /\ ioq' = ioq \o CancelledDeadline(deadline_waits)
    /\ UNCHANGED <<threadVars, socketVars, entryVars, send_invoker, sendVars>>

\* ~client_impl, ~server_impl: async_close and terminate_base_impl; the
\* dispatcher thread waits in join() until ThreadExits.
Destroy ==
    /\ io_thread = "running"
    /\ io_thread' = "terminating"
    /\ ioq' = ioq \o <<Post("async_close"), Post("reset")>>
    /\ UNCHANGED <<work_guard, socketVars, entryVars, timerVars, sendVars>>

\* server::bind: a new server_impl over the same send_entries_.
Recreate ==
    /\ Mode = "server"
    /\ io_thread = "absent"
    /\ io_thread' = "running"
    /\ work_guard' = TRUE
    /\ ioq' = <<Post("async_close"), Post("async_bind")>>
    /\ send_deadline' = "infinite"
    /\ UNCHANGED <<socketVars, entryVars, send_invoker, deadline_waits, sendVars>>

-------------------------------------------------------------------------------

\* client creates its client_impl in its constructor, server in bind(); both
\* timers are constructed with the expiry pos_infin().
Init ==
    /\ io_thread = IF Mode = "client" THEN "running" ELSE "absent"
    /\ work_guard = TRUE
    /\ ioq = <<>>
    /\ socket = FALSE /\ socket_ready = FALSE
    /\ failed = 0
    /\ check = "none"
    /\ asked = 0 /\ pushed = 0
    /\ send_entries = <<>>
    /\ bytes_transferred = [e \in Entries |-> 0]
    /\ no_buffer_space_error_count = [e \in Entries |-> 0]
    /\ send_invoker = "none"
    /\ send_deadline = "infinite"
    /\ deadline_waits = 0
    /\ sending = <<>>
    /\ begun_by = "await_send_entry"
    /\ wire = <<>>
    /\ dropped = {}
    /\ processed = <<>>

SenderHandlers ==
    \/ PushEntry \/ InvokerHandler
    \/ SendSucceeded \/ NoBufferSpace \/ DropEntry \/ ConnectionError
    \/ DeadlineWithoutSocket \/ DeadlineExpired \/ AwaitDeadline

SocketHandlers ==
    \/ CloseWithoutSocket \/ CloseSocket
    \/ ConnectWithSocket \/ OpenFails \/ \E r \in ConnectResults : Connect(r)
    \/ ConnectFails \/ Connected
    \/ BindFails \/ Bound

IoThread == SenderHandlers \/ SocketHandlers \/ ResetWorkGuard \/ ThreadExits

Dispatcher ==
    \/ AsyncSend \/ CheckServer \/ AsyncConnect \/ ConnectFailedHandler
    \/ StartCheck \/ EndCheck \/ CheckFailed
    \/ Destroy \/ Recreate

Kernel == \E r \in SendResults : SendCompletes(r)

Clock == InvokerFires \/ DeadlinePasses

Next == IoThread \/ Dispatcher \/ Kernel \/ Clock

Spec == Init /\ [][Next]_vars

-------------------------------------------------------------------------------
(* Fairness.  The io thread runs whatever is queued and the clock advances. *)

LiveSpec == Spec /\ WF_vars(IoThread) /\ WF_vars(InvokerFires)
                 /\ WF_vars(DeadlinePasses)

\* A client with a reconnect interval whose server keeps coming back: the
\* reconnect timer ticks for ever, the dispatcher delivers its signals, and a
\* connection attempted, or a send begun, again and again succeeds at last.
Reliable ==
    /\ SF_vars(AsyncConnect) /\ WF_vars(ConnectFailedHandler)
    /\ SF_vars(Connect("ok"))
    /\ SF_vars(SendCompletes("ok"))

-------------------------------------------------------------------------------
(* Properties *)

ThreadOK ==
    /\ io_thread \in {"absent", "running", "terminating"}
    /\ work_guard \in BOOLEAN

SocketOK ==
    /\ socket \in BOOLEAN
    /\ socket_ready \in BOOLEAN
    /\ failed \in Nat
    /\ check \in {"none", "connecting", "failed"}

EntryOK ==
    /\ asked \in 0..MaxEntries
    /\ pushed \in 0..MaxEntries
    /\ send_entries \in Seq(Entries)
    /\ bytes_transferred \in [Entries -> Nat]
    /\ no_buffer_space_error_count \in [Entries -> Nat]
    /\ dropped \subseteq Entries
    /\ processed \in Seq(Entries)

TimerOK ==
    /\ send_invoker \in {"none", "infinite", "delay"}
    /\ send_deadline \in {"infinite", "armed", "passed"}
    /\ deadline_waits \in Nat

SendOK ==
    /\ sending \in Seq(Entries)
    /\ begun_by \in {"start_actors", "await_send_entry"}
    /\ wire \in Seq(Entries)

\* Every variable has its type; in particular a queued handler captures what
\* its operation needs, and counters never go below zero.
TypeOK ==
    /\ ThreadOK
    /\ ioq \in Seq(Handlers)
    /\ SocketOK
    /\ EntryOK
    /\ TimerOK
    /\ SendOK

\* The send loop is in one of three places: a queued handler that continues
\* it, the wait on send_invoker_, or a send in flight.
LoopOps == {"await_send_entry", "handle_send"}
LoopSleeps == send_invoker # "none"
LoopSends == sending # <<>>

\* There is never more than one send loop: a handler left over from a closed
\* connection never runs into the loop start_actors() begins for the next one
\* (base_impl.hpp:282-322, 412-416).
SingleSender ==
    /\ \A i, j \in Queued(LoopOps) : i = j
    /\ Len(sending) <= 1
    /\ LoopSleeps \/ LoopSends => Queued(LoopOps) = {}
    /\ ~(LoopSleeps /\ LoopSends)

\* While the socket is open its send loop is alive, or the connection is about
\* to be closed: no path of handle_send or of a cancelled timer leaves an open
\* socket whose entries nobody will send (base_impl.hpp:387-416).
SenderAlive ==
    Open => LoopSleeps \/ LoopSends \/ Queued(LoopOps \union {"async_close"}) # {}

\* While a client's socket is open exactly one check_send_deadline() waits, is
\* queued, or has asked for the close (base_impl.hpp:436-453).
WatchdogAlive ==
    Mode = "client" /\ Open =>
        LET n == deadline_waits + Cardinality(Queued({"check_send_deadline"}))
        IN n = 1 \/ (n = 0 /\ Queued({"async_close"}) # {})

\* The loop sleeps until the next async_send only when there is nothing to
\* send: no wakeup is lost (base_impl.hpp:271-272, 288-299).
NoSleepWithWork == send_invoker = "infinite" => send_entries = <<>>

\* A send begun by await_send_entry() outside start_actors() has a deadline
\* for as long as it is in flight (base_impl.hpp:305, 332).
DeadlineGuardsSend ==
    sending # <<>> /\ begun_by = "await_send_entry" => send_deadline # "infinite"

\* processed() is called for an entry only after the datagram was handed to
\* the kernel or the entry was given up with an error: pop_front_send_entry()
\* never removes an entry that is still to be sent (base_impl.hpp:412-433).
NoSilentLoss ==
    \A i \in DOMAIN processed :
        \/ processed[i] \in dropped
        \/ \E j \in DOMAIN wire : wire[j] = processed[i]

\* A pending wait or send keeps io_ctx_.run() from returning, so there is none
\* without an open socket to cancel it (base_impl.hpp:75-77, 140-146).
WaitsNeedSocket ==
    send_invoker # "none" \/ deadline_waits > 0 \/ sending # <<>> => Open

\* Entries not yet handed to the kernel, as SendQueue sees them: the front of
\* send_entries_ stays there until handle_send() runs.
Pending ==
    IF /\ wire # <<>> /\ send_entries # <<>>
       /\ wire[Len(wire)] = Head(send_entries)
      THEN Tail(send_entries) ELSE send_entries

\* An entry whose handle_send() drops it leaves send_entries_ in that step, so
\* the deque, the wire and the dropped entries form a SendQueue: first in first
\* out, each entry transmitted at most once, across reconnections.
SQ == INSTANCE SendQueue WITH last <- pushed, pending <- Pending
ImplementsSendQueue == SQ!Spec

\* join() in terminate_base_impl() returns (base_impl.hpp:75-77).
JoinReturns == io_thread = "terminating" ~> io_thread = "absent"

\* A client's send that never completes is aborted when its deadline passes
\* (base_impl.hpp:442-446), unless start_actors() began it.
StuckSendAborted == (sending # <<>> /\ begun_by = "await_send_entry") ~> (sending = <<>>)

\* With a reliable server every entry a client accepts is eventually sent or
\* dropped, whatever connections fail meanwhile, unless the client is stopped
\* (tests/src/client_test.hpp:111).
EntriesProcessed ==
    Reliable => \A e \in Entries :
        (pushed >= e) ~> \/ \E i \in DOMAIN processed : processed[i] = e
                         \/ io_thread # "running"

\* A send in flight always has a deadline in client mode.
SendHasDeadline ==
    Mode = "client" /\ sending # <<>> => send_deadline # "infinite"
===============================================================================
