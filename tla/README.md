# Formal model of cpp-local_datagram

TLA+ specifications of `pqrs::local_datagram`, a header-only C++ library that sends and
receives unix domain datagrams with automatic reconnection. TLC checks them on small
instances; TLAPS proves every safety property of every module for all sizes.

    tlc -workers 2 -config base_client.cfg BaseImpl     # any run of the table below
    tlapm SenderProofs.tla                              # any module of section 5

`PROJECT.json` lists components, runs, mutants, findings, hazards and theorems, and maps
every definition to its source lines.

## 1. The system

All code is under `src/include/pqrs/local_datagram/`. Three kinds of thread meet in it:

* **the dispatcher thread** (`pqrs::dispatcher`, vendored) runs functions enqueued by
  objects, in order of their due time; `detach` erases an object's functions and waits for
  the one that is running;
* **one io thread per `base_impl`** runs `io_ctx_`: handlers posted by anybody, completion
  handlers of sockets, and handlers of asio timers;
* **the user's threads** call `async_start`, `async_stop`, `async_send` and the destructors.

| component | state | operations | interacts with |
|---|---|---|---|
| `impl/base_impl.hpp`, sender | `socket_`, `socket_ready_`, `send_invoker_`, `send_deadline_`, `send_entries_` (shared with the owner, outlives the impl) | `async_send`, `await_send_entry`, `handle_send`, `check_send_deadline`, `start_actors`, `async_close`, `terminate_base_impl` | asio; signals to the dispatcher |
| `impl/base_impl.hpp`, receiver | `receive_buffer_`, `next_heartbeat_deadline_timers_` and their generation | `async_receive`, timer handlers | dispatcher |
| `impl/send_entry.hpp` | buffer, `bytes_transferred_`, `no_buffer_space_error_count_` | `rest_bytes`, `transfer_complete`, ... | sender |
| `impl/client_impl.hpp` | the two check timers, the nested check client | `async_connect`, `check_server`, `check_client_socket` | `base_impl`, nested `client_impl` |
| `impl/server_impl.hpp` | the check timer, the nested check client | `async_bind`, `check_server` | `base_impl`, nested `client_impl` |
| `client.hpp` | `client_impl_`, `reconnect_timer_`, `reconnect_interval_` | `connect`, `stop`, `close`, `async_send`, `start_reconnect_timer`, signal handlers | dispatcher, `client_impl` |
| `server.hpp` | the same, with `server_impl_` created in `bind` | `bind`, `stop`, `close`, `async_send`, ... | dispatcher, `server_impl` |
| `extra/peer_manager.hpp` | `entries_` (client, connected, verified, queue), `shared_secrets_` | `async_send`, `flush`, signal handlers | clients, dispatcher |

### What is hard in it

* Closing does not wait for anything: cancelled waits and aborted sends come back as handlers
  that run after the connection may have been replaced. `handle_send` and the invoker's
  handler ignore who they belong to; the send loop is single only by the order of handlers.
* The deadline timer's waits are cancelled by every `expires_*` call, and its handler ignores
  the error code and looks at the clock, so a cancellation re-arms the watchdog.
* The destructor of an impl runs in the dispatcher thread and joins the io thread, so
  anything that stays pending in `io_ctx_` hangs the whole dispatcher.
* `closed`, `bind_failed` and the reconnect timer destroy and recreate the `server_impl` while
  its signals, a delayed timer start, `async_stop` and the destructor are in the same queue.
* A datagram is read by the kernel, parsed by the io thread and acted upon by the dispatcher; the
  connection may be closed and replaced between any two of these. One `receive_buffer_` serves
  all reads, and a counter (`next_heartbeat_deadline_timers_generation_`) is all that tells the
  heartbeats of two connections apart.
* `peer_manager` destroys a client inside that client's own signal, and a new `async_send` may
  create its successor for the same path at once.

### What makes each part correct

* **sender**: entries leave in order, each at most once, none is removed unsent without an
  error; one send loop and one watchdog per connection; no lost wakeup; a stuck send is
  aborted; `join()` returns.
* **client / server**: a lost server or socket file leads to a new connection or bind; signals
  of a dead impl do not touch its successor; a stopped object stays stopped; no socket file is
  left behind.
* **client**, over its sender: a datagram given to `async_send` stays in one place, in order,
  until its callback, whatever connections are lost; a stopped or destroyed client leaves no
  function or timer behind.
* **receiver**: one receive loop per connection; data in order and never twice; a timer of an old
  connection neither reports nor stands in for one of the new connection.
* **peer_manager**: datagrams of a peer keep their order over all its connections; none is left
  waiting on a finished connection; a signal of a destroyed client never acts on its successor.

## 2. Modules

### `SendQueue`: what the sender promises

Entries with increasing numbers are put at the back; the front one is transmitted as one
datagram or dropped; nothing else happens. No socket, timer or handler.

### `BaseImpl`: the sender

One action is one handler of the io thread, whole. `ioq` is asio's queue of posted handlers; a
handler record carries what the lambda captures (the entry, the error code).

| code | model |
|---|---|
| `asio::post`, completion of an operation | `Append(ioq, ...)` |
| `timer.cancel()`, `expires_at`, `expires_after` | the pending waits move into `ioq` (`CancelledInvoker`, `CancelledDeadline`) |
| `socket_->cancel()` | every send of `sending` comes back as `handle_send` with an error |
| `await_send_entry(delay)` | `AwaitSendEntry`: `EndLoop`, `Sleep` or `SendFront`, the tail of the handler that calls it |
| `start_actors` | `StartActors`: the same branch, then the deadline set to infinity, then the first wait |
| `handle_send` | `SendSucceeded`, `NoBufferSpace`, `DropEntry`, `ConnectionError` |
| `async_close` | `CloseWithoutSocket`, `CloseSocket` |
| `client_impl::async_connect` and its handler | `ConnectWithSocket`, `OpenFails`, `Connect`, `ConnectFails`, `Connected` |
| `server_impl::async_bind` | `BindFails`, `Bound` |
| `check_send_deadline` | `DeadlineWithoutSocket`, `DeadlineExpired`, `AwaitDeadline` |
| `terminate_base_impl`, destructors | `Destroy`, `ResetWorkGuard`, `ThreadExits`; `Recreate` is the server's next `bind` |
| other threads | `AsyncSend`, `AsyncConnect`, `ConnectFailedHandler`, the check actions, `SendCompletes`, `InvokerFires`, `DeadlinePasses` |

`sending`, `wire`, `dropped`, `processed`, `begun_by` and the entry numbers are what the
properties need to tell apart; bytes are abstracted to their number, since a unix datagram is
transferred whole or not at all.

`SerialConnects` separates two worlds. `TRUE`: the next `async_connect` is posted only when the
previous one's completion handler has run, which is what happens whenever the io thread keeps
up with the reconnect interval. `FALSE`: the dispatcher may post a second one at any time, as
the code allows. The properties of the sender hold in the first; `overlapping_connects` shows
what fails in the second.

### `Server`: the life cycle of a server

The dispatcher queue `dq`, the io queue of the current `server_impl`, the delayed start of
the reconnect timer, its ticks, and the nested check client. `joining` is the dispatcher thread
inside `~server_impl`: it holds back every other function of the dispatcher but not the io
thread, nor `Destroy`, which another thread may call meanwhile. Signals of `server_impl` and
functions of `server` are told apart because `detach` erases them by object. The destructor is
two steps: `Destroy` erases the server's functions, `EnqueueStop` puts `stop` in front of what is
left, and while `detaching` the dispatcher and the io thread go on. The answer of the nested client
is a choice when the file is there: its own `open` may fail, which is reported as `connect_failed`
and closes a healthy server. `BaseImpl` has the sends; `Server` leaves them out.

### `Client`: the life cycle of a client

As `Server`, with what differs: `client_impl` lives from the constructor to the first `stop()` and
outlives its connections, `async_connect` completes in a second handler, and the client has a
socket file of its own. The way of a datagram is followed from `async_send` to `processed`: a
function of the dispatcher (`Send`), a handler of the io thread (`AsyncSend`),
`client_send_entries_`, `HandleSend`, and a function again (`Report`).

| code | model |
|---|---|
| `connect`, `stop` with `~client_impl` and its join | `Start`, `Stop`, `Joined` |
| `start_reconnect_timer`, `reconnect_timer_` | `StartReconnectTimer`, `DelayPasses`, `TimerStart`, `Tick`, `Reconnect`, `TimerStop` |
| signal handlers set by the constructor | `ConnectedSignal`, `ConnectFailedSignal`, `ClosedSignal` |
| `client_impl::async_connect` and its handler | `AsyncConnectAgain`, `AsyncConnectFails`, `AsyncConnect`, `ConnectFails`, `Connected` |
| `check_server`, `check_client_socket` and the nested client | `CheckServer`, `CheckClientSocket`, `CheckDelivered`, `CheckFails` (its own `open` fails), `CheckReset` |
| `async_close` | `AsyncClose`; the file is removed only with a ready socket |
| `~client` | `Destroy`, then `EnqueueStop`, as in `Server` |
| a server that crashes and comes back, a file removed from outside | `ServerDown`, `ServerUp`, `FileLost` |

Abstractions. One send is in flight at a time and has two outcomes; retries, `no_buffer_space` and
the deadline are in `BaseImpl`. `async_close` may or may not find the loop of the socket it closes with a send in
flight, so the aborted send is a choice. The two check timers, which are started and stopped together,
are one flag. Whether the nested client finds the file is decided when it answers. `KeepsUp`: the
reconnect timer fires only when the io thread has finished what is queued, the assumption that
`SerialConnects` is in `BaseImpl`. Without it `[async_connect, async_close, async_connect]` can
repeat with the ticks for ever, which is finding 2 again and not a separate question.

### `Receiver`: receiving, and heartbeats that stop

Three threads of control: the kernel reads a datagram into `receive_buffer_` for a pending
`async_receive_from` (`ReceiveCompletes`); the handler parses the buffer (`ReceiveHandler`,
`Parsed`) and calls `async_receive()` again; the dispatcher runs the function it enqueued
(`Heartbeat`, `Received`). `Close` aborts the pending receive, advances the generation and enqueues
the clearing of the timers (`Closed`); `Connected` advances it again. A timer record holds the
generation its handler captured, which `set_timer()` on an existing timer does not replace. `read`
and `connections` remember, for the properties only, on which connection each datagram was read.

`SerialConnects` means what it does in `BaseImpl`: no connect is posted while another one is queued
or waits for its handler. `client::connect` does not see to that. Without it, both completion
handlers of finding 2 call `start_actors()`, two receives share `receive_buffer_`, and with
`MaxHandlers = 3` (what the overlap needs) TLC refutes `OneReceive`, `ReceivedInOrder` and
`HeardOnThisConnection`, while `TypeOK` and `ReportsNewestOnce` hold. The runs and the theorems
about the receive loop are about serial connects.

A datagram is what the receiver tells apart: a heartbeat with a deadline, user data, or nothing (a
heartbeat whose deadline is zero or missing, an unknown type, an empty datagram), from a
sender with or without a path. `debounced_task::debounce_after` enqueues a function that enqueues
a delayed one; with nothing due in between the two are one step.

### `PeerManager`: one client per peer

`entries` and the queue inside each entry, `Flush` and `WithDatagram` as in `entry::flush` and
`entry::async_send`, the slots of a client's signals, and the secrets as the set of peers that have
one. `verify_peer_` may answer either way. The clients are external, taken from what `Client` shows
of a client without a reconnect interval: it connects once or fails, is closed at most once, and
may report an error after it connected. Destroying a client erases its functions from the queue
(`WithoutClientFunctions`): the one client of an entry that is erased, and every client when the
destructor's function clears `entries` (`Clear`). A signal left of a client that is gone would
stay in the queue, and violate `SignalsOfPresent`. The destructor is two steps here too, `Destroy`
and `EnqueueClear`.

### `Queues`, and the modules of proofs

`Queues` has one operator, `Kept(q, S)`: what `dispatcher::detach` leaves of its queue when it erases
the functions of an object. `Server`, `Client` and `PeerManager` use it. `QueueLemmas` has the facts
about queues, and `BaseImplProofs`, `SenderProofs`, `SendQueueProofs`, `ReceiverProofs`,
`ServerProofs`, `ClientProofs` and `PeerManagerProofs` the theorems: see section 5.

### Assumptions about the libraries

* One thread runs an `io_context`; handlers are started in the order in which they were
  queued; `post` and cancellations append.
* `connect` on a datagram socket completes at once, so its completion handler is queued by
  the call that starts it, with the result already decided.
* Timer expiries are abstracted: a deadline that is armed may pass at any time, a delayed
  function of the dispatcher may become due at any time, but runs only when no function is due
  already.
* The storage of the empty `reconnect_interval_` read in server.hpp:178 still holds a
  duration: the timer starts. client.hpp:216 reads it in the same way.

## 3. Runs

| run | states | what it shows |
|---|---|---|
| `base_client` | 3.9 million | three entries, failing connects and sends, a destructor anywhere: `SingleSender`, `SenderAlive`, `WatchdogAlive`, `NoSleepWithWork`, `DeadlineGuardsSend`, `NoSilentLoss`, `WaitsNeedSocket`, and `BaseImpl` implements `SendQueue` |
| `base_server` | 53 thousand | the same loop over `server_impl`s that are destroyed and recreated; the deque stays a queue across them; `JoinReturns` |
| `base_client_live` | 314 thousand | `JoinReturns` and `StuckSendAborted` with no help from the peer; with a server that keeps coming back, `EntriesProcessed` |
| `server_restart` | 38 thousand | `NoStaleSignal`, `NoFileLeft`, `ClosedFollowsBound`, `DestroyedIsClosed`, `Restarts` |
| `client` | 2.2 million | two sends, a crash, a lost file, a failed check, a start or a stop, and the destructor, in every order: `Pipeline`, `ProcessedInOrder`, `ClosedFollowsConnected`, `DestroyedIsQuiet` |
| `client_live` | 268 thousand | two such events: `Reconnects`, `TimerStops` |
| `receiver` | 2.0 million | with serial connects: `OneReceive`, `ReceivedInOrder`, `HeardOnThisConnection`, `ReportsNewestOnce` |
| `peer_manager` | 173 thousand | `PeerOrder`, `NothingStranded`, `SignalsOfPresent`, `EventuallyDecided` |
| `overlapping_connects` | violated | two overlapping connects: an entry is removed unsent |
| `first_send_deadline` | violated | the first send of a connection has no deadline |
| `stopped_server_restarts` | violated | a stopped server is bound again |
| `stale_heartbeat_timer` | violated | a timer made by a late heartbeat of an old connection swallows the deadlines of the new one |

**Bounds.** `MaxEntries` 2 or 3: an entry in flight, one behind it, and one arriving late, which
is what the mistakes that confuse the front with its successor need. `MaxHandlers` 2 to 4 limits
only how far *other* threads run ahead of the io thread; handlers the io thread, the kernel and
the clock append are not limited, so queues grow beyond it. `MaxFailed` limits undelivered
failure signals, and 2 lets a failure be delivered after the next one. `NoBufferSpaceLimit` 1
and `NoBufferSpaceAbort` 2 stand for 10 and 100. A datagram is never partly transferred, so
the second limit is reached only after the first has dropped the entry; the guard is kept as it
is written. `BufferSize` 2 is the type byte and one byte of data. In `Server`,
three requests are start, stop, start; two lost files give a loss during the recovery from a loss;
`MaxDelayed` limits delayed timer starts, the only counter that grows by itself.
In `Client`, `MaxEvents` counts requests, crashes, lost files and failed checks together. One event with two
sends covers a loss or a stop at every stage of two datagrams; two events without sends
cover a second loss, or a stop, during the recovery from the first, which is where reconnecting could
fail. In `Receiver`, three datagrams are a heartbeat, its successor and one of
another kind between or after them; `MaxConnections` 3 allows
two connections and their closes after one that was closed before its handler ran. In `PeerManager`, three sends to two peers give an entry that is
erased and made again while another one waits; the third send meets the queue the second left.

`CHECK_DEADLOCK FALSE` in every run: a client that was destroyed, or that is idle with its
entries used up, rightly stops.

**Fairness.** `LiveSpec` of `BaseImpl`: the io thread runs what is queued, and the two asio timers
expire. Nothing is asked of the dispatcher, the kernel or the peer. `Reliable`, the premise of
`EntriesProcessed`, adds what a delivery needs: the reconnect timer ticks for ever (it restarts itself after each call), signals
are delivered, and a connect or send that is tried infinitely often succeeds at last. These are
strong fairness because a close disables them again and again. `LiveSpec` of `Server` asks for
weak fairness of the two threads and of the check client and strong fairness of the timers,
since a due delayed function is taken whenever the queue of immediate ones runs empty, and of a
successful bind. `LiveSpec` of `Client` is the same: weak fairness of the two threads, of a send
that is in flight and of the nested client's answer, strong fairness of the timers and of an
`async_connect` whose open and bind succeed. Nothing is asked of the server: `Reconnects` is about
the times it is up. `LiveSpec` of `PeerManager`: the dispatcher goes on, and a client that was
started connects or fails, which `client_impl` does within one handler of its io thread.

## 4. Findings

1. **base_impl.hpp:115**: `start_actors()` overwrites with `pos_infin()` the deadline that
   `await_send_entry()` has just armed. The first send of a connection made while entries wait is
   not guarded. `DeadlineGuardsSend` and `StuckSendAborted` hold for all other sends.
2. **client_impl.hpp:61, 117-152**: the connect completion handler does not know which socket it
   belongs to. With `[async_connect, async_close, async_connect]` queued, two loops run and an
   entry is removed unsent, its `processed` called. `start_actors()` also starts two receives, which
   share `receive_buffer_`: if both complete before either handler runs, the second datagram is
   delivered twice and the first never (`Receiver` with `SerialConnects = FALSE`).
3. **server.hpp:172-176**: the reconnect timer's function falls through to `bind()` after
   `reconnect_interval_` was unset, so a stopped server comes back. It happens with a ticking timer
   too, that is without the read of the empty optional at server.hpp:178.
4. **base_impl.hpp:200**: the receive handler loads the generation when it runs. A heartbeat read before
   a close and handled after it creates a timer of the generation between two connections; on the
   next connection the same sender's heartbeats re-arm that timer, whose handler returns at
   base_impl.hpp:219 because of its old generation, so a missed deadline is not reported.
   It needs an impl that survives its connections, that is a client.

Two things `Client` shows that no document excludes: with `[async_connect, async_close]` queued the
completion handler reports `connected` although the socket is gone (the check timers find that out and
stop; the next tick connects again), and a close before the socket is ready leaves the client's
socket file, which the next `async_connect` removes.

## 5. Proofs

Every invariant, every action property and the refinement that the passing runs check is also a
theorem, for all values of the constants that satisfy the named assumptions of each module: the
bounds are natural numbers (`BufferSize` positive, `Mode` a client or a server). The bounds on
entries, events and connections are arbitrary, so the theorems hold for runs of any length.

| module | theorem | states | condition |
|---|---|---|---|
| `BaseImplProofs` | `TypeCorrect` | `TypeOK` | |
| | `SenderIsSingle` | `SingleSender` | serial |
| | `NoOrphanedWait` | `WaitsNeedSocket` | serial |
| `SenderProofs` | `NoLostWakeup` | `NoSleepWithWork` | |
| | `SenderStaysAlive` | `SenderAlive` | |
| | `SendsHaveDeadlines` | `DeadlineGuardsSend` | serial |
| | `OneWatchdog` | `WatchdogAlive` | `SerialConnects` |
| `SendQueueProofs` | `NothingLostSilently` | `NoSilentLoss` | serial |
| | `SenderIsSendQueue` | `ImplementsSendQueue` | serial |
| `ReceiverProofs` | `TypeCorrect` | `TypeOK` | |
| | `ReceivesOneAtATime` | `OneReceive` | `SerialConnects` |
| | `DeliversInOrder` | `ReceivedInOrder` | `SerialConnects` |
| | `TimersOfThisConnection` | `HeardOnThisConnection` | `SerialConnects` |
| | `DeadlinesReportedOnce` | `ReportsNewestOnce` (an action property) | `SerialConnects` |
| `ServerProofs` | `TypeCorrect` | `TypeOK` | |
| | `StaleSignalsErased` | `NoStaleSignal` | |
| | `FileRemoved` | `NoFileLeft` | |
| | `ReportsAlternate` | `ClosedFollowsBound` | |
| | `DestructorIsFinal` | `DestroyedIsClosed` | |
| `ClientProofs` | `TypeCorrect` | `TypeOK` | |
| | `DatagramsStayInOrder` | `Pipeline` | |
| | `CallbacksInOrder` | `ProcessedInOrder` | |
| | `ReportsAlternate` | `ClosedFollowsConnected` | |
| | `DestructorIsQuiet` | `DestroyedIsQuiet` | |
| `PeerManagerProofs` | `TypeCorrect` | `TypeOK` | |
| | `SignalsBelong` | `SignalsOfPresent` | |
| | `NothingLeftBehind` | `NothingStranded` | |
| | `HandedInOrder` | `PeerOrder` | |

*serial* is `SerialConnects \/ Mode = "server"`: a server has no connects, a client's do not overlap
as long as its io thread keeps up with the reconnect interval. The condition is needed: finding 2 is
what happens without it, to the sender and, as section 2 says, to the receiver. `NoLostWakeup` and
`SenderStaysAlive` do not need it. `DeadlinesReportedOnce` has it because its invariant contains that
of the loop; TLC finds no violation without it. The theorems about `Client` are about
its specification, whose reconnect timer keeps to `KeepsUp`.

Each invariant was checked with TLC, at the bounds of the module's passing run, before it was proved.

**The sender.** `SenderInv`, in `BaseImplProofs`. `SingleSender` alone is not inductive: it does not
exclude a `connect_handler` queued *ahead* of a handler of the previous loop, which would start the
next loop too early. `SenderInv` adds the order of the queue (a continuation of an old loop is always
ahead of the `connect_handler`), at most one handler that opens a connection, that an open socket
excludes a queued `connect_handler`, and that a socket or a leftover loop excludes a queued
`async_bind`. `PlainStep` covers the actions that neither open a connection nor continue the loop,
`AwaitStep` those that continue it, `StartStep` those that start it. `WatchInv` in `SenderProofs` is
the same argument for the watchdog: a `check_send_deadline` of a closed connection is always ahead of
the next `connect_handler`, because `async_close` moves the cancelled wait into the queue before a
connect can be queued, and it finds the socket gone.

**The send queue.** `EntryInv`, in `SendQueueProofs`, relates the deque, the wire, the queue of handlers
and the send in flight: the deque is increasing and the wire behind it; `async_send`s are queued in
the order in which they were asked for; the send in flight, and every queued `handle_send`, is about the
*front* of the deque; a `handle_send` carries success exactly when the kernel has had the front. With
these, `pop_front_send_entry()` removes what was transmitted or given up, and each step of
`BaseImpl` is a step of `SendQueue` or leaves its variables alone (`EntryStep`).

**The receiver.** `ReceiverInv`. `LoopInv` and `QueueInv` are the analogue of `SenderInv` for the
receive loop. `OrderInv` says that what is acted upon, what is queued in the dispatcher and what is
still in the buffer have increasing numbers (`Horizon` is where parsing has got to). `HeardInv` says
that a heartbeat of an earlier connection carries an earlier generation, which is what advancing the
counter both at close and at connect achieves. `ReportInv`, that a timer watches the newest heartbeat of its sender and was not
reported, gives the action property.

**Server and client.** `JoinInv`: while the destructor of the impl waits, a close is queued behind which
nothing opens a socket, or the socket is closed already; so the file is gone when `join()` returns. `DestroyInv`: once the destructor
has erased the object's functions the dispatcher's queue is signals only; then its `stop` is in front
of them, or is running, or has run and the queue is empty. `HappenedInv`: the last report, the queued reports
and the queued signals, in this order, alternate, and end with an opening if the socket is
open; `detach` erases a suffix of this history. `ClientInv` adds the way of a datagram: `Pipeline` is
inductive together with `FlightInv` (at most one result of a send is queued, and then the entry it is
about is in the deque), `DetachedFlow` says that after the destructor's erase it holds still, but for the datagrams the io thread has not been
given (a send that ends before the destructor's `stop` reports in order), and `OrderInv` takes
over when `stop` has dropped what was on its way. In `Server`, `TypeOK` is `VariablesOK`, the
types, and that a detached server has no function queued but the destructor's `stop`. The
steps are proved in two parts: how an action moves each of the five pieces of the pipeline, and that
such a move keeps their concatenation.

**The peer manager.** `PeerInv`. `PresentInv`: every queued signal is of a client that is in an entry,
before and after the destructor has begun. `CreatedInv`, which bounds the clients made by the datagrams
that left the dispatcher, is needed for the types only. `OrderInv`: what was handed over, what waits in the
entry and what waits in the dispatcher increase together, which no entry that is erased and made
again disturbs.

**Queues.** The induction theorems of the library take an operator, which no installed prover can
instantiate. `QueueInduction` in `QueueLemmas` states induction over queues for a *set* of queues
instead: one that has the empty queue and is closed under `Append` is the set of all. From
it follow the facts about `Kept` (of a concatenation, of a head and a tail, of a kept
queue), and from these the effect of `detach`.

**Only model-checked.** Liveness (`JoinReturns`, `StuckSendAborted`, `EntriesProcessed`, `Restarts`,
`Reconnects`, `TimerStops`, `EventuallyDecided`), which is out of the prover's reach; and, by their
nature, the four violations. What overlapping connects can do to the sender is known only from the run
that finds the violation, except for the two theorems without a condition; what they do to the
receiver, from TLC with `SerialConnects = FALSE`.

## 6. Not modelled

* `server::async_send` without a `server_impl`: written like the branch of `client`, which `Client` has.
* The values of shared secrets and their comparison (`find_shared_secret`, `verify_shared_secret`): they
  read one map entry and change nothing. `shared_secrets_` has a mutex of its own, so each call is one step.
* The narrowing of the heartbeat deadline to 32 bits: the code excludes such values
  in a comment (client_impl.hpp:186-188); a deadline of zero is a datagram that does nothing.
* How many delayed timer starts accumulate: it depends on the length of the interval, and the models
  are untimed.
* `helper.hpp`, `asio_helper.hpp`: predicates and constants without state.
* Socket options, permissions and the peer's pid: operating system calls without a decision
  the properties depend on. A failure of any of them in `async_connect` or `async_bind` before the
  socket is ready is `OpenFails` / `AsyncConnectFails` / `BindFails`.
* The setters of `client` and `server`: they are called before `async_start`, and the models fix
  what they set (every interval and path is given).
* Two servers on one path; termination of the dispatcher itself; asio, nod, gsl, the examples and the tests.

## 7. Plan

1. **`SendQueue`, `BaseImpl`, `Server`, `BaseImplProofs`** (done): the sender first, because every
   other part goes through it; then the server's life cycle.
2. **`Client`** (done): the life cycle of a client over an abstract send loop.
3. **`Receiver`** (done): the receive loop and the heartbeat timers.
4. **`PeerManager`** (done): entries over external clients.
5. **Proofs** (done): every safety property, the action property and the refinement, as listed in
   section 5.
6. **Next**: what remains true of a client whose connects overlap, beyond the two theorems without a
   condition (for instance that an open socket never has more loops than connects that overlapped);
   shorter proofs where two modules argue alike (`JoinInv`, `DestroyInv` and `HappenedInv` of `Server`
   and `Client`).
