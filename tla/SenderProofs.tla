----------------------------- MODULE SenderProofs -----------------------------
(***************************************************************************)
(* The send loop and its watchdog stay alive: theorems about BaseImpl that *)
(* rest on the types and on SenderInv of BaseImplProofs.                   *)
(***************************************************************************)
EXTENDS BaseImplProofs, FiniteSetTheorems

-------------------------------------------------------------------------------
(* No wakeup is lost *)

\* What await_send_entry() does to the invoker: it sleeps without a limit only
\* when there is nothing to send.
LEMMA AwaitSleeps ==
    ASSUME NEW q, NEW delay \in BOOLEAN, NEW deadline, NEW waits,
           AwaitSendEntry(q, delay, deadline, waits)
    PROVE  send_invoker' = "infinite" => send_invoker = "infinite" \/ send_entries' = <<>>
  BY DEF AwaitSendEntry, EndLoop, Sleep, SendFront

\* The same for a handle_send that may remove the front entry.
LEMMA FinishSleeps ==
    ASSUME NoSleepWithWork, NEW e, NEW delay \in BOOLEAN, FinishSend(e, delay)
    PROVE  NoSleepWithWork'
  <1>1. send_entries = <<>> => send_entries' = <<>>
    BY DEF FinishSend, PopFrontSendEntry
  <1>2. send_invoker' = "infinite" => send_invoker = "infinite" \/ send_entries' = <<>>
    BY AwaitSleeps DEF FinishSend
  <1> QED BY <1>1, <1>2 DEF NoSleepWithWork

\* Every action keeps NoSleepWithWork.
LEMMA SleepStep == NoSleepWithWork /\ [Next]_vars => NoSleepWithWork'
  <1> SUFFICES ASSUME NoSleepWithWork, [Next]_vars PROVE NoSleepWithWork' OBVIOUS
  \* The invoker is left alone or cancelled, and the entries are left alone.
  <1>1. ASSUME send_invoker' \in {send_invoker, "none"}, UNCHANGED entryVars
        PROVE  NoSleepWithWork'
    BY <1>1 DEF NoSleepWithWork, entryVars
  <1>2. CASE PushEntry
    BY <1>2 DEF PushEntry, NoSleepWithWork
  <1>3. CASE InvokerHandler
    <2>1. UNCHANGED entryVars
      BY <1>3 DEF InvokerHandler
    <2>2. send_invoker' = "infinite" => send_invoker = "infinite" \/ send_entries' = <<>>
      BY <1>3, AwaitSleeps DEF InvokerHandler
    <2> QED BY <2>1, <2>2 DEF NoSleepWithWork, entryVars
  <1>4. CASE SendSucceeded
    BY <1>4, FinishSleeps DEF SendSucceeded
  <1>5. CASE NoBufferSpace
    BY <1>5, FinishSleeps DEF NoBufferSpace
  <1>6. CASE DropEntry
    BY <1>6, FinishSleeps DEF DropEntry
  <1>7. CASE Connected \/ Bound
    <2>1. UNCHANGED entryVars /\ StartActors(Tail(ioq))
      BY <1>7 DEF Connected, Bound
    <2>2. send_invoker' = send_invoker \/ send_entries = <<>>
      BY <2>1 DEF StartActors
    <2> QED BY <2>1, <2>2 DEF NoSleepWithWork, entryVars
  <1>8. CASE PostAsyncSend
    BY <1>8 DEF PostAsyncSend, NoSleepWithWork, timerVars
  <1>9. CASE CloseSocket \/ ConnectionError \/ InvokerFires \/ AwaitDeadline
             \/ DeadlinePasses \/ Recreate
    BY <1>9, <1>1 DEF CloseSocket, ReleaseSocket, ConnectionError, AbortLoop, InvokerFires,
       AwaitDeadline, DeadlinePasses, Recreate
  <1>10. CASE DeadlineWithoutSocket \/ DeadlineExpired \/ CloseWithoutSocket
              \/ ConnectWithSocket \/ AsyncConnect
    BY <1>10, <1>1 DEF DeadlineWithoutSocket, DeadlineExpired, CloseWithoutSocket,
       ConnectWithSocket, AsyncConnect, allButQueue, timerVars
  <1>11. CASE \/ OpenFails \/ ConnectFails \/ BindFails \/ ResetWorkGuard \/ ThreadExits
              \/ \E r \in ConnectResults : Connect(r)
    BY <1>11, <1>1 DEF OpenFails, ConnectFails, BindFails, ResetWorkGuard, ThreadExits,
       Connect, timerVars
  <1>12. CASE \/ ConnectFailedHandler \/ StartCheck \/ EndCheck \/ CheckFailed \/ Destroy
              \/ \E r \in SendResults : SendCompletes(r)
    BY <1>12, <1>1 DEF ConnectFailedHandler, FailureDelivered, StartCheck, EndCheck,
       CheckFailed, Destroy, SendCompletes, timerVars
  <1>13. CASE UNCHANGED vars
    BY <1>13, <1>1 DEF vars, timerVars
  <1> QED
    BY <1>2, <1>3, <1>4, <1>5, <1>6, <1>7, <1>8, <1>9, <1>10, <1>11, <1>12, <1>13
    DEF Next, IoThread, SenderHandlers, SocketHandlers, Dispatcher, Kernel, Clock,
        AsyncSend, CheckServer

\* NoSleepWithWork holds in every state, overlapping connects included: the
\* loop never waits for an async_send while an entry is in the deque
\* (base_impl.hpp:271-272, 288-299).
THEOREM NoLostWakeup == Spec => []NoSleepWithWork
  <1>1. Init => NoSleepWithWork
    BY DEF Init, NoSleepWithWork
  <1> QED BY <1>1, SleepStep, PTL DEF Spec

-------------------------------------------------------------------------------
(* An open socket has a send loop *)

\* Handlers that continue the loop or end the connection.
AliveOps == LoopOps \union {"async_close"}

\* The loop has a place, or the connection is about to be closed.
LoopSomewhere == LoopSleeps \/ LoopSends \/ ~Nowhere(ioq, AliveOps)

\* A handler that is queued stays queued until it runs.
LEMMA StaysQueued ==
    ASSUME NEW q \in Seq(Handlers), NEW s \in Seq(Handlers), NEW ops, ~Nowhere(q, ops),
           NEW r, \/ r = q \o s
                  \/ q # <<>> /\ Head(q).op \notin ops /\ r = Tail(q) \o s
    PROVE  ~Nowhere(r, ops)
  <1>1. CASE r = q \o s
    BY <1>1, QueuedConcat
  <1>2. CASE q # <<>> /\ Head(q).op \notin ops /\ r = Tail(q) \o s
    <2>1. Tail(q) \in Seq(Handlers) /\ ~Nowhere(Tail(q), ops)
      BY <1>2, TailElements, TakenElsewhere
    <2> QED BY <1>2, <2>1, QueuedConcat
  <1> QED BY <1>1, <1>2

\* A send that was begun is in flight.
LEMMA SendBegun ==
    ASSUME TypeOK, NEW e
    PROVE  Append(sending, e) # <<>>
  <1>1. sending \in Seq(Entries \union {e}) /\ e \in Entries \union {e}
    BY DEF TypeOK, SendOK
  <1>2. Len(Append(sending, e)) = Len(sending) + 1 /\ Len(sending) \in Nat
    BY <1>1
  <1> QED BY <1>2

\* await_send_entry() finds the socket closed, or leaves the loop asleep or
\* sending.
LEMMA AwaitAlive ==
    ASSUME TypeOK, NEW q, NEW delay, NEW deadline, NEW waits,
           AwaitSendEntry(q, delay, deadline, waits)
    PROVE  Open' => LoopSleeps' \/ LoopSends'
  BY SendBegun DEF AwaitSendEntry, EndLoop, Sleep, SendFront, LoopSleeps, LoopSends

\* So does start_actors().
LEMMA StartAlive ==
    ASSUME TypeOK, NEW q, StartActors(q)
    PROVE  Open' => LoopSleeps' \/ LoopSends'
  BY SendBegun DEF StartActors, LoopSleeps, LoopSends

\* Every action keeps SenderAlive.
LEMMA AliveStep ==
    ASSUME TypeOK, Open => LoopSomewhere, [Next]_vars
    PROVE  (Open => LoopSomewhere)'
  <1>0. ioq \in Seq(Handlers) /\ (ioq # <<>> => Tail(ioq) \in Seq(Handlers))
    BY TailElements DEF TypeOK
  <1>p. /\ \A op \in PlainOps : <<Post(op)>> \in Seq(Handlers)
        /\ \A op \in PlainOps : op \in AliveOps => ~Nowhere(<<Post(op)>>, AliveOps)
        /\ {"async_close", "await_send_entry"} \subseteq PlainOps \intersect AliveOps
        /\ \A op : op \in AliveOps <=> op \in {"async_close", "await_send_entry", "handle_send"}
    <2>1. \A op \in PlainOps : <<Post(op)>> \in Seq(Handlers)
      BY HandlerTypes
    <2>2. \A op \in PlainOps : op \in AliveOps => ~Nowhere(<<Post(op)>>, AliveOps)
      BY DEF Nowhere, Post
    <2> QED BY <2>1, <2>2 DEF PlainOps, AliveOps, LoopOps
  <1>c. /\ CancelledInvoker \in Seq(Handlers)
        /\ CancelledDeadline(deadline_waits) \in Seq(Handlers)
        /\ LoopSleeps => ~Nowhere(CancelledInvoker, AliveOps)
    BY <1>p, CancelledTypes DEF CancelledInvoker, LoopSleeps, TypeOK, TimerOK
  \* A handler of another kind runs, or another thread appends handlers.
  <1>1. ASSUME NEW s \in Seq(Handlers), Open' => Open,
               \/ ioq' = ioq \o s
               \/ ioq # <<>> /\ Head(ioq).op \notin AliveOps /\ ioq' = Tail(ioq) \o s,
               UNCHANGED <<send_invoker, sending>> \/ ~Nowhere(s, AliveOps)
        PROVE  (Open => LoopSomewhere)'
    <2>1. CASE ~Nowhere(s, AliveOps)
      BY <2>1, <1>0, <1>1, QueuedConcat DEF LoopSomewhere
    <2>2. CASE UNCHANGED <<send_invoker, sending>>
      <3>1. ~Nowhere(ioq, AliveOps) => ~Nowhere(ioq', AliveOps)
        BY <1>0, <1>1, StaysQueued
      <3> QED BY <3>1, <2>2, <1>1 DEF LoopSomewhere, LoopSleeps, LoopSends
    <2> QED BY <1>1, <2>1, <2>2
  \* The same, and no handler is appended.
  <1>2. ASSUME Open' => Open, UNCHANGED <<send_invoker, sending>>,
               \/ ioq' = ioq
               \/ ioq # <<>> /\ Head(ioq).op \notin AliveOps /\ ioq' = Tail(ioq)
        PROVE  (Open => LoopSomewhere)'
    <2>1. \/ ioq' = ioq \o <<>>
          \/ ioq # <<>> /\ Head(ioq).op \notin AliveOps /\ ioq' = Tail(ioq) \o <<>>
      BY <1>2, <1>0, EmptySuffix
    <2> QED BY <1>2, <2>1, <1>1, EmptySuffix
  \* A handler of the loop ends in the loop's own tail.
  <1>3. ASSUME LoopSleeps' \/ LoopSends' \/ ~Open' PROVE (Open => LoopSomewhere)'
    BY <1>3 DEF LoopSomewhere
  <1>4. CASE InvokerHandler
    BY <1>4, <1>3, AwaitAlive DEF InvokerHandler
  <1>5. CASE SendSucceeded
    BY <1>5, <1>3, AwaitAlive DEF SendSucceeded, FinishSend
  <1>6. CASE NoBufferSpace
    BY <1>6, <1>3, AwaitAlive DEF NoBufferSpace, FinishSend
  <1>7. CASE DropEntry
    BY <1>7, <1>3, AwaitAlive DEF DropEntry, FinishSend
  <1>8. CASE Connected \/ Bound
    BY <1>8, <1>3, StartAlive DEF Connected, Bound
  \* The socket is closed, or not ready yet.
  <1>9. CASE \/ CloseSocket \/ OpenFails \/ BindFails \/ ThreadExits
             \/ \E r \in ConnectResults : Connect(r)
    BY <1>9, <1>3 DEF CloseSocket, ReleaseSocket, OpenFails, BindFails, ThreadExits, Connect, Open
  <1>10. CASE CloseWithoutSocket
    BY <1>10, <1>3 DEF CloseWithoutSocket, allButQueue, socketVars, Open
  \* async_close is posted.
  <1>11. CASE ConnectionError
    <2> DEFINE s == CancelledDeadline(deadline_waits) \o <<Post("async_close")>>
    <2>1. s \in Seq(Handlers) /\ ~Nowhere(s, AliveOps)
      BY <1>c, <1>p, ConcatElements, QueuedConcat
    <2>2. ioq # <<>> /\ ioq' = Tail(ioq) \o s
      BY <1>11 DEF ConnectionError, AbortLoop, HandlesSend, Runs
    <2> HIDE DEF s
    <2> QED BY <1>0, <2>1, <2>2, QueuedConcat DEF LoopSomewhere
  <1>12. CASE DeadlineExpired
    <2>1. ioq # <<>> /\ ioq' = Tail(ioq) \o <<Post("async_close")>>
      BY <1>12, <1>0, <1>p, HandlerTypes, EmptySuffix DEF DeadlineExpired, Runs
    <2> QED BY <1>0, <1>p, <2>1, QueuedConcat DEF LoopSomewhere
  <1>13. CASE ConnectFailedHandler \/ CheckFailed
    <2>1. ioq' = ioq \o <<Post("async_close")>>
      BY <1>13, <1>0, <1>p, HandlerTypes, EmptySuffix DEF ConnectFailedHandler, CheckFailed
    <2> QED BY <1>0, <1>p, <2>1, QueuedConcat DEF LoopSomewhere
  <1>14. CASE Destroy \/ Recreate
    <2> DEFINE s == <<Post("async_close"), Post("reset")>>
    <2>1. s \in Seq(Handlers)
      BY HandlerTypes DEF PlainOps
    <2>2. s[1].op = "async_close" /\ 1 \in DOMAIN s
      BY DEF Post
    <2>3. ~Nowhere(s, AliveOps)
      BY <2>2, <1>p DEF Nowhere
    <2>4. CASE Destroy
      <3>1. ioq' = ioq \o s
        BY <2>4 DEF Destroy
      <3> HIDE DEF s
      <3> QED BY <1>0, <2>1, <2>3, <3>1, QueuedConcat DEF LoopSomewhere
    <2>5. CASE Recreate
      <3>1. ioq'[1].op = "async_close" /\ 1 \in DOMAIN ioq'
        BY <2>5 DEF Recreate, Post
      <3> QED BY <3>1, <1>p DEF LoopSomewhere, Nowhere
    <2> QED BY <1>14, <2>4, <2>5
  \* The loop's place moves into the queue.
  <1>15. CASE PushEntry
    <2>1. /\ ioq # <<>> /\ Head(ioq).op \notin AliveOps /\ ioq' = Tail(ioq) \o CancelledInvoker
          /\ (Open' => Open) /\ sending' = sending /\ send_invoker' = "none"
      BY <1>15, <1>p DEF PushEntry, PushBack, Runs, socketVars, sendVars, Open
    <2>2. send_invoker' = send_invoker \/ ~Nowhere(CancelledInvoker, AliveOps)
      BY <1>c, <2>1 DEF LoopSleeps
    <2> QED BY <1>c, <2>1, <2>2, <1>1
  <1>16. CASE InvokerFires
    <2>1. ioq' = ioq \o <<Post("await_send_entry")>>
      BY <1>16, <1>0, <1>p, HandlerTypes, EmptySuffix DEF InvokerFires
    <2> QED BY <1>0, <1>p, <2>1, QueuedConcat DEF LoopSomewhere
  <1>17. ASSUME NEW r \in SendResults, SendCompletes(r) PROVE (Open => LoopSomewhere)'
    <2> DEFINE h == HandleSend(Head(sending), r)
    <2>1. h \in Handlers /\ h.op \in AliveOps
      <3>1. Head(sending) \in Entries
        BY <1>17, TailElements DEF SendCompletes, TypeOK, SendOK
      <3>2. h.op = "handle_send"
        BY DEF HandleSend
      <3> QED BY <3>1, <3>2, <1>p, HandlerTypes
    <2>2. ioq' = Append(ioq, h)
      BY <1>17 DEF SendCompletes
    <2> HIDE DEF h
    <2>3. ioq' = ioq \o <<h>> /\ <<h>> \in Seq(Handlers) /\ ~Nowhere(<<h>>, AliveOps)
      BY <1>0, <2>1, <2>2, EmptySuffix DEF Nowhere
    <2> QED BY <1>0, <2>3, QueuedConcat DEF LoopSomewhere
  \* The rest leaves the loop alone.
  <1>18. CASE PostAsyncSend
    <2>1. SendHandler(asked') \in Handlers
      <3>1. asked' \in Entries
        BY <1>18, BoundsAssumption DEF PostAsyncSend, TypeOK, EntryOK, Entries
      <3> QED BY <3>1, HandlerTypes
    <2>2. ioq' = ioq \o <<SendHandler(asked')>> /\ <<SendHandler(asked')>> \in Seq(Handlers)
      BY <1>18, <1>0, <2>1, EmptySuffix DEF PostAsyncSend
    <2>3. (Open' => Open) /\ UNCHANGED <<send_invoker, sending>>
      BY <1>18 DEF PostAsyncSend, Open, socketVars, timerVars, sendVars
    <2> QED BY <2>2, <2>3, <1>1
  <1>19. CASE AsyncConnect
    <2>1. ioq' = ioq \o <<Post("async_connect")>> /\ <<Post("async_connect")>> \in Seq(Handlers)
      BY <1>19, <1>0, HandlerTypes, EmptySuffix DEF AsyncConnect, PlainOps
    <2>2. (Open' => Open) /\ UNCHANGED <<send_invoker, sending>>
      BY <1>19 DEF AsyncConnect, allButQueue, Open, socketVars, timerVars, sendVars
    <2> QED BY <2>1, <2>2, <1>1
  <1>20. CASE DeadlinePasses
    <2>1. (Open' => Open) /\ UNCHANGED <<send_invoker, sending>>
      BY <1>20 DEF DeadlinePasses, Open, socketVars, sendVars
    <2> QED BY <1>20, <1>c, <2>1, <1>1 DEF DeadlinePasses
  <1>21. CASE ConnectWithSocket \/ ConnectFails \/ DeadlineWithoutSocket \/ AwaitDeadline
              \/ ResetWorkGuard
    <2>1. ioq # <<>> /\ Head(ioq).op \notin AliveOps /\ ioq' = Tail(ioq)
      BY <1>21, <1>p DEF ConnectWithSocket, ConnectFails, DeadlineWithoutSocket, AwaitDeadline,
         ResetWorkGuard, Runs
    <2>2. (Open' => Open) /\ UNCHANGED <<send_invoker, sending>>
      BY <1>21 DEF ConnectWithSocket, ConnectFails, DeadlineWithoutSocket, AwaitDeadline,
         ResetWorkGuard, allButQueue, Open, socketVars, timerVars, sendVars
    <2> QED BY <2>1, <2>2, <1>2
  <1>22. CASE StartCheck \/ EndCheck \/ UNCHANGED vars
    BY <1>22, <1>2 DEF StartCheck, EndCheck, vars, Open, socketVars, timerVars, sendVars
  <1> QED
    BY <1>4, <1>5, <1>6, <1>7, <1>8, <1>9, <1>10, <1>11, <1>12, <1>13, <1>14, <1>15, <1>16,
       <1>17, <1>18, <1>19, <1>20, <1>21, <1>22
    DEF Next, IoThread, SenderHandlers, SocketHandlers, Dispatcher, Kernel, Clock,
        AsyncSend, CheckServer

\* SenderAlive holds in every state, overlapping connects included: no path of
\* handle_send(), of a cancelled timer or of a failing connection leaves an open
\* socket without a send loop (base_impl.hpp:387-416).
THEOREM SenderStaysAlive == Spec => []SenderAlive
  <1>1. (Open => LoopSomewhere) <=> SenderAlive
    BY DEF LoopSomewhere, SenderAlive, AliveOps, Nowhere, Queued
  <1>2. Init => (Open => LoopSomewhere)
    BY DEF Init, Open
  <1>3. TypeOK /\ (Open => LoopSomewhere) /\ [Next]_vars => (Open => LoopSomewhere)'
    BY AliveStep
  <1>4. Spec => [](Open => LoopSomewhere)
    BY <1>2, <1>3, TypeCorrect, PTL DEF Spec
  <1> QED BY <1>1, <1>4, PTL

-------------------------------------------------------------------------------
(* A send has a deadline *)

\* While a continuation of the loop is queued, nothing is in flight.
LEMMA NothingInFlight ==
    ASSUME TypeOK, SenderInv
    PROVE  /\ ioq # <<>> /\ Head(ioq).op \in LoopOps => sending = <<>>
           /\ ~Open => sending = <<>>
           /\ ioq # <<>> /\ Head(ioq).op \in {"connect_handler", "async_bind"} => ~Open
           /\ io_thread = "absent" => ~Open
  <1>1. ioq # <<>> /\ Head(ioq).op \in LoopOps => sending = <<>>
    BY TailElements DEF TypeOK, SenderInv, LoopInv, LoopSends, Nowhere
  <1>2. ioq # <<>> /\ Head(ioq).op \in {"connect_handler", "async_bind"} => ~Open
    BY TailElements DEF TypeOK, SenderInv, LoopInv, Nowhere, Open
  <1> QED BY <1>1, <1>2 DEF SenderInv, LoopInv, WaitsNeedSocket, Open

\* Every action keeps DeadlineGuardsSend where the loop is single: the deadline
\* is set to infinity only by the handler of the send that has completed.
LEMMA DeadlineStep ==
    ASSUME TypeOK, SenderInv, DeadlineGuardsSend, [Next]_vars
    PROVE  DeadlineGuardsSend'
  <1>1. ASSUME UNCHANGED <<sending, begun_by>>, send_deadline' \in {send_deadline, "passed"}
        PROVE  DeadlineGuardsSend'
    BY <1>1 DEF DeadlineGuardsSend
  <1>2. ASSUME sending' = <<>> PROVE DeadlineGuardsSend'
    BY <1>2 DEF DeadlineGuardsSend
  \* The loop's own tail, when no send is in flight before it.
  <1>3. ASSUME sending = <<>>, NEW q, NEW delay, NEW deadline, NEW waits,
               AwaitSendEntry(q, delay, deadline, waits)
        PROVE  DeadlineGuardsSend'
    BY <1>3 DEF AwaitSendEntry, EndLoop, Sleep, SendFront, DeadlineGuardsSend
  <1>4. CASE InvokerHandler
    BY <1>4, <1>3, NothingInFlight DEF InvokerHandler, Runs, LoopOps
  <1>5. CASE SendSucceeded
    BY <1>5, <1>3, NothingInFlight DEF SendSucceeded, HandlesSend, Runs, LoopOps, FinishSend
  <1>6. CASE NoBufferSpace
    BY <1>6, <1>3, NothingInFlight DEF NoBufferSpace, HandlesSend, Runs, LoopOps, FinishSend
  <1>7. CASE DropEntry
    BY <1>7, <1>3, NothingInFlight DEF DropEntry, HandlesSend, Runs, LoopOps, FinishSend
  <1>8. CASE ConnectionError
    BY <1>8, <1>2, NothingInFlight DEF ConnectionError, AbortLoop, HandlesSend, Runs, LoopOps,
       sendVars
  <1>9. CASE Connected \/ Bound
    <2>1. sending = <<>> /\ StartActors(Tail(ioq))
      BY <1>9, NothingInFlight DEF Connected, Bound, Runs
    <2>2. sending' = <<>> \/ begun_by' = "start_actors"
      BY <2>1 DEF StartActors
    <2> QED BY <2>2 DEF DeadlineGuardsSend
  <1>10. CASE Recreate
    BY <1>10, <1>2, NothingInFlight DEF Recreate, sendVars
  <1>11. CASE CloseSocket
    BY <1>11, <1>2 DEF CloseSocket, ReleaseSocket
  <1>12. ASSUME NEW r \in SendResults, SendCompletes(r) PROVE DeadlineGuardsSend'
    BY <1>12 DEF SendCompletes, DeadlineGuardsSend, timerVars
  <1>13. CASE PushEntry \/ PostAsyncSend \/ AwaitDeadline \/ InvokerFires \/ DeadlinePasses
    BY <1>13, <1>1 DEF PushEntry, PushBack, PostAsyncSend, AwaitDeadline, InvokerFires,
       DeadlinePasses, timerVars, sendVars
  <1>14. CASE DeadlineWithoutSocket \/ DeadlineExpired \/ CloseWithoutSocket
              \/ ConnectWithSocket \/ AsyncConnect
    BY <1>14, <1>1 DEF DeadlineWithoutSocket, DeadlineExpired, CloseWithoutSocket,
       ConnectWithSocket, AsyncConnect, allButQueue, timerVars, sendVars
  <1>15. CASE \/ OpenFails \/ ConnectFails \/ BindFails \/ ResetWorkGuard \/ ThreadExits
              \/ \E r \in ConnectResults : Connect(r)
    BY <1>15, <1>1 DEF OpenFails, ConnectFails, BindFails, ResetWorkGuard, ThreadExits,
       Connect, timerVars, sendVars
  <1>16. CASE \/ ConnectFailedHandler \/ StartCheck \/ EndCheck \/ CheckFailed \/ Destroy
              \/ UNCHANGED vars
    BY <1>16, <1>1 DEF ConnectFailedHandler, FailureDelivered, StartCheck, EndCheck,
       CheckFailed, Destroy, vars, timerVars, sendVars
  <1> QED
    BY <1>4, <1>5, <1>6, <1>7, <1>8, <1>9, <1>10, <1>11, <1>12, <1>13, <1>14, <1>15, <1>16
    DEF Next, IoThread, SenderHandlers, SocketHandlers, Dispatcher, Kernel, Clock,
        AsyncSend, CheckServer

\* DeadlineGuardsSend holds in every state: no handler of an earlier send, and
\* no reconnection, clears the deadline of the send in flight
\* (base_impl.hpp:305, 332).
THEOREM SendsHaveDeadlines ==
    ASSUME SerialConnects \/ Mode = "server"
    PROVE  Spec => []DeadlineGuardsSend
  <1>1. Init => DeadlineGuardsSend
    BY DEF Init, DeadlineGuardsSend
  <1>2. TypeOK /\ SenderInv /\ DeadlineGuardsSend /\ [Next]_vars => DeadlineGuardsSend'
    BY DeadlineStep
  <1> QED BY <1>1, <1>2, TypeCorrect, SenderInvariant, PTL DEF Spec

-------------------------------------------------------------------------------
(* One watchdog per connection *)

CheckOps == {"check_send_deadline"}
CloseOps == {"async_close"}

\* A queued check_send_deadline is the only one, and ahead of the connect_handler
\* that begins the next connection.
WatchQueue(q) ==
    /\ AtMostOnce(q, CheckOps)
    /\ \A i, j \in DOMAIN q :
          q[i].op \in CheckOps /\ q[j].op = "connect_handler" => i < j

\* A client's watchdog waits, is queued, or has asked for the close.
WatchInv ==
    /\ WatchQueue(ioq)
    /\ deadline_waits \in {0, 1}
    /\ deadline_waits = 1 => Nowhere(ioq, CheckOps)
    /\ Open => deadline_waits = 1 \/ ~Nowhere(ioq, CheckOps) \/ ~Nowhere(ioq, CloseOps)

\* What is left of the queue when its first handler has been taken.
LEMMA WatchTail ==
    ASSUME NEW q \in Seq(Handlers), q # <<>>, WatchQueue(q)
    PROVE  /\ WatchQueue(Tail(q))
           /\ Head(q).op \in CheckOps => Nowhere(Tail(q), CheckOps)
           /\ Head(q).op = "connect_handler" => Nowhere(Tail(q), CheckOps)
  <1>1. /\ AtMostOnce(Tail(q), CheckOps)
        /\ Head(q).op \in CheckOps => Nowhere(Tail(q), CheckOps)
    BY TailElements DEF WatchQueue, AtMostOnce, Nowhere
  <1>2. \A i, j \in DOMAIN Tail(q) :
          Tail(q)[i].op \in CheckOps /\ Tail(q)[j].op = "connect_handler" => i < j
    BY TailElements DEF WatchQueue
  <1>3. Head(q).op = "connect_handler" => Nowhere(Tail(q), CheckOps)
    BY TailElements DEF WatchQueue, Nowhere
  <1> QED BY <1>1, <1>2, <1>3 DEF WatchQueue

\* Handlers without a check are appended, or a check behind a queue that has
\* neither one nor a connect_handler.
LEMMA WatchConcat ==
    ASSUME NEW q \in Seq(Handlers), NEW s \in Seq(Handlers), WatchQueue(q),
           AtMostOnce(s, CheckOps),
           \/ Nowhere(s, CheckOps)
           \/ /\ Nowhere(q, CheckOps) /\ Nowhere(q, {"connect_handler"})
              /\ Nowhere(s, {"connect_handler"})
    PROVE  WatchQueue(q \o s)
  <1>1. AtMostOnce(q \o s, CheckOps)
    BY OnceConcat DEF WatchQueue
  <1>2. \A i, j \in DOMAIN (q \o s) :
          (q \o s)[i].op \in CheckOps /\ (q \o s)[j].op = "connect_handler" => i < j
    <2>1. CASE Nowhere(s, CheckOps)
      BY <2>1, ConcatElements DEF WatchQueue, Nowhere
    <2>2. CASE Nowhere(q, {"connect_handler"}) /\ Nowhere(s, {"connect_handler"})
      BY <2>2, NowhereConcat DEF Nowhere
    <2> QED BY <2>1, <2>2
  <1> QED BY <1>1, <1>2 DEF WatchQueue

\* What a cancellation of the deadline appends: its one pending wait.
LEMMA CancelledWatch ==
    ASSUME TypeOK, deadline_waits \in {0, 1}
    PROVE  /\ CancelledDeadline(deadline_waits) \in Seq(Handlers)
           /\ AtMostOnce(CancelledDeadline(deadline_waits), CheckOps)
           /\ Nowhere(CancelledDeadline(deadline_waits), {"connect_handler"})
           /\ Nowhere(CancelledDeadline(deadline_waits), CheckOps) <=> deadline_waits = 0
  <1>1. CancelledDeadline(deadline_waits) \in Seq(Handlers)
    BY CancelledTypes DEF TypeOK, TimerOK
  <1>2. CASE deadline_waits = 0
    BY <1>1, <1>2 DEF CancelledDeadline, AtMostOnce, Nowhere
  <1>3. CASE deadline_waits = 1
    <2>1. /\ DOMAIN CancelledDeadline(1) = {1}
          /\ CancelledDeadline(1)[1].op = "check_send_deadline"
      BY DEF CancelledDeadline, Post
    <2> QED BY <1>1, <1>3, <2>1 DEF AtMostOnce, Nowhere, CheckOps
  <1> QED BY <1>2, <1>3

\* A step that takes a handler of another kind or none, and appends handlers s:
\* the pending wait stays, or moves into s.
LEMMA WatchStepPlain ==
    ASSUME TypeOK, SenderInv, WatchInv, NEW s \in Seq(Handlers),
           \/ ioq' = ioq \o s
           \/ /\ ioq # <<>> /\ ioq' = Tail(ioq) \o s
              /\ ~Open' \/ Head(ioq).op \notin CheckOps \union CloseOps,
           Open' => Open \/ ~Nowhere(s, CloseOps),
           AtMostOnce(s, CheckOps),
           \/ Nowhere(s, CheckOps) /\ deadline_waits' = deadline_waits
           \/ /\ ~Nowhere(s, CheckOps) /\ deadline_waits = 1 /\ deadline_waits' = 0
              /\ Nowhere(s, {"connect_handler"})
    PROVE  WatchInv'
  <1>0. ioq \in Seq(Handlers) /\ WatchQueue(ioq)
    BY DEF TypeOK, WatchInv
  <1>1. PICK q \in Seq(Handlers) :
            /\ ioq' = q \o s
            /\ WatchQueue(q)
            /\ \A ops : Nowhere(ioq, ops) => Nowhere(q, ops)
            /\ ~Nowhere(ioq, CheckOps) => ~Open' \/ ~Nowhere(ioq', CheckOps)
            /\ ~Nowhere(ioq, CloseOps) => ~Open' \/ ~Nowhere(ioq', CloseOps)
    <2>1. CASE ioq' = ioq \o s
      BY <1>0, <2>1, StaysQueued
    <2>2. CASE ioq # <<>> /\ ioq' = Tail(ioq) \o s
               /\ (~Open' \/ Head(ioq).op \notin CheckOps \union CloseOps)
      <3>1. Tail(ioq) \in Seq(Handlers) /\ WatchQueue(Tail(ioq))
        BY <1>0, <2>2, WatchTail, TailElements
      <3>2. \A ops : Nowhere(ioq, ops) => Nowhere(Tail(ioq), ops)
        BY <1>0, <2>2, NowhereTail
      <3>3. /\ ~Nowhere(ioq, CheckOps) => ~Open' \/ ~Nowhere(ioq', CheckOps)
            /\ ~Nowhere(ioq, CloseOps) => ~Open' \/ ~Nowhere(ioq', CloseOps)
        BY <1>0, <2>2, StaysQueued
      <3> QED BY <2>2, <3>1, <3>2, <3>3
    <2> QED BY <2>1, <2>2
  <1>2. deadline_waits = 1 => Nowhere(q, CheckOps) /\ Nowhere(q, {"connect_handler"})
    <2>1. deadline_waits = 1 => Nowhere(ioq, CheckOps) /\ Nowhere(ioq, {"connect_handler"})
      BY DEF WatchInv, SenderInv, LoopInv, WaitsNeedSocket, Open
    <2> QED BY <1>1, <2>1
  <1>3. WatchQueue(ioq')
    BY <1>1, <1>2, WatchConcat
  <1>4. deadline_waits' \in {0, 1}
    BY DEF WatchInv
  <1>5. deadline_waits' = 1 => Nowhere(ioq', CheckOps)
    BY <1>1, <1>2, NowhereConcat
  <1>6. ~Nowhere(s, CheckOps) => ~Nowhere(ioq', CheckOps)
    BY <1>1, QueuedConcat
  <1>7. ~Nowhere(s, CloseOps) => ~Nowhere(ioq', CloseOps)
    BY <1>1, QueuedConcat
  <1>8. Open' => deadline_waits' = 1 \/ ~Nowhere(ioq', CheckOps) \/ ~Nowhere(ioq', CloseOps)
    BY <1>1, <1>6, <1>7 DEF WatchInv
  <1> QED BY <1>3, <1>4, <1>5, <1>8 DEF WatchInv

\* Every action keeps WatchInv in client mode.
LEMMA WatchStep ==
    ASSUME Mode = "client", SerialConnects, TypeOK, TypeOK', SenderInv, WatchInv, [Next]_vars
    PROVE  WatchInv'
  <1> DEFINE cd == CancelledDeadline(deadline_waits)
  <1>0. ioq \in Seq(Handlers) /\ (ioq # <<>> => Tail(ioq) \in Seq(Handlers))
    BY TailElements DEF TypeOK
  <1>c. /\ cd \in Seq(Handlers) /\ AtMostOnce(cd, CheckOps)
        /\ Nowhere(cd, {"connect_handler"})
        /\ Nowhere(cd, CheckOps) <=> deadline_waits = 0
        /\ deadline_waits \in {0, 1}
    BY CancelledWatch DEF WatchInv
  <1>i. CancelledInvoker \in Seq(Handlers) /\ Nowhere(CancelledInvoker, CheckOps)
        /\ Nowhere(CancelledInvoker, {"connect_handler"})
    BY CancelledTypes DEF CancelledInvoker, Nowhere, CheckOps, Post
  <1>n. \A s : Nowhere(s, CheckOps) => AtMostOnce(s, CheckOps)
    BY DEF Nowhere, AtMostOnce
  <1>p. \A op \in PlainOps : <<Post(op)>> \in Seq(Handlers) /\ Post(op) \in Handlers
                             /\ \A ops : op \notin ops => Nowhere(<<Post(op)>>, ops)
    BY HandlerTypes, SingleSuffix DEF Post
  <1>q. {"async_close", "async_connect", "await_send_entry", "reset"} \subseteq PlainOps \ CheckOps
    BY DEF PlainOps, CheckOps
  <1> HIDE DEF cd
  \* A handler of another kind runs, or handlers without a check are appended.
  <1>1. ASSUME NEW s \in Seq(Handlers), Nowhere(s, CheckOps), Open' => Open,
               \/ ioq' = ioq \o s
               \/ /\ ioq # <<>> /\ ioq' = Tail(ioq) \o s
                  /\ ~Open' \/ Head(ioq).op \notin CheckOps \union CloseOps,
               deadline_waits' = deadline_waits
        PROVE  WatchInv'
    BY <1>1, <1>n, WatchStepPlain
  <1>2. ASSUME Open' => Open, deadline_waits' = deadline_waits,
               \/ ioq' = ioq
               \/ /\ ioq # <<>> /\ ioq' = Tail(ioq)
                  /\ ~Open' \/ Head(ioq).op \notin CheckOps \union CloseOps
        PROVE  WatchInv'
    <2>1. \/ ioq' = ioq \o <<>>
          \/ /\ ioq # <<>> /\ ioq' = Tail(ioq) \o <<>>
             /\ ~Open' \/ Head(ioq).op \notin CheckOps \union CloseOps
      BY <1>0, <1>2, EmptySuffix
    <2> QED BY <1>2, <2>1, <1>1, EmptySuffix
  \* The deadline is cancelled, replaced or passed: its wait moves to the queue.
  <1>3. ASSUME NEW a \in Seq(Handlers), NEW b \in Seq(Handlers), Open' => Open,
               Nowhere(a, CheckOps), Nowhere(a, {"connect_handler"}),
               Nowhere(b, CheckOps), Nowhere(b, {"connect_handler"}),
               \/ ioq' = ioq \o (a \o (cd \o b))
               \/ /\ ioq # <<>> /\ ioq' = Tail(ioq) \o (a \o (cd \o b))
                  /\ ~Open' \/ Head(ioq).op \notin CheckOps \union CloseOps,
               deadline_waits' = 0
        PROVE  WatchInv'
    <2>1. /\ cd \o b \in Seq(Handlers) /\ AtMostOnce(cd \o b, CheckOps)
          /\ Nowhere(cd \o b, {"connect_handler"})
          /\ deadline_waits = 0 => Nowhere(cd \o b, CheckOps)
      BY <1>3, <1>c, <1>n, ConcatElements, OnceConcat, NowhereConcat
    <2>2. deadline_waits = 1 => ~Nowhere(cd \o b, CheckOps)
      BY <1>3, <1>c, QueuedConcat
    <2> DEFINE s == a \o (cd \o b)
    <2>3. /\ s \in Seq(Handlers) /\ AtMostOnce(s, CheckOps)
          /\ Nowhere(s, {"connect_handler"})
          /\ deadline_waits = 0 => Nowhere(s, CheckOps)
      BY <1>3, <2>1, <1>n, ConcatElements, OnceConcat, NowhereConcat
    <2>4. deadline_waits = 1 => ~Nowhere(s, CheckOps)
      BY <1>3, <2>1, <2>2, QueuedConcat
    <2>5. \/ ioq' = ioq \o s
          \/ /\ ioq # <<>> /\ ioq' = Tail(ioq) \o s
             /\ ~Open' \/ Head(ioq).op \notin CheckOps \union CloseOps
      BY <1>3
    <2> HIDE DEF s
    <2> QED BY <1>3, <1>c, <2>3, <2>4, <2>5, WatchStepPlain
  \* await_send_entry(), called by a handler that has moved the wait or not.
  <1>4. CASE InvokerHandler
    <2>1. /\ ioq # <<>> /\ Head(ioq).op \notin CheckOps \union CloseOps /\ (Open' => Open)
          /\ AwaitSendEntry(Tail(ioq), FALSE, send_deadline, deadline_waits)
      BY <1>4 DEF InvokerHandler, Runs, CheckOps, CloseOps, Open, socketVars
    <2>2. CASE EndLoop(Tail(ioq), send_deadline, deadline_waits)
      BY <2>1, <2>2, <1>2 DEF EndLoop
    <2>3. CASE Sleep(Tail(ioq), FALSE, send_deadline, deadline_waits)
      BY <2>1, <2>3, <1>1, <1>i DEF Sleep
    <2>4. CASE SendFront(Tail(ioq), FALSE, deadline_waits)
      <3>1. ioq' = Tail(ioq) \o cd /\ deadline_waits' = 0
        BY <2>4 DEF SendFront, cd
      <3>2. <<>> \o (cd \o <<>>) = cd
        BY <1>c
      <3>3. /\ <<>> \in Seq(Handlers) /\ Nowhere(<<>>, CheckOps)
            /\ Nowhere(<<>>, {"connect_handler"})
        BY EmptySuffix
      <3>4. ioq' = Tail(ioq) \o (<<>> \o (cd \o <<>>))
        BY <3>1, <3>2
      <3> QED BY <2>1, <3>1, <3>3, <3>4, <1>3
    <2> QED BY <2>1, <2>2, <2>3, <2>4 DEF AwaitSendEntry
  <1>5. ASSUME NEW e, NEW delay, FinishSend(e, delay), Runs("handle_send")
        PROVE  WatchInv'
    <2>1. /\ ioq # <<>> /\ Head(ioq).op \notin CheckOps \union CloseOps /\ (Open' => Open)
          /\ AwaitSendEntry(Tail(ioq) \o cd, delay, "infinite", 0)
      BY <1>5 DEF FinishSend, Runs, CheckOps, CloseOps, Open, socketVars, cd
    <2>2. CancelledDeadline(0) = <<>>
      BY DEF CancelledDeadline
    <2>3. deadline_waits' = 0 /\ ioq' \in {Tail(ioq) \o cd, (Tail(ioq) \o cd) \o CancelledInvoker}
      <3>1. (Tail(ioq) \o cd) \o <<>> = Tail(ioq) \o cd
        BY <1>0, <1>c, <2>1, ConcatElements, EmptySuffix
      <3> QED BY <2>1, <2>2, <3>1 DEF AwaitSendEntry, EndLoop, Sleep, SendFront
    <2>4. PICK b \in {<<>>, CancelledInvoker} : ioq' = Tail(ioq) \o (<<>> \o (cd \o b))
      <3>1. /\ <<>> \o (cd \o <<>>) = cd
            /\ <<>> \o (cd \o CancelledInvoker) = cd \o CancelledInvoker
        BY <1>c, <1>i
      <3>2. (Tail(ioq) \o cd) \o CancelledInvoker = Tail(ioq) \o (cd \o CancelledInvoker)
        BY <1>0, <1>c, <1>i, <2>1
      <3> QED BY <2>3, <3>1, <3>2
    <2>5. /\ b \in Seq(Handlers) /\ Nowhere(b, CheckOps) /\ Nowhere(b, {"connect_handler"})
          /\ <<>> \in Seq(Handlers) /\ Nowhere(<<>>, CheckOps)
          /\ Nowhere(<<>>, {"connect_handler"})
      BY <1>i, EmptySuffix
    <2> QED BY <2>1, <2>3, <2>4, <2>5, <1>3
  <1>6. CASE SendSucceeded
    BY <1>6, <1>5 DEF SendSucceeded, HandlesSend
  <1>7. CASE NoBufferSpace
    BY <1>7, <1>5 DEF NoBufferSpace, HandlesSend
  <1>8. CASE DropEntry
    BY <1>8, <1>5 DEF DropEntry, HandlesSend
  <1>9. CASE ConnectionError
    <2> DEFINE b == <<Post("async_close")>>
    <2>1. b \in Seq(Handlers) /\ Nowhere(b, CheckOps) /\ Nowhere(b, {"connect_handler"})
          /\ <<>> \in Seq(Handlers) /\ Nowhere(<<>>, CheckOps)
          /\ Nowhere(<<>>, {"connect_handler"})
      BY <1>p, <1>q, EmptySuffix
    <2>2. /\ ioq # <<>> /\ Head(ioq).op \notin CheckOps \union CloseOps /\ (Open' => Open)
          /\ ioq' = Tail(ioq) \o (cd \o b) /\ deadline_waits' = 0
      BY <1>9 DEF ConnectionError, AbortLoop, HandlesSend, Runs, CheckOps, CloseOps, Open,
         socketVars, cd
    <2> HIDE DEF b
    <2>3. <<>> \o (cd \o b) = cd \o b
      BY <1>c, <2>1
    <2> QED BY <2>1, <2>2, <2>3, <1>3
  <1>10. CASE DeadlinePasses
    <2>1. /\ (Open' => Open) /\ ioq' = ioq \o cd /\ deadline_waits' = 0
      BY <1>10 DEF DeadlinePasses, Open, socketVars, cd
    <2>2. <<>> \o (cd \o <<>>) = cd
      BY <1>c
    <2>3. /\ <<>> \in Seq(Handlers) /\ Nowhere(<<>>, CheckOps)
          /\ Nowhere(<<>>, {"connect_handler"})
      BY EmptySuffix
    <2>4. ioq' = ioq \o (<<>> \o (cd \o <<>>))
      BY <2>1, <2>2
    <2> QED BY <2>1, <2>3, <2>4, <1>3
  <1>11. CASE CloseSocket
    <2> DEFINE a == CancelledSends \o CancelledInvoker
    <2>1. CancelledSends \in Seq(Handlers) /\ Nowhere(CancelledSends, CheckOps)
          /\ Nowhere(CancelledSends, {"connect_handler"})
      BY CancelledTypes DEF CancelledSends, Nowhere, CheckOps, HandleSend
    <2>2. a \in Seq(Handlers) /\ Nowhere(a, CheckOps) /\ Nowhere(a, {"connect_handler"})
          /\ <<>> \in Seq(Handlers) /\ Nowhere(<<>>, CheckOps)
          /\ Nowhere(<<>>, {"connect_handler"})
      BY <1>i, <2>1, ConcatElements, NowhereConcat, EmptySuffix
    <2>3. CancelledSends \o (CancelledInvoker \o cd) = a \o (cd \o <<>>)
      BY <1>c, <1>i, <2>1
    <2>4. /\ ioq # <<>> /\ ioq' = Tail(ioq) \o (CancelledSends \o (CancelledInvoker \o cd))
          /\ deadline_waits' = 0 /\ ~Open'
      BY <1>11 DEF CloseSocket, ReleaseSocket, Runs, Open, cd
    <2> HIDE DEF a
    <2>5. ioq' = Tail(ioq) \o (a \o (cd \o <<>>))
      BY <2>3, <2>4
    <2> QED BY <2>2, <2>4, <2>5, <1>3
  \* start_actors() begins the one wait of the new connection.
  <1>12. CASE Connected
    <2>1. ioq # <<>> /\ Head(ioq).op = "connect_handler" /\ StartActors(Tail(ioq))
      BY <1>12 DEF Connected, Runs
    <2>2. Nowhere(Tail(ioq), CheckOps) /\ WatchQueue(Tail(ioq))
      BY <1>0, <2>1, WatchTail DEF WatchInv
    <2>3. deadline_waits = 0 /\ CancelledInvoker = <<>>
      <3>1. ~Open
        BY <2>1, NothingInFlight
      <3> QED BY <3>1, <1>c DEF SenderInv, LoopInv, WaitsNeedSocket, CancelledInvoker
    <2>4. CancelledDeadline(deadline_waits) = <<>>
      BY <2>3 DEF CancelledDeadline
    <2>5. ioq' = Tail(ioq) /\ deadline_waits' = IF Open' THEN 1 ELSE 0
      BY <1>0, <2>1, <2>3, <2>4, EmptySuffix DEF StartActors
    <2> QED BY <2>2, <2>5 DEF WatchInv
  \* check_send_deadline() itself.
  <1>13. CASE AwaitDeadline
    <2>1. ioq # <<>> /\ Head(ioq).op \in CheckOps /\ ioq' = Tail(ioq)
          /\ deadline_waits' = deadline_waits + 1
      BY <1>13 DEF AwaitDeadline, Runs, CheckOps
    <2>2. Nowhere(ioq', CheckOps) /\ WatchQueue(ioq')
      BY <1>0, <2>1, WatchTail DEF WatchInv
    <2>3. deadline_waits = 0
      <3>1. ~Nowhere(ioq, CheckOps)
        BY <1>0, <2>1, TailElements DEF Nowhere
      <3> QED BY <3>1, <1>c DEF WatchInv
    <2> QED BY <2>1, <2>2, <2>3 DEF WatchInv
  <1>14. CASE DeadlineExpired
    <2> DEFINE b == <<Post("async_close")>>
    <2>1. ioq # <<>> /\ Head(ioq).op \in CheckOps /\ deadline_waits' = deadline_waits
          /\ ioq' = Append(Tail(ioq), Post("async_close"))
      BY <1>14 DEF DeadlineExpired, Runs, CheckOps, allButQueue, timerVars
    <2>2. b \in Seq(Handlers) /\ Nowhere(b, CheckOps) /\ ~Nowhere(b, CloseOps)
      BY <1>p, <1>q DEF Nowhere, CloseOps, Post
    <2>3. ioq' = Tail(ioq) \o b
      BY <1>0, <1>p, <1>q, <2>1, EmptySuffix
    <2> HIDE DEF b
    <2>4. Nowhere(Tail(ioq), CheckOps) /\ WatchQueue(Tail(ioq))
      BY <1>0, <2>1, WatchTail DEF WatchInv
    <2>5. WatchQueue(ioq')
      BY <1>0, <1>n, <2>1, <2>2, <2>3, <2>4, WatchConcat
    <2>6. Nowhere(ioq', CheckOps) /\ ~Nowhere(ioq', CloseOps)
      BY <1>0, <2>1, <2>2, <2>3, <2>4, NowhereConcat, QueuedConcat, ZenonT(60)
    <2> QED BY <1>c, <2>1, <2>5, <2>6 DEF WatchInv
  \* Handlers that leave the deadline alone.
  <1>15. CASE CloseWithoutSocket \/ DeadlineWithoutSocket
    BY <1>15, <1>2 DEF CloseWithoutSocket, DeadlineWithoutSocket, Runs, Open, allButQueue,
       socketVars, timerVars
  <1>16. CASE OpenFails \/ BindFails \/ ConnectWithSocket \/ ConnectFails \/ ResetWorkGuard
    <2>1. ioq # <<>> /\ Head(ioq).op \notin CheckOps \union CloseOps /\ ioq' = Tail(ioq)
      BY <1>16 DEF OpenFails, BindFails, ConnectWithSocket, ConnectFails, ResetWorkGuard, Runs,
         CheckOps, CloseOps
    <2>2. (Open' => Open) /\ deadline_waits' = deadline_waits
      BY <1>16 DEF OpenFails, BindFails, ConnectWithSocket, ConnectFails, ResetWorkGuard, Open,
         allButQueue, socketVars, timerVars
    <2> QED BY <2>1, <2>2, <1>2
  <1>17. ASSUME NEW r \in ConnectResults, Connect(r) PROVE WatchInv'
    <2>1. ConnectHandler(r) \in Handlers /\ ConnectHandler(r).op = "connect_handler"
      BY HandlerTypes DEF ConnectHandler
    <2>2. /\ ioq # <<>> /\ Head(ioq).op \notin CheckOps \union CloseOps /\ ~Open'
          /\ ioq' = Tail(ioq) \o <<ConnectHandler(r)>> /\ deadline_waits' = deadline_waits
      BY <1>17, <1>0, <2>1, EmptySuffix DEF Connect, Runs, CheckOps, CloseOps, Open, timerVars
    <2>3. <<ConnectHandler(r)>> \in Seq(Handlers) /\ Nowhere(<<ConnectHandler(r)>>, CheckOps)
      BY <2>1, SingleSuffix DEF CheckOps
    <2> QED BY <2>2, <2>3, <1>1
  <1>18. CASE PushEntry
    <2>1. /\ ioq # <<>> /\ Head(ioq).op \notin CheckOps \union CloseOps /\ (Open' => Open)
          /\ ioq' = Tail(ioq) \o CancelledInvoker /\ deadline_waits' = deadline_waits
      BY <1>18 DEF PushEntry, PushBack, Runs, CheckOps, CloseOps, Open, socketVars
    <2> QED BY <2>1, <1>i, <1>1
  \* The other threads.
  <1>19. CASE PostAsyncSend
    <2>1. SendHandler(asked') \in Handlers /\ SendHandler(asked').op = "async_send"
      <3>1. asked' \in Entries
        BY <1>19, BoundsAssumption DEF PostAsyncSend, TypeOK, EntryOK, Entries
      <3> QED BY <3>1, HandlerTypes DEF SendHandler
    <2>2. <<SendHandler(asked')>> \in Seq(Handlers) /\ Nowhere(<<SendHandler(asked')>>, CheckOps)
      BY <2>1, SingleSuffix DEF CheckOps
    <2>3. ioq' = ioq \o <<SendHandler(asked')>> /\ (Open' => Open)
          /\ deadline_waits' = deadline_waits
      BY <1>19, <1>0, <2>1, EmptySuffix DEF PostAsyncSend, Open, socketVars, timerVars
    <2> QED BY <2>2, <2>3, <1>1
  <1>20. CASE AsyncConnect \/ ConnectFailedHandler \/ CheckFailed \/ InvokerFires
    <2>1. PICK op \in {"async_close", "async_connect", "await_send_entry"} :
              ioq' = Append(ioq, Post(op))
      BY <1>20 DEF AsyncConnect, ConnectFailedHandler, CheckFailed, InvokerFires
    <2>2. (Open' => Open) /\ deadline_waits' = deadline_waits
      BY <1>20 DEF AsyncConnect, ConnectFailedHandler, FailureDelivered, CheckFailed,
         InvokerFires, Open, allButQueue, socketVars, timerVars
    <2>3. op \in PlainOps /\ op \notin CheckOps
      BY <1>q
    <2>4. ioq' = ioq \o <<Post(op)>>
      BY <1>0, <1>p, <2>1, <2>3, EmptySuffix
    <2> QED BY <1>p, <2>2, <2>3, <2>4, <1>1
  <1>21. ASSUME NEW r \in SendResults, SendCompletes(r) PROVE WatchInv'
    <2> DEFINE h == HandleSend(Head(sending), r)
    <2>1. h \in Handlers /\ h.op = "handle_send"
      <3>1. Head(sending) \in Entries
        BY <1>21, TailElements DEF SendCompletes, TypeOK, SendOK
      <3> QED BY <3>1, HandlerTypes DEF HandleSend
    <2>2. ioq' = Append(ioq, h) /\ (Open' => Open) /\ deadline_waits' = deadline_waits
      BY <1>21 DEF SendCompletes, Open, socketVars, timerVars
    <2> HIDE DEF h
    <2>3. ioq' = ioq \o <<h>> /\ <<h>> \in Seq(Handlers) /\ Nowhere(<<h>>, CheckOps)
      BY <1>0, <2>1, <2>2, EmptySuffix, SingleSuffix DEF CheckOps
    <2> QED BY <2>2, <2>3, <1>1
  <1>22. CASE Destroy
    <2> DEFINE s == <<Post("async_close"), Post("reset")>>
    <2>1. s \in Seq(Handlers) /\ Nowhere(s, CheckOps)
      BY HandlerTypes DEF PlainOps, Nowhere, Post, CheckOps
    <2>2. ioq' = ioq \o s /\ (Open' => Open) /\ deadline_waits' = deadline_waits
      BY <1>22 DEF Destroy, Open, socketVars, timerVars
    <2> HIDE DEF s
    <2> QED BY <2>1, <2>2, <1>1
  <1>23. CASE StartCheck \/ EndCheck \/ ThreadExits \/ UNCHANGED vars
    BY <1>23, <1>2 DEF StartCheck, EndCheck, ThreadExits, vars, Open, socketVars, timerVars
  \* Server mode only.
  <1>24. ~Bound /\ ~Recreate
    <2>1. ~Bound
      BY TailElements DEF Bound, Runs, TypeOK, SenderInv, QueueInv, Nowhere
    <2> QED BY <2>1 DEF Recreate
  <1> QED
    BY <1>4, <1>6, <1>7, <1>8, <1>9, <1>10, <1>11, <1>12, <1>13, <1>14, <1>15, <1>16,
       <1>17, <1>18, <1>19, <1>20, <1>21, <1>22, <1>23, <1>24
    DEF Next, IoThread, SenderHandlers, SocketHandlers, Dispatcher, Kernel, Clock,
        AsyncSend, CheckServer

\* WatchdogAlive holds in every state of a client whose connection attempts do
\* not overlap: each connection has exactly one check_send_deadline(), and the
\* one of a closed connection never survives into the next
\* (base_impl.hpp:436-453).
THEOREM OneWatchdog ==
    ASSUME SerialConnects
    PROVE  Spec => []WatchdogAlive
  <1>1. CASE Mode = "server"
    <2>1. WatchdogAlive
      BY <1>1 DEF WatchdogAlive
    <2> QED BY <2>1, PTL
  <1>2. CASE Mode = "client"
    <2>1. Init => WatchInv
      BY DEF Init, WatchInv, WatchQueue, AtMostOnce, Nowhere, Open
    <2>2. TypeOK /\ TypeOK' /\ SenderInv /\ WatchInv /\ [Next]_vars => WatchInv'
      BY <1>2, WatchStep
    <2>3. TypeOK /\ WatchInv => WatchdogAlive
      <3> SUFFICES ASSUME TypeOK, WatchInv, Open PROVE WatchdogAlive
        BY DEF WatchdogAlive
      <3> DEFINE Q == Queued(CheckOps)
      <3>1. CASE Nowhere(ioq, CheckOps)
        <4>1. Cardinality(Q) = 0
          <5>1. Q = {}
            BY <3>1 DEF Queued, Nowhere
          <5> QED BY <5>1, FS_EmptySet
        <4>2. deadline_waits = 1 \/ (deadline_waits = 0 /\ Queued({"async_close"}) # {})
          BY <3>1 DEF WatchInv, Nowhere, Queued, CloseOps
        <4> QED BY <4>1, <4>2 DEF WatchdogAlive, CheckOps
      <3>2. CASE ~Nowhere(ioq, CheckOps)
        <4>1. PICK i \in DOMAIN ioq : ioq[i].op \in CheckOps
          BY <3>2 DEF Nowhere
        <4>2. Q = {i}
          BY <4>1 DEF Queued, WatchInv, WatchQueue, AtMostOnce
        <4>3. Cardinality(Q) = 1
          BY <4>2, FS_Singleton
        <4>4. deadline_waits = 0
          BY <3>2 DEF WatchInv
        <4> QED BY <4>3, <4>4 DEF WatchdogAlive, CheckOps
      <3> QED BY <3>1, <3>2
    <2> QED BY <2>1, <2>2, <2>3, TypeCorrect, SenderInvariant, PTL DEF Spec
  <1> QED BY <1>1, <1>2, ModeAssumption
===============================================================================
