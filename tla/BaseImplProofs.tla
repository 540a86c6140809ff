---------------------------- MODULE BaseImplProofs ----------------------------
(***************************************************************************)
(* Theorems about BaseImpl for every size of its bounds.                   *)
(***************************************************************************)
EXTENDS BaseImpl, QueueLemmas, TLAPS

-------------------------------------------------------------------------------
(* Handlers *)

\* The constructors of handlers build handlers, and what a handler captures
\* has the type its operation needs.
LEMMA HandlerTypes ==
    /\ \A op \in PlainOps : Post(op) \in Handlers
    /\ \A r \in ConnectResults : ConnectHandler(r) \in Handlers
    /\ \A e \in Entries : SendHandler(e) \in Handlers
    /\ \A e \in Entries, r \in SendResults : HandleSend(e, r) \in Handlers
    /\ \A h \in Handlers : h.op \in {"async_send", "handle_send"} => h.entry \in Entries
  BY DEF Handlers, Post, ConnectHandler, SendHandler, HandleSend, PlainOps

\* What a cancellation moves into the queue are handlers.
LEMMA CancelledTypes ==
    ASSUME TypeOK
    PROVE  /\ CancelledInvoker \in Seq(Handlers)
           /\ \A n \in Nat : CancelledDeadline(n) \in Seq(Handlers)
           /\ CancelledSends \in Seq(Handlers)
  <1>1. Post("await_send_entry") \in Handlers /\ Post("check_send_deadline") \in Handlers
    BY HandlerTypes DEF PlainOps
  <1>2. CancelledInvoker \in Seq(Handlers)
    BY <1>1 DEF CancelledInvoker
  <1>3. \A n \in Nat : CancelledDeadline(n) \in Seq(Handlers)
    BY <1>1 DEF CancelledDeadline
  <1>4. \A i \in 1..Len(sending) : HandleSend(sending[i], "error") \in Handlers
    BY HandlerTypes DEF TypeOK, SendOK, SendResults
  <1>5. CancelledSends \in Seq(Handlers)
    BY <1>4 DEF CancelledSends, TypeOK, SendOK
  <1> QED BY <1>2, <1>3, <1>5

-------------------------------------------------------------------------------
(* Type correctness *)

\* The initial state, for either mode, has the types.
LEMMA TypeInit == Init => TypeOK
  <1> SUFFICES ASSUME Init PROVE TypeOK OBVIOUS
  <1>1. ThreadOK
    <2>1. io_thread \in {"absent", "running", "terminating"}
      BY DEF Init
    <2>2. work_guard \in BOOLEAN
      BY DEF Init
    <2> QED BY <2>1, <2>2 DEF ThreadOK
  <1>2. SocketOK
    BY DEF Init, SocketOK
  <1>3. EntryOK
    BY BoundsAssumption DEF Init, EntryOK, Entries
  <1>4. TimerOK
    BY DEF Init, TimerOK
  <1>5. SendOK
    BY DEF Init, SendOK
  <1>6. ioq \in Seq(Handlers)
    BY DEF Init
  <1> QED BY <1>1, <1>2, <1>3, <1>4, <1>5, <1>6 DEF TypeOK

\* A group of variables that a step leaves alone keeps its types.
LEMMA UnchangedTypes ==
    ASSUME TypeOK
    PROVE  /\ UNCHANGED threadVars => ThreadOK'
           /\ UNCHANGED socketVars => SocketOK'
           /\ UNCHANGED entryVars => EntryOK'
           /\ UNCHANGED timerVars => TimerOK'
           /\ UNCHANGED sendVars => SendOK'
  <1>1. UNCHANGED threadVars => ThreadOK'
    BY DEF TypeOK, ThreadOK, threadVars
  <1>2. UNCHANGED socketVars => SocketOK'
    BY DEF TypeOK, SocketOK, socketVars
  <1>3. UNCHANGED entryVars => EntryOK'
    BY DEF TypeOK, EntryOK, entryVars
  <1>4. UNCHANGED timerVars => TimerOK'
    BY DEF TypeOK, TimerOK, timerVars
  <1>5. UNCHANGED sendVars => SendOK'
    BY DEF TypeOK, SendOK, sendVars
  <1> QED BY <1>1, <1>2, <1>3, <1>4, <1>5

\* The two tails that handlers share.
LEMMA AwaitTypes ==
    ASSUME TypeOK, EntryOK', NEW q \in Seq(Handlers), NEW delay \in BOOLEAN,
           NEW deadline \in {"infinite", "armed", "passed"}, NEW waits \in Nat,
           AwaitSendEntry(q, delay, deadline, waits), wire' \in Seq(Entries)
    PROVE  ioq' \in Seq(Handlers) /\ TimerOK' /\ SendOK'
  <1>1. ASSUME EndLoop(q, deadline, waits)
        PROVE  ioq' \in Seq(Handlers) /\ TimerOK' /\ SendOK'
    BY <1>1 DEF EndLoop, TypeOK, TimerOK, SendOK
  <1>2. ASSUME Sleep(q, delay, deadline, waits)
        PROVE  ioq' \in Seq(Handlers) /\ TimerOK' /\ SendOK'
    BY <1>2, CancelledTypes DEF Sleep, TypeOK, TimerOK, SendOK
  <1>3. ASSUME SendFront(q, delay, waits)
        PROVE  ioq' \in Seq(Handlers) /\ TimerOK' /\ SendOK'
    <2>1. ioq' \in Seq(Handlers)
      BY <1>3, CancelledTypes DEF SendFront
    <2>2. TimerOK'
      BY <1>3 DEF SendFront, TypeOK, TimerOK
    <2>3. sending' \in Seq(Entries)
      BY <1>3 DEF SendFront, TypeOK, SendOK, EntryOK
    <2>4. begun_by' \in {"start_actors", "await_send_entry"}
      BY <1>3 DEF SendFront
    <2> QED BY <2>1, <2>2, <2>3, <2>4 DEF SendOK
  <1> QED BY <1>1, <1>2, <1>3 DEF AwaitSendEntry

\* StartActors keeps the types.
LEMMA StartTypes ==
    ASSUME TypeOK, NEW q \in Seq(Handlers), StartActors(q), wire' \in Seq(Entries)
    PROVE  ioq' \in Seq(Handlers) /\ TimerOK' /\ SendOK'
  <1>a. \/ ioq' = q \o CancelledDeadline(deadline_waits)
        \/ ioq' = q \o (CancelledInvoker \o CancelledDeadline(deadline_waits))
    BY DEF StartActors
  <1>b. \/ sending' = sending
        \/ send_entries # <<>> /\ sending' = Append(sending, Head(send_entries))
    BY DEF StartActors
  <1>c. CancelledInvoker \in Seq(Handlers) /\ CancelledDeadline(deadline_waits) \in Seq(Handlers)
    BY CancelledTypes DEF TypeOK, TimerOK
  <1>d. CancelledInvoker \o CancelledDeadline(deadline_waits) \in Seq(Handlers)
    BY <1>c, ConcatElements
  <1>e. /\ q \o CancelledDeadline(deadline_waits) \in Seq(Handlers)
        /\ q \o (CancelledInvoker \o CancelledDeadline(deadline_waits)) \in Seq(Handlers)
    BY <1>c, <1>d, ConcatElements
  <1>1. ioq' \in Seq(Handlers)
    BY <1>a, <1>e
  <1>2. deadline_waits' \in Nat
    BY DEF StartActors
  <1>3. TimerOK'
    BY <1>2 DEF StartActors, TypeOK, TimerOK
  <1>4. sending' \in Seq(Entries)
    <2>1. CASE sending' = sending
      BY <2>1 DEF TypeOK, SendOK
    <2>2. CASE send_entries # <<>> /\ sending' = Append(sending, Head(send_entries))
      BY <2>2 DEF TypeOK, SendOK, EntryOK
    <2> QED BY <1>b, <2>1, <2>2
  <1>5. SendOK'
    BY <1>4 DEF StartActors, TypeOK, SendOK
  <1> QED BY <1>1, <1>3, <1>5

\* FinishSend keeps the types.
LEMMA FinishTypes ==
    ASSUME TypeOK, ioq # <<>>, NEW e \in Entries, NEW delay \in BOOLEAN,
           FinishSend(e, delay),
           bytes_transferred' \in [Entries -> Nat],
           no_buffer_space_error_count' \in [Entries -> Nat],
           dropped' \subseteq Entries
    PROVE  TypeOK'
  <1>a. \/ UNCHANGED <<send_entries, processed>>
        \/ /\ send_entries # <<>>
           /\ send_entries' = Tail(send_entries)
           /\ processed' = Append(processed, Head(send_entries))
    BY DEF FinishSend, PopFrontSendEntry
  <1>1. send_entries' \in Seq(Entries) /\ processed' \in Seq(Entries)
    <2>1. CASE UNCHANGED <<send_entries, processed>>
      BY <2>1 DEF TypeOK, EntryOK
    <2>2. CASE /\ send_entries # <<>>
               /\ send_entries' = Tail(send_entries)
               /\ processed' = Append(processed, Head(send_entries))
      BY <2>2 DEF TypeOK, EntryOK
    <2> QED BY <1>a, <2>1, <2>2
  <1>2. EntryOK'
    BY <1>1 DEF FinishSend, TypeOK, EntryOK
  <1>3. Tail(ioq) \o CancelledDeadline(deadline_waits) \in Seq(Handlers)
    BY CancelledTypes DEF TypeOK, TimerOK
  <1>4. wire' \in Seq(Entries)
    BY DEF FinishSend, TypeOK, SendOK
  <1>5. ioq' \in Seq(Handlers) /\ TimerOK' /\ SendOK'
    BY <1>2, <1>3, <1>4, AwaitTypes DEF FinishSend
  <1>6. ThreadOK' /\ SocketOK'
    BY UnchangedTypes DEF FinishSend
  <1> QED BY <1>2, <1>5, <1>6 DEF TypeOK

\* Every action keeps the types.
LEMMA TypeStep == TypeOK /\ [Next]_vars => TypeOK'
  <1> SUFFICES ASSUME TypeOK, [Next]_vars PROVE TypeOK' OBVIOUS
  <1>p. \A op \in PlainOps : Post(op) \in Handlers
    BY HandlerTypes
  <1>u. UNCHANGED allButQueue /\ ioq' \in Seq(Handlers) => TypeOK'
    BY UnchangedTypes DEF TypeOK, allButQueue
  <1>1. ASSUME CloseWithoutSocket PROVE TypeOK'
    BY <1>1, <1>p, <1>u DEF CloseWithoutSocket, Runs, TypeOK, PlainOps
  <1>2. ASSUME CloseSocket PROVE TypeOK'
    <2>1. ioq' \in Seq(Handlers)
      BY <1>2, <1>p, CancelledTypes, HandlerTypes DEF CloseSocket, ReleaseSocket, Runs, TypeOK, TimerOK, PlainOps
    <2>2. SocketOK'
      BY <1>2, HandlerTypes, BoundsAssumption DEF CloseSocket, ReleaseSocket, Runs, TypeOK, SocketOK, socketVars
    <2>3. TimerOK'
      BY <1>2, HandlerTypes, BoundsAssumption DEF CloseSocket, ReleaseSocket, Runs, TypeOK, TimerOK, timerVars
    <2>4. SendOK'
      BY <1>2, HandlerTypes, BoundsAssumption DEF CloseSocket, ReleaseSocket, Runs, TypeOK, SendOK, sendVars
    <2>5. ThreadOK' /\ EntryOK'
      BY <1>2, UnchangedTypes DEF CloseSocket, ReleaseSocket
    <2> QED BY <2>1, <2>2, <2>3, <2>4, <2>5 DEF TypeOK
  <1>3. ASSUME ConnectWithSocket PROVE TypeOK'
    BY <1>3, <1>p, <1>u DEF ConnectWithSocket, Runs, TypeOK, PlainOps
  <1>4. ASSUME OpenFails PROVE TypeOK'
    <2>1. ioq' \in Seq(Handlers)
      BY <1>4, <1>p, CancelledTypes, HandlerTypes DEF OpenFails, Runs, TypeOK, TimerOK, PlainOps
    <2>a. socket' \in BOOLEAN /\ socket_ready' \in BOOLEAN
      BY <1>4 DEF OpenFails
    <2>b. failed' \in Nat /\ check' = check
      BY <1>4 DEF OpenFails, TypeOK, SocketOK
    <2>2. SocketOK'
      BY <2>a, <2>b DEF TypeOK, SocketOK
    <2>3. ThreadOK' /\ EntryOK' /\ TimerOK' /\ SendOK'
      BY <1>4, UnchangedTypes DEF OpenFails
    <2> QED BY <2>1, <2>2, <2>3 DEF TypeOK
  <1>5. ASSUME NEW r \in ConnectResults, Connect(r) PROVE TypeOK'
    <2>1. ioq' \in Seq(Handlers)
      BY <1>5, <1>p, CancelledTypes, HandlerTypes DEF Connect, Runs, TypeOK, TimerOK, PlainOps
    <2>2. SocketOK'
      BY <1>5, HandlerTypes, BoundsAssumption DEF Connect, Runs, TypeOK, SocketOK, socketVars
    <2>3. ThreadOK' /\ EntryOK' /\ TimerOK' /\ SendOK'
      BY <1>5, UnchangedTypes DEF Connect
    <2> QED BY <2>1, <2>2, <2>3 DEF TypeOK
  <1>6. ASSUME ConnectFails PROVE TypeOK'
    <2>1. ioq' \in Seq(Handlers)
      BY <1>6, <1>p, CancelledTypes, HandlerTypes DEF ConnectFails, Runs, TypeOK, TimerOK, PlainOps
    <2>2. SocketOK'
      BY <1>6, HandlerTypes, BoundsAssumption DEF ConnectFails, Runs, TypeOK, SocketOK, socketVars
    <2>3. ThreadOK' /\ EntryOK' /\ TimerOK' /\ SendOK'
      BY <1>6, UnchangedTypes DEF ConnectFails
    <2> QED BY <2>1, <2>2, <2>3 DEF TypeOK
  <1>7. ASSUME Connected PROVE TypeOK'
    <2>1. SocketOK'
      BY <1>7, HandlerTypes, BoundsAssumption DEF Connected, Runs, TypeOK, SocketOK, socketVars
    <2>a. Tail(ioq) \in Seq(Handlers) /\ wire' \in Seq(Entries)
      BY <1>7 DEF Connected, Runs, TypeOK, SendOK
    <2>b. StartActors(Tail(ioq))
      BY <1>7 DEF Connected
    <2>2. ioq' \in Seq(Handlers) /\ TimerOK' /\ SendOK'
      BY <2>a, <2>b, StartTypes
    <2>3. ThreadOK' /\ EntryOK'
      BY <1>7, UnchangedTypes DEF Connected
    <2> QED BY <2>1, <2>2, <2>3 DEF TypeOK
  <1>8. ASSUME BindFails PROVE TypeOK'
    <2>1. ioq' \in Seq(Handlers)
      BY <1>8, <1>p, CancelledTypes, HandlerTypes DEF BindFails, Runs, TypeOK, TimerOK, PlainOps
    <2>a. socket' \in BOOLEAN /\ socket_ready' \in BOOLEAN
      BY <1>8 DEF BindFails
    <2>b. failed' \in Nat /\ check' = check
      BY <1>8 DEF BindFails, TypeOK, SocketOK
    <2>2. SocketOK'
      BY <2>a, <2>b DEF TypeOK, SocketOK
    <2>3. ThreadOK' /\ EntryOK' /\ TimerOK' /\ SendOK'
      BY <1>8, UnchangedTypes DEF BindFails
    <2> QED BY <2>1, <2>2, <2>3 DEF TypeOK
  <1>9. ASSUME Bound PROVE TypeOK'
    <2>1. SocketOK'
      BY <1>9, HandlerTypes, BoundsAssumption DEF Bound, Runs, TypeOK, SocketOK, socketVars
    <2>a. Tail(ioq) \in Seq(Handlers) /\ wire' \in Seq(Entries)
      BY <1>9 DEF Bound, Runs, TypeOK, SendOK
    <2>b. StartActors(Tail(ioq))
      BY <1>9 DEF Bound
    <2>2. ioq' \in Seq(Handlers) /\ TimerOK' /\ SendOK'
      BY <2>a, <2>b, StartTypes
    <2>3. ThreadOK' /\ EntryOK'
      BY <1>9, UnchangedTypes DEF Bound
    <2> QED BY <2>1, <2>2, <2>3 DEF TypeOK
  <1>10. ASSUME PushEntry PROVE TypeOK'
    <2>1. ioq' \in Seq(Handlers)
      BY <1>10, <1>p, CancelledTypes, HandlerTypes DEF PushEntry, PushBack, Runs, TypeOK, TimerOK, PlainOps
    <2>a. Head(ioq).entry \in Entries
      BY <1>10, HandlerTypes DEF PushEntry, PushBack, Runs, TypeOK
    <2>2. EntryOK'
      <3>1. pushed' \in Entries /\ pushed' \in 0..MaxEntries
        BY <1>10, <2>a, BoundsAssumption DEF PushEntry, PushBack, Entries
      <3>2. send_entries' \in Seq(Entries)
        BY <1>10, <3>1 DEF PushEntry, PushBack, TypeOK, EntryOK
      <3> QED BY <1>10, <3>1, <3>2 DEF PushEntry, PushBack, TypeOK, EntryOK
    <2>3. TimerOK'
      BY <1>10, HandlerTypes, BoundsAssumption DEF PushEntry, PushBack, Runs, TypeOK, TimerOK, timerVars
    <2>4. ThreadOK' /\ SocketOK' /\ SendOK'
      BY <1>10, UnchangedTypes DEF PushEntry, PushBack
    <2> QED BY <2>1, <2>2, <2>3, <2>4 DEF TypeOK
  <1>11. ASSUME InvokerHandler PROVE TypeOK'
    <2>1. EntryOK'
      BY <1>11, UnchangedTypes DEF InvokerHandler
    <2>2. ioq' \in Seq(Handlers) /\ TimerOK' /\ SendOK'
      <3>1. Tail(ioq) \in Seq(Handlers) /\ wire' \in Seq(Entries)
        BY <1>11 DEF InvokerHandler, Runs, TypeOK, SendOK
      <3>2. AwaitSendEntry(Tail(ioq), FALSE, send_deadline, deadline_waits)
        BY <1>11 DEF InvokerHandler
      <3>3. send_deadline \in {"infinite", "armed", "passed"} /\ deadline_waits \in Nat
        BY DEF TypeOK, TimerOK
      <3> QED BY <2>1, <3>1, <3>2, <3>3, AwaitTypes
    <2>3. ThreadOK' /\ SocketOK'
      BY <1>11, UnchangedTypes DEF InvokerHandler
    <2> QED BY <2>1, <2>2, <2>3 DEF TypeOK
  <1>12. ASSUME SendSucceeded PROVE TypeOK'
    <2> DEFINE e == Head(ioq).entry
    <2>1. ioq # <<>> /\ e \in Entries
      BY <1>12, HandlerTypes DEF SendSucceeded, HandlesSend, Runs, TypeOK
    <2>2. RestBytes(e) \in Nat
      BY <2>1, BufferSizeAssumption DEF RestBytes, TypeOK, EntryOK
    <2>3. bytes_transferred' \in [Entries -> Nat]
      BY <1>12, <2>1, <2>2, BufferSizeAssumption
      DEF SendSucceeded, AddBytesTransferred, TypeOK, EntryOK
    <2>4. no_buffer_space_error_count' \in [Entries -> Nat]
      BY <1>12, <2>1 DEF SendSucceeded, TypeOK, EntryOK
    <2>5. dropped' \subseteq Entries
      BY <1>12, <2>1 DEF SendSucceeded, TypeOK, EntryOK
    <2>6. FinishSend(e, FALSE)
      BY <1>12 DEF SendSucceeded
    <2> QED BY <2>1, <2>3, <2>4, <2>5, <2>6, FinishTypes
  <1>13. ASSUME NoBufferSpace PROVE TypeOK'
    <2> DEFINE e == Head(ioq).entry
    <2>1. ioq # <<>> /\ e \in Entries
      BY <1>13, HandlerTypes DEF NoBufferSpace, HandlesSend, Runs, TypeOK
    <2>2. RestBytes(e) \in Nat
      BY <2>1, BufferSizeAssumption DEF RestBytes, TypeOK, EntryOK
    <2>3. bytes_transferred' \in [Entries -> Nat]
      BY <1>13, <2>1, <2>2, BufferSizeAssumption
      DEF NoBufferSpace, AddBytesTransferred, TypeOK, EntryOK
    <2>4. no_buffer_space_error_count' \in [Entries -> Nat]
      BY <1>13, <2>1 DEF NoBufferSpace, TypeOK, EntryOK
    <2>5. dropped' \subseteq Entries
      BY <1>13, <2>1 DEF NoBufferSpace, TypeOK, EntryOK
    <2>6. FinishSend(e, TRUE)
      BY <1>13 DEF NoBufferSpace
    <2> QED BY <2>1, <2>3, <2>4, <2>5, <2>6, FinishTypes
  <1>14. ASSUME DropEntry PROVE TypeOK'
    <2> DEFINE e == Head(ioq).entry
    <2>1. ioq # <<>> /\ e \in Entries
      BY <1>14, HandlerTypes DEF DropEntry, HandlesSend, Runs, TypeOK
    <2>2. RestBytes(e) \in Nat
      BY <2>1, BufferSizeAssumption DEF RestBytes, TypeOK, EntryOK
    <2>3. bytes_transferred' \in [Entries -> Nat]
      BY <1>14, <2>1, <2>2, BufferSizeAssumption
      DEF DropEntry, AddBytesTransferred, TypeOK, EntryOK
    <2>4. no_buffer_space_error_count' \in [Entries -> Nat]
      BY <1>14, <2>1 DEF DropEntry, TypeOK, EntryOK
    <2>5. dropped' \subseteq Entries
      BY <1>14, <2>1 DEF DropEntry, TypeOK, EntryOK
    <2>6. FinishSend(e, FALSE)
      BY <1>14 DEF DropEntry
    <2> QED BY <2>1, <2>3, <2>4, <2>5, <2>6, FinishTypes
  <1>15. ASSUME ConnectionError PROVE TypeOK'
    <2>1. ioq' \in Seq(Handlers)
      <3>1. Tail(ioq) \in Seq(Handlers)
        BY <1>15 DEF ConnectionError, AbortLoop, HandlesSend, Runs, TypeOK
      <3>2. <<Post("async_close")>> \in Seq(Handlers)
        BY <1>p DEF PlainOps
      <3> QED
        BY <1>15, <3>1, <3>2, CancelledTypes
        DEF ConnectionError, AbortLoop, TypeOK, TimerOK
    <2>2. TimerOK'
      BY <1>15, HandlerTypes, BoundsAssumption DEF ConnectionError, AbortLoop, Runs, TypeOK, TimerOK, timerVars
    <2>3. ThreadOK' /\ SocketOK' /\ EntryOK' /\ SendOK'
      BY <1>15, UnchangedTypes DEF ConnectionError, AbortLoop
    <2> QED BY <2>1, <2>2, <2>3 DEF TypeOK
  <1>16. ASSUME DeadlineWithoutSocket PROVE TypeOK'
    BY <1>16, <1>p, <1>u DEF DeadlineWithoutSocket, Runs, TypeOK, PlainOps
  <1>17. ASSUME DeadlineExpired PROVE TypeOK'
    BY <1>17, <1>p, <1>u DEF DeadlineExpired, Runs, TypeOK, PlainOps
  <1>18. ASSUME AwaitDeadline PROVE TypeOK'
    <2>1. ioq' \in Seq(Handlers)
      BY <1>18, <1>p, CancelledTypes, HandlerTypes DEF AwaitDeadline, Runs, TypeOK, TimerOK, PlainOps
    <2>2. TimerOK'
      BY <1>18, HandlerTypes, BoundsAssumption DEF AwaitDeadline, Runs, TypeOK, TimerOK, timerVars
    <2>3. ThreadOK' /\ SocketOK' /\ EntryOK' /\ SendOK'
      BY <1>18, UnchangedTypes DEF AwaitDeadline
    <2> QED BY <2>1, <2>2, <2>3 DEF TypeOK
  <1>19. ASSUME ResetWorkGuard PROVE TypeOK'
    <2>1. ioq' \in Seq(Handlers)
      BY <1>19, <1>p, CancelledTypes, HandlerTypes DEF ResetWorkGuard, Runs, TypeOK, TimerOK, PlainOps
    <2>2. ThreadOK'
      BY <1>19, HandlerTypes, BoundsAssumption DEF ResetWorkGuard, Runs, TypeOK, ThreadOK, threadVars
    <2>3. SocketOK' /\ EntryOK' /\ TimerOK' /\ SendOK'
      BY <1>19, UnchangedTypes DEF ResetWorkGuard
    <2> QED BY <2>1, <2>2, <2>3 DEF TypeOK
  <1>20. ASSUME ThreadExits PROVE TypeOK'
    <2>1. ioq' \in Seq(Handlers)
      BY <1>20, <1>p, CancelledTypes, HandlerTypes DEF ThreadExits, Runs, TypeOK, TimerOK, PlainOps
    <2>2. ThreadOK'
      BY <1>20, HandlerTypes, BoundsAssumption DEF ThreadExits, Runs, TypeOK, ThreadOK, threadVars
    <2>3. SocketOK'
      BY <1>20, HandlerTypes, BoundsAssumption DEF ThreadExits, Runs, TypeOK, SocketOK, socketVars
    <2>4. EntryOK' /\ TimerOK' /\ SendOK'
      BY <1>20, UnchangedTypes DEF ThreadExits
    <2> QED BY <2>1, <2>2, <2>3, <2>4 DEF TypeOK
  <1>21. ASSUME PostAsyncSend PROVE TypeOK'
    <2>1. ioq' \in Seq(Handlers)
      <3>1. asked' \in Entries
        BY <1>21, BoundsAssumption DEF PostAsyncSend, TypeOK, EntryOK, Entries
      <3> QED BY <1>21, <3>1, HandlerTypes DEF PostAsyncSend, TypeOK
    <2>2. EntryOK'
      BY <1>21, HandlerTypes, BoundsAssumption DEF PostAsyncSend, Runs, TypeOK, EntryOK, entryVars
    <2>3. ThreadOK' /\ SocketOK' /\ TimerOK' /\ SendOK'
      BY <1>21, UnchangedTypes DEF PostAsyncSend
    <2> QED BY <2>1, <2>2, <2>3 DEF TypeOK
  <1>22. ASSUME AsyncConnect PROVE TypeOK'
    BY <1>22, <1>p, <1>u DEF AsyncConnect, Runs, TypeOK, PlainOps
  <1>23. ASSUME ConnectFailedHandler PROVE TypeOK'
    <2>1. ioq' \in Seq(Handlers)
      BY <1>23, <1>p, CancelledTypes, HandlerTypes
      DEF ConnectFailedHandler, FailureDelivered, Runs, TypeOK, TimerOK, PlainOps
    <2>2. SocketOK'
      BY <1>23, HandlerTypes, BoundsAssumption
      DEF ConnectFailedHandler, FailureDelivered, Runs, TypeOK, SocketOK, socketVars
    <2>3. ThreadOK' /\ EntryOK' /\ TimerOK' /\ SendOK'
      BY <1>23, UnchangedTypes DEF ConnectFailedHandler, FailureDelivered
    <2> QED BY <2>1, <2>2, <2>3 DEF TypeOK
  <1>24. ASSUME StartCheck PROVE TypeOK'
    <2>1. ioq' \in Seq(Handlers)
      BY <1>24, <1>p, CancelledTypes, HandlerTypes DEF StartCheck, Runs, TypeOK, TimerOK, PlainOps
    <2>2. SocketOK'
      BY <1>24, HandlerTypes, BoundsAssumption DEF StartCheck, Runs, TypeOK, SocketOK, socketVars
    <2>3. ThreadOK' /\ EntryOK' /\ TimerOK' /\ SendOK'
      BY <1>24, UnchangedTypes DEF StartCheck
    <2> QED BY <2>1, <2>2, <2>3 DEF TypeOK
  <1>25. ASSUME EndCheck PROVE TypeOK'
    <2>1. ioq' \in Seq(Handlers)
      BY <1>25, <1>p, CancelledTypes, HandlerTypes DEF EndCheck, Runs, TypeOK, TimerOK, PlainOps
    <2>2. SocketOK'
      BY <1>25, HandlerTypes, BoundsAssumption DEF EndCheck, Runs, TypeOK, SocketOK, socketVars
    <2>3. ThreadOK' /\ EntryOK' /\ TimerOK' /\ SendOK'
      BY <1>25, UnchangedTypes DEF EndCheck
    <2> QED BY <2>1, <2>2, <2>3 DEF TypeOK
  <1>26. ASSUME CheckFailed PROVE TypeOK'
    <2>1. ioq' \in Seq(Handlers)
      BY <1>26, <1>p, CancelledTypes, HandlerTypes DEF CheckFailed, Runs, TypeOK, TimerOK, PlainOps
    <2>2. SocketOK'
      BY <1>26, HandlerTypes, BoundsAssumption DEF CheckFailed, Runs, TypeOK, SocketOK, socketVars
    <2>3. ThreadOK' /\ EntryOK' /\ TimerOK' /\ SendOK'
      BY <1>26, UnchangedTypes DEF CheckFailed
    <2> QED BY <2>1, <2>2, <2>3 DEF TypeOK
  <1>27. ASSUME NEW r \in SendResults, SendCompletes(r) PROVE TypeOK'
    <2>1. ioq' \in Seq(Handlers)
      <3>1. Head(sending) \in Entries
        BY <1>27 DEF SendCompletes, TypeOK, SendOK
      <3> QED BY <1>27, <3>1, HandlerTypes DEF SendCompletes, TypeOK
    <2>2. SendOK'
      BY <1>27, HandlerTypes, BoundsAssumption DEF SendCompletes, Runs, TypeOK, SendOK, sendVars
    <2>3. ThreadOK' /\ SocketOK' /\ EntryOK' /\ TimerOK'
      BY <1>27, UnchangedTypes DEF SendCompletes
    <2> QED BY <2>1, <2>2, <2>3 DEF TypeOK
  <1>28. ASSUME InvokerFires PROVE TypeOK'
    <2>1. ioq' \in Seq(Handlers)
      BY <1>28, <1>p, CancelledTypes, HandlerTypes DEF InvokerFires, Runs, TypeOK, TimerOK, PlainOps
    <2>2. TimerOK'
      BY <1>28, HandlerTypes, BoundsAssumption DEF InvokerFires, Runs, TypeOK, TimerOK, timerVars
    <2>3. ThreadOK' /\ SocketOK' /\ EntryOK' /\ SendOK'
      BY <1>28, UnchangedTypes DEF InvokerFires
    <2> QED BY <2>1, <2>2, <2>3 DEF TypeOK
  <1>29. ASSUME DeadlinePasses PROVE TypeOK'
    <2>1. ioq' \in Seq(Handlers)
      BY <1>29, <1>p, CancelledTypes, HandlerTypes DEF DeadlinePasses, Runs, TypeOK, TimerOK, PlainOps
    <2>2. TimerOK'
      BY <1>29, HandlerTypes, BoundsAssumption DEF DeadlinePasses, Runs, TypeOK, TimerOK, timerVars
    <2>3. ThreadOK' /\ SocketOK' /\ EntryOK' /\ SendOK'
      BY <1>29, UnchangedTypes DEF DeadlinePasses
    <2> QED BY <2>1, <2>2, <2>3 DEF TypeOK
  <1>30. ASSUME Destroy PROVE TypeOK'
    <2>1. ioq' \in Seq(Handlers)
      BY <1>30, <1>p, CancelledTypes, HandlerTypes DEF Destroy, Runs, TypeOK, TimerOK, PlainOps
    <2>2. ThreadOK'
      BY <1>30, HandlerTypes, BoundsAssumption DEF Destroy, Runs, TypeOK, ThreadOK, threadVars
    <2>3. SocketOK' /\ EntryOK' /\ TimerOK' /\ SendOK'
      BY <1>30, UnchangedTypes DEF Destroy
    <2> QED BY <2>1, <2>2, <2>3 DEF TypeOK
  <1>31. ASSUME Recreate PROVE TypeOK'
    <2>1. ioq' \in Seq(Handlers)
      BY <1>31, <1>p, CancelledTypes, HandlerTypes DEF Recreate, Runs, TypeOK, TimerOK, PlainOps
    <2>2. ThreadOK'
      BY <1>31, HandlerTypes, BoundsAssumption DEF Recreate, Runs, TypeOK, ThreadOK, threadVars
    <2>3. TimerOK'
      BY <1>31, HandlerTypes, BoundsAssumption DEF Recreate, Runs, TypeOK, TimerOK, timerVars
    <2>4. SocketOK' /\ EntryOK' /\ SendOK'
      BY <1>31, UnchangedTypes DEF Recreate
    <2> QED BY <2>1, <2>2, <2>3, <2>4 DEF TypeOK
  <1>32. CASE UNCHANGED vars
    BY <1>32, <1>u DEF vars, allButQueue, TypeOK
  <1> QED
    BY <1>1, <1>2, <1>3, <1>4, <1>5, <1>6, <1>7, <1>8, <1>9, <1>10, <1>11,
       <1>12, <1>13, <1>14, <1>15, <1>16, <1>17, <1>18, <1>19, <1>20, <1>21, <1>22,
       <1>23, <1>24, <1>25, <1>26, <1>27, <1>28, <1>29, <1>30, <1>31, <1>32
    DEF Next, IoThread, SenderHandlers, SocketHandlers, Dispatcher, Kernel, Clock,
        AsyncSend, CheckServer

\* TypeOK is an invariant: whatever order the handlers run in, every handler
\* finds the state it was written for.
THEOREM TypeCorrect == Spec => []TypeOK
  BY TypeInit, TypeStep, PTL DEF Spec

-------------------------------------------------------------------------------
(* The send loop is single *)

\* Handlers that open a connection; at most one is queued at a time.
OpenOps == {"async_connect", "connect_handler", "async_bind"}

\* What the queue looks like: one continuation of the loop, one opening
\* handler, and the continuation of an old loop ahead of the connect_handler
\* that begins the next one.
QueueInv(q) ==
    /\ AtMostOnce(q, LoopOps)
    /\ AtMostOnce(q, OpenOps)
    /\ \A i, j \in DOMAIN q :
          q[i].op \in LoopOps /\ q[j].op = "connect_handler" => i < j
    /\ Mode = "client" => Nowhere(q, {"async_bind"})
    /\ Mode = "server" => Nowhere(q, {"async_connect", "connect_handler"})

\* How the queue and the state of the socket exclude each other.
LoopInv ==
    /\ Len(sending) <= 1
    /\ LoopSleeps \/ LoopSends => Nowhere(ioq, LoopOps)
    /\ ~(LoopSleeps /\ LoopSends)
    /\ WaitsNeedSocket
    /\ socket_ready => Nowhere(ioq, {"connect_handler"})
    /\ socket \/ socket_ready \/ ~Nowhere(ioq, LoopOps) => Nowhere(ioq, {"async_bind"})
    /\ io_thread = "absent" => ioq = <<>> /\ ~socket /\ ~socket_ready

SenderInv == QueueInv(ioq) /\ LoopInv

\* What is left of a queue when its first handler has been taken.
LEMMA QueueTail ==
    ASSUME NEW q \in Seq(Handlers), q # <<>>, QueueInv(q)
    PROVE  /\ QueueInv(Tail(q))
           /\ Head(q).op \in LoopOps => Nowhere(Tail(q), LoopOps)
           /\ Head(q).op \in OpenOps => Nowhere(Tail(q), OpenOps)
           /\ Head(q).op = "connect_handler" => Nowhere(Tail(q), LoopOps)
  <1>1. AtMostOnce(Tail(q), LoopOps) /\ (Head(q).op \in LoopOps => Nowhere(Tail(q), LoopOps))
    BY TailElements DEF QueueInv, AtMostOnce, Nowhere
  <1>2. AtMostOnce(Tail(q), OpenOps) /\ (Head(q).op \in OpenOps => Nowhere(Tail(q), OpenOps))
    BY TailElements DEF QueueInv, AtMostOnce, Nowhere
  <1>3. Head(q).op = "connect_handler" => Nowhere(Tail(q), LoopOps)
    BY TailElements DEF QueueInv, Nowhere
  <1>4. \A i, j \in DOMAIN Tail(q) :
          Tail(q)[i].op \in LoopOps /\ Tail(q)[j].op = "connect_handler" => i < j
    BY TailElements DEF QueueInv
  <1>5. \A ops : Nowhere(q, ops) => Nowhere(Tail(q), ops)
    BY TailElements DEF Nowhere
  <1> QED BY <1>1, <1>2, <1>3, <1>4, <1>5 DEF QueueInv

\* Handlers that open nothing are appended, a continuation of the loop only
\* behind a queue that has neither one nor a connect_handler.
LEMMA QueueConcat ==
    ASSUME NEW q \in Seq(Handlers), NEW s \in Seq(Handlers), QueueInv(q),
           Nowhere(s, OpenOps), AtMostOnce(s, LoopOps),
           Nowhere(s, LoopOps) \/ (Nowhere(q, LoopOps) /\ Nowhere(q, {"connect_handler"}))
    PROVE  QueueInv(q \o s)
  <1>1. AtMostOnce(q \o s, LoopOps)
    BY OnceConcat DEF QueueInv
  <1>2. AtMostOnce(s, OpenOps)
    BY DEF AtMostOnce, Nowhere
  <1>3. AtMostOnce(q \o s, OpenOps)
    BY <1>2, OnceConcat DEF QueueInv
  <1>4. \A i, j \in DOMAIN (q \o s) :
          (q \o s)[i].op \in LoopOps /\ (q \o s)[j].op = "connect_handler" => i < j
    <2>1. \A j \in DOMAIN s : s[j].op # "connect_handler"
      BY DEF Nowhere, OpenOps
    <2>2. CASE Nowhere(s, LoopOps)
      BY <2>1, <2>2, ConcatElements DEF QueueInv, Nowhere
    <2>3. CASE Nowhere(q, {"connect_handler"})
      BY <2>1, <2>3, ConcatElements DEF Nowhere
    <2> QED BY <2>2, <2>3
  <1>5. Nowhere(s, {"async_bind"}) /\ Nowhere(s, {"async_connect", "connect_handler"})
    BY DEF Nowhere, OpenOps
  <1>6. Mode = "client" => Nowhere(q \o s, {"async_bind"})
    BY <1>5, NowhereConcat DEF QueueInv
  <1>7. Mode = "server" => Nowhere(q \o s, {"async_connect", "connect_handler"})
    BY <1>5, NowhereConcat DEF QueueInv
  <1> QED BY <1>1, <1>3, <1>4, <1>6, <1>7 DEF QueueInv

\* An opening handler is appended behind a queue that has none.
LEMMA QueueOpen ==
    ASSUME NEW q \in Seq(Handlers), NEW h \in Handlers, QueueInv(q),
           Mode = "client", h.op \in {"async_connect", "connect_handler"},
           Nowhere(q, OpenOps)
    PROVE  QueueInv(q \o <<h>>)
  <1>1. h.op \notin LoopOps /\ h.op # "async_bind"
    BY DEF LoopOps
  <1>2. <<h>> \in Seq(Handlers) /\ Nowhere(<<h>>, LoopOps) /\ Nowhere(<<h>>, {"async_bind"})
    BY <1>1 DEF Nowhere
  <1>3. AtMostOnce(q \o <<h>>, LoopOps)
    BY <1>2, OnceConcat DEF QueueInv, AtMostOnce, Nowhere
  <1>4. AtMostOnce(<<h>>, OpenOps)
    BY DEF AtMostOnce
  <1>5. AtMostOnce(q \o <<h>>, OpenOps)
    BY <1>2, <1>4, OnceConcat DEF QueueInv
  <1>6. \A i, j \in DOMAIN (q \o <<h>>) :
          (q \o <<h>>)[i].op \in LoopOps /\ (q \o <<h>>)[j].op = "connect_handler" => i < j
    BY <1>1, <1>2, ConcatElements DEF QueueInv
  <1>7. Nowhere(q \o <<h>>, {"async_bind"})
    BY <1>2, NowhereConcat DEF QueueInv
  <1> QED BY <1>3, <1>5, <1>6, <1>7 DEF QueueInv

\* Appending no handler changes nothing.
LEMMA EmptySuffix ==
    /\ \A q \in Seq(Handlers) : q \o <<>> = q
    /\ \A q \in Seq(Handlers), h \in Handlers : Append(q, h) = q \o <<h>>
    /\ <<>> \in Seq(Handlers)
    /\ \A ops : Nowhere(<<>>, ops) /\ AtMostOnce(<<>>, ops)
  <1>1. \A q \in Seq(Handlers) : q \o <<>> = q
    OBVIOUS
  <1>2. \A q \in Seq(Handlers), h \in Handlers : Append(q, h) = q \o <<h>>
    OBVIOUS
  <1>3. \A ops : Nowhere(<<>>, ops) /\ AtMostOnce(<<>>, ops)
    BY DEF Nowhere, AtMostOnce
  <1> QED BY <1>1, <1>2, <1>3

\* A single handler as a suffix.
LEMMA SingleSuffix ==
    ASSUME NEW h \in Handlers
    PROVE  /\ <<h>> \in Seq(Handlers)
           /\ \A ops : AtMostOnce(<<h>>, ops)
           /\ \A ops : h.op \notin ops => Nowhere(<<h>>, ops)
  BY DEF AtMostOnce, Nowhere

\* What the cancellations append: at most the one continuation of the loop.
LEMMA CancelledOps ==
    ASSUME TypeOK, LoopInv
    PROVE  /\ Nowhere(CancelledInvoker, OpenOps)
           /\ AtMostOnce(CancelledInvoker, LoopOps)
           /\ ~LoopSleeps => CancelledInvoker = <<>>
           /\ Nowhere(CancelledSends, OpenOps)
           /\ AtMostOnce(CancelledSends, LoopOps)
           /\ ~LoopSends => CancelledSends = <<>>
           /\ \A n \in Nat : /\ Nowhere(CancelledDeadline(n), OpenOps)
                             /\ Nowhere(CancelledDeadline(n), LoopOps)
                             /\ AtMostOnce(CancelledDeadline(n), LoopOps)
           /\ CancelledDeadline(0) = <<>>
  <1>1. /\ Nowhere(CancelledInvoker, OpenOps)
        /\ AtMostOnce(CancelledInvoker, LoopOps)
        /\ ~LoopSleeps => CancelledInvoker = <<>>
    BY DEF CancelledInvoker, LoopSleeps, Nowhere, AtMostOnce, OpenOps, Post
  <1>2. Nowhere(CancelledSends, OpenOps)
    BY DEF CancelledSends, Nowhere, OpenOps, HandleSend
  <1>3. AtMostOnce(CancelledSends, LoopOps)
    BY DEF CancelledSends, AtMostOnce, LoopInv, TypeOK, SendOK
  <1>4. ~LoopSends => CancelledSends = <<>>
    BY DEF CancelledSends, LoopSends
  <1>5. \A n \in Nat : /\ Nowhere(CancelledDeadline(n), OpenOps)
                       /\ Nowhere(CancelledDeadline(n), LoopOps)
                       /\ AtMostOnce(CancelledDeadline(n), LoopOps)
    BY DEF CancelledDeadline, Nowhere, AtMostOnce, OpenOps, LoopOps, Post
  <1>6. CancelledDeadline(0) = <<>>
    BY DEF CancelledDeadline
  <1> QED BY <1>1, <1>2, <1>3, <1>4, <1>5, <1>6

\* A step that takes a handler or not, appends handlers that neither open a
\* socket nor continue the loop, and leaves the socket and the loop alone.
LEMMA PlainStep ==
    ASSUME TypeOK, SenderInv, NEW s \in Seq(Handlers),
           Nowhere(s, LoopOps), Nowhere(s, OpenOps),
           ioq' = ioq \o s \/ (ioq # <<>> /\ ioq' = Tail(ioq) \o s),
           UNCHANGED <<socket, socket_ready, send_invoker, sending>>,
           WaitsNeedSocket',
           io_thread' = "absent" => ioq' = <<>> /\ ~socket /\ ~socket_ready
    PROVE  SenderInv'
  <1>1. PICK q \in Seq(Handlers) :
            /\ ioq' = q \o s
            /\ QueueInv(q)
            /\ \A ops : Nowhere(ioq, ops) => Nowhere(q, ops)
    <2>0. ioq \in Seq(Handlers) /\ QueueInv(ioq)
      BY DEF TypeOK, SenderInv
    <2>1. CASE ioq' = ioq \o s
      BY <2>0, <2>1
    <2>2. CASE ioq # <<>> /\ ioq' = Tail(ioq) \o s
      <3>1. Tail(ioq) \in Seq(Handlers) /\ QueueInv(Tail(ioq))
        BY <2>0, <2>2, QueueTail, TailElements
      <3>2. \A ops : Nowhere(ioq, ops) => Nowhere(Tail(ioq), ops)
        BY <2>0, <2>2, NowhereTail
      <3> QED BY <2>2, <3>1, <3>2
    <2> QED BY <2>1, <2>2
  <1>2. QueueInv(ioq')
    BY <1>1, QueueConcat DEF AtMostOnce, Nowhere
  <1>3. /\ Nowhere(ioq, LoopOps) => Nowhere(ioq', LoopOps)
        /\ Nowhere(ioq, {"connect_handler"}) => Nowhere(ioq', {"connect_handler"})
        /\ Nowhere(ioq, {"async_bind"}) => Nowhere(ioq', {"async_bind"})
    <2>1. Nowhere(s, {"connect_handler"}) /\ Nowhere(s, {"async_bind"})
      BY DEF Nowhere, OpenOps
    <2> QED BY <1>1, <2>1, NowhereConcat
  <1>4. LoopInv'
    BY <1>3 DEF LoopInv, SenderInv, LoopSleeps, LoopSends
  <1> QED BY <1>2, <1>4 DEF SenderInv

\* await_send_entry(), called by the handler that was the loop's only place.
LEMMA AwaitStep ==
    ASSUME TypeOK, TypeOK', SenderInv, NEW q \in Seq(Handlers), QueueInv(q),
           Nowhere(q, LoopOps),
           socket_ready => Nowhere(q, {"connect_handler"}),
           socket \/ socket_ready => Nowhere(q, {"async_bind"}),
           ~LoopSleeps, ~LoopSends,
           NEW delay \in BOOLEAN, NEW deadline, NEW waits \in Nat, waits > 0 => Open,
           AwaitSendEntry(q, delay, deadline, waits),
           UNCHANGED <<socket, socket_ready>>, io_thread' # "absent"
    PROVE  SenderInv'
  <1>0. /\ CancelledInvoker = <<>>
        /\ CancelledDeadline(waits) \in Seq(Handlers)
        /\ Nowhere(CancelledDeadline(waits), OpenOps)
        /\ Nowhere(CancelledDeadline(waits), LoopOps)
        /\ AtMostOnce(CancelledDeadline(waits), LoopOps)
    BY CancelledOps, CancelledTypes DEF SenderInv
  <1>1. ioq' = q \/ ioq' = q \o CancelledDeadline(waits)
    BY <1>0, EmptySuffix DEF AwaitSendEntry, EndLoop, Sleep, SendFront
  <1>2. QueueInv(q \o CancelledDeadline(waits))
    BY <1>0, QueueConcat
  <1>3. QueueInv(ioq')
    BY <1>1, <1>2
  <1>4. /\ Nowhere(ioq', LoopOps)
        /\ socket_ready => Nowhere(ioq', {"connect_handler"})
        /\ socket \/ socket_ready => Nowhere(ioq', {"async_bind"})
    <2>1. /\ Nowhere(CancelledDeadline(waits), {"connect_handler"})
          /\ Nowhere(CancelledDeadline(waits), {"async_bind"})
      BY <1>0 DEF Nowhere, OpenOps
    <2>2. CASE ioq' = q
      BY <2>2
    <2>3. CASE ioq' = q \o CancelledDeadline(waits)
      BY <1>0, <2>1, <2>3, NowhereConcat
    <2> QED BY <1>1, <2>2, <2>3
  <1>5. /\ Len(sending') <= 1
        /\ ~(LoopSleeps /\ LoopSends)'
        /\ WaitsNeedSocket'
    <2>0. send_invoker = "none" /\ sending = <<>>
      BY DEF LoopSleeps, LoopSends
    <2>1. CASE EndLoop(q, deadline, waits)
      BY <2>0, <2>1 DEF EndLoop, LoopSleeps, LoopSends, WaitsNeedSocket, Open
    <2>2. CASE Sleep(q, delay, deadline, waits)
      BY <2>0, <2>2 DEF Sleep, LoopSleeps, LoopSends, WaitsNeedSocket, Open
    <2>3. CASE SendFront(q, delay, waits)
      BY <2>0, <2>3 DEF SendFront, LoopSleeps, LoopSends, WaitsNeedSocket, Open
    <2> QED BY <2>1, <2>2, <2>3 DEF AwaitSendEntry
  <1>6. LoopInv'
    BY <1>4, <1>5 DEF LoopInv
  <1> QED BY <1>3, <1>6 DEF SenderInv

\* start_actors(), when no continuation of an earlier loop is left anywhere.
LEMMA StartStep ==
    ASSUME TypeOK, TypeOK', SenderInv, NEW q \in Seq(Handlers), QueueInv(q),
           Nowhere(q, LoopOps), Nowhere(q, OpenOps),
           ~LoopSleeps, ~LoopSends, deadline_waits = 0,
           StartActors(q), io_thread' # "absent"
    PROVE  SenderInv'
  <1>0. CancelledInvoker = <<>> /\ CancelledDeadline(deadline_waits) = <<>>
    BY CancelledOps DEF SenderInv
  <1>1. ioq' = q
    BY <1>0, EmptySuffix DEF StartActors
  <1>2. /\ Nowhere(ioq', LoopOps)
        /\ Nowhere(ioq', {"connect_handler"})
        /\ Nowhere(ioq', {"async_bind"})
    BY <1>1 DEF Nowhere, OpenOps
  <1>3. send_invoker = "none" /\ sending = <<>>
    BY DEF LoopSleeps, LoopSends
  <1>4. /\ Len(sending') <= 1
        /\ ~(LoopSleeps /\ LoopSends)'
        /\ WaitsNeedSocket'
    <2>1. ~Open' => send_invoker' = "none" /\ sending' = <<>> /\ deadline_waits' = 0
      BY <1>3 DEF StartActors
    <2>2. sending' = <<>> \/ sending' = <<Head(send_entries)>>
      BY <1>3 DEF StartActors
    <2>3. Len(sending') <= 1
      <3>1. CASE sending' = <<>>
        BY <3>1
      <3>2. CASE sending' = <<Head(send_entries)>>
        BY <3>2
      <3> QED BY <2>2, <3>1, <3>2
    <2>4. ~(LoopSleeps /\ LoopSends)'
      <3>1. send_invoker' = "none" \/ sending' = <<>>
        BY <1>3 DEF StartActors
      <3> QED BY <3>1 DEF LoopSleeps, LoopSends
    <2>5. CASE Open'
      BY <2>3, <2>4, <2>5 DEF WaitsNeedSocket
    <2>6. CASE ~Open'
      BY <2>1, <2>3, <2>4, <2>6 DEF WaitsNeedSocket
    <2> QED BY <2>5, <2>6
  <1>5. LoopInv'
    BY <1>2, <1>4 DEF LoopInv
  <1> QED BY <1>1, <1>5 DEF SenderInv

\* The invariant holds before the first connection.
LEMMA SenderInit == Init => SenderInv
  <1> SUFFICES ASSUME Init PROVE SenderInv OBVIOUS
  <1>1. ioq = <<>> /\ sending = <<>> /\ send_invoker = "none" /\ deadline_waits = 0
        /\ ~socket /\ ~socket_ready
    BY DEF Init
  <1>2. QueueInv(ioq)
    BY <1>1, EmptySuffix DEF QueueInv
  <1>3. LoopInv
    BY <1>1, EmptySuffix DEF LoopInv, LoopSleeps, LoopSends, WaitsNeedSocket
  <1> QED BY <1>2, <1>3 DEF SenderInv

\* Every action keeps SenderInv, if connection attempts do not overlap.
LEMMA SenderStep ==
    ASSUME SerialConnects \/ Mode = "server",
           TypeOK, TypeOK', SenderInv, [Next]_vars
    PROVE  SenderInv'
  <1>0. ioq \in Seq(Handlers) /\ QueueInv(ioq) /\ LoopInv
    BY DEF TypeOK, SenderInv
  <1>t. ioq # <<>> => Tail(ioq) \in Seq(Handlers) /\ QueueInv(Tail(ioq))
    BY <1>0, QueueTail, TailElements
  <1>l. ioq # <<>> /\ Head(ioq).op \in {"await_send_entry", "handle_send", "connect_handler"}
          => Nowhere(Tail(ioq), LoopOps)
    BY <1>0, QueueTail DEF LoopOps
  <1>h. ioq # <<>> /\ Head(ioq).op \in {"async_connect", "connect_handler", "async_bind"}
          => Nowhere(Tail(ioq), OpenOps)
    BY <1>0, QueueTail DEF OpenOps
  <1>p. \A op \in PlainOps \ (LoopOps \union OpenOps) :
            /\ <<Post(op)>> \in Seq(Handlers)
            /\ Nowhere(<<Post(op)>>, LoopOps)
            /\ Nowhere(<<Post(op)>>, OpenOps)
    BY HandlerTypes, SingleSuffix DEF Post
  <1>q. /\ {"async_close", "check_send_deadline", "reset"}
             \subseteq PlainOps \ (LoopOps \union OpenOps)
        /\ LoopOps = {"await_send_entry", "handle_send"}
        /\ OpenOps = {"async_connect", "connect_handler", "async_bind"}
    BY DEF PlainOps, LoopOps, OpenOps
  <1>r. \A h \in {Post("async_close")} : Append(ioq, h) = ioq \o <<h>>
    BY <1>0, <1>q, HandlerTypes, EmptySuffix
  \* A handler returns and changes nothing, or the check's state only.
  <1>1. ASSUME ioq # <<>>, ioq' = Tail(ioq), io_thread' # "absent", WaitsNeedSocket',
               UNCHANGED <<socket, socket_ready, send_invoker, sending>>
        PROVE  SenderInv'
    <2>1. ioq' = Tail(ioq) \o <<>>
      BY <1>1, <1>t, EmptySuffix
    <2> QED BY <1>1, <2>1, EmptySuffix, PlainStep
  \* async_close is posted by another thread or by the handler that runs.
  <1>2. ASSUME \/ ioq' = ioq \o <<Post("async_close")>>
               \/ ioq # <<>> /\ ioq' = Tail(ioq) \o <<Post("async_close")>>,
               io_thread' # "absent", WaitsNeedSocket',
               UNCHANGED <<socket, socket_ready, send_invoker, sending>>
        PROVE  SenderInv'
    BY <1>2, <1>p, <1>q, PlainStep
  \* The queue is left alone.
  <1>3. ASSUME UNCHANGED <<ioq, socket, socket_ready, send_invoker, sending,
                           deadline_waits, io_thread>>
        PROVE  SenderInv'
    BY <1>0, <1>3 DEF SenderInv, LoopInv, LoopSleeps, LoopSends, WaitsNeedSocket, Open
  <1>w. UNCHANGED <<socket, socket_ready, send_invoker, sending, deadline_waits>>
          => WaitsNeedSocket'
    BY <1>0 DEF LoopInv, WaitsNeedSocket, Open
  \* Handlers that return.
  <1>4. CASE CloseWithoutSocket
    BY <1>4, <1>1, <1>w DEF CloseWithoutSocket, Runs, allButQueue, threadVars, socketVars,
       timerVars, sendVars
  <1>5. CASE ConnectWithSocket
    BY <1>5, <1>1, <1>w DEF ConnectWithSocket, Runs, allButQueue, threadVars, socketVars,
       timerVars, sendVars
  <1>6. CASE ConnectFails
    BY <1>6, <1>1, <1>w DEF ConnectFails, Runs, threadVars, timerVars, sendVars
  <1>7. CASE DeadlineWithoutSocket
    BY <1>7, <1>1, <1>w DEF DeadlineWithoutSocket, Runs, allButQueue, threadVars, socketVars,
       timerVars, sendVars
  <1>8. CASE AwaitDeadline
    <2>1. WaitsNeedSocket'
      BY <1>8 DEF AwaitDeadline, WaitsNeedSocket, Open, socketVars
    <2> QED BY <1>8, <2>1, <1>1 DEF AwaitDeadline, Runs, threadVars, socketVars, sendVars
  <1>9. CASE ResetWorkGuard
    BY <1>9, <1>1, <1>w DEF ResetWorkGuard, Runs, socketVars, timerVars, sendVars
  \* Steps that post async_close.
  <1>10. CASE DeadlineExpired
    <2>1. ioq # <<>> /\ ioq' = Tail(ioq) \o <<Post("async_close")>>
      BY <1>10, <1>t, <1>q, HandlerTypes, EmptySuffix DEF DeadlineExpired, Runs
    <2> QED BY <1>10, <2>1, <1>2, <1>w DEF DeadlineExpired, Runs, allButQueue, threadVars,
            socketVars, timerVars, sendVars
  <1>11. CASE ConnectFailedHandler
    <2>1. ioq' = ioq \o <<Post("async_close")>>
      BY <1>11, <1>r DEF ConnectFailedHandler
    <2> QED BY <1>11, <2>1, <1>2, <1>w DEF ConnectFailedHandler, FailureDelivered, threadVars,
            timerVars, sendVars
  <1>12. CASE CheckFailed
    <2>1. ioq' = ioq \o <<Post("async_close")>>
      BY <1>12, <1>r DEF CheckFailed
    <2> QED BY <1>12, <2>1, <1>2, <1>w DEF CheckFailed, MayPost, threadVars, timerVars, sendVars
  <1>13. CASE ConnectionError
    <2> DEFINE s == CancelledDeadline(deadline_waits) \o <<Post("async_close")>>
    <2>1. /\ CancelledDeadline(deadline_waits) \in Seq(Handlers)
          /\ Nowhere(CancelledDeadline(deadline_waits), LoopOps)
          /\ Nowhere(CancelledDeadline(deadline_waits), OpenOps)
      BY <1>0, CancelledTypes, CancelledOps DEF TypeOK, TimerOK
    <2>2. s \in Seq(Handlers) /\ Nowhere(s, LoopOps) /\ Nowhere(s, OpenOps)
      BY <2>1, <1>p, <1>q, NowhereConcat, ConcatElements
    <2>3. ioq # <<>> /\ ioq' = Tail(ioq) \o s /\ io_thread' # "absent"
      BY <1>13 DEF ConnectionError, AbortLoop, HandlesSend, Runs, threadVars
    <2>4. UNCHANGED <<socket, socket_ready, send_invoker, sending>> /\ deadline_waits' = 0
      BY <1>13 DEF ConnectionError, AbortLoop, socketVars, sendVars
    <2>5. WaitsNeedSocket'
      BY <2>4, <1>0 DEF LoopInv, WaitsNeedSocket, Open
    <2> HIDE DEF s
    <2> QED BY <2>2, <2>3, <2>4, <2>5, PlainStep
  <1>14. CASE PostAsyncSend /\ io_thread # "absent"
    <2>1. SendHandler(asked') \in Handlers
      <3>1. asked' \in Entries
        BY <1>14, BoundsAssumption DEF PostAsyncSend, TypeOK, EntryOK, Entries
      <3> QED BY <3>1, HandlerTypes
    <2>2. SendHandler(asked').op = "async_send"
      BY DEF SendHandler
    <2>3. /\ <<SendHandler(asked')>> \in Seq(Handlers)
          /\ Nowhere(<<SendHandler(asked')>>, LoopOps)
          /\ Nowhere(<<SendHandler(asked')>>, OpenOps)
      BY <2>1, <2>2, <1>q, SingleSuffix
    <2>4. ioq' = ioq \o <<SendHandler(asked')>>
      BY <1>14, <1>0, <2>1, EmptySuffix DEF PostAsyncSend
    <2> QED BY <1>14, <2>3, <2>4, <1>w, PlainStep DEF PostAsyncSend, threadVars, socketVars,
            timerVars, sendVars
  <1>15. CASE DeadlinePasses
    <2>1. /\ CancelledDeadline(deadline_waits) \in Seq(Handlers)
          /\ Nowhere(CancelledDeadline(deadline_waits), LoopOps)
          /\ Nowhere(CancelledDeadline(deadline_waits), OpenOps)
      BY <1>0, CancelledTypes, CancelledOps DEF TypeOK, TimerOK
    <2>2. UNCHANGED <<socket, socket_ready, send_invoker, sending, io_thread>>
          /\ deadline_waits' = 0
          /\ ioq' = ioq \o CancelledDeadline(deadline_waits)
      BY <1>15 DEF DeadlinePasses, threadVars, socketVars, sendVars
    <2>3. WaitsNeedSocket'
      BY <2>2, <1>0 DEF LoopInv, WaitsNeedSocket, Open
    <2>4. io_thread = "absent" => deadline_waits = 0 /\ ioq = <<>> /\ ~socket /\ ~socket_ready
      BY <1>0 DEF LoopInv, WaitsNeedSocket, Open, TypeOK, TimerOK
    <2>5. io_thread' = "absent" => ioq' = <<>> /\ ~socket /\ ~socket_ready
      BY <2>2, <2>4, <1>0, CancelledOps, EmptySuffix
    <2> QED BY <2>1, <2>2, <2>3, <2>5, PlainStep
  <1>16. CASE Destroy
    <2> DEFINE s == <<Post("async_close"), Post("reset")>>
    <2>1. s \in Seq(Handlers) /\ Nowhere(s, LoopOps) /\ Nowhere(s, OpenOps)
      BY <1>q, HandlerTypes DEF Nowhere, Post, LoopOps, OpenOps
    <2> QED BY <1>16, <2>1, <1>w, PlainStep DEF Destroy, socketVars, timerVars, sendVars
  <1>17. CASE StartCheck \/ EndCheck
    BY <1>17, <1>3 DEF StartCheck, EndCheck, threadVars, timerVars, sendVars
  <1>18. CASE UNCHANGED vars
    BY <1>18, <1>3 DEF vars, threadVars, socketVars, timerVars, sendVars
  \* Steps that open a socket: nothing of an earlier loop is left.
  <1>o. ~Open => send_invoker = "none" /\ sending = <<>> /\ deadline_waits = 0
                 /\ ~LoopSleeps /\ ~LoopSends
    <2>1. deadline_waits \in Nat
      BY DEF TypeOK, TimerOK
    <2> QED BY <1>0, <2>1 DEF LoopInv, WaitsNeedSocket, LoopSleeps, LoopSends
  <1>19. ASSUME QueueInv(ioq'), Nowhere(ioq', {"async_bind"}), io_thread' # "absent",
                ~Open, ~socket_ready', UNCHANGED <<send_invoker, sending, deadline_waits>>
         PROVE  SenderInv'
    <2>1. send_invoker' = "none" /\ sending' = <<>> /\ deadline_waits' = 0
      BY <1>19, <1>o
    <2>2. LoopInv'
      BY <1>19, <2>1 DEF LoopInv, LoopSleeps, LoopSends, WaitsNeedSocket
    <2> QED BY <1>19, <2>2 DEF SenderInv
  <1>20. CASE OpenFails \/ BindFails
    <2>1. ioq # <<>> /\ Head(ioq).op \in OpenOps /\ ioq' = Tail(ioq) /\ io_thread' # "absent"
      BY <1>20, <1>q DEF OpenFails, BindFails, Runs, threadVars
    <2>2. QueueInv(ioq') /\ Nowhere(ioq', {"async_bind"})
      BY <2>1, <1>t, <1>h DEF Nowhere, OpenOps
    <2>3. ~Open
      <3>1. CASE OpenFails
        BY <3>1 DEF OpenFails, Open
      <3>2. CASE BindFails
        BY <3>2, <2>1, <1>0, TailElements DEF BindFails, Runs, LoopInv, Nowhere, Open
      <3> QED BY <1>20, <3>1, <3>2
    <2>4. ~socket_ready' /\ UNCHANGED <<send_invoker, sending, deadline_waits>>
      BY <1>20 DEF OpenFails, BindFails, timerVars, sendVars
    <2> QED BY <2>1, <2>2, <2>3, <2>4, <1>19
  <1>21. ASSUME NEW r \in ConnectResults, Connect(r) PROVE SenderInv'
    <2>1. ioq # <<>> /\ Head(ioq).op = "async_connect" /\ io_thread' # "absent"
      BY <1>21 DEF Connect, Runs, threadVars
    <2>2. ConnectHandler(r) \in Handlers /\ ConnectHandler(r).op = "connect_handler"
      BY HandlerTypes DEF ConnectHandler
    <2>3. ioq' = Tail(ioq) \o <<ConnectHandler(r)>>
      BY <1>21, <2>1, <2>2, <1>t, EmptySuffix DEF Connect
    <2>4. Mode = "client"
      BY <2>1, <1>0, ModeAssumption, TailElements DEF QueueInv, Nowhere
    <2>5. Nowhere(Tail(ioq), OpenOps) /\ QueueInv(Tail(ioq)) /\ Tail(ioq) \in Seq(Handlers)
      BY <2>1, <1>t, <1>h
    <2>6. QueueInv(ioq')
      BY <2>2, <2>3, <2>4, <2>5, QueueOpen
    <2>7. Nowhere(ioq', {"async_bind"})
      BY <2>4, <2>6 DEF QueueInv
    <2>8. ~Open /\ ~socket_ready' /\ UNCHANGED <<send_invoker, sending, deadline_waits>>
      BY <1>21 DEF Connect, Open, timerVars, sendVars
    <2> QED BY <2>1, <2>6, <2>7, <2>8, <1>19
  <1>22. CASE AsyncConnect
    <2>1. Mode = "client" /\ SerialConnects
      BY <1>22 DEF AsyncConnect
    <2>2. Nowhere(ioq, {"async_connect", "connect_handler"})
      BY <1>22, <2>1 DEF AsyncConnect, Queued, Nowhere
    <2>3. Nowhere(ioq, OpenOps)
      BY <1>0, <2>1, <2>2 DEF QueueInv, Nowhere, OpenOps
    <2>4. Post("async_connect") \in Handlers /\ Post("async_connect").op = "async_connect"
      BY HandlerTypes DEF Post, PlainOps
    <2>5. ioq' = ioq \o <<Post("async_connect")>>
      BY <1>22, <1>0, <2>4, EmptySuffix DEF AsyncConnect
    <2>6. QueueInv(ioq')
      BY <1>0, <2>1, <2>3, <2>4, <2>5, QueueOpen
    <2>7. \A ops : "async_connect" \notin ops /\ Nowhere(ioq, ops) => Nowhere(ioq', ops)
      BY <1>0, <2>4, <2>5, NowhereConcat, SingleSuffix
    <2>8. /\ Nowhere(ioq, LoopOps) => Nowhere(ioq', LoopOps)
          /\ Nowhere(ioq, {"connect_handler"}) => Nowhere(ioq', {"connect_handler"})
          /\ Nowhere(ioq', {"async_bind"})
      BY <2>1, <2>6, <2>7, <1>q DEF QueueInv
    <2>9. UNCHANGED <<socket, socket_ready, send_invoker, sending, deadline_waits, io_thread>>
          /\ io_thread # "absent"
      BY <1>22 DEF AsyncConnect, MayPost, allButQueue, threadVars, socketVars, timerVars, sendVars
    <2>10. LoopInv'
      BY <1>0, <2>8, <2>9, <1>w DEF LoopInv, LoopSleeps, LoopSends
    <2> QED BY <2>6, <2>10 DEF SenderInv
  <1>23. CASE Connected \/ Bound
    <2>1. ioq # <<>> /\ Head(ioq).op \in {"connect_handler", "async_bind"}
          /\ StartActors(Tail(ioq)) /\ io_thread' # "absent"
      BY <1>23 DEF Connected, Bound, Runs, threadVars
    <2>2. ~socket_ready
      BY <2>1, <1>0, TailElements DEF LoopInv, Nowhere
    <2>3. Nowhere(Tail(ioq), LoopOps)
      <3>1. CASE Head(ioq).op = "connect_handler"
        BY <2>1, <3>1, <1>l
      <3>2. CASE Head(ioq).op = "async_bind"
        <4>1. ~Nowhere(ioq, {"async_bind"})
          BY <2>1, <3>2, <1>0, TailElements DEF Nowhere
        <4>2. Nowhere(ioq, LoopOps)
          BY <4>1, <1>0 DEF LoopInv
        <4> QED BY <4>2, <2>1, <1>0, NowhereTail
      <3> QED BY <2>1, <3>1, <3>2
    <2>4. Nowhere(Tail(ioq), OpenOps) /\ QueueInv(Tail(ioq)) /\ Tail(ioq) \in Seq(Handlers)
      BY <2>1, <1>t, <1>h
    <2>5. ~LoopSleeps /\ ~LoopSends /\ deadline_waits = 0
      BY <2>2, <1>o DEF Open
    <2> QED BY <2>1, <2>3, <2>4, <2>5, StartStep
  \* The loop moves between its places.
  <1>24. ASSUME io_thread' # "absent", NEW h \in Handlers, h.op \in LoopOps,
                ioq' = ioq \o <<h>>, LoopSleeps \/ LoopSends,
                send_invoker' = "none", Len(sending') = 0, sending' = <<>>,
                UNCHANGED <<socket, socket_ready, deadline_waits>>
         PROVE  SenderInv'
    <2>1. Open /\ Nowhere(ioq, LoopOps) /\ Nowhere(ioq, {"connect_handler"})
          /\ Nowhere(ioq, {"async_bind"})
      BY <1>0, <1>24 DEF LoopInv, WaitsNeedSocket, LoopSleeps, LoopSends, Open
    <2>2. /\ <<h>> \in Seq(Handlers) /\ AtMostOnce(<<h>>, LoopOps)
          /\ Nowhere(<<h>>, OpenOps) /\ Nowhere(<<h>>, {"connect_handler"})
          /\ Nowhere(<<h>>, {"async_bind"})
      BY <1>24, <1>q, SingleSuffix
    <2>3. QueueInv(ioq')
      BY <1>0, <1>24, <2>1, <2>2, QueueConcat
    <2>4. Nowhere(ioq', {"connect_handler"}) /\ Nowhere(ioq', {"async_bind"})
      BY <1>0, <1>24, <2>1, <2>2, NowhereConcat
    <2>5. Open'
      BY <1>24, <2>1 DEF Open
    <2>6. LoopInv'
      BY <1>24, <2>4, <2>5 DEF LoopInv, LoopSleeps, LoopSends, WaitsNeedSocket
    <2> QED BY <2>3, <2>6 DEF SenderInv
  <1>25. CASE InvokerFires
    <2>1. Post("await_send_entry") \in Handlers /\ Post("await_send_entry").op \in LoopOps
      BY HandlerTypes, <1>q DEF Post, PlainOps
    <2>2. LoopSleeps
      BY <1>25 DEF InvokerFires, LoopSleeps
    <2>3. sending = <<>> /\ Open
      BY <1>0, <2>2 DEF LoopInv, LoopSleeps, LoopSends, WaitsNeedSocket
    <2>4. io_thread # "absent"
      BY <1>0, <2>3 DEF LoopInv, Open
    <2>5. ioq' = ioq \o <<Post("await_send_entry")>> /\ send_invoker' = "none"
      BY <1>25, <1>0, <2>1, EmptySuffix DEF InvokerFires
    <2>6. UNCHANGED <<socket, socket_ready, deadline_waits, io_thread>> /\ sending' = <<>>
      BY <1>25, <2>3 DEF InvokerFires, threadVars, socketVars, sendVars
    <2>7. Len(sending') = 0
      BY <2>6
    <2> QED BY <2>1, <2>2, <2>4, <2>5, <2>6, <2>7, <1>24
  <1>26. ASSUME NEW r \in SendResults, SendCompletes(r) PROVE SenderInv'
    <2>1. sending \in Seq(Entries) /\ sending # <<>> /\ Len(sending) <= 1
      BY <1>26, <1>0 DEF SendCompletes, LoopInv, TypeOK, SendOK
    <2>2. /\ Head(sending) \in Entries
          /\ Tail(sending) \in Seq(Entries)
          /\ Len(sending) \in Nat \ {0}
          /\ Len(Tail(sending)) = Len(sending) - 1
      BY <2>1, TailElements
    <2>3. Tail(sending) = <<>> /\ Len(Tail(sending)) = 0
      <3>1. Len(Tail(sending)) = 0
        BY <2>1, <2>2
      <3> QED BY <3>1, <2>2, EmptySequence
    <2>4. HandleSend(Head(sending), r) \in Handlers
          /\ HandleSend(Head(sending), r).op \in LoopOps
      BY <2>2, HandlerTypes, <1>q DEF HandleSend
    <2>5. LoopSends
      BY <2>1 DEF LoopSends
    <2>6. send_invoker = "none" /\ Open
      BY <1>0, <2>5 DEF LoopInv, LoopSleeps, LoopSends, WaitsNeedSocket
    <2>7. io_thread # "absent"
      BY <1>0, <2>6 DEF LoopInv, Open
    <2>8. ioq' = ioq \o <<HandleSend(Head(sending), r)>>
      BY <1>26, <1>0, <2>4, EmptySuffix DEF SendCompletes
    <2>9. UNCHANGED <<socket, socket_ready, deadline_waits, io_thread, send_invoker>>
          /\ sending' = Tail(sending)
      BY <1>26 DEF SendCompletes, threadVars, socketVars, timerVars
    <2> QED BY <2>3, <2>4, <2>5, <2>6, <2>7, <2>8, <2>9, <1>24
  <1>27. CASE PushEntry
    <2>1. ioq # <<>> /\ ioq' = Tail(ioq) \o CancelledInvoker /\ send_invoker' = "none"
          /\ io_thread' # "absent" /\ UNCHANGED <<socket, socket_ready, sending, deadline_waits>>
      BY <1>27 DEF PushEntry, PushBack, Runs, threadVars, socketVars, sendVars
    <2>2. /\ CancelledInvoker \in Seq(Handlers) /\ Nowhere(CancelledInvoker, OpenOps)
          /\ AtMostOnce(CancelledInvoker, LoopOps)
          /\ Nowhere(CancelledInvoker, {"connect_handler"})
          /\ Nowhere(CancelledInvoker, {"async_bind"})
      BY <1>0, CancelledTypes, CancelledOps DEF Nowhere, OpenOps
    <2>3. LoopSleeps => Open /\ ~LoopSends
                        /\ Nowhere(Tail(ioq), LoopOps) /\ Nowhere(Tail(ioq), {"connect_handler"})
      <3>1. LoopSleeps => Open /\ ~LoopSends
                          /\ Nowhere(ioq, LoopOps) /\ Nowhere(ioq, {"connect_handler"})
        BY <1>0 DEF LoopInv, WaitsNeedSocket, LoopSleeps, Open
      <3> QED BY <3>1, <2>1, <1>0, NowhereTail
    <2>4. ~LoopSleeps => Nowhere(CancelledInvoker, LoopOps)
      BY <1>0, CancelledOps, EmptySuffix
    <2>5. QueueInv(ioq')
      BY <2>1, <2>2, <2>3, <2>4, <1>t, QueueConcat
    <2>6. /\ socket_ready => Nowhere(ioq', {"connect_handler"})
          /\ ~LoopSleeps /\ Nowhere(ioq, LoopOps) => Nowhere(ioq', LoopOps)
          /\ Nowhere(ioq, {"async_bind"}) => Nowhere(ioq', {"async_bind"})
      <3>1. \A ops : Nowhere(ioq, ops) /\ Nowhere(CancelledInvoker, ops) => Nowhere(ioq', ops)
        BY <2>1, <2>2, <1>0, <1>t, NowhereTail, NowhereConcat
      <3>2. socket_ready => Nowhere(ioq, {"connect_handler"})
        BY <1>0 DEF LoopInv
      <3> QED BY <3>1, <3>2, <2>2, <2>4
    <2>7. Len(sending') <= 1 /\ ~LoopSleeps' /\ WaitsNeedSocket'
      BY <1>0, <2>1 DEF LoopInv, LoopSleeps, WaitsNeedSocket, Open
    <2>8. LoopSends' => Nowhere(ioq', LoopOps)
      BY <1>0, <2>1, <2>3, <2>6 DEF LoopInv, LoopSends
    <2>9. socket' \/ socket_ready' \/ ~Nowhere(ioq', LoopOps) => Nowhere(ioq', {"async_bind"})
      BY <1>0, <2>1, <2>3, <2>6 DEF LoopInv, Open
    <2>10. LoopInv'
      BY <2>1, <2>6, <2>7, <2>8, <2>9 DEF LoopInv
    <2> QED BY <2>5, <2>10 DEF SenderInv
  <1>28. CASE CloseSocket
    <2> DEFINE cd == CancelledDeadline(deadline_waits)
               ci == CancelledInvoker \o cd
               s  == CancelledSends \o ci
    <2>1. /\ ioq # <<>> /\ ioq' = Tail(ioq) \o s /\ io_thread' # "absent"
          /\ socket /\ ~socket' /\ ~socket_ready'
          /\ sending' = <<>> /\ send_invoker' = "none" /\ deadline_waits' = 0
      BY <1>28 DEF CloseSocket, ReleaseSocket, Runs, threadVars
    <2>2. /\ cd \in Seq(Handlers) /\ CancelledInvoker \in Seq(Handlers)
          /\ CancelledSends \in Seq(Handlers)
      BY CancelledTypes DEF TypeOK, TimerOK
    <2>3. /\ Nowhere(cd, OpenOps) /\ Nowhere(cd, LoopOps) /\ AtMostOnce(cd, LoopOps)
          /\ Nowhere(CancelledInvoker, OpenOps) /\ AtMostOnce(CancelledInvoker, LoopOps)
          /\ Nowhere(CancelledSends, OpenOps) /\ AtMostOnce(CancelledSends, LoopOps)
      BY <1>0, CancelledOps DEF TypeOK, TimerOK
    <2>4. ~LoopSleeps => Nowhere(CancelledInvoker, LoopOps)
      BY <1>0, CancelledOps, EmptySuffix
    <2>5. ~LoopSends => Nowhere(CancelledSends, LoopOps)
      BY <1>0, CancelledOps, EmptySuffix
    <2>6. ~LoopSleeps \/ ~LoopSends
      BY <1>0 DEF LoopInv
    <2> HIDE DEF cd
    <2>7. /\ ci \in Seq(Handlers) /\ Nowhere(ci, OpenOps) /\ AtMostOnce(ci, LoopOps)
          /\ ~LoopSleeps => Nowhere(ci, LoopOps)
      BY <2>2, <2>3, <2>4, ConcatElements, NowhereConcat, OnceConcat
    <2> HIDE DEF ci
    <2>8. s \in Seq(Handlers) /\ Nowhere(s, OpenOps)
      BY <2>2, <2>3, <2>7, ConcatElements, NowhereConcat
    <2>9. AtMostOnce(s, LoopOps)
      BY <2>2, <2>3, <2>5, <2>6, <2>7, OnceConcat
    <2>10. ~LoopSleeps /\ ~LoopSends => Nowhere(s, LoopOps)
      BY <2>2, <2>5, <2>7, NowhereConcat
    <2> HIDE DEF s
    <2>11. LoopSleeps \/ LoopSends
             => Nowhere(Tail(ioq), LoopOps) /\ Nowhere(Tail(ioq), {"connect_handler"})
      <3>1. LoopSleeps \/ LoopSends
             => Nowhere(ioq, LoopOps) /\ Nowhere(ioq, {"connect_handler"})
        BY <1>0 DEF LoopInv, WaitsNeedSocket, LoopSleeps, LoopSends, Open
      <3> QED BY <3>1, <2>1, <1>0, NowhereTail
    <2>12. QueueInv(ioq')
      BY <2>1, <2>8, <2>9, <2>10, <2>11, <1>t, QueueConcat
    <2>13. Nowhere(ioq', {"async_bind"})
      <3>1. Nowhere(ioq, {"async_bind"})
        BY <2>1, <1>0 DEF LoopInv
      <3>2. Nowhere(Tail(ioq), {"async_bind"})
        BY <3>1, <2>1, <1>0, NowhereTail
      <3>3. Nowhere(s, {"async_bind"})
        BY <2>8 DEF Nowhere, OpenOps
      <3> QED BY <3>2, <3>3, <2>1, <2>8, <1>t, NowhereConcat
    <2>14. LoopInv'
      BY <2>1, <2>13 DEF LoopInv, LoopSleeps, LoopSends, WaitsNeedSocket
    <2> QED BY <2>12, <2>14 DEF SenderInv
  \* A continuation of the loop runs: the loop is nowhere else.
  <1>29. ASSUME ioq # <<>>, Head(ioq).op \in LoopOps, NEW s \in Seq(Handlers),
                Nowhere(s, LoopOps), Nowhere(s, OpenOps),
                NEW delay \in BOOLEAN, NEW deadline, NEW waits \in Nat, waits > 0 => Open,
                AwaitSendEntry(Tail(ioq) \o s, delay, deadline, waits),
                UNCHANGED <<socket, socket_ready>>, io_thread' # "absent"
         PROVE  SenderInv'
    <2>1. Tail(ioq) \in Seq(Handlers) /\ QueueInv(Tail(ioq)) /\ Nowhere(Tail(ioq), LoopOps)
      BY <1>29, <1>t, <1>l, <1>q
    <2>2. ~Nowhere(ioq, LoopOps)
      BY <1>29, <1>0, TailElements DEF Nowhere
    <2>3. ~LoopSleeps /\ ~LoopSends
      BY <2>2, <1>0 DEF LoopInv
    <2>4. AtMostOnce(s, LoopOps) /\ Nowhere(s, {"connect_handler"}) /\ Nowhere(s, {"async_bind"})
      BY <1>29 DEF AtMostOnce, Nowhere, OpenOps
    <2>5. Tail(ioq) \o s \in Seq(Handlers)
      BY <1>29, <2>1, ConcatElements
    <2>6. QueueInv(Tail(ioq) \o s) /\ Nowhere(Tail(ioq) \o s, LoopOps)
      BY <1>29, <2>1, <2>4, QueueConcat, NowhereConcat
    <2>7. socket_ready => Nowhere(Tail(ioq) \o s, {"connect_handler"})
      <3>1. socket_ready => Nowhere(ioq, {"connect_handler"})
        BY <1>0 DEF LoopInv
      <3>2. socket_ready => Nowhere(Tail(ioq), {"connect_handler"})
        BY <3>1, <1>29, <1>0, NowhereTail
      <3> QED BY <3>2, <1>29, <2>1, <2>4, NowhereConcat
    <2>8. Nowhere(Tail(ioq) \o s, {"async_bind"})
      <3>1. Nowhere(ioq, {"async_bind"})
        BY <2>2, <1>0 DEF LoopInv
      <3>2. Nowhere(Tail(ioq), {"async_bind"})
        BY <3>1, <1>29, <1>0, NowhereTail
      <3> QED BY <3>2, <1>29, <2>1, <2>4, NowhereConcat
    <2> QED BY <1>29, <2>3, <2>5, <2>6, <2>7, <2>8, AwaitStep
  <1>30. CASE InvokerHandler
    <2>1. /\ ioq # <<>> /\ Head(ioq).op \in LoopOps /\ io_thread' # "absent"
          /\ UNCHANGED <<socket, socket_ready>>
          /\ AwaitSendEntry(Tail(ioq), FALSE, send_deadline, deadline_waits)
      BY <1>30, <1>q DEF InvokerHandler, Runs, threadVars, socketVars
    <2>2. AwaitSendEntry(Tail(ioq) \o <<>>, FALSE, send_deadline, deadline_waits)
      <3>1. Tail(ioq) \o <<>> = Tail(ioq)
        BY <2>1, <1>t, EmptySuffix
      <3> QED BY <2>1, <3>1
    <2>3. deadline_waits \in Nat /\ (deadline_waits > 0 => Open)
      BY <1>0 DEF LoopInv, WaitsNeedSocket, TypeOK, TimerOK
    <2> QED BY <2>1, <2>2, <2>3, <1>29, EmptySuffix
  <1>31. ASSUME ioq # <<>>, Head(ioq).op = "handle_send", io_thread # "absent",
                NEW e, NEW delay \in BOOLEAN, FinishSend(e, delay)
         PROVE  SenderInv'
    <2> DEFINE s == CancelledDeadline(deadline_waits)
    <2>1. s \in Seq(Handlers) /\ Nowhere(s, LoopOps) /\ Nowhere(s, OpenOps)
      BY <1>0, CancelledTypes, CancelledOps DEF TypeOK, TimerOK
    <2>2. /\ AwaitSendEntry(Tail(ioq) \o s, delay, "infinite", 0)
          /\ UNCHANGED <<socket, socket_ready>> /\ io_thread' # "absent"
      BY <1>31 DEF FinishSend, threadVars, socketVars
    <2>3. Head(ioq).op \in LoopOps
      BY <1>31, <1>q
    <2>4. 0 \in Nat /\ ~(0 > 0)
      OBVIOUS
    <2> HIDE DEF s
    <2> QED BY <1>31, <2>1, <2>2, <2>3, <2>4, <1>29
  <1>32. CASE SendSucceeded
    BY <1>32, <1>31 DEF SendSucceeded, HandlesSend, Runs
  <1>33. CASE NoBufferSpace
    BY <1>33, <1>31 DEF NoBufferSpace, HandlesSend, Runs
  <1>34. CASE DropEntry
    BY <1>34, <1>31 DEF DropEntry, HandlesSend, Runs
  \* The thread ends, and a new server_impl begins.
  <1>35. CASE ThreadExits
    <2>1. /\ ioq' = <<>> /\ ~socket' /\ ~socket_ready'
          /\ send_invoker' = "none" /\ sending' = <<>> /\ deadline_waits' = 0
      BY <1>35 DEF ThreadExits, timerVars, sendVars
    <2>2. QueueInv(ioq')
      BY <2>1, EmptySuffix DEF QueueInv
    <2>3. LoopInv'
      BY <2>1, EmptySuffix DEF LoopInv, LoopSleeps, LoopSends, WaitsNeedSocket
    <2> QED BY <2>2, <2>3 DEF SenderInv
  <1>36. CASE Recreate
    <2>1. /\ Mode = "server" /\ ~socket /\ ~socket_ready /\ io_thread' = "running"
          /\ ioq' = <<Post("async_close"), Post("async_bind")>>
      BY <1>36, <1>0 DEF Recreate, LoopInv
    <2>2. send_invoker = "none" /\ sending = <<>> /\ deadline_waits = 0
      BY <2>1, <1>o DEF Open
    <2>3. /\ UNCHANGED <<socket, socket_ready>>
          /\ send_invoker' = "none" /\ sending' = <<>> /\ deadline_waits' = 0
      BY <1>36, <2>2 DEF Recreate, socketVars, sendVars
    <2>4. Nowhere(ioq', LoopOps) /\ Nowhere(ioq', {"async_connect", "connect_handler"})
      BY <2>1 DEF Nowhere, LoopOps, Post
    <2>5. AtMostOnce(ioq', OpenOps)
      BY <2>1 DEF AtMostOnce, OpenOps, Post
    <2>6. QueueInv(ioq')
      BY <2>1, <2>4, <2>5 DEF QueueInv, AtMostOnce, Nowhere
    <2>7. LoopInv'
      BY <2>1, <2>3, <2>4 DEF LoopInv, LoopSleeps, LoopSends, WaitsNeedSocket
    <2> QED BY <2>6, <2>7 DEF SenderInv
  <1>37. CASE AsyncSend \/ CheckServer
    BY <1>37, <1>14 DEF AsyncSend, CheckServer, MayPost
  <1> QED
    BY <1>4, <1>5, <1>6, <1>7, <1>8, <1>9, <1>10, <1>11, <1>12, <1>13, <1>15, <1>16,
       <1>17, <1>18, <1>20, <1>21, <1>22, <1>23, <1>25, <1>26, <1>27, <1>28, <1>30,
       <1>32, <1>33, <1>34, <1>35, <1>36, <1>37
    DEF Next, IoThread, SenderHandlers, SocketHandlers, Dispatcher, Kernel, Clock

\* The invariant, from which the two theorems below follow.
LEMMA SenderInvariant ==
    ASSUME SerialConnects \/ Mode = "server"
    PROVE  Spec => []SenderInv
  <1>1. TypeOK /\ TypeOK' /\ SenderInv /\ [Next]_vars => SenderInv'
    BY SenderStep
  <1> QED BY SenderInit, TypeCorrect, <1>1, PTL DEF Spec

\* SingleSender holds in every state: when connection attempts do not overlap,
\* closing a connection and opening the next one never lets two continuations
\* of the send loop meet, whatever the kernel, the clock and the dispatcher do
\* in between (base_impl.hpp:282-322, 412-416).
THEOREM SenderIsSingle ==
    ASSUME SerialConnects \/ Mode = "server"
    PROVE  Spec => []SingleSender
  <1>1. SenderInv => SingleSender
    BY DEF SenderInv, QueueInv, LoopInv, SingleSender, AtMostOnce, Nowhere, Queued
  <1> QED BY <1>1, SenderInvariant, PTL

\* WaitsNeedSocket holds in every state: async_close() finds and cancels every
\* pending wait and send, so none is left to keep io_ctx_.run() from returning
\* when the destructor joins the thread (base_impl.hpp:75-77, 140-146).
THEOREM NoOrphanedWait ==
    ASSUME SerialConnects \/ Mode = "server"
    PROVE  Spec => []WaitsNeedSocket
  <1>1. SenderInv => WaitsNeedSocket
    BY DEF SenderInv, LoopInv
  <1> QED BY <1>1, SenderInvariant, PTL
===============================================================================
