---------------------------- MODULE ReceiverProofs ----------------------------
(***************************************************************************)
(* Theorems about Receiver for every set of senders and every size of its  *)
(* bounds.  Except for the types they assume SerialConnects.               *)
(***************************************************************************)
EXTENDS Receiver, QueueLemmas, FiniteSetTheorems, TLAPS

-------------------------------------------------------------------------------
(* The inductive invariant *)

OpenOps == {"async_connect", "connect_handler"}

\* What the io queue looks like: one receive handler, one opening handler, and
\* the handler of a closed connection ahead of the one that begins the next.
QueueInv(q) ==
    /\ AtMostOnce(q, {"receive_handler"})
    /\ AtMostOnce(q, OpenOps)
    /\ \A i, j \in DOMAIN q :
          q[i].op = "receive_handler" /\ q[j].op = "connect_handler" => i < j

\* How the queue, the pending receives and the socket exclude each other.
LoopInv ==
    /\ receiving \in {0, 1}
    /\ receiving = 1 => socket /\ socket_ready /\ Nowhere(ioq, {"receive_handler"})
    /\ socket_ready => Nowhere(ioq, {"connect_handler"}) /\ connections >= 1
    /\ socket /\ socket_ready => receiving = 1 \/ ~Nowhere(ioq, {"receive_handler"})

\* A datagram has been read and its handler has not run.
Arrived(q) == \E i \in DOMAIN q : q[i] = Handler("receive_handler", "ok")

\* The datagrams below it have been parsed.
Horizon == IF Arrived(ioq) THEN Len(read) ELSE Len(read) + 1

IsDatagram(f) == f.fn \in {"heartbeat", "received"}

\* The functions of the dispatcher are those of parsed datagrams, oldest first.
DispatchInv(q, top) ==
    /\ \A i \in DOMAIN q : IsDatagram(q[i]) => q[i].number \in 1..(top - 1)
    /\ \A i \in DOMAIN q : q[i].fn = "heartbeat" => q[i].sender \in Senders
    /\ \A i, j \in DOMAIN q :
          i < j /\ IsDatagram(q[i]) /\ IsDatagram(q[j]) => q[i].number < q[j].number

\* Datagram n was acted upon before anything that is still queued.
Before(n, q, top) ==
    n < top /\ \A i \in DOMAIN q : IsDatagram(q[i]) => n < q[i].number

OrderInv ==
    /\ receive_buffer.number = Len(read)
    /\ Arrived(ioq) => Len(read) > 0
    /\ DispatchInv(dq, Horizon)
    /\ \A k \in DOMAIN received : Before(received[k], dq, Horizon)
    /\ \A s \in Senders : Before(latest[s], dq, Horizon)
    /\ ReceivedInOrder

\* What was read from an earlier connection carries an earlier generation.
HeardInv ==
    /\ \A i \in DOMAIN dq : dq[i].generation <= generation
    /\ \A s \in DOMAIN timers : timers[s].generation <= generation
    /\ \A s \in DOMAIN timers : timers[s].number \in 1..Len(read)
    /\ socket_ready /\ Arrived(ioq) => read[Len(read)] = connections
    /\ socket_ready => \A i \in DOMAIN dq :
          dq[i].fn = "heartbeat" /\ dq[i].generation = generation
            => read[dq[i].number] = connections
    /\ HeardOnThisConnection

\* A sender's timer watches its newest heartbeat, which was not reported.
ReportInv ==
    /\ \A s \in DOMAIN timers :
          timers[s].number = latest[s] /\ reported[s] < timers[s].number
    /\ \A s \in Senders : reported[s] <= latest[s]

ReceiverInv ==
    /\ TypeOK
    /\ QueueInv(ioq) /\ LoopInv
    /\ OrderInv /\ HeardInv /\ ReportInv

-------------------------------------------------------------------------------
(* Queues *)

\* What is left of the queue when its first handler has been taken.
LEMMA QueueTail ==
    ASSUME NEW q \in Seq(Handlers), q # <<>>, QueueInv(q)
    PROVE  /\ QueueInv(Tail(q))
           /\ Head(q).op \in {"receive_handler", "connect_handler"}
                => Nowhere(Tail(q), {"receive_handler"})
           /\ Head(q).op \in OpenOps => Nowhere(Tail(q), OpenOps)
  <1>1. /\ AtMostOnce(Tail(q), {"receive_handler"})
        /\ Head(q).op = "receive_handler" => Nowhere(Tail(q), {"receive_handler"})
    BY TailElements DEF QueueInv, AtMostOnce, Nowhere
  <1>2. AtMostOnce(Tail(q), OpenOps) /\ (Head(q).op \in OpenOps => Nowhere(Tail(q), OpenOps))
    BY TailElements DEF QueueInv, AtMostOnce, Nowhere
  <1>3. Head(q).op = "connect_handler" => Nowhere(Tail(q), {"receive_handler"})
    BY TailElements DEF QueueInv, Nowhere
  <1>4. \A i, j \in DOMAIN Tail(q) :
          Tail(q)[i].op = "receive_handler" /\ Tail(q)[j].op = "connect_handler" => i < j
    BY TailElements DEF QueueInv
  <1> QED BY <1>1, <1>2, <1>3, <1>4 DEF QueueInv

\* A handler behind the others.
LEMMA NowhereAppend ==
    ASSUME NEW S, NEW q \in Seq(S), NEW h \in S, NEW ops
    PROVE  Nowhere(Append(q, h), ops) <=> Nowhere(q, ops) /\ h.op \notin ops
  <1> DEFINE r == Append(q, h)
  <1>1. /\ DOMAIN q = 1..Len(q) /\ DOMAIN r = 1..(Len(q) + 1) /\ Len(q) \in Nat
        /\ \A i \in 1..Len(q) : r[i] = q[i]
        /\ r[Len(q) + 1] = h
    BY AppendElements
  <1>2. \A i \in DOMAIN r : i \in 1..Len(q) \/ i = Len(q) + 1
    BY <1>1
  <1> HIDE DEF r
  <1>3. Nowhere(r, ops) <=> Nowhere(q, ops) /\ h.op \notin ops
    BY <1>1, <1>2 DEF Nowhere
  <1> QED BY <1>3 DEF r

\* A queue keeps its form when a handler is added that is not there twice and
\* is no receive handler behind a connect_handler.
LEMMA QueueAppend ==
    ASSUME NEW q \in Seq(Handlers), NEW h \in Handlers, QueueInv(q),
           h.op = "receive_handler" => Nowhere(q, {"receive_handler"}) /\ Nowhere(q, {"connect_handler"}),
           h.op \in OpenOps => Nowhere(q, OpenOps)
    PROVE  QueueInv(Append(q, h))
  <1> DEFINE r == Append(q, h)
  <1>1. /\ DOMAIN q = 1..Len(q) /\ DOMAIN r = 1..(Len(q) + 1) /\ Len(q) \in Nat
        /\ \A i \in 1..Len(q) : r[i] = q[i]
        /\ r[Len(q) + 1] = h
    BY AppendElements
  <1>2. \A i \in DOMAIN r : i \in 1..Len(q) \/ i = Len(q) + 1
    BY <1>1
  <1> HIDE DEF r
  <1>3. AtMostOnce(r, {"receive_handler"})
    BY <1>1, <1>2 DEF QueueInv, AtMostOnce, Nowhere
  <1>4. AtMostOnce(r, OpenOps)
    BY <1>1, <1>2 DEF QueueInv, AtMostOnce, Nowhere
  <1>5. \A i, j \in DOMAIN r :
          r[i].op = "receive_handler" /\ r[j].op = "connect_handler" => i < j
    BY <1>1, <1>2 DEF QueueInv, Nowhere
  <1> QED BY <1>3, <1>4, <1>5 DEF QueueInv, r

\* Which handlers the constructor builds.
LEMMA HandlerTypes ==
    /\ Handler("receive_handler", "ok") \in Handlers
    /\ Handler("receive_handler", "error") \in Handlers
    /\ Handler("async_close", "none") \in Handlers
    /\ Handler("async_connect", "none") \in Handlers
    /\ \A r \in {"ok", "error"} : Handler("connect_handler", r) \in Handlers
    /\ \A op, r : Handler(op, r).op = op /\ Handler(op, r).result = r
    /\ \A h \in Handlers : h = Handler("receive_handler", "ok")
                             <=> h.op = "receive_handler" /\ h.result = "ok"
  BY DEF Handlers, Handler

\* A datagram has arrived in a queue if it has in its tail, or is the first.
LEMMA ArrivedTail ==
    ASSUME NEW q \in Seq(Handlers), q # <<>>
    PROVE  Arrived(q) <=> Arrived(Tail(q)) \/ Head(q) = Handler("receive_handler", "ok")
  <1> DEFINE x == Handler("receive_handler", "ok")
             r == Tail(q)
  <1>1. /\ Len(q) \in Nat \ {0} /\ DOMAIN q = 1..Len(q) /\ DOMAIN r = 1..(Len(q) - 1)
        /\ \A i \in 1..(Len(q) - 1) : r[i] = q[i + 1]
        /\ Head(q) = q[1]
    BY TailElements
  <1> HIDE DEF x, r
  <1>2. ASSUME Arrived(r) PROVE Arrived(q)
    <2>1. PICK i \in 1..(Len(q) - 1) : r[i] = x
      BY <1>1, <1>2 DEF Arrived, x
    <2>2. i + 1 \in DOMAIN q /\ q[i + 1] = x
      BY <1>1, <2>1
    <2> QED BY <2>2 DEF Arrived, x
  <1>3. ASSUME Head(q) = x PROVE Arrived(q)
    <2>1. 1 \in DOMAIN q /\ q[1] = x
      BY <1>1, <1>3
    <2> QED BY <2>1 DEF Arrived, x
  <1>4. ASSUME Arrived(q), Head(q) # x PROVE Arrived(r)
    <2>1. PICK i \in 1..Len(q) : q[i] = x
      BY <1>1, <1>4 DEF Arrived, x
    <2>2. i - 1 \in 1..(Len(q) - 1) /\ (i - 1) + 1 = i
      BY <1>1, <1>4, <2>1
    <2>3. r[i - 1] = x
      BY <1>1, <2>1, <2>2
    <2> QED BY <1>1, <2>2, <2>3 DEF Arrived, x
  <1> QED BY <1>2, <1>3, <1>4 DEF x, r

\* A datagram has arrived in a queue with a handler added if it had, or if that
\* is its handler.
LEMMA ArrivedAppend ==
    ASSUME NEW q \in Seq(Handlers), NEW h \in Handlers
    PROVE  Arrived(Append(q, h)) <=> Arrived(q) \/ h = Handler("receive_handler", "ok")
  <1> DEFINE r == Append(q, h)
  <1>1. /\ DOMAIN q = 1..Len(q) /\ DOMAIN r = 1..(Len(q) + 1) /\ Len(q) \in Nat
        /\ \A i \in 1..Len(q) : r[i] = q[i]
        /\ r[Len(q) + 1] = h
    BY AppendElements
  <1>2. \A i \in DOMAIN r : i \in 1..Len(q) \/ i = Len(q) + 1
    BY <1>1
  <1>3. Len(q) + 1 \in DOMAIN r /\ \A i \in DOMAIN q : i \in DOMAIN r
    BY <1>1
  <1> HIDE DEF r
  <1>4. Arrived(r) <=> Arrived(q) \/ h = Handler("receive_handler", "ok")
    BY <1>1, <1>2, <1>3 DEF Arrived
  <1> QED BY <1>4 DEF r

\* A datagram arrives in a receive handler.
LEMMA ArrivedSomewhere ==
    ASSUME NEW q \in Seq(Handlers), Nowhere(q, {"receive_handler"})
    PROVE  ~Arrived(q)
  BY HandlerTypes DEF Arrived, Nowhere

\* async_close moves the pending receive, if there is one, into the queue.
LEMMA CloseQueue ==
    ASSUME TypeOK, LoopInv, Close
    PROVE  \/ receiving = 0 /\ ioq' = Tail(ioq)
           \/ receiving = 1 /\ ioq' = Append(Tail(ioq), Handler("receive_handler", "error"))
  <1>1. ioq # <<>> /\ Tail(ioq) \in Seq(Handlers)
    BY TailElements DEF Close, Runs, TypeOK
  <1>2. Handler("receive_handler", "error") \in Handlers
    BY HandlerTypes
  <1>3. CASE receiving = 0
    <2>1. [i \in 1..receiving |-> Handler("receive_handler", "error")] = <<>>
      BY <1>3
    <2> QED BY <1>1, <1>3, <2>1 DEF Close
  <1>4. CASE receiving = 1
    <2>1. [i \in 1..receiving |-> Handler("receive_handler", "error")]
            = <<Handler("receive_handler", "error")>>
      BY <1>4
    <2> QED BY <1>1, <1>2, <1>4, <2>1 DEF Close
  <1> QED BY <1>3, <1>4 DEF LoopInv

-------------------------------------------------------------------------------
(* One receive at a time *)

\* The state at the start.
LEMMA QueueInit == Init => QueueInv(ioq) /\ LoopInv
  <1> SUFFICES ASSUME Init PROVE QueueInv(ioq) /\ LoopInv OBVIOUS
  <1>1. ioq = <<>> /\ DOMAIN ioq = {}
    BY DEF Init
  <1>2. QueueInv(ioq)
    BY <1>1 DEF QueueInv, AtMostOnce
  <1>3. LoopInv
    BY <1>1 DEF Init, LoopInv, Nowhere
  <1> QED BY <1>2, <1>3

\* Every step keeps the form of the queue and one receive at a time: a receive
\* that async_close aborts is in the queue before the next connection can begin.
LEMMA QueueStep ==
    ASSUME SerialConnects, TypeOK, QueueInv(ioq), LoopInv, [Next]_vars
    PROVE  QueueInv(ioq') /\ LoopInv'
  <1> DEFINE RH == {"receive_handler"}
             CH == {"connect_handler"}
             q == Tail(ioq)
  <1>t. ASSUME ioq # <<>>
        PROVE  /\ q \in Seq(Handlers) /\ Head(ioq) \in Handlers
               /\ QueueInv(q)
               /\ Head(ioq).op \in {"receive_handler", "connect_handler"} => Nowhere(q, RH)
               /\ Head(ioq).op \in OpenOps => Nowhere(q, OpenOps)
               /\ Nowhere(ioq, RH) => Nowhere(q, RH)
               /\ Nowhere(ioq, CH) => Nowhere(q, CH)
               /\ Nowhere(ioq, OpenOps) => Nowhere(q, OpenOps)
               /\ Head(ioq).op \notin RH /\ Nowhere(q, RH) => Nowhere(ioq, RH)
    <2>1. ioq \in Seq(Handlers)
      BY DEF TypeOK
    <2> QED BY <1>t, <2>1, QueueTail, NowhereTail, TakenElsewhere, TailElements
  <1>a. ASSUME NEW s \in Seq(Handlers), NEW h \in Handlers, NEW ops
        PROVE  Nowhere(Append(s, h), ops) <=> Nowhere(s, ops) /\ h.op \notin ops
    BY NowhereAppend
  <1>o. \A s \in Seq(Handlers) : Nowhere(s, OpenOps) => Nowhere(s, CH)
    BY DEF Nowhere, OpenOps
  <1>i. ioq \in Seq(Handlers)
    BY DEF TypeOK
  <1> HIDE DEF RH, CH, q
  <1>u. ASSUME UNCHANGED <<ioq, socket, socket_ready, receiving, connections>>
        PROVE  QueueInv(ioq') /\ LoopInv'
    BY <1>u DEF LoopInv
  <1>1. ASSUME Close PROVE QueueInv(ioq') /\ LoopInv'
    <2>1. ioq # <<>> /\ Head(ioq).op = "async_close" /\ connections' = connections
          /\ receiving' = 0 /\ socket' = FALSE
          /\ (socket /\ socket_ready => socket_ready' = FALSE)
          /\ (~(socket /\ socket_ready) => socket_ready' = socket_ready)
      BY <1>1 DEF Close, Runs, historyVars
    <2>2. "async_close" \notin RH /\ "async_close" \notin CH /\ "async_close" \notin OpenOps
      BY DEF RH, CH, OpenOps
    <2>3. CASE receiving = 0 /\ ioq' = q
      <3>1. QueueInv(ioq')
        BY <1>t, <2>1, <2>3
      <3>2. LoopInv'
        BY <1>t, <2>1, <2>2, <2>3 DEF LoopInv, RH, CH, TypeOK
      <3> QED BY <3>1, <3>2
    <2>4. CASE receiving = 1 /\ ioq' = Append(q, Handler("receive_handler", "error"))
      <3>1. Nowhere(q, RH) /\ Nowhere(q, CH)
        BY <1>t, <2>1, <2>4 DEF LoopInv, RH, CH
      <3>2. Handler("receive_handler", "error") \in Handlers
            /\ Handler("receive_handler", "error").op = "receive_handler"
        BY HandlerTypes
      <3>3. "receive_handler" \notin OpenOps
        BY DEF OpenOps
      <3>4. QueueInv(ioq')
        BY <1>t, <2>1, <2>4, <3>1, <3>2, <3>3, QueueAppend DEF RH, CH
      <3>5. Nowhere(ioq', OpenOps) <=> Nowhere(q, OpenOps)
        BY <1>a, <1>t, <2>1, <2>4, <3>2, <3>3
      <3>6. socket_ready' = FALSE
        BY <2>1, <2>4 DEF LoopInv
      <3>7. LoopInv'
        BY <1>t, <2>1, <3>5, <3>6 DEF LoopInv
      <3> QED BY <3>4, <3>7
    <2> QED BY <1>1, <2>3, <2>4, CloseQueue DEF q
  <1>2. ASSUME AsyncConnect PROVE QueueInv(ioq') /\ LoopInv'
    <2>1. ioq # <<>> /\ Head(ioq).op = "async_connect" /\ connections' = connections
          /\ receiving' = receiving
      BY <1>2 DEF AsyncConnect, Runs, historyVars, bufferVars
    <2>2. "async_connect" \in OpenOps /\ "async_connect" \notin RH /\ "connect_handler" \notin RH
      BY DEF OpenOps, RH
    <2>3. Nowhere(q, OpenOps) /\ Nowhere(q, CH) /\ QueueInv(q) /\ q \in Seq(Handlers)
          /\ (Nowhere(ioq, RH) <=> Nowhere(q, RH))
      BY <1>t, <1>o, <2>1, <2>2
    <2>n. ~Nowhere(ioq, OpenOps)
      <3>1. Head(ioq) = ioq[1] /\ 1 \in DOMAIN ioq
        BY <1>i, <2>1
      <3> QED BY <2>1, <2>2, <3>1 DEF Nowhere
    <2>4. CASE socket /\ ioq' = q /\ UNCHANGED socketVars
      <3>1. LoopInv'
        BY <2>1, <2>3, <2>4 DEF LoopInv, socketVars, RH, CH
      <3> QED BY <2>3, <2>4, <3>1
    <2>5. CASE ~socket /\ socket_ready' = FALSE /\ ioq' = q
      <3>1. LoopInv'
        BY <2>1, <2>3, <2>5 DEF LoopInv
      <3> QED BY <2>3, <2>5, <3>1
    <2>6. CASE /\ ~socket /\ socket_ready' = FALSE
               /\ \E r \in {"ok", "error"} : ioq' = Append(q, Handler("connect_handler", r))
      <3>1. PICK r \in {"ok", "error"} : ioq' = Append(q, Handler("connect_handler", r))
        BY <2>6
      <3>2. Handler("connect_handler", r) \in Handlers
            /\ Handler("connect_handler", r).op = "connect_handler"
        BY HandlerTypes
      <3>3. QueueInv(ioq')
        BY <2>3, <3>1, <3>2, QueueAppend
      <3>4. LoopInv'
        BY <2>1, <2>6, <2>n DEF LoopInv
      <3> QED BY <3>3, <3>4
    <2> QED BY <1>2, <2>4, <2>5, <2>6 DEF AsyncConnect, q
  <1>3. ASSUME ConnectFails PROVE QueueInv(ioq') /\ LoopInv'
    <2>1. /\ ioq # <<>> /\ Head(ioq).op = "connect_handler" /\ ioq' = q
          /\ UNCHANGED <<socket, socket_ready, receiving, connections>>
      BY <1>3 DEF ConnectFails, Runs, historyVars, socketVars, bufferVars, q
    <2>2. "connect_handler" \in OpenOps /\ "connect_handler" \notin RH
      BY DEF OpenOps, RH
    <2>3. Nowhere(q, OpenOps) /\ Nowhere(q, CH) /\ QueueInv(q)
          /\ (Nowhere(ioq, RH) <=> Nowhere(q, RH))
      BY <1>t, <1>o, <2>1, <2>2
    <2>4. LoopInv'
      BY <2>1, <2>3 DEF LoopInv, RH, CH
    <2> QED BY <2>1, <2>3, <2>4
  <1>4. ASSUME Connected PROVE QueueInv(ioq') /\ LoopInv'
    <2>1. /\ ioq # <<>> /\ Head(ioq).op = "connect_handler" /\ ioq' = q
          /\ socket_ready' = TRUE /\ socket' = socket /\ connections' = connections + 1
          /\ receiving' = IF socket THEN receiving + 1 ELSE receiving
      BY <1>4 DEF Connected, Runs, AsyncReceive, q
    <2>2. "connect_handler" \in OpenOps /\ 1 \in DOMAIN ioq /\ Head(ioq) = ioq[1]
      BY <1>i, <2>1 DEF OpenOps
    <2>3. Nowhere(q, OpenOps) /\ Nowhere(q, CH) /\ Nowhere(q, RH) /\ QueueInv(q)
      BY <1>t, <1>o, <2>1, <2>2
    <2>4. ~Nowhere(ioq, CH)
      BY <2>1, <2>2 DEF Nowhere, CH
    <2>5. ~socket_ready /\ receiving = 0 /\ connections \in Nat
      BY <2>4 DEF LoopInv, CH, TypeOK
    <2>6. LoopInv'
      BY <2>1, <2>3, <2>5 DEF LoopInv, RH, CH, TypeOK
    <2> QED BY <2>1, <2>3, <2>6
  <1>5. ASSUME ReceiveHandler PROVE QueueInv(ioq') /\ LoopInv'
    <2>1. /\ ioq # <<>> /\ Head(ioq).op = "receive_handler" /\ ioq' = q
          /\ UNCHANGED <<socket, socket_ready, connections>>
          /\ receiving' = IF socket /\ socket_ready THEN receiving + 1 ELSE receiving
      BY <1>5 DEF ReceiveHandler, Runs, AsyncReceive, q, socketVars, historyVars
    <2>2. 1 \in DOMAIN ioq /\ Head(ioq) = ioq[1]
      BY <1>i, <2>1
    <2>3. Nowhere(q, RH) /\ QueueInv(q)
      BY <1>t, <2>1
    <2>4. ~Nowhere(ioq, RH)
      BY <2>1, <2>2 DEF Nowhere, RH
    <2>5. receiving = 0
      BY <2>4 DEF LoopInv, RH
    <2>6. (Nowhere(ioq, CH) => Nowhere(q, CH)) /\ (Nowhere(ioq, OpenOps) => Nowhere(q, OpenOps))
      BY <1>t, <2>1
    <2>7. LoopInv'
      BY <2>1, <2>3, <2>5, <2>6 DEF LoopInv, RH, CH
    <2> QED BY <2>1, <2>3, <2>7
  <1>6. ASSUME receiving > 0, receiving' = receiving - 1,
               NEW r \in {"ok", "error"}, ioq' = Append(ioq, Handler("receive_handler", r)),
               UNCHANGED <<socket, socket_ready, connections>>
        PROVE  QueueInv(ioq') /\ LoopInv'
    <2>1. Handler("receive_handler", r) \in Handlers
          /\ Handler("receive_handler", r).op = "receive_handler"
      BY HandlerTypes
    <2>2. receiving = 1 /\ receiving' = 0 /\ socket /\ socket_ready
          /\ Nowhere(ioq, RH) /\ Nowhere(ioq, CH)
      BY <1>6 DEF LoopInv, RH, CH
    <2>3. "receive_handler" \notin CH /\ "receive_handler" \notin OpenOps /\ "receive_handler" \in RH
      BY DEF CH, OpenOps, RH
    <2>4. QueueInv(ioq')
      BY <1>i, <1>6, <2>1, <2>2, <2>3, QueueAppend DEF RH, CH
    <2>5. Nowhere(ioq', CH) /\ ~Nowhere(ioq', RH) /\ (Nowhere(ioq', OpenOps) <=> Nowhere(ioq, OpenOps))
      BY <1>a, <1>i, <1>6, <2>1, <2>2, <2>3
    <2>6. LoopInv'
      BY <1>6, <2>2, <2>5 DEF LoopInv, RH, CH
    <2> QED BY <2>4, <2>6
  <1>7. ASSUME NEW h \in Handlers, ioq' = Append(ioq, h),
               h.op = "async_close" \/ (h.op = "async_connect" /\ Nowhere(ioq, OpenOps)),
               UNCHANGED <<socket, socket_ready, connections, receiving>>
        PROVE  QueueInv(ioq') /\ LoopInv'
    <2>1. h.op \notin RH /\ h.op \notin CH /\ h.op # "receive_handler"
          /\ (h.op = "async_close" => h.op \notin OpenOps)
      BY <1>7 DEF CH, OpenOps, RH
    <2>2. QueueInv(ioq')
      BY <1>i, <1>7, <2>1, QueueAppend
    <2>3. (Nowhere(ioq', CH) <=> Nowhere(ioq, CH)) /\ (Nowhere(ioq', RH) <=> Nowhere(ioq, RH))
          /\ (h.op = "async_close" => (Nowhere(ioq', OpenOps) <=> Nowhere(ioq, OpenOps)))
      BY <1>a, <1>i, <1>7, <2>1
    <2>4. LoopInv'
      BY <1>7, <2>3 DEF LoopInv, RH, CH
    <2> QED BY <2>2, <2>4
  <1>8. ASSUME Kernel PROVE QueueInv(ioq') /\ LoopInv'
    <2>1. CASE ReceiveFails
      BY <1>6, <2>1 DEF ReceiveFails, socketVars, historyVars
    <2>2. CASE \E t \in Types, s \in Senders \union {Unnamed} : ReceiveCompletes(t, s)
      BY <1>6, <2>2 DEF ReceiveCompletes, socketVars
    <2> QED BY <1>8, <2>1, <2>2 DEF Kernel
  <1>9. ASSUME Dispatcher PROVE QueueInv(ioq') /\ LoopInv'
    BY <1>9, <1>u DEF Dispatcher, Closed, Heartbeat, Received, DeadlinePasses,
         socketVars, bufferVars, historyVars
  <1>10. ASSUME PostClose PROVE QueueInv(ioq') /\ LoopInv'
    BY <1>10, <1>7, HandlerTypes DEF PostClose, socketVars, bufferVars, historyVars
  <1>11. ASSUME PostConnect PROVE QueueInv(ioq') /\ LoopInv'
    <2>1. Nowhere(ioq, OpenOps)
      BY <1>11 DEF PostConnect, Queued, Nowhere, OpenOps
    <2> QED BY <1>11, <1>7, <2>1, HandlerTypes DEF PostConnect, socketVars, bufferVars, historyVars
  <1>12. ASSUME UNCHANGED vars PROVE QueueInv(ioq') /\ LoopInv'
    BY <1>12, <1>u DEF vars, socketVars, bufferVars, historyVars
  <1> QED BY <1>1, <1>2, <1>3, <1>4, <1>5, <1>8, <1>9, <1>10, <1>11, <1>12 DEF Next, IoThread

\* When a datagram is in the queue: ReceiveCompletes puts it there, its handler
\* takes it away, and none is there when a connection begins.
LEMMA ArrivedStep ==
    ASSUME TypeOK, QueueInv(ioq), LoopInv
    PROVE  /\ Close \/ AsyncConnect \/ ConnectFails \/ PostClose \/ PostConnect
              \/ ReceiveFails \/ Dispatcher \/ UNCHANGED vars
                => (Arrived(ioq') <=> Arrived(ioq))
           /\ Connected => ~Arrived(ioq) /\ ~Arrived(ioq')
           /\ ReceiveHandler => ~Arrived(ioq') /\ (Arrived(ioq) <=> Head(ioq).result = "ok")
           /\ \A t \in Types, s \in Senders \union {Unnamed} :
                 ReceiveCompletes(t, s) => ~Arrived(ioq) /\ Arrived(ioq')
  <1> DEFINE ok == Handler("receive_handler", "ok")
             q == Tail(ioq)
  <1>i. ioq \in Seq(Handlers) /\ \A h \in Handlers : h = ok <=> h.op = "receive_handler" /\ h.result = "ok"
    BY HandlerTypes DEF TypeOK
  <1>t. ASSUME ioq # <<>>
        PROVE  /\ q \in Seq(Handlers) /\ Head(ioq) \in Handlers
               /\ Arrived(ioq) <=> Arrived(q) \/ Head(ioq) = ok
               /\ Head(ioq).op \in {"receive_handler", "connect_handler"} => ~Arrived(q)
    BY <1>i, <1>t, TailElements, ArrivedTail, QueueTail, ArrivedSomewhere
  <1>a. \A s \in Seq(Handlers), h \in Handlers : Arrived(Append(s, h)) <=> Arrived(s) \/ h = ok
    BY ArrivedAppend
  <1> HIDE DEF ok, q
  <1>1. ASSUME Close PROVE Arrived(ioq') <=> Arrived(ioq)
    <2>1. ioq # <<>> /\ Head(ioq).op = "async_close"
      BY <1>1 DEF Close, Runs
    <2>2. Handler("receive_handler", "error") \in Handlers /\ Handler("receive_handler", "error") # ok
      BY <1>i, HandlerTypes
    <2>3. ioq' = q \/ ioq' = Append(q, Handler("receive_handler", "error"))
      BY <1>1, CloseQueue DEF q
    <2>4. q \in Seq(Handlers) /\ (Arrived(ioq) <=> Arrived(q))
      BY <1>i, <1>t, <2>1
    <2>5. Arrived(Append(q, Handler("receive_handler", "error"))) <=> Arrived(q)
      BY <1>a, <2>2, <2>4
    <2> QED BY <2>3, <2>4, <2>5
  <1>2. ASSUME AsyncConnect PROVE Arrived(ioq') <=> Arrived(ioq)
    <2>1. ioq # <<>> /\ Head(ioq).op = "async_connect"
      BY <1>2 DEF AsyncConnect, Runs
    <2>2. \A r \in {"ok", "error"} :
             Handler("connect_handler", r) \in Handlers /\ Handler("connect_handler", r) # ok
      BY <1>i, HandlerTypes
    <2>3. ioq' = q \/ \E r \in {"ok", "error"} : ioq' = Append(q, Handler("connect_handler", r))
      BY <1>2 DEF AsyncConnect, q
    <2>4. q \in Seq(Handlers) /\ (Arrived(ioq) <=> Arrived(q))
      BY <1>i, <1>t, <2>1
    <2>5. \A r \in {"ok", "error"} :
             Arrived(Append(q, Handler("connect_handler", r))) <=> Arrived(q)
      BY <1>a, <2>2, <2>4
    <2> QED BY <2>3, <2>4, <2>5
  <1>3. ASSUME ConnectFails PROVE Arrived(ioq') <=> Arrived(ioq)
    BY <1>3, <1>i, <1>t DEF ConnectFails, Runs, q
  <1>4. ASSUME PostClose \/ PostConnect \/ ReceiveFails PROVE Arrived(ioq') <=> Arrived(ioq)
    <2>1. \E h \in Handlers : h # ok /\ ioq' = Append(ioq, h)
      BY <1>4, <1>i, HandlerTypes DEF PostClose, PostConnect, ReceiveFails
    <2> QED BY <1>i, <1>a, <2>1
  <1>5. ASSUME Dispatcher \/ UNCHANGED vars PROVE Arrived(ioq') <=> Arrived(ioq)
    BY <1>5 DEF Dispatcher, Closed, Heartbeat, Received, DeadlinePasses, vars
  <1>6. ASSUME Connected PROVE ~Arrived(ioq) /\ ~Arrived(ioq')
    BY <1>6, <1>i, <1>t DEF Connected, Runs, q
  <1>7. ASSUME ReceiveHandler
        PROVE  ~Arrived(ioq') /\ (Arrived(ioq) <=> Head(ioq).result = "ok")
    BY <1>7, <1>i, <1>t DEF ReceiveHandler, Runs, q
  <1>8. ASSUME NEW t \in Types, NEW s \in Senders \union {Unnamed}, ReceiveCompletes(t, s)
        PROVE  ~Arrived(ioq) /\ Arrived(ioq')
    <2>1. Nowhere(ioq, {"receive_handler"})
      BY <1>8 DEF ReceiveCompletes, LoopInv
    <2>2. ok \in Handlers /\ ioq' = Append(ioq, ok)
      BY <1>8, HandlerTypes DEF ReceiveCompletes, ok
    <2> QED BY <1>i, <1>a, <2>1, <2>2, ArrivedSomewhere
  <1> QED BY <1>1, <1>2, <1>3, <1>4, <1>5, <1>6, <1>7, <1>8

\* What the receive handler makes of a datagram is nothing or one function.
LEMMA ParsedFunction ==
    ASSUME TypeOK
    PROVE  \/ Parsed(receive_buffer) = <<>>
           \/ \E f \in Functions :
                /\ Parsed(receive_buffer) = <<f>>
                /\ IsDatagram(f)
                /\ f.number = receive_buffer.number
                /\ f.generation \in {0, generation}
                /\ f.fn = "heartbeat" => f.sender \in Senders /\ f.generation = generation
  <1>1. /\ receive_buffer.number \in Numbers /\ generation \in Nat
        /\ receive_buffer.sender \in Senders \union {Unnamed}
    BY DEF TypeOK, Datagrams
  <1>2. /\ Function("received", 0, receive_buffer.sender, receive_buffer.number) \in Functions
        /\ receive_buffer.sender \in Senders =>
             Function("heartbeat", generation, receive_buffer.sender, receive_buffer.number) \in Functions
    BY <1>1 DEF Functions, Function
  <1>3. \A g, s, n : /\ IsDatagram(Function("received", g, s, n))
                     /\ IsDatagram(Function("heartbeat", g, s, n))
                     /\ Function("received", g, s, n).fn = "received"
                     /\ Function("heartbeat", g, s, n).fn = "heartbeat"
    BY DEF IsDatagram, Function
  <1>4. \A fn, g, s, n : /\ Function(fn, g, s, n).number = n
                         /\ Function(fn, g, s, n).generation = g
                         /\ Function(fn, g, s, n).sender = s
    BY DEF Function
  <1> QED BY <1>2, <1>3, <1>4 DEF Parsed

\* What the dispatcher's queue becomes: a function is taken or added.
LEMMA ReceiveDispatches ==
    ASSUME TypeOK, OrderInv, QueueInv(ioq), LoopInv, ReceiveHandler
    PROVE  \/ dq' = dq
           \/ \E f \in Functions :
                /\ Head(ioq).result = "ok"
                /\ dq' = Append(dq, f)
                /\ IsDatagram(f)
                /\ f.number = Len(read) /\ Len(read) > 0
                /\ f.generation \in {0, generation}
                /\ f.fn = "heartbeat" => f.sender \in Senders /\ f.generation = generation
  <1>1. dq \in Seq(Functions)
    BY DEF TypeOK
  <1>2. CASE Head(ioq).result # "ok"
    BY <1>2 DEF ReceiveHandler
  <1>3. CASE Head(ioq).result = "ok" /\ Parsed(receive_buffer) = <<>>
    BY <1>1, <1>3 DEF ReceiveHandler
  <1>4. CASE Head(ioq).result = "ok" /\ Parsed(receive_buffer) # <<>>
    <2>1. PICK f \in Functions :
                /\ Parsed(receive_buffer) = <<f>>
                /\ IsDatagram(f)
                /\ f.number = receive_buffer.number
                /\ f.generation \in {0, generation}
                /\ f.fn = "heartbeat" => f.sender \in Senders /\ f.generation = generation
      BY <1>4, ParsedFunction
    <2>2. dq' = Append(dq, f)
      BY <1>1, <1>4, <2>1 DEF ReceiveHandler
    <2>3. Arrived(ioq)
      BY <1>4, ArrivedStep
    <2> QED BY <1>4, <2>1, <2>2, <2>3 DEF OrderInv
  <1> QED BY <1>2, <1>3, <1>4

-------------------------------------------------------------------------------
(* Type correctness *)

\* The initial state has the types.
LEMMA TypeInit == Init => TypeOK
  <1> SUFFICES ASSUME Init PROVE TypeOK OBVIOUS
  <1>1. receive_buffer \in Datagrams
    BY ReceiverBounds DEF Init, Datagrams, Types, Numbers
  <1>2. socket \in BOOLEAN /\ socket_ready \in BOOLEAN
    BY DEF Init
  <1>3. /\ ioq \in Seq(Handlers) /\ dq \in Seq(Functions)
        /\ read \in Seq(Nat) /\ Len(read) <= MaxDatagrams
        /\ received \in Seq(Numbers)
    BY ReceiverBounds DEF Init
  <1>4. latest \in [Senders -> Numbers] /\ reported \in [Senders -> Numbers]
    BY ReceiverBounds DEF Init, Numbers
  <1>5. DOMAIN timers = {} /\ delayed = {}
    BY DEF Init
  <1> QED BY ReceiverBounds, <1>1, <1>2, <1>3, <1>4, <1>5 DEF Init, TypeOK

\* Every step keeps the types, whether connects overlap or not.
LEMMA TypeStep ==
    ASSUME TypeOK, [Next]_vars
    PROVE  TypeOK'
  <1> USE ReceiverBounds
  <1>i. TypeOK
    OBVIOUS
  <1>q. ioq \in Seq(Handlers) /\ dq \in Seq(Functions) /\ Len(read) \in Nat
    BY <1>i DEF TypeOK
  <1>t. ioq # <<>> => Tail(ioq) \in Seq(Handlers)
    BY <1>q, TailElements
  <1>a. \A s \in Seq(Handlers), h \in Handlers : Append(s, h) \in Seq(Handlers)
    BY AppendElements
  <1>1. ASSUME Close PROVE TypeOK'
    <2>1. ioq' \in Seq(Handlers)
      <3> DEFINE aborted == [i \in 1..receiving |-> Handler("receive_handler", "error")]
      <3>1. Handler("receive_handler", "error") \in Handlers /\ receiving \in Nat
        BY <1>i, HandlerTypes DEF TypeOK
      <3>2. aborted \in Seq(Handlers)
        BY <3>1
      <3>3. Tail(ioq) \in Seq(Handlers) /\ ioq' = Tail(ioq) \o aborted
        BY <1>1, <1>t DEF Close, Runs
      <3> HIDE DEF aborted
      <3> QED BY <3>2, <3>3
    <2>2. generation' \in Nat /\ dq' \in Seq(Functions) /\ socket_ready' \in BOOLEAN
      <3>1. Function("closed", 0, Unnamed, 0) \in Functions
        BY DEF Function, Functions, Numbers
      <3>2. socket_ready' \in BOOLEAN
        <4>1. socket_ready' = FALSE \/ socket_ready' = socket_ready
          BY <1>1 DEF Close
        <4>2. socket_ready \in BOOLEAN
          BY <1>i DEF TypeOK
        <4> QED BY <4>1, <4>2
      <3>3. generation' \in Nat /\ dq' \in Seq(Functions)
        <4>1. /\ dq' = Append(dq, Function("closed", 0, Unnamed, 0)) \/ dq' = dq
              /\ generation' = generation + 1 \/ generation' = generation
          BY <1>1 DEF Close, NextGeneration
        <4>2. generation \in Nat
          BY <1>i DEF TypeOK
        <4>3. generation' \in Nat
          BY <4>1, <4>2
        <4>4. dq' \in Seq(Functions)
          BY <1>q, <3>1, <4>1
        <4> QED BY <4>3, <4>4
      <3> QED BY <3>2, <3>3
    <2> QED BY <1>1, <1>i, <2>1, <2>2 DEF Close, TypeOK, timerVars, historyVars
  <1>2. ASSUME AsyncConnect PROVE TypeOK'
    <2>1. ioq' \in Seq(Handlers)
      BY <1>2, <1>t, <1>a, HandlerTypes DEF AsyncConnect, Runs
    <2>2. socket' \in BOOLEAN /\ socket_ready' \in BOOLEAN
      BY <1>2, <1>i DEF AsyncConnect, TypeOK, socketVars
    <2> QED BY <1>2, <1>i, <2>1, <2>2 DEF AsyncConnect, TypeOK, timerVars, historyVars, bufferVars
  <1>3. ASSUME ConnectFails PROVE TypeOK'
    BY <1>3, <1>i, <1>t DEF ConnectFails, Runs, TypeOK, timerVars, historyVars, bufferVars, socketVars
  <1>4. ASSUME Connected PROVE TypeOK'
    <2>2. connections' \in Nat
      BY <1>4, <1>i DEF Connected, TypeOK
    <2>3. receiving' \in Nat /\ generation' \in Nat /\ socket_ready' \in BOOLEAN
      BY <1>4, <1>i DEF Connected, TypeOK, AsyncReceive, NextGeneration
    <2> QED BY <1>4, <1>i, <1>t, <2>2, <2>3 DEF Connected, Runs, TypeOK, timerVars
  <1>5. ASSUME ReceiveHandler PROVE TypeOK'
    <2>1. dq' \in Seq(Functions)
      <3>1. dq' = dq \o Parsed(receive_buffer) \/ dq' = dq
        BY <1>5 DEF ReceiveHandler
      <3>2. dq \o <<>> = dq /\ \A f \in Functions : dq \o <<f>> \in Seq(Functions)
        BY <1>q
      <3>3. Parsed(receive_buffer) = <<>> \/ \E f \in Functions : Parsed(receive_buffer) = <<f>>
        BY <1>i, ParsedFunction
      <3> QED BY <1>q, <3>1, <3>2, <3>3
    <2>2. receiving' \in Nat
      BY <1>5, <1>i DEF ReceiveHandler, AsyncReceive, TypeOK
    <2> QED BY <1>5, <1>i, <1>t, <2>1, <2>2
        DEF ReceiveHandler, Runs, TypeOK, timerVars, historyVars, socketVars
  <1>6. ASSUME NEW t \in Types, NEW s \in Senders \union {Unnamed}, ReceiveCompletes(t, s)
        PROVE  TypeOK'
    <2>1. ioq' \in Seq(Handlers) /\ receiving' \in Nat
      BY <1>6, <1>i, <1>a, <1>q, HandlerTypes DEF ReceiveCompletes, TypeOK
    <2>2. connections \in Nat
      BY <1>i DEF TypeOK
    <2>3. read' \in Seq(Nat) /\ Len(read') = Len(read) + 1 /\ Len(read') <= MaxDatagrams
      BY <1>6, <1>i, <1>q, <2>2 DEF ReceiveCompletes, TypeOK
    <2>4. receive_buffer' \in Datagrams
      BY <1>6, <1>q, <2>3 DEF ReceiveCompletes, Datagrams, Numbers
    <2> QED BY <1>6, <1>i, <2>1, <2>3, <2>4 DEF ReceiveCompletes, TypeOK, timerVars, socketVars
  <1>7. ASSUME ReceiveFails PROVE TypeOK'
    <2>1. ioq' \in Seq(Handlers) /\ receiving' \in Nat
      BY <1>7, <1>i, <1>a, <1>q, HandlerTypes DEF ReceiveFails, TypeOK
    <2> QED BY <1>7, <1>i, <2>1 DEF ReceiveFails, TypeOK, timerVars, socketVars, historyVars
  <1>8. ASSUME Closed PROVE TypeOK'
    <2>1. dq' \in Seq(Functions)
      BY <1>8, <1>q, TailElements DEF Closed, Dispatches
    <2> QED BY <1>8, <1>i, <2>1 DEF Closed, TypeOK, socketVars, bufferVars, historyVars
  <1>n. ASSUME dq # <<>> PROVE Head(dq).number \in Numbers
    BY <1>n, <1>q, TailElements DEF Functions
  <1>9. ASSUME Heartbeat PROVE TypeOK'
    <2>1. dq # <<>> /\ dq' \in Seq(Functions) /\ Head(dq) \in Functions /\ Head(dq) = dq[1]
          /\ 1 \in DOMAIN dq /\ Head(dq).fn = "heartbeat"
      BY <1>9, <1>q, TailElements DEF Heartbeat, Dispatches
    <2>2. Head(dq).number \in Numbers /\ Head(dq).sender \in Senders /\ Head(dq).generation \in Nat
      BY <1>n, <2>1 DEF Functions
    <2>3. CASE Head(dq).generation = generation
      <3> DEFINE s == Head(dq).sender
                 n == Head(dq).number
                 g == Head(dq).generation
      <3>1. SetTimer(s, g, n)
        BY <1>9, <2>3 DEF Heartbeat
      <3> HIDE DEF s, n, g
      <3>2. n \in Numbers /\ s \in Senders /\ g \in Nat
        BY <2>2 DEF s, n, g
      <3>3. DOMAIN timers' = DOMAIN timers \union {s}
        BY <3>1 DEF SetTimer
      <3>4. \A t \in DOMAIN timers' : timers'[t] \in [generation : Nat, number : Numbers]
        BY <1>i, <3>1, <3>2 DEF SetTimer, TypeOK
      <3>5. delayed' \subseteq [sender : Senders, number : Numbers]
        BY <1>i, <3>1, <3>2 DEF SetTimer, TypeOK
      <3>6. latest' \in [Senders -> Numbers]
        BY <1>i, <3>1, <3>2 DEF SetTimer, TypeOK
      <3> QED BY <1>9, <1>i, <2>1, <3>2, <3>3, <3>4, <3>5, <3>6
          DEF Heartbeat, TypeOK, socketVars, bufferVars, historyVars
    <2>4. CASE Head(dq).generation # generation
      BY <1>9, <1>i, <2>1, <2>4 DEF Heartbeat, TypeOK, socketVars, bufferVars, historyVars
    <2> QED BY <2>3, <2>4
  <1>10. ASSUME Received PROVE TypeOK'
    <2>1. dq' \in Seq(Functions) /\ dq # <<>> /\ Head(dq).fn = "received"
      BY <1>10, <1>q, TailElements DEF Received, Dispatches
    <2>2. received' \in Seq(Numbers)
      BY <1>10, <1>i, <1>n, <2>1 DEF Received, TypeOK
    <2> QED BY <1>10, <1>i, <2>1, <2>2 DEF Received, TypeOK, timerVars, socketVars, bufferVars
  <1>11. ASSUME NEW f \in delayed, DeadlinePasses(f) PROVE TypeOK'
    <2>1. f.sender \in Senders /\ f.number \in Numbers
      BY <1>i DEF TypeOK
    <2>2. delayed' \subseteq [sender : Senders, number : Numbers]
      BY <1>11, <1>i DEF DeadlinePasses, TypeOK
    <2>3. reported' \in [Senders -> Numbers]
      BY <1>11, <1>i, <2>1 DEF DeadlinePasses, TypeOK
    <2>4. /\ DOMAIN timers' \subseteq DOMAIN timers
          /\ \A s \in DOMAIN timers' : timers'[s] = timers[s]
      BY <1>11 DEF DeadlinePasses
    <2> QED BY <1>11, <1>i, <2>2, <2>3, <2>4
        DEF DeadlinePasses, TypeOK, socketVars, bufferVars, historyVars
  <1>12. ASSUME PostClose \/ PostConnect PROVE TypeOK'
    <2>1. ioq' \in Seq(Handlers)
      BY <1>12, <1>a, <1>q, HandlerTypes DEF PostClose, PostConnect
    <2> QED BY <1>12, <1>i, <2>1
        DEF PostClose, PostConnect, TypeOK, timerVars, socketVars, bufferVars, historyVars
  <1>13. ASSUME UNCHANGED vars PROVE TypeOK'
    BY <1>13, <1>i DEF vars, TypeOK, timerVars, socketVars, bufferVars, historyVars
  <1> QED BY <1>1, <1>2, <1>3, <1>4, <1>5, <1>6, <1>7, <1>8, <1>9, <1>10, <1>11, <1>12, <1>13
      DEF Next, IoThread, Kernel, Dispatcher

-------------------------------------------------------------------------------
(* Order *)

\* A datagram is parsed: its function comes after all the others.
LEMMA BeforeAppend ==
    ASSUME NEW q \in Seq(Functions), NEW f \in Functions, NEW top \in Nat,
           f.number = top, top > 0, DispatchInv(q, top),
           f.fn = "heartbeat" => f.sender \in Senders
    PROVE  /\ DispatchInv(Append(q, f), top + 1)
           /\ \A n \in Nat : Before(n, q, top) => Before(n, Append(q, f), top + 1)
  <1> DEFINE r == Append(q, f)
  <1>1. /\ DOMAIN q = 1..Len(q) /\ DOMAIN r = 1..(Len(q) + 1) /\ Len(q) \in Nat
        /\ \A i \in 1..Len(q) : r[i] = q[i]
        /\ r[Len(q) + 1] = f
    BY AppendElements
  <1>2. \A i \in DOMAIN r : i \in 1..Len(q) \/ i = Len(q) + 1
    BY <1>1
  <1> HIDE DEF r
  <1>3. \A i \in DOMAIN r : IsDatagram(r[i]) => r[i].number \in 1..top
    BY <1>1, <1>2 DEF DispatchInv
  <1>4. \A i \in DOMAIN r : r[i].fn = "heartbeat" => r[i].sender \in Senders
    BY <1>1, <1>2 DEF DispatchInv
  <1>5. \A i, j \in DOMAIN r :
          i < j /\ IsDatagram(r[i]) /\ IsDatagram(r[j]) => r[i].number < r[j].number
    <2> SUFFICES ASSUME NEW i \in DOMAIN r, NEW j \in DOMAIN r, i < j,
                        IsDatagram(r[i]), IsDatagram(r[j])
                 PROVE  r[i].number < r[j].number
      OBVIOUS
    <2>1. i \in 1..Len(q) /\ r[i] = q[i] /\ q[i].number \in 1..(top - 1)
      BY <1>1, <1>2 DEF DispatchInv
    <2>2. CASE j = Len(q) + 1
      BY <1>1, <2>1, <2>2
    <2>3. CASE j \in 1..Len(q)
      BY <1>1, <2>1, <2>3 DEF DispatchInv
    <2> QED BY <1>2, <2>2, <2>3
  <1>6. DispatchInv(r, top + 1)
    BY <1>3, <1>4, <1>5 DEF DispatchInv
  <1>7. ASSUME NEW n \in Nat, Before(n, q, top) PROVE Before(n, r, top + 1)
    BY <1>1, <1>2, <1>7 DEF Before
  <1> QED BY <1>6, <1>7 DEF r

\* The oldest function is taken: what is left comes after it.
LEMMA BeforeTail ==
    ASSUME NEW q \in Seq(Functions), q # <<>>, NEW top \in Nat, DispatchInv(q, top)
    PROVE  /\ DispatchInv(Tail(q), top)
           /\ \A n \in Nat : Before(n, q, top) => Before(n, Tail(q), top)
           /\ IsDatagram(Head(q)) =>
                /\ Head(q).number \in 1..(top - 1)
                /\ Before(Head(q).number, Tail(q), top)
                /\ \A n \in Nat : Before(n, q, top) => n < Head(q).number
           /\ Head(q).fn = "heartbeat" => Head(q).sender \in Senders
  <1> DEFINE r == Tail(q)
  <1>1. /\ Len(q) \in Nat \ {0} /\ DOMAIN q = 1..Len(q) /\ DOMAIN r = 1..(Len(q) - 1)
        /\ \A i \in 1..(Len(q) - 1) : r[i] = q[i + 1] /\ i + 1 \in 1..Len(q)
        /\ Head(q) = q[1] /\ 1 \in DOMAIN q
    BY TailElements
  <1> HIDE DEF r
  <1>2. \A i \in DOMAIN r : IsDatagram(r[i]) => r[i].number \in 1..(top - 1)
    BY <1>1 DEF DispatchInv
  <1>3. \A i \in DOMAIN r : r[i].fn = "heartbeat" => r[i].sender \in Senders
    BY <1>1 DEF DispatchInv
  <1>4. \A i, j \in DOMAIN r :
          i < j /\ IsDatagram(r[i]) /\ IsDatagram(r[j]) => r[i].number < r[j].number
    <2> SUFFICES ASSUME NEW i \in DOMAIN r, NEW j \in DOMAIN r, i < j,
                        IsDatagram(r[i]), IsDatagram(r[j])
                 PROVE  r[i].number < r[j].number
      OBVIOUS
    <2>1. i + 1 \in DOMAIN q /\ j + 1 \in DOMAIN q /\ i + 1 < j + 1
      BY <1>1
    <2>2. r[i] = q[i + 1] /\ r[j] = q[j + 1]
      BY <1>1
    <2> QED BY <2>1, <2>2 DEF DispatchInv
  <1>5. DispatchInv(r, top)
    BY <1>2, <1>3, <1>4 DEF DispatchInv
  <1>6. ASSUME NEW n \in Nat, Before(n, q, top) PROVE Before(n, r, top)
    BY <1>1, <1>6 DEF Before
  <1>7. ASSUME IsDatagram(Head(q))
        PROVE  /\ Head(q).number \in 1..(top - 1)
               /\ Before(Head(q).number, r, top)
               /\ \A n \in Nat : Before(n, q, top) => n < Head(q).number
    <2>1. Head(q).number \in 1..(top - 1)
      BY <1>1, <1>7 DEF DispatchInv
    <2>2. \A i \in DOMAIN r : IsDatagram(r[i]) => Head(q).number < r[i].number
      <3> SUFFICES ASSUME NEW i \in DOMAIN r, IsDatagram(r[i])
                   PROVE  Head(q).number < r[i].number
        OBVIOUS
      <3>1. i + 1 \in DOMAIN q /\ 1 < i + 1 /\ r[i] = q[i + 1]
        BY <1>1
      <3> QED BY <1>1, <1>7, <3>1 DEF DispatchInv
    <2>3. \A n \in Nat : Before(n, q, top) => n < Head(q).number
      BY <1>1, <1>7 DEF Before
    <2> QED BY <2>1, <2>2, <2>3 DEF Before
  <1>8. Head(q).fn = "heartbeat" => Head(q).sender \in Senders
    BY <1>1 DEF DispatchInv
  <1> QED BY <1>5, <1>6, <1>7, <1>8 DEF r

\* A function that is no datagram changes no order.
LEMMA BeforeClosed ==
    ASSUME NEW q \in Seq(Functions), NEW f \in Functions, ~IsDatagram(f),
           NEW top \in Nat, DispatchInv(q, top)
    PROVE  /\ DispatchInv(Append(q, f), top)
           /\ \A n \in Nat : Before(n, q, top) => Before(n, Append(q, f), top)
  <1> DEFINE r == Append(q, f)
  <1>1. /\ DOMAIN q = 1..Len(q) /\ DOMAIN r = 1..(Len(q) + 1) /\ Len(q) \in Nat
        /\ \A i \in 1..Len(q) : r[i] = q[i]
        /\ r[Len(q) + 1] = f
    BY AppendElements
  <1>2. \A i \in DOMAIN r : i \in 1..Len(q) \/ i = Len(q) + 1
    BY <1>1
  <1>3. \A i \in DOMAIN r : IsDatagram(r[i]) => i \in DOMAIN q /\ r[i] = q[i]
    BY <1>1, <1>2
  <1> HIDE DEF r
  <1>4. \A i \in DOMAIN r : r[i].fn = "heartbeat" => IsDatagram(r[i])
    BY DEF IsDatagram
  <1>5. DispatchInv(r, top)
    BY <1>3, <1>4 DEF DispatchInv
  <1>6. ASSUME NEW n \in Nat, Before(n, q, top) PROVE Before(n, r, top)
    BY <1>3, <1>6 DEF Before
  <1> QED BY <1>5, <1>6 DEF r

\* What each step does to the datagrams that are still to be parsed.
LEMMA HorizonStep ==
    ASSUME ReceiverInv
    PROVE  /\ Horizon \in Nat
           /\ Close \/ AsyncConnect \/ ConnectFails \/ PostClose \/ PostConnect
              \/ ReceiveFails \/ Dispatcher \/ UNCHANGED vars \/ Connected
                => Horizon' = Horizon /\ read' = read /\ receive_buffer' = receive_buffer
                   /\ (Arrived(ioq') <=> Arrived(ioq))
           /\ ReceiveHandler
                => /\ Horizon' = Len(read) + 1 /\ read' = read /\ receive_buffer' = receive_buffer
                   /\ ~Arrived(ioq')
                   /\ Horizon = IF Head(ioq).result = "ok" THEN Len(read) ELSE Len(read) + 1
           /\ \A t \in Types, s \in Senders \union {Unnamed} :
                 ReceiveCompletes(t, s)
                   => /\ Horizon' = Horizon
                      /\ ~Arrived(ioq) /\ Arrived(ioq')
                      /\ Len(read') = Len(read) + 1
                      /\ receive_buffer'.number = Len(read')
  <1>i. TypeOK /\ QueueInv(ioq) /\ LoopInv /\ Len(read) \in Nat
    BY DEF ReceiverInv, TypeOK
  <1>1. Horizon \in Nat
    BY <1>i DEF Horizon, ReceiverInv, OrderInv
  <1>2. ASSUME Close \/ AsyncConnect \/ ConnectFails \/ PostClose \/ PostConnect
              \/ ReceiveFails \/ Dispatcher \/ UNCHANGED vars \/ Connected
        PROVE  Horizon' = Horizon /\ read' = read /\ receive_buffer' = receive_buffer
                   /\ (Arrived(ioq') <=> Arrived(ioq))
    <2>1. read' = read /\ receive_buffer' = receive_buffer
      BY <1>2 DEF Close, AsyncConnect, ConnectFails, PostClose, PostConnect, ReceiveFails,
           Dispatcher, Closed, Heartbeat, Received, DeadlinePasses, Connected, vars,
           historyVars, bufferVars
    <2>2. Arrived(ioq') <=> Arrived(ioq)
      BY <1>i, <1>2, ArrivedStep
    <2> QED BY <2>1, <2>2 DEF Horizon
  <1>3. ASSUME ReceiveHandler
        PROVE  /\ Horizon' = Len(read) + 1 /\ read' = read /\ receive_buffer' = receive_buffer
               /\ ~Arrived(ioq')
               /\ Horizon = IF Head(ioq).result = "ok" THEN Len(read) ELSE Len(read) + 1
    <2>1. read' = read /\ receive_buffer' = receive_buffer
      BY <1>3 DEF ReceiveHandler, historyVars
    <2>2. ~Arrived(ioq') /\ (Arrived(ioq) <=> Head(ioq).result = "ok")
      BY <1>i, <1>3, ArrivedStep
    <2> QED BY <2>1, <2>2 DEF Horizon
  <1>4. ASSUME NEW t \in Types, NEW s \in Senders \union {Unnamed}, ReceiveCompletes(t, s)
        PROVE  /\ Horizon' = Horizon
               /\ ~Arrived(ioq) /\ Arrived(ioq')
               /\ Len(read') = Len(read) + 1
               /\ receive_buffer'.number = Len(read')
    <2>1. read' = Append(read, connections) /\ receive_buffer'.number = Len(read')
      BY <1>4 DEF ReceiveCompletes
    <2>2. Len(read') = Len(read) + 1
      BY <1>i, <2>1 DEF TypeOK
    <2>3. ~Arrived(ioq) /\ Arrived(ioq')
      BY <1>i, <1>4, ArrivedStep
    <2> QED BY <2>1, <2>2, <2>3 DEF Horizon
  <1> QED BY <1>1, <1>2, <1>3, <1>4

\* The state at the start.
LEMMA OrderInit == Init => OrderInv
  <1> SUFFICES ASSUME Init PROVE OrderInv OBVIOUS
  <1>1. /\ DOMAIN ioq = {} /\ DOMAIN dq = {} /\ DOMAIN received = {} /\ Len(read) = 0
        /\ receive_buffer.number = 0 /\ \A s \in Senders : latest[s] = 0
    BY DEF Init
  <1>2. ~Arrived(ioq) /\ Horizon = 1
    BY <1>1 DEF Arrived, Horizon
  <1> QED BY <1>1, <1>2 DEF OrderInv, DispatchInv, Before, ReceivedInOrder

\* A step that neither reads nor parses keeps the order, if it takes nothing
\* from the dispatcher or only what is not acted upon.
LEMMA OrderKept ==
    ASSUME ReceiverInv, Horizon' = Horizon, read' = read, receive_buffer' = receive_buffer,
           Arrived(ioq') <=> Arrived(ioq),
           DispatchInv(dq', Horizon),
           \A n \in Nat : Before(n, dq, Horizon) => Before(n, dq', Horizon),
           UNCHANGED <<received, latest>>
    PROVE  OrderInv'
  <1>1. /\ \A k \in DOMAIN received : received[k] \in Nat
        /\ \A s \in Senders : latest[s] \in Nat
    BY ReceiverBounds DEF ReceiverInv, TypeOK, Numbers
  <1>2. ReceivedInOrder'
    BY DEF ReceiverInv, OrderInv, ReceivedInOrder
  <1>3. \A k \in DOMAIN received : Before(received[k], dq', Horizon)
    BY <1>1 DEF ReceiverInv, OrderInv
  <1>4. \A s \in Senders : Before(latest[s], dq', Horizon)
    BY <1>1 DEF ReceiverInv, OrderInv
  <1>5. receive_buffer'.number = Len(read') /\ (Arrived(ioq') => Len(read') > 0)
    BY DEF ReceiverInv, OrderInv
  <1>6. /\ DispatchInv(dq', Horizon')
        /\ \A k \in DOMAIN received' : Before(received'[k], dq', Horizon')
        /\ \A s \in Senders : Before(latest'[s], dq', Horizon')
    BY <1>3, <1>4
  <1> QED BY <1>2, <1>5, <1>6 DEF OrderInv

\* Every step keeps the order: receive_buffer_ holds one datagram at a time, and
\* each of the queues it goes through hands on the oldest first.
LEMMA OrderStep ==
    ASSUME ReceiverInv, [Next]_vars
    PROVE  OrderInv'
  <1>i. /\ TypeOK /\ QueueInv(ioq) /\ LoopInv /\ OrderInv
        /\ DispatchInv(dq, Horizon) /\ dq \in Seq(Functions) /\ Len(read) \in Nat /\ Horizon \in Nat
    BY HorizonStep DEF ReceiverInv, OrderInv, TypeOK
  <1>r. /\ \A k \in DOMAIN received : received[k] \in Nat
        /\ \A s \in Senders : latest[s] \in Nat
        /\ received \in Seq(Numbers) /\ \A n \in Numbers : n \in Nat
    BY ReceiverBounds DEF ReceiverInv, TypeOK, Numbers
  <1>t. dq # <<>> =>
          /\ Tail(dq) \in Seq(Functions) /\ DispatchInv(Tail(dq), Horizon)
          /\ \A n \in Nat : Before(n, dq, Horizon) => Before(n, Tail(dq), Horizon)
    BY <1>i, BeforeTail, TailElements
  <1>1. ASSUME Close PROVE OrderInv'
    <2>1. Function("closed", 0, Unnamed, 0) \in Functions
          /\ ~IsDatagram(Function("closed", 0, Unnamed, 0))
      BY ReceiverBounds DEF Function, Functions, Numbers, IsDatagram
    <2>2. /\ DispatchInv(Append(dq, Function("closed", 0, Unnamed, 0)), Horizon)
          /\ \A n \in Nat : Before(n, dq, Horizon)
               => Before(n, Append(dq, Function("closed", 0, Unnamed, 0)), Horizon)
      BY <1>i, <2>1, BeforeClosed
    <2>3. dq' = Append(dq, Function("closed", 0, Unnamed, 0)) \/ dq' = dq
      BY <1>1 DEF Close
    <2>4. /\ DispatchInv(dq', Horizon)
          /\ \A n \in Nat : Before(n, dq, Horizon) => Before(n, dq', Horizon)
      BY <1>i, <2>2, <2>3
    <2>5. UNCHANGED <<received, latest>>
      BY <1>1 DEF Close, timerVars, historyVars
    <2> QED BY <1>1, <2>4, <2>5, HorizonStep, OrderKept
  <1>2. ASSUME AsyncConnect \/ ConnectFails \/ Connected \/ PostClose \/ PostConnect
               \/ ReceiveFails \/ UNCHANGED vars
        PROVE  OrderInv'
    <2>1. UNCHANGED <<received, latest, dq>>
      BY <1>2 DEF AsyncConnect, ConnectFails, Connected, PostClose, PostConnect, ReceiveFails,
           vars, timerVars, historyVars
    <2> QED BY <1>2, <1>i, <2>1, HorizonStep, OrderKept
  <1>3. ASSUME ReceiveHandler PROVE OrderInv'
    <2>1. UNCHANGED <<received, latest>>
      BY <1>3 DEF ReceiveHandler, timerVars, historyVars
    <2>h. /\ Horizon' = Len(read) + 1 /\ read' = read /\ receive_buffer' = receive_buffer
          /\ ~Arrived(ioq')
          /\ Horizon = IF Head(ioq).result = "ok" THEN Len(read) ELSE Len(read) + 1
      BY <1>3, HorizonStep
    <2>2. /\ DispatchInv(dq', Horizon')
          /\ \A n \in Nat : Before(n, dq, Horizon) => Before(n, dq', Horizon')
      <3>1. CASE dq' = dq
        <4>1. DispatchInv(dq, Horizon')
          BY <1>i, <2>h DEF DispatchInv
        <4>2. \A n \in Nat : Before(n, dq, Horizon) => Before(n, dq, Horizon')
          BY <1>i, <2>h DEF Before
        <4> QED BY <3>1, <4>1, <4>2
      <3>2. CASE dq' # dq
        <4>1. PICK f \in Functions :
                /\ Head(ioq).result = "ok"
                /\ dq' = Append(dq, f)
                /\ f.number = Len(read) /\ Len(read) > 0
                /\ f.fn = "heartbeat" => f.sender \in Senders
          BY <1>3, <1>i, <3>2, ReceiveDispatches
        <4>2. Horizon = Len(read)
          BY <2>h, <4>1
        <4>3. /\ DispatchInv(Append(dq, f), Horizon + 1)
              /\ \A n \in Nat : Before(n, dq, Horizon) => Before(n, Append(dq, f), Horizon + 1)
          BY <1>i, <4>1, <4>2, BeforeAppend
        <4> QED BY <2>h, <4>1, <4>2, <4>3
      <3> QED BY <3>1, <3>2
    <2>3. /\ \A k \in DOMAIN received' : Before(received'[k], dq', Horizon')
          /\ \A s \in Senders : Before(latest'[s], dq', Horizon')
      BY <1>i, <1>r, <2>1, <2>2 DEF OrderInv
    <2>4. ReceivedInOrder'
      BY <1>i, <2>1 DEF OrderInv, ReceivedInOrder
    <2>5. receive_buffer'.number = Len(read')
      BY <1>i, <2>h DEF OrderInv
    <2> QED BY <2>2, <2>3, <2>4, <2>5, <2>h DEF OrderInv
  <1>4. ASSUME NEW t \in Types, NEW s \in Senders \union {Unnamed}, ReceiveCompletes(t, s)
        PROVE  OrderInv'
    <2>1. UNCHANGED <<received, latest, dq>>
      BY <1>4 DEF ReceiveCompletes, timerVars
    <2>2. Horizon' = Horizon /\ Len(read') = Len(read) + 1 /\ receive_buffer'.number = Len(read')
      BY <1>4, HorizonStep
    <2>3. ReceivedInOrder'
      BY <1>i, <2>1 DEF OrderInv, ReceivedInOrder
    <2>4. /\ DispatchInv(dq', Horizon')
          /\ \A k \in DOMAIN received' : Before(received'[k], dq', Horizon')
          /\ \A x \in Senders : Before(latest'[x], dq', Horizon')
      BY <1>i, <2>1, <2>2 DEF OrderInv
    <2>5. Len(read') > 0
      BY <1>i, <2>2
    <2> QED BY <2>2, <2>3, <2>4, <2>5 DEF OrderInv
  <1>5. ASSUME Closed PROVE OrderInv'
    <2>1. dq # <<>> /\ dq' = Tail(dq) /\ UNCHANGED <<received, latest>> /\ Dispatcher
      BY <1>5 DEF Closed, Dispatches, historyVars, Dispatcher
    <2> QED BY <1>t, <2>1, HorizonStep, OrderKept
  <1>6. ASSUME \E f \in delayed : DeadlinePasses(f) PROVE OrderInv'
    <2>1. UNCHANGED <<received, latest, dq>> /\ Dispatcher
      BY <1>6 DEF DeadlinePasses, historyVars, Dispatcher
    <2> QED BY <1>i, <2>1, HorizonStep, OrderKept
  <1>d. ASSUME Dispatcher, dq # <<>>, dq' = Tail(dq)
        PROVE  /\ Horizon' = Horizon /\ DispatchInv(dq', Horizon')
               /\ receive_buffer'.number = Len(read') /\ (Arrived(ioq') => Len(read') > 0)
               /\ \A n \in Nat : Before(n, dq, Horizon) => Before(n, dq', Horizon')
    <2>1. Horizon' = Horizon /\ read' = read /\ receive_buffer' = receive_buffer
          /\ (Arrived(ioq') <=> Arrived(ioq))
      BY <1>d, HorizonStep
    <2> QED BY <1>d, <1>i, <1>t, <2>1 DEF OrderInv
  <1>7. ASSUME Heartbeat PROVE OrderInv'
    <2>1. /\ dq # <<>> /\ Head(dq).fn = "heartbeat" /\ dq' = Tail(dq) /\ received' = received
          /\ Dispatcher
      BY <1>7 DEF Heartbeat, Dispatches, historyVars, Dispatcher
    <2>2. /\ Head(dq).sender \in Senders /\ Head(dq).number \in Nat
          /\ Before(Head(dq).number, Tail(dq), Horizon)
      BY <1>i, <2>1, BeforeTail DEF IsDatagram
    <2>3. latest' = latest \/ latest' = [latest EXCEPT ![Head(dq).sender] = Head(dq).number]
      BY <1>7 DEF Heartbeat, SetTimer
    <2>4. latest \in [Senders -> Numbers]
      BY <1>i DEF TypeOK
    <2>5. \A s \in Senders : Before(latest'[s], dq', Horizon')
      <3> SUFFICES ASSUME NEW s \in Senders PROVE Before(latest'[s], dq', Horizon')
        OBVIOUS
      <3>1. latest'[s] = latest[s] \/ latest'[s] = Head(dq).number
        BY <2>2, <2>3, <2>4
      <3> QED BY <1>i, <1>r, <1>d, <2>1, <2>2, <3>1 DEF OrderInv
    <2>6. \A k \in DOMAIN received' : Before(received'[k], dq', Horizon')
      BY <1>i, <1>r, <1>d, <2>1 DEF OrderInv
    <2>7. ReceivedInOrder'
      BY <1>i, <2>1 DEF OrderInv, ReceivedInOrder
    <2> QED BY <1>d, <2>1, <2>5, <2>6, <2>7 DEF OrderInv
  <1>8. ASSUME Received PROVE OrderInv'
    <2>1. /\ dq # <<>> /\ Head(dq).fn = "received" /\ dq' = Tail(dq)
          /\ latest' = latest /\ received' = Append(received, Head(dq).number)
          /\ Dispatcher
      BY <1>8 DEF Received, Dispatches, timerVars, Dispatcher
    <2> DEFINE n == Head(dq).number
    <2>2. /\ n \in 1..(Horizon - 1)
          /\ Before(n, Tail(dq), Horizon)
          /\ \A m \in Nat : Before(m, dq, Horizon) => m < n
      BY <1>i, <2>1, BeforeTail DEF IsDatagram
    <2>3. n \in Numbers
      <3>1. Horizon - 1 <= MaxDatagrams
        BY <1>i, ReceiverBounds DEF Horizon, TypeOK
      <3> QED BY <1>i, <2>2, <3>1, ReceiverBounds DEF Numbers
    <2> HIDE DEF n
    <2>4. /\ DOMAIN received = 1..Len(received) /\ Len(received) \in Nat
          /\ DOMAIN received' = 1..(Len(received) + 1)
          /\ \A k \in 1..Len(received) : received'[k] = received[k]
          /\ received'[Len(received) + 1] = n
      BY <1>r, <2>1, <2>3, AppendElements DEF n
    <2>5. \A k \in DOMAIN received' : k \in 1..Len(received) \/ k = Len(received) + 1
      BY <2>4
    <2>6. \A k \in DOMAIN received' : Before(received'[k], dq', Horizon')
      <3> SUFFICES ASSUME NEW k \in DOMAIN received' PROVE Before(received'[k], dq', Horizon')
        OBVIOUS
      <3>1. CASE k \in 1..Len(received)
        BY <1>i, <1>r, <1>d, <2>1, <2>4, <3>1 DEF OrderInv
      <3>2. CASE k = Len(received) + 1
        BY <1>d, <2>1, <2>2, <2>4, <3>2
      <3> QED BY <2>5, <3>1, <3>2
    <2>7. \A s \in Senders : Before(latest'[s], dq', Horizon')
      BY <1>i, <1>r, <1>d, <2>1 DEF OrderInv
    <2>8. ReceivedInOrder'
      <3> SUFFICES ASSUME NEW i \in DOMAIN received', NEW j \in DOMAIN received', i < j
                   PROVE  received'[i] < received'[j]
        BY DEF ReceivedInOrder
      <3>1. i \in 1..Len(received) /\ received'[i] = received[i]
        BY <2>4, <2>5
      <3>2. CASE j \in 1..Len(received)
        BY <1>i, <2>4, <3>1, <3>2 DEF OrderInv, ReceivedInOrder
      <3>3. CASE j = Len(received) + 1
        BY <1>i, <1>r, <2>2, <2>4, <3>1, <3>3 DEF OrderInv
      <3> QED BY <2>5, <3>2, <3>3
    <2> QED BY <1>d, <2>1, <2>6, <2>7, <2>8 DEF OrderInv
  <1> QED BY <1>1, <1>2, <1>3, <1>4, <1>5, <1>6, <1>7, <1>8 DEF Next, IoThread, Kernel, Dispatcher

-------------------------------------------------------------------------------
(* Heartbeats and their deadlines *)

\* The state at the start.
LEMMA HeardInit == Init => HeardInv /\ ReportInv
  <1> SUFFICES ASSUME Init PROVE HeardInv /\ ReportInv OBVIOUS
  <1>1. DOMAIN dq = {} /\ DOMAIN timers = {} /\ ~socket_ready
    BY DEF Init
  <1>2. HeardInv
    BY <1>1 DEF HeardInv, HeardOnThisConnection
  <1>3. \A s \in Senders : reported[s] = 0 /\ latest[s] = 0
    BY DEF Init
  <1> QED BY <1>1, <1>2, <1>3 DEF ReportInv

\* Every step keeps apart what was read from different connections.
LEMMA HeardStep ==
    ASSUME ReceiverInv, [Next]_vars
    PROVE  HeardInv'
  <1>i. /\ TypeOK /\ QueueInv(ioq) /\ LoopInv /\ OrderInv /\ HeardInv
        /\ DispatchInv(dq, Horizon) /\ dq \in Seq(Functions) /\ Len(read) \in Nat
        /\ generation \in Nat /\ connections \in Nat
    BY DEF ReceiverInv, OrderInv, TypeOK
  <1>g. /\ \A i \in DOMAIN dq : dq[i].generation \in Nat
        /\ \A s \in DOMAIN timers : timers[s].generation \in Nat
    <2>1. \A i \in DOMAIN dq : dq[i] \in Functions
      BY <1>i
    <2> QED BY <1>i, <2>1 DEF Functions, TypeOK
  <1>d. \A i \in DOMAIN dq : dq[i].fn = "heartbeat" => dq[i].number \in 1..Len(read)
    BY <1>i DEF DispatchInv, IsDatagram, Horizon
  <1>t. dq # <<>> =>
          /\ \A i \in DOMAIN Tail(dq) : i + 1 \in DOMAIN dq /\ Tail(dq)[i] = dq[i + 1]
          /\ 1 \in DOMAIN dq /\ Head(dq) = dq[1]
    BY <1>i, TailElements
  \* A function is taken and the timers lose nothing they need.
  <1>w. ASSUME dq # <<>>, dq' = Tail(dq), Dispatcher, UNCHANGED <<socket_ready, generation, connections>>,
               \A s \in DOMAIN timers' : /\ timers'[s].generation <= generation
                                         /\ timers'[s].number \in 1..Len(read)
                                         /\ socket_ready /\ timers'[s].generation = generation
                                              => read[timers'[s].number] = connections
        PROVE  HeardInv'
    <2>1. read' = read /\ (Arrived(ioq') <=> Arrived(ioq))
      BY <1>w, HorizonStep
    <2>2. HeardOnThisConnection'
      BY <1>w, <2>1 DEF HeardOnThisConnection
    <2> QED BY <1>i, <1>t, <1>w, <2>1, <2>2 DEF HeardInv
  <1>x. \A s \in DOMAIN timers : /\ timers[s].generation <= generation
                                 /\ timers[s].number \in 1..Len(read)
                                 /\ socket_ready /\ timers[s].generation = generation
                                      => read[timers[s].number] = connections
    BY <1>i DEF HeardInv, HeardOnThisConnection
  \* The socket may be lost and nothing else changes.
  <1>u. ASSUME UNCHANGED <<dq, timers, generation, read, connections>>,
               socket_ready' => socket_ready, Arrived(ioq') => Arrived(ioq)
        PROVE  HeardInv'
    BY <1>i, <1>u DEF HeardInv, HeardOnThisConnection
  <1>1. ASSUME AsyncConnect \/ ConnectFails \/ PostClose \/ PostConnect \/ ReceiveFails
               \/ UNCHANGED vars
        PROVE  HeardInv'
    <2>1. UNCHANGED <<dq, timers, generation, connections>>
      BY <1>1 DEF AsyncConnect, ConnectFails, PostClose, PostConnect, ReceiveFails,
           vars, timerVars, historyVars
    <2>2. socket_ready' => socket_ready
      BY <1>1 DEF AsyncConnect, ConnectFails, PostClose, PostConnect, ReceiveFails,
           vars, socketVars
    <2> QED BY <1>1, <1>u, <2>1, <2>2, HorizonStep
  <1>2. ASSUME Close PROVE HeardInv'
    <2>1. UNCHANGED <<timers, connections>> /\ read' = read /\ (Arrived(ioq') <=> Arrived(ioq))
      BY <1>2, HorizonStep DEF Close, timerVars, historyVars
    <2>2. CASE socket /\ socket_ready
      <3> DEFINE f == Function("closed", 0, Unnamed, 0)
      <3>1. socket_ready' = FALSE /\ generation' = generation + 1 /\ dq' = Append(dq, f)
        BY <1>2, <2>2 DEF Close, NextGeneration
      <3>2. f \in Functions /\ f.generation = 0
        BY ReceiverBounds DEF Function, Functions, Numbers
      <3> HIDE DEF f
      <3>3. /\ DOMAIN dq' = 1..(Len(dq) + 1) /\ Len(dq) \in Nat /\ DOMAIN dq = 1..Len(dq)
            /\ \A i \in 1..Len(dq) : dq'[i] = dq[i]
            /\ dq'[Len(dq) + 1] = f
        BY <1>i, <3>1, <3>2, AppendElements
      <3>4. \A i \in DOMAIN dq' : i \in 1..Len(dq) \/ i = Len(dq) + 1
        BY <3>3
      <3>5. \A i \in DOMAIN dq' : dq'[i].generation <= generation'
        BY <1>i, <1>g, <3>1, <3>2, <3>3, <3>4 DEF HeardInv
      <3>6. \A s \in DOMAIN timers' : /\ timers'[s].generation <= generation'
                                      /\ timers'[s].number \in 1..Len(read')
        BY <1>i, <1>g, <1>x, <2>1, <3>1
      <3>7. HeardOnThisConnection'
        BY <3>1 DEF HeardOnThisConnection
      <3> QED BY <3>1, <3>5, <3>6, <3>7 DEF HeardInv
    <2>3. CASE ~(socket /\ socket_ready)
      <3>1. UNCHANGED <<socket_ready, generation, dq>>
        BY <1>2, <2>3 DEF Close
      <3> QED BY <1>u, <2>1, <3>1
    <2> QED BY <2>2, <2>3
  <1>3. ASSUME Connected PROVE HeardInv'
    <2>1. UNCHANGED <<timers, dq, read>> /\ generation' = generation + 1
      BY <1>3 DEF Connected, timerVars, NextGeneration
    <2>2. ~Arrived(ioq')
      BY <1>3, <1>i, ArrivedStep
    <2>3. \A i \in DOMAIN dq' : dq'[i].generation <= generation' /\ dq'[i].generation # generation'
      BY <1>i, <1>g, <2>1 DEF HeardInv
    <2>4. \A s \in DOMAIN timers' : /\ timers'[s].generation <= generation'
                                    /\ timers'[s].generation # generation'
                                    /\ timers'[s].number \in 1..Len(read')
      BY <1>i, <1>g, <1>x, <2>1
    <2> QED BY <2>2, <2>3, <2>4 DEF HeardInv, HeardOnThisConnection
  <1>4. ASSUME ReceiveHandler PROVE HeardInv'
    <2>1. UNCHANGED <<timers, generation, read, connections, socket_ready>>
      BY <1>4 DEF ReceiveHandler, timerVars, historyVars, socketVars
    <2>2. ~Arrived(ioq')
      BY <1>4, HorizonStep
    <2>3. CASE dq' = dq
      BY <1>u, <2>1, <2>2, <2>3
    <2>4. CASE dq' # dq
      <3>1. PICK f \in Functions :
                /\ Head(ioq).result = "ok"
                /\ dq' = Append(dq, f)
                /\ f.number = Len(read)
                /\ f.generation \in {0, generation}
        BY <1>4, <1>i, <2>4, ReceiveDispatches
      <3>2. Arrived(ioq)
        BY <1>4, <1>i, <3>1, ArrivedStep
      <3>3. /\ DOMAIN dq' = 1..(Len(dq) + 1) /\ Len(dq) \in Nat /\ DOMAIN dq = 1..Len(dq)
            /\ \A i \in 1..Len(dq) : dq'[i] = dq[i]
            /\ dq'[Len(dq) + 1] = f
        BY <1>i, <3>1, AppendElements
      <3>4. \A i \in DOMAIN dq' : i \in 1..Len(dq) \/ i = Len(dq) + 1
        BY <3>3
      <3>5. \A i \in DOMAIN dq' : dq'[i].generation <= generation'
        BY <1>i, <1>g, <2>1, <3>1, <3>3, <3>4 DEF HeardInv
      <3>6. socket_ready' => \A i \in DOMAIN dq' :
              dq'[i].fn = "heartbeat" /\ dq'[i].generation = generation'
                => read'[dq'[i].number] = connections'
        BY <1>i, <2>1, <3>1, <3>2, <3>3, <3>4 DEF HeardInv
      <3>7. HeardOnThisConnection'
        BY <1>i, <2>1 DEF HeardInv, HeardOnThisConnection
      <3>8. \A s \in DOMAIN timers' : /\ timers'[s].generation <= generation'
                                      /\ timers'[s].number \in 1..Len(read')
        BY <1>x, <2>1
      <3> QED BY <2>2, <3>5, <3>6, <3>7, <3>8 DEF HeardInv
    <2> QED BY <2>3, <2>4
  <1>5. ASSUME NEW t \in Types, NEW x \in Senders \union {Unnamed}, ReceiveCompletes(t, x)
        PROVE  HeardInv'
    <2>1. UNCHANGED <<timers, dq, generation, connections, socket_ready>>
          /\ read' = Append(read, connections) /\ receiving > 0
      BY <1>5 DEF ReceiveCompletes, timerVars, socketVars
    <2>2. connections \in Nat /\ read \in Seq(Nat)
      BY <1>i, <2>1 DEF LoopInv, TypeOK
    <2>3. /\ Len(read') = Len(read) + 1 /\ read'[Len(read) + 1] = connections
          /\ \A i \in 1..Len(read) : read'[i] = read[i]
      BY <2>1, <2>2, AppendElements
    <2>4. \A s \in DOMAIN timers : timers[s].number \in 1..Len(read)
      BY <1>i, <1>g, <1>x
    <2>5. \A s \in DOMAIN timers' : /\ timers'[s].generation <= generation'
                                    /\ timers'[s].number \in 1..Len(read')
      BY <1>i, <1>g, <1>x, <2>1, <2>3
    <2>6. HeardOnThisConnection'
      BY <1>x, <2>1, <2>3, <2>4 DEF HeardOnThisConnection
    <2>7. socket_ready' => \A i \in DOMAIN dq' :
              dq'[i].fn = "heartbeat" /\ dq'[i].generation = generation'
                => read'[dq'[i].number] = connections'
      BY <1>i, <1>d, <2>1, <2>3 DEF HeardInv
    <2> QED BY <1>i, <2>1, <2>3, <2>5, <2>6, <2>7 DEF HeardInv
  <1>6. ASSUME Closed PROVE HeardInv'
    <2>1. dq # <<>> /\ dq' = Tail(dq) /\ Dispatcher /\ UNCHANGED <<socket_ready, generation, connections>>
          /\ DOMAIN timers' = {}
      BY <1>6 DEF Closed, Dispatches, Dispatcher, socketVars, historyVars
    <2> QED BY <1>w, <2>1
  <1>7. ASSUME Received PROVE HeardInv'
    <2>1. dq # <<>> /\ dq' = Tail(dq) /\ Dispatcher /\ UNCHANGED <<socket_ready, generation, connections>>
          /\ timers' = timers
      BY <1>7 DEF Received, Dispatches, Dispatcher, socketVars, timerVars
    <2> QED BY <1>w, <1>x, <2>1
  <1>8. ASSUME Heartbeat PROVE HeardInv'
    <2>1. dq # <<>> /\ dq' = Tail(dq) /\ Dispatcher /\ UNCHANGED <<socket_ready, generation, connections>>
          /\ Head(dq).fn = "heartbeat"
      BY <1>8 DEF Heartbeat, Dispatches, Dispatcher, socketVars, historyVars
    <2>2. CASE Head(dq).generation # generation
      <3>1. timers' = timers
        BY <1>8, <2>2 DEF Heartbeat
      <3> QED BY <1>w, <1>x, <2>1, <3>1
    <2>3. CASE Head(dq).generation = generation
      <3> DEFINE s == Head(dq).sender
                 n == Head(dq).number
      <3>1. SetTimer(s, generation, n)
        BY <1>8, <2>3 DEF Heartbeat
      <3>2. n \in 1..Len(read) /\ (socket_ready => read[n] = connections)
        BY <1>d, <1>i, <1>t, <2>1, <2>3 DEF HeardInv
      <3> HIDE DEF s, n
      <3>3. DOMAIN timers' = DOMAIN timers \union {s}
        BY <3>1 DEF SetTimer
      <3>4. \A x \in DOMAIN timers : x # s => timers'[x] = timers[x]
        BY <3>1 DEF SetTimer
      <3>5. timers'[s].number = n
            /\ timers'[s].generation = IF s \in DOMAIN timers THEN timers[s].generation ELSE generation
        BY <3>1 DEF SetTimer
      <3>6. timers'[s].generation <= generation
        BY <1>i, <1>x, <3>5
      <3>7. \A x \in DOMAIN timers' : x = s \/ x \in DOMAIN timers
        BY <3>3
      <3>8. \A x \in DOMAIN timers' : /\ timers'[x].generation <= generation
                                      /\ timers'[x].number \in 1..Len(read)
                                      /\ socket_ready /\ timers'[x].generation = generation
                                           => read[timers'[x].number] = connections
        BY <1>x, <3>2, <3>4, <3>5, <3>6, <3>7
      <3> QED BY <1>w, <2>1, <3>8
    <2> QED BY <2>2, <2>3
  <1>9. ASSUME NEW f \in delayed, DeadlinePasses(f) PROVE HeardInv'
    <2>1. UNCHANGED <<dq, generation, connections, socket_ready>> /\ Dispatcher
      BY <1>9 DEF DeadlinePasses, socketVars, historyVars, Dispatcher
    <2>2. read' = read /\ (Arrived(ioq') <=> Arrived(ioq))
      BY <2>1, HorizonStep
    <2>3. \A s \in DOMAIN timers' : s \in DOMAIN timers /\ timers'[s] = timers[s]
      BY <1>9 DEF DeadlinePasses
    <2> QED BY <1>i, <1>x, <2>1, <2>2, <2>3 DEF HeardInv, HeardOnThisConnection
  <1> QED BY <1>1, <1>2, <1>3, <1>4, <1>5, <1>6, <1>7, <1>8, <1>9
      DEF Next, IoThread, Kernel, Dispatcher

\* A report is of the newest heartbeat, for the first time, and ends its timer.
LEMMA ReportStep ==
    ASSUME ReceiverInv, [Next]_vars
    PROVE  /\ ReportInv'
           /\ \A s \in Senders : reported'[s] # reported[s]
                => reported'[s] = latest[s] /\ reported[s] < latest[s]
  <1> DEFINE Once == \A s \in Senders : reported'[s] # reported[s]
                        => reported'[s] = latest[s] /\ reported[s] < latest[s]
  <1>i. /\ TypeOK /\ OrderInv /\ ReportInv
        /\ DispatchInv(dq, Horizon) /\ dq \in Seq(Functions) /\ Horizon \in Nat
        /\ latest \in [Senders -> Numbers] /\ reported \in [Senders -> Numbers]
        /\ DOMAIN timers \subseteq Senders
    BY HorizonStep DEF ReceiverInv, OrderInv, TypeOK
  <1>u. ASSUME UNCHANGED <<latest, reported>>,
               \A s \in DOMAIN timers' : s \in DOMAIN timers /\ timers'[s] = timers[s]
        PROVE  ReportInv' /\ Once
    BY <1>u, <1>i DEF ReportInv
  <1>1. ASSUME ~Heartbeat, ~(\E f \in delayed : DeadlinePasses(f)) PROVE ReportInv' /\ Once
    <2>1. UNCHANGED <<latest, reported>>
      BY <1>1 DEF Next, IoThread, Kernel, Dispatcher, Close, AsyncConnect, ConnectFails, Connected,
           ReceiveHandler, ReceiveCompletes, ReceiveFails, Closed, Received, PostClose, PostConnect,
           vars, timerVars
    <2>2. timers' = timers \/ DOMAIN timers' = {}
      BY <1>1 DEF Next, IoThread, Kernel, Dispatcher, Close, AsyncConnect, ConnectFails, Connected,
           ReceiveHandler, ReceiveCompletes, ReceiveFails, Closed, Received, PostClose, PostConnect,
           vars, timerVars
    <2> QED BY <1>u, <2>1, <2>2
  <1>2. ASSUME Heartbeat PROVE ReportInv' /\ Once
    <2>1. dq # <<>> /\ Head(dq).fn = "heartbeat" /\ reported' = reported
      BY <1>2 DEF Heartbeat, Dispatches
    <2>2. CASE Head(dq).generation # generation
      BY <1>2, <1>u, <2>1, <2>2 DEF Heartbeat
    <2>3. CASE Head(dq).generation = generation
      <3> DEFINE s == Head(dq).sender
                 n == Head(dq).number
      <3>1. SetTimer(s, generation, n)
        BY <1>2, <2>3 DEF Heartbeat
      <3>2. s \in Senders /\ n \in Nat /\ \A m \in Nat : Before(m, dq, Horizon) => m < n
        BY <1>i, <2>1, BeforeTail DEF IsDatagram
      <3> HIDE DEF s, n
      <3>3. latest[s] \in Nat /\ Before(latest[s], dq, Horizon)
        BY <1>i, <3>2, ReceiverBounds DEF OrderInv, Numbers
      <3>4. latest[s] < n
        BY <3>2, <3>3
      <3>5. \A x \in Senders : latest'[x] = IF x = s THEN n ELSE latest[x]
        BY <1>i, <3>1, <3>2 DEF SetTimer
      <3>6. \A x \in DOMAIN timers' : x = s \/ (x \in DOMAIN timers /\ x # s /\ timers'[x] = timers[x])
        BY <3>1 DEF SetTimer
      <3>7. timers'[s].number = n
        BY <3>1 DEF SetTimer
      <3>8. \A x \in Senders : reported[x] \in Nat /\ latest[x] \in Nat
        BY <1>i, ReceiverBounds DEF Numbers
      <3>9. reported[s] < n
        BY <1>i, <3>2, <3>4, <3>8 DEF ReportInv
      <3>10. \A x \in DOMAIN timers' :
               timers'[x].number = latest'[x] /\ reported'[x] < timers'[x].number
        BY <1>i, <2>1, <3>2, <3>5, <3>6, <3>7, <3>9 DEF ReportInv
      <3>11. \A x \in Senders : reported'[x] <= latest'[x]
        BY <1>i, <2>1, <3>2, <3>5, <3>8, <3>9 DEF ReportInv
      <3> QED BY <2>1, <3>10, <3>11 DEF ReportInv
    <2> QED BY <2>2, <2>3
  <1>3. ASSUME NEW f \in delayed, DeadlinePasses(f) PROVE ReportInv' /\ Once
    <2>1. latest' = latest
      BY <1>3 DEF DeadlinePasses
    <2>2. CASE IsCurrent(f) /\ timers[f.sender].generation = generation
      <3>1. /\ f.sender \in DOMAIN timers /\ timers[f.sender].number = f.number
            /\ reported' = [reported EXCEPT ![f.sender] = f.number]
            /\ timers' = [s \in DOMAIN timers \ {f.sender} |-> timers[s]]
        BY <1>3, <2>2 DEF DeadlinePasses, IsCurrent
      <3>2. /\ f.sender \in Senders /\ f.number = latest[f.sender]
            /\ reported[f.sender] < latest[f.sender]
        BY <1>i, <3>1 DEF ReportInv
      <3>3. \A s \in Senders : reported'[s] = IF s = f.sender THEN latest[s] ELSE reported[s]
        BY <1>i, <3>1, <3>2
      <3>4. \A s \in DOMAIN timers' : s # f.sender /\ s \in DOMAIN timers /\ timers'[s] = timers[s]
        BY <3>1
      <3>5. \A s \in Senders : latest[s] \in Nat /\ reported[s] \in Nat
        BY <1>i, ReceiverBounds DEF Numbers
      <3>6. Once
        BY <3>2, <3>3
      <3>7. \A s \in DOMAIN timers' :
               timers'[s].number = latest'[s] /\ reported'[s] < timers'[s].number
        BY <1>i, <2>1, <3>3, <3>4 DEF ReportInv
      <3>8. \A s \in Senders : reported'[s] <= latest'[s]
        BY <1>i, <2>1, <3>3, <3>5 DEF ReportInv
      <3> QED BY <3>6, <3>7, <3>8 DEF ReportInv
    <2>3. CASE ~(IsCurrent(f) /\ timers[f.sender].generation = generation)
      <3>1. UNCHANGED <<timers, reported>>
        BY <1>3, <2>3 DEF DeadlinePasses
      <3> QED BY <1>u, <2>1, <3>1
    <2> QED BY <2>2, <2>3
  <1> QED BY <1>1, <1>2, <1>3

-------------------------------------------------------------------------------
(* The theorems *)

\* The invariant holds in every state.
LEMMA ReceiverInvariant ==
    ASSUME SerialConnects
    PROVE  Spec => []ReceiverInv
  <1>1. Init => ReceiverInv
    BY TypeInit, QueueInit, OrderInit, HeardInit DEF ReceiverInv
  <1>2. ReceiverInv /\ [Next]_vars => ReceiverInv'
    <2> SUFFICES ASSUME ReceiverInv, [Next]_vars PROVE ReceiverInv' OBVIOUS
    <2>1. QueueInv(ioq') /\ LoopInv'
      BY QueueStep DEF ReceiverInv
    <2>2. TypeOK'
      BY TypeStep DEF ReceiverInv
    <2> QED BY <2>1, <2>2, OrderStep, HeardStep, ReportStep DEF ReceiverInv
  <1> QED BY <1>1, <1>2, PTL DEF Spec

\* The variables of the receiver have their types in every state, whether
\* connects overlap or not.
THEOREM TypeCorrect == Spec => []TypeOK
  <1>1. TypeOK /\ [Next]_vars => TypeOK'
    BY TypeStep
  <1> QED BY TypeInit, <1>1, PTL DEF Spec

\* If connects do not overlap, async_receive runs one loop on an open socket and
\* none on a closed one, whatever is closed and connected in between
\* (base_impl.hpp:174-262).
THEOREM ReceivesOneAtATime ==
    ASSUME SerialConnects
    PROVE  Spec => []OneReceive
  <1>1. ReceiverInv => OneReceive
    <2> SUFFICES ASSUME ReceiverInv PROVE OneReceive OBVIOUS
    <2> DEFINE Q == Queued({"receive_handler"})
    <2>i. LoopInv /\ AtMostOnce(ioq, {"receive_handler"})
      BY DEF ReceiverInv, QueueInv
    <2>1. CASE ~(socket /\ socket_ready)
      BY <2>i, <2>1 DEF LoopInv, OneReceive
    <2>2. CASE socket /\ socket_ready /\ Nowhere(ioq, {"receive_handler"})
      <3>1. Q = {}
        BY <2>2 DEF Nowhere, Queued
      <3>2. receiving = 1 /\ Cardinality(Q) = 0
        BY <2>i, <2>2, <3>1, FS_EmptySet DEF LoopInv
      <3> QED BY <2>2, <3>2 DEF OneReceive
    <2>3. CASE socket /\ socket_ready /\ ~Nowhere(ioq, {"receive_handler"})
      <3>1. PICK i \in DOMAIN ioq : ioq[i].op \in {"receive_handler"}
        BY <2>3 DEF Nowhere
      <3>2. Q = {i}
        BY <2>i, <3>1 DEF AtMostOnce, Queued
      <3>3. receiving = 0
        BY <2>i, <2>3 DEF LoopInv
      <3>4. Cardinality(Q) = 1
        BY <3>2, FS_Singleton
      <3> QED BY <2>3, <3>3, <3>4 DEF OneReceive
    <2> QED BY <2>1, <2>2, <2>3
  <1> QED BY <1>1, ReceiverInvariant, PTL

\* If connects do not overlap, data is handed to the user in the order in which
\* it was read and never twice (base_impl.hpp:180-181, 240-251).
THEOREM DeliversInOrder ==
    ASSUME SerialConnects
    PROVE  Spec => []ReceivedInOrder
  <1>1. ReceiverInv => ReceivedInOrder
    BY DEF ReceiverInv, OrderInv
  <1> QED BY <1>1, ReceiverInvariant, PTL

\* If connects do not overlap, a timer that would report on an open connection
\* was set by a heartbeat of this connection (base_impl.hpp:154, 200-207,
\* 218-221).
THEOREM TimersOfThisConnection ==
    ASSUME SerialConnects
    PROVE  Spec => []HeardOnThisConnection
  <1>1. ReceiverInv => HeardOnThisConnection
    BY DEF ReceiverInv, HeardInv
  <1> QED BY <1>1, ReceiverInvariant, PTL

\* If connects do not overlap, a missed deadline is reported for the newest
\* heartbeat of a sender and once (base_impl.hpp:223-232,
\* next_heartbeat_deadline_timer.hpp:47-53).
THEOREM DeadlinesReportedOnce ==
    ASSUME SerialConnects
    PROVE  Spec => ReportsNewestOnce
  <1>1. ReceiverInv /\ [Next]_vars =>
          [\A s \in Senders : reported'[s] # reported[s]
              => reported'[s] = latest[s] /\ reported[s] < latest[s]]_vars
    BY ReportStep
  <1> QED BY <1>1, ReceiverInvariant, PTL DEF Spec, ReportsNewestOnce
===============================================================================
