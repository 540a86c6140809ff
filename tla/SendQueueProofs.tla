---------------------------- MODULE SendQueueProofs ----------------------------
(***************************************************************************)
(* BaseImpl implements SendQueue: the deque, the wire and the dropped      *)
(* entries form a queue whose front is transmitted once or dropped, across *)
(* reconnections and restarts.                                             *)
(***************************************************************************)
EXTENDS BaseImplProofs

-------------------------------------------------------------------------------
(* The invariant, each part about the pieces of state it relates: the deque *)
(* se, the wire w, the queue q, the newest entries in the deque p and asked *)
(* for a.                                                                   *)

\* The datagram of the front entry is with the kernel, its handle_send() is not
\* done yet.
Acks(w, se) == w # <<>> /\ se # <<>> /\ w[Len(w)] = Head(se)
Acked == Acks(wire, send_entries)

\* The deque holds increasing numbers, up to the newest one.
Increasing(se, p) ==
    /\ \A i, j \in DOMAIN se : i < j => se[i] < se[j]
    /\ \A i \in DOMAIN se : se[i] <= p

\* The kernel is not ahead of the front of the deque.
WireBehind(w, se, p) ==
    w # <<>> => w[Len(w)] <= p /\ \A i \in DOMAIN se : w[Len(w)] <= se[i]

\* Nothing is marked as transferred before it leaves the deque.
Untouched(bytes, se, p) ==
    \A e \in Entries : e > p \/ (\E i \in DOMAIN se : se[i] = e) => bytes[e] = 0

\* Entries on their way to the deque arrive in the order of their numbers.
AsksInOrder(q, p, a) ==
    /\ \A i \in DOMAIN q : q[i].op = "async_send" => p < q[i].entry /\ q[i].entry <= a
    /\ \A i, j \in DOMAIN q :
          q[i].op = "async_send" /\ q[j].op = "async_send" /\ i < j => q[i].entry < q[j].entry

\* A queued handle_send() is about the front entry and knows what happened to it.
AboutFront(q, se, acked) ==
    \A i \in DOMAIN q : q[i].op = "handle_send" =>
        /\ se # <<>>
        /\ q[i].entry = Head(se)
        /\ q[i].result = "ok" <=> acked

\* The send in flight is the front entry's, and the kernel has not had it yet.
FlightOfFront(flight, se, acked) ==
    flight # <<>> => se # <<>> /\ Head(flight) = Head(se) /\ ~acked

DequeInv ==
    /\ Increasing(send_entries, pushed)
    /\ pushed <= asked
    /\ WireBehind(wire, send_entries, pushed)
    /\ Untouched(bytes_transferred, send_entries, pushed)

EntryInv ==
    /\ DequeInv
    /\ AsksInOrder(ioq, pushed, asked)
    /\ AboutFront(ioq, send_entries, Acked)
    /\ FlightOfFront(sending, send_entries, Acked)
    /\ Acked => ~Nowhere(ioq, {"handle_send"})
    /\ NoSilentLoss

\* The handlers that carry an entry.
EntryOps == {"async_send", "handle_send"}

-------------------------------------------------------------------------------
(* Lemmas about the queue *)

\* Taking a handler keeps the order of the asks; an async_send that is taken
\* brings the next number.
LEMMA AsksTail ==
    ASSUME NEW q \in Seq(Handlers), q # <<>>, NEW p, NEW a, AsksInOrder(q, p, a)
    PROVE  /\ AsksInOrder(Tail(q), p, a)
           /\ Head(q).op = "async_send" =>
                /\ p < Head(q).entry /\ Head(q).entry <= a
                /\ AsksInOrder(Tail(q), Head(q).entry, a)
  <1>0. /\ DOMAIN Tail(q) = 1..(Len(q) - 1) /\ DOMAIN q = 1..Len(q) /\ Len(q) \in Nat
        /\ \A i \in DOMAIN Tail(q) : Tail(q)[i] = q[i + 1] /\ i + 1 \in DOMAIN q
    BY TailElements
  <1>1. AsksInOrder(Tail(q), p, a)
    <2>1. \A i \in DOMAIN Tail(q) :
            Tail(q)[i].op = "async_send" => p < Tail(q)[i].entry /\ Tail(q)[i].entry <= a
      BY <1>0 DEF AsksInOrder
    <2>2. \A i, j \in DOMAIN Tail(q) : i < j => i + 1 < j + 1
      BY <1>0
    <2>3. \A i, j \in DOMAIN Tail(q) :
            Tail(q)[i].op = "async_send" /\ Tail(q)[j].op = "async_send" /\ i < j
              => Tail(q)[i].entry < Tail(q)[j].entry
      BY <1>0, <2>2 DEF AsksInOrder
    <2> QED BY <2>1, <2>3 DEF AsksInOrder
  <1>2. Head(q).op = "async_send" => p < Head(q).entry /\ Head(q).entry <= a
    BY TailElements DEF AsksInOrder
  <1>3. ASSUME Head(q).op = "async_send" PROVE AsksInOrder(Tail(q), Head(q).entry, a)
    <2>1. \A i \in DOMAIN Tail(q) : Tail(q)[i].op = "async_send" => Head(q).entry < Tail(q)[i].entry
      BY <1>3, TailElements DEF AsksInOrder
    <2> QED BY <1>1, <2>1 DEF AsksInOrder
  <1> QED BY <1>1, <1>2, <1>3

\* Handlers without an entry to push may be appended.
LEMMA AsksConcat ==
    ASSUME NEW q \in Seq(Handlers), NEW s \in Seq(Handlers), NEW p, NEW a,
           AsksInOrder(q, p, a), Nowhere(s, {"async_send"})
    PROVE  AsksInOrder(q \o s, p, a)
  <1>1. \A i \in DOMAIN (q \o s) : (q \o s)[i].op = "async_send"
                                     => i \in DOMAIN q /\ (q \o s)[i] = q[i]
    BY ConcatElements DEF Nowhere
  <1> QED BY <1>1 DEF AsksInOrder

\* The next number is asked for.
LEMMA AsksAppend ==
    ASSUME NEW q \in Seq(Handlers), NEW p \in Nat, NEW a \in Nat, p <= a,
           a + 1 \in Entries, AsksInOrder(q, p, a)
    PROVE  AsksInOrder(q \o <<SendHandler(a + 1)>>, p, a + 1)
  <1>1. PICK h \in Handlers : /\ h = SendHandler(a + 1)
                              /\ h.op = "async_send" /\ h.entry = a + 1
    BY HandlerTypes DEF SendHandler
  <1>2. \A i \in 1..Len(q) : q[i].op = "async_send" => q[i].entry \in Nat
    BY HandlerTypes, BoundsAssumption DEF Entries
  <1>3. /\ DOMAIN (q \o <<h>>) = 1..(Len(q) + 1) /\ DOMAIN q = 1..Len(q) /\ Len(q) \in Nat
        /\ \A i \in 1..Len(q) : (q \o <<h>>)[i] = q[i]
        /\ (q \o <<h>>)[Len(q) + 1] = h
    OBVIOUS
  <1>4. AsksInOrder(q \o <<h>>, p, a + 1)
    BY <1>1, <1>2, <1>3, SMTT(30) DEF AsksInOrder
  <1> QED BY <1>1, <1>4

\* A queue whose handlers are about the front entry, shortened and extended.
LEMMA FrontTail ==
    ASSUME NEW q \in Seq(Handlers), q # <<>>, NEW se, NEW acked, AboutFront(q, se, acked)
    PROVE  AboutFront(Tail(q), se, acked)
  BY TailElements DEF AboutFront

\* Two such queues one behind the other.
LEMMA FrontConcat ==
    ASSUME NEW q \in Seq(Handlers), NEW s \in Seq(Handlers), NEW se, NEW acked,
           AboutFront(q, se, acked), AboutFront(s, se, acked)
    PROVE  AboutFront(q \o s, se, acked)
  BY ConcatElements DEF AboutFront

\* A queue without handle_send() is about nothing.
LEMMA FrontNowhere ==
    ASSUME NEW q, Nowhere(q, {"handle_send"}), NEW se, NEW acked
    PROVE  AboutFront(q, se, acked)
  BY DEF AboutFront, Nowhere

-------------------------------------------------------------------------------
(* Lemmas about the deque *)

\* Without its front entry the deque is still increasing, and beyond that entry.
LEMMA DequeTail ==
    ASSUME NEW se \in Seq(Entries), se # <<>>, NEW p \in Nat, Increasing(se, p)
    PROVE  /\ Increasing(Tail(se), p)
           /\ \A i \in DOMAIN Tail(se) : Head(se) < Tail(se)[i]
           /\ Tail(se) # <<>> => Head(se) < Head(Tail(se))
           /\ \A e : (\E i \in DOMAIN Tail(se) : Tail(se)[i] = e)
                        => e # Head(se) /\ \E i \in DOMAIN se : se[i] = e
  <1>0. se \in Seq(Entries) /\ \A i \in DOMAIN se : se[i] \in Nat
    BY BoundsAssumption DEF Entries
  <1>1. Increasing(Tail(se), p)
    BY TailElements DEF Increasing
  <1>2. \A i \in DOMAIN Tail(se) : Head(se) < Tail(se)[i]
    BY TailElements DEF Increasing
  <1>3. Tail(se) # <<>> => Head(se) < Head(Tail(se))
    <2> SUFFICES ASSUME Tail(se) # <<>> PROVE Head(se) < Head(Tail(se))
      OBVIOUS
    <2>1. Tail(se) \in Seq(Entries)
      BY TailElements
    <2>2. Head(Tail(se)) = Tail(se)[1] /\ 1 \in DOMAIN Tail(se)
      BY <2>1, TailElements
    <2> QED BY <1>2, <2>2
  <1>4. \A i \in DOMAIN Tail(se) : Tail(se)[i] # Head(se) /\ \E j \in DOMAIN se : se[j] = Tail(se)[i]
    <2> TAKE i \in DOMAIN Tail(se)
    <2>1. Head(se) \in Nat /\ Head(se) < Tail(se)[i]
      BY <1>0, <1>2, TailElements
    <2>2. i + 1 \in DOMAIN se /\ Tail(se)[i] = se[i + 1]
      BY TailElements
    <2> QED BY <2>1, <2>2
  <1> QED BY <1>1, <1>2, <1>3, <1>4

\* A larger number is appended.
LEMMA DequeAppend ==
    ASSUME NEW se \in Seq(Entries), NEW p \in Nat, NEW e \in Entries, p < e, Increasing(se, p)
    PROVE  /\ Increasing(Append(se, e), e)
           /\ Append(se, e) # <<>>
           /\ Head(Append(se, e)) = IF se = <<>> THEN e ELSE Head(se)
           /\ se # <<>> => Tail(Append(se, e)) = Append(Tail(se), e)
           /\ \A x : (\E i \in DOMAIN Append(se, e) : Append(se, e)[i] = x)
                        => x = e \/ \E i \in DOMAIN se : se[i] = x
  <1>0. /\ \A i \in DOMAIN se : se[i] \in Nat
        /\ e \in Nat
    BY BoundsAssumption DEF Entries
  <1>1. /\ Append(se, e) \in Seq(Entries) /\ Len(Append(se, e)) = Len(se) + 1
        /\ \A i \in 1..Len(se) : Append(se, e)[i] = se[i]
        /\ Append(se, e)[Len(se) + 1] = e
        /\ DOMAIN Append(se, e) = 1..(Len(se) + 1)
        /\ Len(se) \in Nat
    OBVIOUS
  <1>2. Increasing(Append(se, e), e)
    BY <1>0, <1>1 DEF Increasing
  <1>3. Append(se, e) # <<>>
    BY <1>1
  <1>4. Head(Append(se, e)) = IF se = <<>> THEN e ELSE Head(se)
    OBVIOUS
  <1>5. se # <<>> => Tail(Append(se, e)) = Append(Tail(se), e)
    OBVIOUS
  <1>6. \A x : (\E i \in DOMAIN Append(se, e) : Append(se, e)[i] = x)
                  => x = e \/ \E i \in DOMAIN se : se[i] = x
    BY <1>1
  <1> QED BY <1>2, <1>3, <1>4, <1>5, <1>6

\* The front entry of a deque is one of its entries.
LEMMA DequeHead ==
    ASSUME NEW se \in Seq(Entries), se # <<>>
    PROVE  1 \in DOMAIN se /\ se[1] = Head(se) /\ Head(se) \in Entries /\ Head(se) \in Nat
  BY TailElements, BoundsAssumption DEF Entries

-------------------------------------------------------------------------------
(* Steps that leave the deque alone *)

\* What the invariant says of the state depends on these variables only.
dequeVars == <<asked, pushed, send_entries, bytes_transferred, processed, dropped, wire>>

\* A step that leaves the deque and the wire alone keeps what is said of them.
LEMMA SameDeque ==
    ASSUME UNCHANGED dequeVars
    PROVE  /\ DequeInv => DequeInv'
           /\ Acked' <=> Acked
           /\ NoSilentLoss => NoSilentLoss'
  BY DEF dequeVars, DequeInv, Acked, NoSilentLoss

\* A step that takes a handler without an entry or none, appends such handlers,
\* and may begin to send the front entry.
LEMMA EntryPlain ==
    ASSUME TypeOK, EntryInv, UNCHANGED dequeVars,
           NEW s \in Seq(Handlers), Nowhere(s, EntryOps),
           \/ ioq' = ioq \o s
           \/ ioq # <<>> /\ Head(ioq).op \notin EntryOps /\ ioq' = Tail(ioq) \o s,
           \/ sending' \in {sending, <<>>}
           \/ /\ sending = <<>> /\ send_entries # <<>> /\ ~Acked
              /\ sending' = Append(sending, Head(send_entries))
    PROVE  EntryInv'
  <1>0. ioq \in Seq(Handlers)
    BY DEF TypeOK
  <1>s. Nowhere(s, {"async_send"}) /\ Nowhere(s, {"handle_send"})
    BY DEF Nowhere, EntryOps
  <1>1. PICK q \in Seq(Handlers) :
            /\ ioq' = q \o s
            /\ AsksInOrder(q, pushed, asked)
            /\ AboutFront(q, send_entries, Acked)
            /\ ~Nowhere(ioq, {"handle_send"}) => ~Nowhere(q, {"handle_send"})
    <2>1. CASE ioq' = ioq \o s
      BY <1>0, <2>1 DEF EntryInv
    <2>2. CASE ioq # <<>> /\ Head(ioq).op \notin EntryOps /\ ioq' = Tail(ioq) \o s
      <3>1. Tail(ioq) \in Seq(Handlers)
        BY <1>0, <2>2, TailElements
      <3>2. AsksInOrder(Tail(ioq), pushed, asked) /\ AboutFront(Tail(ioq), send_entries, Acked)
        BY <1>0, <2>2, AsksTail, FrontTail DEF EntryInv
      <3>3. Head(ioq).op # "handle_send"
        BY <2>2 DEF EntryOps
      <3>4. Nowhere(Tail(ioq), {"handle_send"}) => Nowhere(ioq, {"handle_send"})
        BY <1>0, <2>2, <3>3, TakenElsewhere
      <3> QED BY <2>2, <3>1, <3>2, <3>4
    <2> QED BY <2>1, <2>2
  <1>2. AsksInOrder(ioq', pushed, asked)
    BY <1>1, <1>s, AsksConcat
  <1>3. AboutFront(ioq', send_entries, Acked)
    BY <1>1, <1>s, FrontConcat, FrontNowhere
  <1>4. FlightOfFront(sending', send_entries, Acked)
    <2>1. CASE sending' \in {sending, <<>>}
      BY <2>1 DEF EntryInv, FlightOfFront
    <2>2. CASE /\ sending = <<>> /\ send_entries # <<>> /\ ~Acked
               /\ sending' = Append(sending, Head(send_entries))
      BY <2>2 DEF FlightOfFront
    <2> QED BY <2>1, <2>2
  <1>5. Acked => ~Nowhere(ioq', {"handle_send"})
    BY <1>1, QueuedConcat DEF EntryInv
  <1>6. /\ AsksInOrder(ioq, pushed, asked)' /\ AboutFront(ioq, send_entries, Acked)'
        /\ FlightOfFront(sending, send_entries, Acked)'
    BY <1>2, <1>3, <1>4, SameDeque DEF dequeVars, AboutFront, FlightOfFront
  <1> QED BY <1>5, <1>6, SameDeque DEF EntryInv

-------------------------------------------------------------------------------
(* handle_send() *)

\* What await_send_entry() appends to the queue it is given carries no entry,
\* and the send it may begin is the front entry's.
LEMMA AwaitQueue ==
    ASSUME TypeOK, NEW q \in Seq(Handlers), NEW delay, NEW deadline, NEW waits \in Nat,
           AwaitSendEntry(q, delay, deadline, waits)
    PROVE  /\ \E s \in Seq(Handlers) : Nowhere(s, EntryOps) /\ ioq' = q \o s
           /\ \/ sending' = sending
              \/ send_entries' # <<>> /\ sending' = Append(sending, Head(send_entries'))
  <1>1. /\ CancelledInvoker \in Seq(Handlers) /\ Nowhere(CancelledInvoker, EntryOps)
        /\ CancelledDeadline(waits) \in Seq(Handlers)
        /\ Nowhere(CancelledDeadline(waits), EntryOps)
        /\ <<>> \in Seq(Handlers) /\ Nowhere(<<>>, EntryOps)
    <2>1. CancelledInvoker \in Seq(Handlers) /\ CancelledDeadline(waits) \in Seq(Handlers)
      BY CancelledTypes
    <2>2. Nowhere(CancelledInvoker, EntryOps)
      BY DEF CancelledInvoker, Nowhere, EntryOps, Post
    <2>3. Nowhere(CancelledDeadline(waits), EntryOps)
      BY DEF CancelledDeadline, Nowhere, EntryOps, Post
    <2> QED BY <2>1, <2>2, <2>3, EmptySuffix
  <1>2. \E s \in {<<>>, CancelledInvoker, CancelledDeadline(waits)} : ioq' = q \o s
    BY EmptySuffix DEF AwaitSendEntry, EndLoop, Sleep, SendFront
  <1>3. \E s \in Seq(Handlers) : Nowhere(s, EntryOps) /\ ioq' = q \o s
    BY <1>1, <1>2
  <1> QED BY <1>3 DEF AwaitSendEntry, EndLoop, Sleep, SendFront

\* What a handle_send() finds: it is the only one, it is about the front entry,
\* and nothing is in flight.
LEMMA HandledFront ==
    ASSUME TypeOK, SenderInv, EntryInv, Runs("handle_send")
    PROVE  /\ send_entries # <<>> /\ Head(ioq).entry = Head(send_entries)
           /\ Head(ioq).result = "ok" <=> Acked
           /\ Tail(ioq) \in Seq(Handlers) /\ Nowhere(Tail(ioq), {"handle_send"})
           /\ AsksInOrder(Tail(ioq), pushed, asked)
           /\ sending = <<>>
           /\ bytes_transferred[Head(ioq).entry] = 0
           /\ Head(ioq).entry \in Entries
  <1>0. ioq \in Seq(Handlers) /\ ioq # <<>> /\ Head(ioq).op = "handle_send"
    BY DEF TypeOK, Runs
  <1>1. ioq[1] = Head(ioq) /\ 1 \in DOMAIN ioq
    BY <1>0, TailElements
  <1>2. /\ send_entries # <<>> /\ Head(ioq).entry = Head(send_entries)
        /\ Head(ioq).result = "ok" <=> Acked
    BY <1>0, <1>1 DEF EntryInv, AboutFront
  <1>3. Nowhere(Tail(ioq), LoopOps) /\ Tail(ioq) \in Seq(Handlers)
    BY <1>0, QueueTail, TailElements DEF SenderInv, LoopOps
  <1>4. Nowhere(Tail(ioq), {"handle_send"})
    BY <1>3 DEF Nowhere, LoopOps
  <1>5. sending = <<>>
    <2>1. ~Nowhere(ioq, LoopOps)
      BY <1>0, <1>1 DEF Nowhere, LoopOps
    <2> QED BY <2>1 DEF SenderInv, LoopInv, LoopSends
  <1>6. Head(ioq).entry \in Entries
    BY <1>0, <1>1, HandlerTypes, TailElements
  <1>7. bytes_transferred[Head(ioq).entry] = 0
    <2>1. send_entries[1] = Head(send_entries) /\ 1 \in DOMAIN send_entries
      BY <1>2, DequeHead DEF TypeOK, EntryOK
    <2> QED BY <1>2, <1>6, <2>1 DEF EntryInv, DequeInv, Untouched
  <1>8. AsksInOrder(Tail(ioq), pushed, asked)
    BY <1>0, AsksTail DEF EntryInv
  <1> QED BY <1>2, <1>3, <1>4, <1>5, <1>6, <1>7, <1>8

\* The tail of handle_send() appends handlers without an entry, and may begin to
\* send the entry that is at the front then.
LEMMA FinishQueue ==
    ASSUME TypeOK, SenderInv, EntryInv, Runs("handle_send"), NEW e, NEW delay,
           FinishSend(e, delay)
    PROVE  /\ \E s \in Seq(Handlers) : Nowhere(s, EntryOps) /\ ioq' = Tail(ioq) \o s
           /\ \/ sending' = <<>>
              \/ send_entries' # <<>> /\ sending' = Append(<<>>, Head(send_entries'))
           /\ Nowhere(ioq', {"handle_send"})
           /\ AsksInOrder(ioq', pushed, asked)
           /\ UNCHANGED <<asked, pushed, wire>>
  <1> DEFINE cd == CancelledDeadline(deadline_waits)
             q == Tail(ioq) \o cd
  <1>1. cd \in Seq(Handlers) /\ Nowhere(cd, EntryOps)
    BY CancelledTypes DEF CancelledDeadline, Nowhere, EntryOps, Post, TypeOK, TimerOK
  <1>2. /\ Tail(ioq) \in Seq(Handlers) /\ Nowhere(Tail(ioq), {"handle_send"})
        /\ sending = <<>> /\ AsksInOrder(Tail(ioq), pushed, asked)
    BY HandledFront
  <1>3. q \in Seq(Handlers)
    BY <1>1, <1>2, ConcatElements
  <1>4. AwaitSendEntry(q, delay, "infinite", 0)
    BY DEF FinishSend
  <1> HIDE DEF q
  <1>5. /\ \E s \in Seq(Handlers) : Nowhere(s, EntryOps) /\ ioq' = q \o s
        /\ \/ sending' = sending
           \/ send_entries' # <<>> /\ sending' = Append(sending, Head(send_entries'))
    BY <1>3, <1>4, AwaitQueue
  <1>6. PICK s \in Seq(Handlers) : Nowhere(s, EntryOps) /\ ioq' = q \o s
    BY <1>5
  <1> HIDE DEF cd
  <1>7. cd \o s \in Seq(Handlers) /\ Nowhere(cd \o s, EntryOps)
    BY <1>1, <1>6, ConcatElements, NowhereConcat
  <1>8. ioq' = Tail(ioq) \o (cd \o s)
    BY <1>1, <1>2, <1>6 DEF q
  <1>9. Nowhere(cd \o s, {"handle_send"}) /\ Nowhere(cd \o s, {"async_send"})
    BY <1>7 DEF Nowhere, EntryOps
  <1>10. Nowhere(ioq', {"handle_send"}) /\ AsksInOrder(ioq', pushed, asked)
    BY <1>2, <1>7, <1>8, <1>9, NowhereConcat, AsksConcat
  <1> QED BY <1>2, <1>5, <1>7, <1>8, <1>10 DEF FinishSend

\* handle_send() removes the front entry, which is either with the kernel or
\* dropped: the next front entry has not been sent.
LEMMA FrontRemoved ==
    ASSUME TypeOK, SenderInv, EntryInv, Runs("handle_send"), NEW delay,
           FinishSend(Head(ioq).entry, delay),
           AddBytesTransferred(Head(ioq).entry, BufferSize),
           \/ Acked /\ UNCHANGED dropped
           \/ ~Acked /\ dropped' = dropped \union {Head(ioq).entry}
    PROVE  /\ EntryInv'
           /\ send_entries' = Tail(send_entries) /\ UNCHANGED <<pushed, wire>>
           /\ ~Acked'
  <1> DEFINE e == Head(ioq).entry
             se == send_entries
             rest == Tail(send_entries)
  <1>0. /\ se \in Seq(Entries) /\ pushed \in Nat /\ wire \in Seq(Entries)
        /\ processed \in Seq(Entries) /\ bytes_transferred \in [Entries -> Nat]
    BY BoundsAssumption DEF TypeOK, EntryOK, SendOK
  <1>1. /\ se # <<>> /\ e = Head(se) /\ e \in Entries /\ bytes_transferred[e] = 0
    BY HandledFront
  <1>2. /\ 1 \in DOMAIN se /\ se[1] = e /\ e \in Nat /\ rest \in Seq(Entries)
    BY <1>0, <1>1, DequeHead, TailElements
  <1>3. /\ bytes_transferred'[e] = BufferSize
        /\ \A x \in Entries : x # e => bytes_transferred'[x] = bytes_transferred[x]
    BY <1>0, <1>1, BufferSizeAssumption DEF AddBytesTransferred
  <1>4. send_entries' = rest /\ processed' = Append(processed, e)
    BY <1>1, <1>3, BufferSizeAssumption DEF FinishSend, PopFrontSendEntry
  <1>5. /\ \/ sending' = <<>>
           \/ rest # <<>> /\ sending' = Append(<<>>, Head(rest))
        /\ Nowhere(ioq', {"handle_send"}) /\ AsksInOrder(ioq', pushed, asked)
        /\ UNCHANGED <<asked, pushed, wire>>
    BY <1>4, FinishQueue
  <1>6. /\ Increasing(rest, pushed)
        /\ \A i \in DOMAIN rest : e < rest[i]
        /\ rest # <<>> => e < Head(rest)
        /\ \A x : (\E i \in DOMAIN rest : rest[i] = x) => x # e /\ \E i \in DOMAIN se : se[i] = x
    BY <1>0, <1>1, DequeTail DEF EntryInv, DequeInv
  <1>7. wire # <<>> => wire[Len(wire)] \in Nat /\ wire[Len(wire)] <= e
    <2>1. wire # <<>> => wire[Len(wire)] \in Entries
      BY <1>0
    <2>2. wire # <<>> => wire[Len(wire)] <= e
      BY <1>2 DEF EntryInv, DequeInv, WireBehind
    <2> QED BY <2>1, <2>2, BoundsAssumption DEF Entries
  <1>8. ~Acked'
    <2>1. ~Acks(wire, rest)
      <3>1. rest # <<>> => Head(rest) \in Nat /\ e < Head(rest)
        BY <1>2, <1>6, DequeHead
      <3> QED BY <1>2, <1>7, <3>1 DEF Acks
    <2> QED BY <1>4, <1>5, <2>1 DEF Acked
  <1>9. DequeInv'
    <2>1. WireBehind(wire, rest, pushed)
      <3>1. \A i \in DOMAIN rest : rest[i] \in Nat
        BY <1>2, BoundsAssumption DEF Entries
      <3>2. \A i \in DOMAIN rest : wire # <<>> => wire[Len(wire)] <= rest[i]
        BY <1>2, <1>6, <1>7, <3>1
      <3> QED BY <3>2 DEF WireBehind, EntryInv, DequeInv
    <2>2. Untouched(bytes_transferred', rest, pushed)
      <3>1. e <= pushed
        BY <1>2 DEF EntryInv, DequeInv, Increasing
      <3> SUFFICES ASSUME NEW x \in Entries, x > pushed \/ (\E i \in DOMAIN rest : rest[i] = x)
                   PROVE  bytes_transferred'[x] = 0
        BY DEF Untouched
      <3>2. x \in Nat
        BY BoundsAssumption DEF Entries
      <3>3. x # e /\ (x > pushed \/ \E i \in DOMAIN se : se[i] = x)
        BY <1>0, <1>2, <1>6, <3>1, <3>2
      <3>4. bytes_transferred[x] = 0
        BY <3>3 DEF EntryInv, DequeInv, Untouched
      <3> QED BY <1>3, <3>3, <3>4
    <2>3. pushed <= asked
      BY DEF EntryInv, DequeInv
    <2> QED BY <1>4, <1>5, <1>6, <2>1, <2>2, <2>3 DEF DequeInv
  <1>10. FlightOfFront(sending', rest, FALSE)
    <2>1. CASE sending' = <<>>
      BY <2>1 DEF FlightOfFront
    <2>2. CASE rest # <<>> /\ sending' = Append(<<>>, Head(rest))
      BY <2>2 DEF FlightOfFront
    <2> QED BY <1>5, <2>1, <2>2
  <1>11. NoSilentLoss'
    <2>1. \/ e \in dropped'
          \/ \E j \in DOMAIN wire : wire[j] = e
      <3>1. CASE Acked
        <4>1. wire # <<>> /\ wire[Len(wire)] = e
          BY <1>1, <3>1 DEF Acked, Acks
        <4>2. Len(wire) \in DOMAIN wire
          BY <1>0, <4>1
        <4> QED BY <4>1, <4>2
      <3>2. CASE ~Acked
        BY <3>2
      <3> QED BY <3>1, <3>2
    <2>2. dropped \subseteq dropped'
      OBVIOUS
    <2>3. \A i \in DOMAIN processed' : processed'[i] = e \/ \E k \in DOMAIN processed : processed'[i] = processed[k]
      <3>1. /\ Len(processed) \in Nat /\ DOMAIN processed = 1..Len(processed)
            /\ DOMAIN processed' = 1..(Len(processed) + 1)
            /\ \A i \in 1..Len(processed) : processed'[i] = processed[i]
            /\ processed'[Len(processed) + 1] = e
        BY <1>0, <1>1, <1>4
      <3> QED BY <3>1
    <2> QED BY <1>5, <2>1, <2>2, <2>3 DEF EntryInv, NoSilentLoss
  <1>12. AboutFront(ioq', rest, FALSE)
    BY <1>5, FrontNowhere
  <1>13. /\ AsksInOrder(ioq, pushed, asked)' /\ AboutFront(ioq, send_entries, Acked)'
         /\ FlightOfFront(sending, send_entries, Acked)'
    BY <1>4, <1>5, <1>8, <1>10, <1>12 DEF AboutFront, FlightOfFront
  <1> QED BY <1>4, <1>5, <1>8, <1>9, <1>11, <1>13 DEF EntryInv

\* handle_send() keeps the front entry for another attempt, or leaves it to the
\* next connection.
LEMMA FrontKept ==
    ASSUME TypeOK, SenderInv, EntryInv, Runs("handle_send"), ~Acked, UNCHANGED dequeVars,
           Nowhere(ioq', {"handle_send"}), AsksInOrder(ioq', pushed, asked),
           \/ sending' = <<>>
           \/ send_entries' # <<>> /\ sending' = Append(<<>>, Head(send_entries'))
    PROVE  EntryInv'
  <1>1. DequeInv' /\ ~Acked' /\ NoSilentLoss'
    BY SameDeque DEF EntryInv
  <1>2. AboutFront(ioq', send_entries', FALSE)
    BY FrontNowhere
  <1>3. FlightOfFront(sending', send_entries', FALSE)
    <2>1. CASE sending' = <<>>
      BY <2>1 DEF FlightOfFront
    <2>2. CASE send_entries' # <<>> /\ sending' = Append(<<>>, Head(send_entries'))
      BY <2>2 DEF FlightOfFront
    <2> QED BY <2>1, <2>2
  <1>4. /\ AsksInOrder(ioq, pushed, asked)' /\ AboutFront(ioq, send_entries, Acked)'
        /\ FlightOfFront(sending, send_entries, Acked)'
    BY <1>1, <1>2, <1>3 DEF AboutFront, FlightOfFront, dequeVars
  <1> QED BY <1>1, <1>4 DEF EntryInv

-------------------------------------------------------------------------------
(* Every step is a step of the queue, or changes nothing the queue can see *)

\* What the queue sees of the deque.
LEMMA PendingEntries ==
    /\ Pending = IF Acked THEN Tail(send_entries) ELSE send_entries
    /\ Pending' = IF Acked' THEN Tail(send_entries') ELSE send_entries'
  BY DEF Pending, Acked, Acks

\* A step that leaves the deque, the wire and the dropped entries alone.
LEMMA QueueStutters ==
    ASSUME UNCHANGED <<pushed, send_entries, wire, dropped>>
    PROVE  [SQ!Next]_(SQ!vars)
  BY DEF SQ!vars, Pending

\* async_send's handler puts its entry at the back.
LEMMA PutStep ==
    ASSUME TypeOK, TypeOK', SenderInv, EntryInv, PushEntry
    PROVE  EntryInv' /\ SQ!Put
  <1> DEFINE e == Head(ioq).entry
             se == send_entries
  <1>0. /\ ioq \in Seq(Handlers) /\ ioq # <<>> /\ Head(ioq).op = "async_send"
        /\ se \in Seq(Entries) /\ pushed \in Nat /\ asked \in Nat /\ wire \in Seq(Entries)
    BY BoundsAssumption DEF PushEntry, PushBack, Runs, TypeOK, EntryOK, SendOK
  <1>1. /\ pushed' = e /\ send_entries' = Append(se, e)
        /\ ioq' = Tail(ioq) \o CancelledInvoker
        /\ UNCHANGED <<asked, bytes_transferred, processed, dropped, wire, sending>>
    BY DEF PushEntry, PushBack, sendVars
  <1>2. /\ pushed < e /\ e <= asked /\ AsksInOrder(Tail(ioq), e, asked)
        /\ Tail(ioq) \in Seq(Handlers)
    BY <1>0, AsksTail, TailElements DEF EntryInv
  <1>3. e \in Entries /\ e \in Nat
    BY <1>0, HandlerTypes, TailElements, BoundsAssumption DEF Entries
  <1>4. /\ Increasing(Append(se, e), e) /\ Append(se, e) # <<>>
        /\ Head(Append(se, e)) = IF se = <<>> THEN e ELSE Head(se)
        /\ se # <<>> => Tail(Append(se, e)) = Append(Tail(se), e)
        /\ \A x : (\E i \in DOMAIN Append(se, e) : Append(se, e)[i] = x)
                     => x = e \/ \E i \in DOMAIN se : se[i] = x
    BY <1>0, <1>2, <1>3, DequeAppend DEF EntryInv, DequeInv
  <1>5. wire # <<>> => wire[Len(wire)] \in Nat /\ wire[Len(wire)] <= pushed
                       /\ \A i \in DOMAIN se : wire[Len(wire)] <= se[i]
    <2>1. wire # <<>> => wire[Len(wire)] \in Entries
      BY <1>0
    <2> QED BY <2>1, BoundsAssumption DEF EntryInv, DequeInv, WireBehind, Entries
  <1>6. Acked' <=> Acked
    <2>1. CASE se = <<>>
      <3>1. ~Acks(wire, Append(se, e))
        BY <1>0, <1>2, <1>3, <1>4, <1>5, <2>1 DEF Acks
      <3> QED BY <1>1, <2>1, <3>1 DEF Acked, Acks
    <2>2. CASE se # <<>>
      BY <1>1, <1>4, <2>2 DEF Acked, Acks
    <2> QED BY <2>1, <2>2
  <1>7. DequeInv'
    <2>1. WireBehind(wire, Append(se, e), e)
      <3>1. wire # <<>> => wire[Len(wire)] <= e
        BY <1>0, <1>2, <1>3, <1>5
      <3>2. \A i \in DOMAIN Append(se, e) :
              Append(se, e)[i] = e \/ \E k \in DOMAIN se : Append(se, e)[i] = se[k]
        BY <1>4
      <3> QED BY <1>5, <3>1, <3>2 DEF WireBehind
    <2>2. Untouched(bytes_transferred, Append(se, e), e)
      <3> SUFFICES ASSUME NEW x \in Entries,
                          x > e \/ (\E i \in DOMAIN Append(se, e) : Append(se, e)[i] = x)
                   PROVE  bytes_transferred[x] = 0
        BY DEF Untouched
      <3>1. x \in Nat
        BY BoundsAssumption DEF Entries
      <3>2. x > pushed \/ \E i \in DOMAIN se : se[i] = x
        BY <1>0, <1>2, <1>3, <1>4, <3>1
      <3> QED BY <3>2 DEF EntryInv, DequeInv, Untouched
    <2> QED BY <1>1, <1>2, <1>4, <2>1, <2>2 DEF DequeInv
  <1>8. CancelledInvoker \in Seq(Handlers) /\ Nowhere(CancelledInvoker, {"handle_send"})
        /\ Nowhere(CancelledInvoker, {"async_send"})
    BY CancelledTypes DEF CancelledInvoker, Nowhere, Post
  <1>9. AsksInOrder(ioq', e, asked)
    BY <1>1, <1>2, <1>8, AsksConcat
  <1>10. AboutFront(ioq', Append(se, e), Acked)
    <2>1. AboutFront(ioq, Append(se, e), Acked)
      BY <1>4 DEF EntryInv, AboutFront
    <2> QED BY <1>0, <1>1, <1>2, <1>8, <2>1, FrontTail, FrontConcat, FrontNowhere
  <1>11. FlightOfFront(sending, Append(se, e), Acked)
    BY <1>4 DEF EntryInv, FlightOfFront
  <1>12. Acked => ~Nowhere(ioq', {"handle_send"})
    <2>1. Nowhere(Tail(ioq), {"handle_send"}) => Nowhere(ioq, {"handle_send"})
      BY <1>0, TakenElsewhere
    <2> QED BY <1>1, <1>2, <1>8, <2>1, QueuedConcat DEF EntryInv
  <1>13. NoSilentLoss'
    BY <1>1 DEF EntryInv, NoSilentLoss
  <1>14. /\ AsksInOrder(ioq, pushed, asked)' /\ AboutFront(ioq, send_entries, Acked)'
         /\ FlightOfFront(sending, send_entries, Acked)'
    BY <1>1, <1>6, <1>9, <1>10, <1>11 DEF AboutFront, FlightOfFront
  <1>15. EntryInv'
    BY <1>6, <1>7, <1>12, <1>13, <1>14 DEF EntryInv
  <1>16. Pending' = Append(Pending, e)
    <2>1. CASE Acked
      <3>1. se # <<>>
        BY <2>1 DEF Acked, Acks
      <3> QED BY <1>1, <1>4, <1>6, <2>1, <3>1, PendingEntries
    <2>2. CASE ~Acked
      BY <1>1, <1>6, <2>2, PendingEntries
    <2> QED BY <2>1, <2>2
  <1>17. SQ!Put
    BY <1>0, <1>1, <1>2, <1>3, <1>16 DEF SQ!Put
  <1> QED BY <1>15, <1>17

\* The kernel takes the front entry's datagram, or refuses it.
LEMMA TransmitStep ==
    ASSUME TypeOK, SenderInv, EntryInv, NEW r \in SendResults, SendCompletes(r)
    PROVE  EntryInv' /\ [SQ!Next]_(SQ!vars)
  <1> DEFINE e == Head(sending)
             h == HandleSend(e, r)
             se == send_entries
  <1>0. /\ ioq \in Seq(Handlers) /\ sending \in Seq(Entries) /\ sending # <<>>
        /\ se \in Seq(Entries) /\ wire \in Seq(Entries) /\ pushed \in Nat
    BY BoundsAssumption DEF SendCompletes, TypeOK, EntryOK, SendOK
  <1>1. /\ sending' = Tail(sending) /\ ioq' = Append(ioq, h)
        /\ wire' = IF r = "ok" THEN Append(wire, e) ELSE wire
        /\ UNCHANGED <<asked, pushed, send_entries, bytes_transferred, processed, dropped>>
    BY DEF SendCompletes, entryVars
  <1>2. se # <<>> /\ e = Head(se) /\ ~Acked
    BY <1>0 DEF EntryInv, FlightOfFront
  <1>3. e \in Entries /\ e \in Nat /\ 1 \in DOMAIN se /\ se[1] = e
    BY <1>0, <1>2, DequeHead
  <1>4. h \in Handlers /\ h.op = "handle_send" /\ h.entry = e /\ h.result = r
    BY <1>3, HandlerTypes DEF HandleSend
  <1>5. sending' = <<>>
    <2>1. Len(sending) <= 1
      BY DEF SenderInv, LoopInv
    <2>2. /\ Tail(sending) \in Seq(Entries) /\ Len(sending) \in Nat \ {0}
          /\ Len(Tail(sending)) = Len(sending) - 1
      BY <1>0, TailElements
    <2>3. Len(Tail(sending)) = 0
      BY <2>1, <2>2
    <2> QED BY <1>1, <2>2, <2>3, EmptySequence
  <1>6. Nowhere(ioq, {"handle_send"})
    <2>1. Nowhere(ioq, LoopOps)
      BY <1>0 DEF SenderInv, LoopInv, LoopSends
    <2> QED BY <2>1 DEF Nowhere, LoopOps
  <1>7. /\ wire' \in Seq(Entries)
        /\ r = "ok" => wire' # <<>> /\ wire'[Len(wire')] = e
        /\ \A j \in DOMAIN wire : j \in DOMAIN wire' /\ wire'[j] = wire[j]
    <2>1. CASE r = "ok"
      <3>1. wire' = Append(wire, e)
        BY <1>1, <2>1
      <3> QED BY <1>0, <1>3, <3>1, SMTT(30)
    <2>2. CASE r # "ok"
      BY <1>0, <1>1, <2>2
    <2> QED BY <2>1, <2>2
  <1>8. Acked' <=> r = "ok"
    BY <1>1, <1>2, <1>7 DEF Acked, Acks
  <1>9. DequeInv'
    <2>1. WireBehind(wire', se, pushed)
      <3>1. CASE r = "ok"
        <4>1. \A i \in DOMAIN se : e <= se[i]
          <5> TAKE i \in DOMAIN se
          <5>1. se[i] \in Nat /\ i \in Nat /\ i >= 1
            BY <1>0, BoundsAssumption DEF Entries
          <5>2. 1 < i => se[1] < se[i]
            BY <1>3 DEF EntryInv, DequeInv, Increasing
          <5> QED BY <1>3, <5>1, <5>2
        <4>2. e <= pushed
          BY <1>3 DEF EntryInv, DequeInv, Increasing
        <4> QED BY <1>7, <3>1, <4>1, <4>2 DEF WireBehind
      <3>2. CASE r # "ok"
        BY <1>1, <3>2 DEF EntryInv, DequeInv
      <3> QED BY <3>1, <3>2
    <2> QED BY <1>1, <2>1 DEF EntryInv, DequeInv
  <1> HIDE DEF h
  <1>10. ioq' = ioq \o <<h>> /\ <<h>> \in Seq(Handlers) /\ Nowhere(<<h>>, {"async_send"})
         /\ ~Nowhere(<<h>>, {"handle_send"})
    BY <1>0, <1>1, <1>4, EmptySuffix, SingleSuffix DEF Nowhere
  <1>11. AsksInOrder(ioq', pushed, asked)
    BY <1>0, <1>10, AsksConcat DEF EntryInv
  <1>12. AboutFront(ioq', se, r = "ok")
    <2>1. \A i \in DOMAIN <<h>> : <<h>>[i] = h
      OBVIOUS
    <2>2. AboutFront(<<h>>, se, r = "ok")
      BY <1>2, <1>4, <2>1 DEF AboutFront
    <2>3. AboutFront(ioq, se, r = "ok")
      BY <1>6, FrontNowhere
    <2> QED BY <1>0, <1>10, <2>2, <2>3, FrontConcat
  <1>13. ~Nowhere(ioq', {"handle_send"})
    BY <1>0, <1>10, QueuedConcat
  <1>14. NoSilentLoss'
    BY <1>1, <1>7 DEF EntryInv, NoSilentLoss
  <1>15. /\ AsksInOrder(ioq, pushed, asked)' /\ AboutFront(ioq, send_entries, Acked)'
         /\ FlightOfFront(sending, send_entries, Acked)'
    BY <1>1, <1>5, <1>8, <1>11, <1>12 DEF AboutFront, FlightOfFront
  <1>16. EntryInv'
    BY <1>9, <1>13, <1>14, <1>15 DEF EntryInv
  <1>17. CASE r = "ok"
    <2>1. Pending = se /\ Pending' = Tail(se)
      BY <1>1, <1>2, <1>8, <1>17, PendingEntries
    <2>2. SQ!Transmit
      BY <1>1, <1>2, <1>17, <2>1 DEF SQ!Transmit
    <2> QED BY <1>16, <2>2 DEF SQ!Next
  <1>18. CASE r # "ok"
    BY <1>1, <1>16, <1>18, QueueStutters
  <1> QED BY <1>17, <1>18

\* The front entry leaves the deque: its transmission was seen before, or it is
\* dropped now.
LEMMA RemoveStep ==
    ASSUME TypeOK, SenderInv, EntryInv, Runs("handle_send"), NEW delay,
           FinishSend(Head(ioq).entry, delay),
           AddBytesTransferred(Head(ioq).entry, BufferSize),
           \/ Head(ioq).result = "ok" /\ UNCHANGED dropped
           \/ Head(ioq).result # "ok" /\ dropped' = dropped \union {Head(ioq).entry}
    PROVE  EntryInv' /\ [SQ!Next]_(SQ!vars)
  <1>0. /\ send_entries # <<>> /\ Head(ioq).entry = Head(send_entries)
        /\ Head(ioq).result = "ok" <=> Acked
    BY HandledFront
  <1>1. /\ EntryInv' /\ ~Acked'
        /\ send_entries' = Tail(send_entries) /\ UNCHANGED <<pushed, wire>>
    BY <1>0, FrontRemoved
  <1>2. Pending' = Tail(send_entries)
    BY <1>1, PendingEntries
  <1>3. CASE Acked
    <2>1. Pending = Tail(send_entries) /\ UNCHANGED dropped
      BY <1>0, <1>3, PendingEntries
    <2> QED BY <1>1, <1>2, <2>1 DEF SQ!vars
  <1>4. CASE ~Acked
    <2>1. Pending = send_entries
      BY <1>4, PendingEntries
    <2>2. SQ!Drop
      BY <1>0, <1>1, <1>2, <1>4, <2>1 DEF SQ!Drop
    <2> QED BY <1>1, <2>2 DEF SQ!Next
  <1> QED BY <1>3, <1>4

\* Every action keeps the invariant, and is a step of the queue or a stutter.
LEMMA EntryStep ==
    ASSUME TypeOK, TypeOK', SenderInv, EntryInv, [Next]_vars
    PROVE  EntryInv' /\ [SQ!Next]_(SQ!vars)
  <1> DEFINE Goal == EntryInv' /\ [SQ!Next]_(SQ!vars)
             cd == CancelledDeadline(deadline_waits)
  <1>0. ioq \in Seq(Handlers) /\ (ioq # <<>> => Tail(ioq) \in Seq(Handlers))
    BY TailElements DEF TypeOK
  <1>c. cd \in Seq(Handlers) /\ Nowhere(cd, EntryOps)
    <2>1. cd \in Seq(Handlers)
      BY CancelledTypes DEF TypeOK, TimerOK
    <2>2. Nowhere(cd, EntryOps)
      BY DEF CancelledDeadline, Nowhere, EntryOps, Post
    <2> QED BY <2>1, <2>2
  <1>i. CancelledInvoker \in Seq(Handlers) /\ Nowhere(CancelledInvoker, EntryOps)
    <2>1. Nowhere(CancelledInvoker, EntryOps)
      BY DEF CancelledInvoker, Nowhere, EntryOps, Post
    <2> QED BY <2>1, CancelledTypes
  <1>p. \A op \in PlainOps : Post(op) \in Handlers /\ <<Post(op)>> \in Seq(Handlers)
                             /\ Nowhere(<<Post(op)>>, EntryOps)
    <2>1. \A op \in PlainOps : op \notin EntryOps /\ Post(op).op = op
      BY DEF PlainOps, EntryOps, Post
    <2> QED BY <2>1, HandlerTypes, SingleSuffix
  <1>r. UNCHANGED dequeVars => [SQ!Next]_(SQ!vars)
    BY QueueStutters DEF dequeVars
  <1>v. UNCHANGED <<entryVars, wire>> => UNCHANGED dequeVars
    BY DEF entryVars, dequeVars
  <1> HIDE DEF cd
  \* Handlers without an entry are taken and appended; the deque is left alone.
  <1>1. ASSUME NEW s \in Seq(Handlers), Nowhere(s, EntryOps), UNCHANGED <<entryVars, wire>>,
               \/ ioq' = ioq \o s
               \/ ioq # <<>> /\ Head(ioq).op \notin EntryOps /\ ioq' = Tail(ioq) \o s,
               \/ sending' \in {sending, <<>>}
               \/ /\ sending = <<>> /\ send_entries # <<>> /\ ~Acked
                  /\ sending' = Append(sending, Head(send_entries))
        PROVE  Goal
    BY <1>1, <1>r, <1>v, EntryPlain
  <1>2. ASSUME UNCHANGED <<entryVars, wire, sending>>,
               \/ ioq' = ioq
               \/ ioq # <<>> /\ Head(ioq).op \notin EntryOps /\ ioq' = Tail(ioq)
        PROVE  Goal
    <2>1. \/ ioq' = ioq \o <<>>
          \/ ioq # <<>> /\ Head(ioq).op \notin EntryOps /\ ioq' = Tail(ioq) \o <<>>
      BY <1>0, <1>2, EmptySuffix
    <2> QED BY <1>2, <2>1, <1>1, EmptySuffix
  <1>3. ASSUME NEW op \in PlainOps, UNCHANGED <<entryVars, wire, sending>>,
               \/ ioq' = Append(ioq, Post(op))
               \/ /\ ioq # <<>> /\ Head(ioq).op \notin EntryOps
                  /\ ioq' = Append(Tail(ioq), Post(op))
        PROVE  Goal
    <2>1. \/ ioq' = ioq \o <<Post(op)>>
          \/ ioq # <<>> /\ Head(ioq).op \notin EntryOps /\ ioq' = Tail(ioq) \o <<Post(op)>>
      BY <1>0, <1>3, <1>p, EmptySuffix
    <2> QED BY <1>3, <1>p, <2>1, <1>1
  \* A connection ends in the middle of a send: it is reported as an error.
  <1>4. CASE CloseSocket
    <2> DEFINE s == CancelledSends \o (CancelledInvoker \o cd)
    <2>1. /\ ioq # <<>> /\ Head(ioq).op = "async_close" /\ ioq' = Tail(ioq) \o s
          /\ sending' = <<>> /\ UNCHANGED <<entryVars, wire>>
      BY <1>4 DEF CloseSocket, ReleaseSocket, Runs, cd
    <2>2. CancelledSends \in Seq(Handlers) /\ Nowhere(CancelledSends, {"async_send"})
          /\ AboutFront(CancelledSends, send_entries, Acked)
      <3>1. Nowhere(CancelledSends, {"async_send"})
        BY DEF CancelledSends, Nowhere, HandleSend
      <3>2. AboutFront(CancelledSends, send_entries, Acked)
        <4>1. /\ sending \in Seq(Entries) /\ Len(sending) <= 1
              /\ FlightOfFront(sending, send_entries, Acked)
          BY DEF TypeOK, SendOK, SenderInv, LoopInv, EntryInv
        <4>2. \A i \in 1..Len(sending) : i = 1 /\ sending # <<>> /\ sending[i] = Head(sending)
          BY <4>1
        <4>3. \A i \in DOMAIN CancelledSends :
                i \in 1..Len(sending) /\ CancelledSends[i].entry = sending[i]
                /\ CancelledSends[i].result = "error"
          BY DEF CancelledSends, HandleSend
        <4> QED BY <4>1, <4>2, <4>3 DEF AboutFront, FlightOfFront
      <3> QED BY <3>1, <3>2, CancelledTypes
    <2>3. /\ CancelledInvoker \o cd \in Seq(Handlers)
          /\ Nowhere(CancelledInvoker \o cd, {"async_send"})
          /\ Nowhere(CancelledInvoker \o cd, {"handle_send"})
      <3>1. CancelledInvoker \o cd \in Seq(Handlers) /\ Nowhere(CancelledInvoker \o cd, EntryOps)
        BY <1>c, <1>i, ConcatElements, NowhereConcat
      <3> QED BY <3>1 DEF Nowhere, EntryOps
    <2>4. s \in Seq(Handlers) /\ Nowhere(s, {"async_send"}) /\ AboutFront(s, send_entries, Acked)
      BY <2>2, <2>3, ConcatElements, NowhereConcat, FrontConcat, FrontNowhere
    <2> HIDE DEF s
    <2>5. /\ Tail(ioq) \in Seq(Handlers) /\ AsksInOrder(Tail(ioq), pushed, asked)
          /\ AboutFront(Tail(ioq), send_entries, Acked)
          /\ ~Nowhere(ioq, {"handle_send"}) => ~Nowhere(Tail(ioq), {"handle_send"})
      BY <1>0, <2>1, AsksTail, FrontTail, TakenElsewhere DEF EntryInv
    <2>6. /\ AsksInOrder(ioq', pushed, asked) /\ AboutFront(ioq', send_entries, Acked)
          /\ Acked => ~Nowhere(ioq', {"handle_send"})
      BY <2>1, <2>4, <2>5, AsksConcat, FrontConcat, QueuedConcat DEF EntryInv
    <2>7. UNCHANGED dequeVars
      BY <2>1, <1>v
    <2>8. /\ AsksInOrder(ioq, pushed, asked)' /\ AboutFront(ioq, send_entries, Acked)'
          /\ FlightOfFront(sending, send_entries, Acked)'
      BY <2>1, <2>6, <2>7, SameDeque DEF dequeVars, AboutFront, FlightOfFront
    <2>9. EntryInv'
      BY <2>6, <2>7, <2>8, SameDeque DEF EntryInv
    <2> QED BY <2>7, <2>9, <1>r
  \* handle_send()
  <1>5. CASE SendSucceeded
    BY <1>5, RemoveStep DEF SendSucceeded, HandlesSend
  <1>6. ASSUME Runs("handle_send")
        PROVE  RestBytes(Head(ioq).entry) = BufferSize
    BY <1>6, HandledFront, BufferSizeAssumption DEF RestBytes
  <1>7. CASE DropEntry
    <2>1. Runs("handle_send") /\ Head(ioq).result # "ok"
      BY <1>7 DEF DropEntry, HandlesSend
    <2>2. /\ AddBytesTransferred(Head(ioq).entry, BufferSize)
          /\ dropped' = dropped \union {Head(ioq).entry}
          /\ FinishSend(Head(ioq).entry, FALSE)
      BY <1>6, <1>7, <2>1 DEF DropEntry
    <2> QED BY <2>1, <2>2, RemoveStep
  <1>8. CASE NoBufferSpace
    <2> DEFINE e == Head(ioq).entry
    <2>1. Runs("handle_send") /\ Head(ioq).result # "ok" /\ FinishSend(e, TRUE)
      BY <1>8 DEF NoBufferSpace, HandlesSend
    <2>2. \/ /\ AddBytesTransferred(e, RestBytes(e))
             /\ dropped' = dropped \union {e}
          \/ AddBytesTransferred(e, 0) /\ dropped' = dropped
      BY <1>8 DEF NoBufferSpace
    <2>3. CASE AddBytesTransferred(e, RestBytes(e)) /\ dropped' = dropped \union {e}
      <3>1. AddBytesTransferred(e, BufferSize)
        BY <1>6, <2>1, <2>3
      <3> QED BY <2>1, <2>3, <3>1, RemoveStep
    <2>4. CASE AddBytesTransferred(e, 0) /\ dropped' = dropped
      <3>1. e \in Entries /\ bytes_transferred[e] = 0 /\ ~Acked
        BY <2>1, HandledFront
      <3>2. bytes_transferred' = bytes_transferred
        BY <2>4, <3>1 DEF AddBytesTransferred, TypeOK, EntryOK
      <3>3. UNCHANGED <<send_entries, processed>>
        BY <2>1, <3>1, <3>2, BufferSizeAssumption DEF FinishSend
      <3>4. UNCHANGED dequeVars
        BY <2>1, <2>4, <3>2, <3>3 DEF dequeVars, FinishSend
      <3>5. /\ Nowhere(ioq', {"handle_send"}) /\ AsksInOrder(ioq', pushed, asked)
            /\ \/ sending' = <<>>
               \/ send_entries' # <<>> /\ sending' = Append(<<>>, Head(send_entries'))
        BY <2>1, FinishQueue
      <3> QED BY <2>1, <3>1, <3>4, <3>5, <1>r, FrontKept
    <2> QED BY <2>2, <2>3, <2>4
  <1>9. CASE ConnectionError
    <2> DEFINE s == cd \o <<Post("async_close")>>
    <2>1. /\ Runs("handle_send") /\ Head(ioq).result # "ok" /\ ioq' = Tail(ioq) \o s
          /\ UNCHANGED <<entryVars, wire, sending>>
      BY <1>9 DEF ConnectionError, AbortLoop, HandlesSend, sendVars, cd
    <2>2. s \in Seq(Handlers) /\ Nowhere(s, EntryOps)
      BY <1>c, <1>p, ConcatElements, NowhereConcat DEF PlainOps
    <2> HIDE DEF s
    <2>3. Nowhere(s, {"handle_send"}) /\ Nowhere(s, {"async_send"})
      BY <2>2 DEF Nowhere, EntryOps
    <2>4. /\ Tail(ioq) \in Seq(Handlers) /\ Nowhere(Tail(ioq), {"handle_send"})
          /\ AsksInOrder(Tail(ioq), pushed, asked) /\ sending = <<>> /\ ~Acked
      BY <2>1, HandledFront
    <2>5. Nowhere(ioq', {"handle_send"}) /\ AsksInOrder(ioq', pushed, asked)
      BY <2>1, <2>2, <2>3, <2>4, NowhereConcat, AsksConcat
    <2>6. UNCHANGED dequeVars /\ sending' = <<>>
      BY <2>1, <2>4, <1>v
    <2> QED BY <2>1, <2>4, <2>5, <2>6, <1>r, FrontKept
  \* The loop begins, or continues, and no handle_send() is queued.
  <1>10. CASE InvokerHandler
    <2>1. /\ ioq # <<>> /\ Head(ioq).op = "await_send_entry" /\ UNCHANGED <<entryVars, wire>>
          /\ AwaitSendEntry(Tail(ioq), FALSE, send_deadline, deadline_waits)
      BY <1>10 DEF InvokerHandler, Runs
    <2>2. sending = <<>> /\ ~Acked
      <3>1. 1 \in DOMAIN ioq /\ ioq[1] = Head(ioq) /\ Head(ioq).op \in LoopOps
        BY <1>0, <2>1, TailElements DEF LoopOps
      <3>2. ~Nowhere(ioq, LoopOps)
        BY <3>1 DEF Nowhere
      <3>3. Nowhere(Tail(ioq), LoopOps)
        BY <1>0, <2>1, <3>1, QueueTail DEF SenderInv
      <3>4. Nowhere(Tail(ioq), {"handle_send"})
        BY <3>3 DEF Nowhere, LoopOps
      <3>5. Nowhere(ioq, {"handle_send"})
        BY <1>0, <2>1, <3>4, TakenElsewhere
      <3> QED BY <3>2, <3>5 DEF SenderInv, LoopInv, LoopSends, EntryInv
    <2>3. /\ \E s \in Seq(Handlers) : Nowhere(s, EntryOps) /\ ioq' = Tail(ioq) \o s
          /\ \/ sending' = sending
             \/ send_entries' # <<>> /\ sending' = Append(sending, Head(send_entries'))
      BY <1>0, <2>1, AwaitQueue DEF TypeOK, TimerOK
    <2>4. send_entries' = send_entries
      BY <2>1 DEF entryVars
    <2> QED BY <2>1, <2>2, <2>3, <2>4, <1>1 DEF EntryOps
  <1>11. CASE Connected \/ Bound
    <2>1. /\ ioq # <<>> /\ Head(ioq).op \in {"connect_handler", "async_bind"}
          /\ UNCHANGED <<entryVars, wire>> /\ StartActors(Tail(ioq))
      BY <1>11 DEF Connected, Bound, Runs
    <2>2. sending = <<>> /\ ~Acked
      <3>1. 1 \in DOMAIN ioq /\ ioq[1] = Head(ioq)
        BY <1>0, <2>1, TailElements
      <3>2. ~Open
        BY <2>1, <3>1 DEF SenderInv, LoopInv, Nowhere, Open
      <3>3. Nowhere(Tail(ioq), LoopOps)
        <4>1. CASE Head(ioq).op = "connect_handler"
          BY <1>0, <2>1, <4>1, QueueTail DEF SenderInv
        <4>2. CASE Head(ioq).op = "async_bind"
          <5>1. Nowhere(ioq, LoopOps)
            BY <2>1, <3>1, <4>2 DEF SenderInv, LoopInv, Nowhere
          <5> QED BY <1>0, <2>1, <5>1, NowhereTail
        <4> QED BY <2>1, <4>1, <4>2
      <3>4. Nowhere(Tail(ioq), {"handle_send"})
        BY <3>3 DEF Nowhere, LoopOps
      <3>5. Nowhere(ioq, {"handle_send"})
        BY <1>0, <2>1, <3>4, TakenElsewhere
      <3> QED BY <3>2, <3>5 DEF SenderInv, LoopInv, WaitsNeedSocket, EntryInv
    <2>3. PICK s \in {cd, CancelledInvoker \o cd} : ioq' = Tail(ioq) \o s
      BY <2>1 DEF StartActors, cd
    <2>4. s \in Seq(Handlers) /\ Nowhere(s, EntryOps)
      BY <1>c, <1>i, ConcatElements, NowhereConcat
    <2>5. \/ sending' = sending
          \/ send_entries # <<>> /\ sending' = Append(sending, Head(send_entries))
      BY <2>1 DEF StartActors
    <2> QED BY <2>1, <2>2, <2>3, <2>4, <2>5, <1>1 DEF EntryOps
  \* Entries reach the queue and the deque, and the kernel completes a send.
  <1>12. CASE PostAsyncSend
    <2>1. /\ ioq' = Append(ioq, SendHandler(asked + 1)) /\ asked' = asked + 1
          /\ UNCHANGED <<pushed, send_entries, bytes_transferred, processed, dropped, wire, sending>>
      BY <1>12 DEF PostAsyncSend, sendVars
    <2>2. /\ asked \in Nat /\ pushed \in Nat /\ pushed <= asked /\ asked + 1 \in Entries
      BY <1>12, BoundsAssumption DEF PostAsyncSend, TypeOK, EntryOK, Entries, EntryInv, DequeInv
    <2> DEFINE h == SendHandler(asked + 1)
    <2>3. h \in Handlers /\ h.op = "async_send"
      BY <2>2, HandlerTypes DEF SendHandler
    <2>4. AsksInOrder(ioq \o <<h>>, pushed, asked + 1)
      BY <1>0, <2>2, AsksAppend DEF EntryInv
    <2> HIDE DEF h
    <2>5. ioq' = ioq \o <<h>> /\ <<h>> \in Seq(Handlers) /\ Nowhere(<<h>>, {"handle_send"})
      BY <1>0, <2>1, <2>3, EmptySuffix, SingleSuffix DEF h
    <2>6. AboutFront(ioq', send_entries, Acked) /\ (Acked => ~Nowhere(ioq', {"handle_send"}))
      BY <1>0, <2>5, FrontConcat, FrontNowhere, QueuedConcat DEF EntryInv
    <2>7. Acked' <=> Acked
      BY <2>1 DEF Acked
    <2>8. DequeInv' /\ NoSilentLoss'
      BY <2>1, <2>2 DEF EntryInv, DequeInv, NoSilentLoss
    <2>9. /\ AsksInOrder(ioq, pushed, asked)' /\ AboutFront(ioq, send_entries, Acked)'
          /\ FlightOfFront(sending, send_entries, Acked)'
      BY <2>1, <2>4, <2>5, <2>6, <2>7 DEF AboutFront, FlightOfFront, EntryInv
    <2>10. EntryInv'
      BY <2>6, <2>7, <2>8, <2>9 DEF EntryInv
    <2> QED BY <2>1, <2>10, QueueStutters
  <1>13. CASE PushEntry
    BY <1>13, PutStep DEF SQ!Next
  <1>14. ASSUME NEW r \in SendResults, SendCompletes(r) PROVE Goal
    BY <1>14, TransmitStep
  \* The rest carries no entry.
  <1>15. CASE CloseWithoutSocket \/ ConnectWithSocket \/ DeadlineWithoutSocket
    BY <1>15, <1>2 DEF CloseWithoutSocket, ConnectWithSocket, DeadlineWithoutSocket, Runs,
       EntryOps, allButQueue, sendVars
  <1>16. CASE OpenFails \/ ConnectFails \/ BindFails \/ AwaitDeadline \/ ResetWorkGuard
    BY <1>16, <1>2 DEF OpenFails, ConnectFails, BindFails, AwaitDeadline, ResetWorkGuard, Runs,
       EntryOps, sendVars
  <1>17. CASE StartCheck \/ EndCheck \/ ThreadExits \/ UNCHANGED vars
    BY <1>17, <1>2 DEF StartCheck, EndCheck, ThreadExits, vars, sendVars
  <1>18. CASE DeadlineExpired \/ AsyncConnect
    BY <1>18, <1>3 DEF DeadlineExpired, AsyncConnect, Runs, EntryOps, PlainOps, allButQueue,
       sendVars
  <1>19. CASE ConnectFailedHandler \/ CheckFailed \/ InvokerFires
    BY <1>19, <1>3 DEF ConnectFailedHandler, FailureDelivered, CheckFailed, InvokerFires,
       PlainOps, sendVars
  <1>20. ASSUME NEW r \in ConnectResults, Connect(r) PROVE Goal
    <2>1. ConnectHandler(r) \in Handlers /\ ConnectHandler(r).op \notin EntryOps
      BY HandlerTypes DEF ConnectHandler, EntryOps
    <2>2. /\ ioq # <<>> /\ Head(ioq).op \notin EntryOps
          /\ ioq' = Tail(ioq) \o <<ConnectHandler(r)>>
          /\ UNCHANGED <<entryVars, wire, sending>>
      BY <1>20, <1>0, <2>1, EmptySuffix DEF Connect, Runs, EntryOps, sendVars
    <2>3. <<ConnectHandler(r)>> \in Seq(Handlers) /\ Nowhere(<<ConnectHandler(r)>>, EntryOps)
      BY <2>1, SingleSuffix
    <2> QED BY <2>2, <2>3, <1>1
  <1>21. CASE DeadlinePasses
    BY <1>21, <1>c, <1>1 DEF DeadlinePasses, sendVars, cd
  <1>22. CASE Destroy
    <2> DEFINE s == <<Post("async_close"), Post("reset")>>
    <2>1. s \in Seq(Handlers) /\ Nowhere(s, EntryOps)
      BY HandlerTypes DEF PlainOps, Nowhere, Post, EntryOps
    <2>2. ioq' = ioq \o s /\ UNCHANGED <<entryVars, wire, sending>>
      BY <1>22 DEF Destroy, sendVars
    <2> HIDE DEF s
    <2> QED BY <2>1, <2>2, <1>1
  <1>23. CASE Recreate
    <2> DEFINE s == <<Post("async_close"), Post("async_bind")>>
    <2>1. s \in Seq(Handlers) /\ Nowhere(s, EntryOps)
      BY HandlerTypes DEF PlainOps, Nowhere, Post, EntryOps
    <2>2. ioq = <<>>
      BY <1>23 DEF Recreate, SenderInv, LoopInv
    <2>3. ioq' = ioq \o s /\ UNCHANGED <<entryVars, wire, sending>>
      BY <1>23, <2>1, <2>2 DEF Recreate, sendVars
    <2> HIDE DEF s
    <2> QED BY <2>1, <2>3, <1>1
  <1> QED
    BY <1>4, <1>5, <1>7, <1>8, <1>9, <1>10, <1>11, <1>12, <1>13, <1>14, <1>15, <1>16,
       <1>17, <1>18, <1>19, <1>20, <1>21, <1>22, <1>23
    DEF Next, IoThread, SenderHandlers, SocketHandlers, Dispatcher, Kernel, Clock,
        AsyncSend, CheckServer

-------------------------------------------------------------------------------

\* The invariant holds while nothing has been asked for.
LEMMA EntryInit == Init => EntryInv
  <1> SUFFICES ASSUME Init PROVE EntryInv OBVIOUS
  <1>1. /\ ioq = <<>> /\ asked = 0 /\ pushed = 0 /\ send_entries = <<>> /\ wire = <<>>
        /\ sending = <<>> /\ processed = <<>> /\ bytes_transferred = [e \in Entries |-> 0]
    BY DEF Init
  <1>2. DequeInv
    BY <1>1 DEF DequeInv, Increasing, WireBehind, Untouched
  <1>3. ~Acked
    BY <1>1 DEF Acked, Acks
  <1> QED BY <1>1, <1>2, <1>3 DEF EntryInv, AsksInOrder, AboutFront, FlightOfFront, NoSilentLoss

\* EntryInv holds in every state.
LEMMA EntryInvariant ==
    ASSUME SerialConnects \/ Mode = "server"
    PROVE  Spec => []EntryInv
  <1>1. TypeOK /\ TypeOK' /\ SenderInv /\ EntryInv /\ [Next]_vars => EntryInv'
    BY EntryStep
  <1> QED BY <1>1, EntryInit, TypeCorrect, SenderInvariant, PTL DEF Spec

\* NoSilentLoss holds in every state: pop_front_send_entry() never takes an
\* entry that the kernel has not had and no error has given up, whatever
\* connections are closed and opened under the send (base_impl.hpp:412-433).
THEOREM NothingLostSilently ==
    ASSUME SerialConnects \/ Mode = "server"
    PROVE  Spec => []NoSilentLoss
  <1>1. EntryInv => NoSilentLoss
    BY DEF EntryInv
  <1> QED BY <1>1, EntryInvariant, PTL

\* BaseImpl implements SendQueue: an entry reaches the deque, then the kernel
\* or the dropped entries, first in first out and at most once, and no other
\* step of handlers, timers, sockets or threads touches it
\* (base_impl.hpp:258-273, 282-433).
THEOREM SenderIsSendQueue ==
    ASSUME SerialConnects \/ Mode = "server"
    PROVE  Spec => ImplementsSendQueue
  <1>1. Init => SQ!Init
    BY DEF Init, SQ!Init, Pending
  <1>2. TypeOK /\ TypeOK' /\ SenderInv /\ EntryInv /\ [Next]_vars => [SQ!Next]_(SQ!vars)
    BY EntryStep
  <1> QED BY <1>1, <1>2, TypeCorrect, SenderInvariant, EntryInvariant, PTL
          DEF Spec, ImplementsSendQueue, SQ!Spec
===============================================================================
