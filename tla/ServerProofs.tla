----------------------------- MODULE ServerProofs -----------------------------
(***************************************************************************)
(* Theorems about Server for every size of its bounds.                     *)
(***************************************************************************)
EXTENDS Server, QueueLemmas, TLAPS

-------------------------------------------------------------------------------
(* The inductive invariant *)

Everything == Signals \union Functions

\* What ~server_impl has posted is at the end of the io queue.
EndsWithClose(q) ==
    Len(q) >= 2 /\ q[Len(q) - 1] = "async_close" /\ q[Len(q)] = "reset"

\* While its caller waits in join() the socket will be closed before the io
\* thread ends, and the file with it.
JoinInv ==
    /\ ~server_impl => socket = "none" /\ ioq = <<>>
    /\ file = "bound" => socket = "bound"
    /\ joining # "no" /\ server_impl =>
         EndsWithClose(ioq) \/ (ioq \in {<<"reset">>, <<>>} /\ socket # "bound")

\* Only the destructor detaches the server.
DetachInv == detaching => ~attached

\* After the destructor: its stop() will be put in front, is the next function,
\* or has been run, and the others are signals of server_impl.
DestroyInv ==
    ~attached =>
      /\ delayed = 0 /\ ~ticking
      /\ \/ detaching /\ dq \in Seq(Signals)
         \/ ~detaching /\ dq # <<>> /\ Head(dq) = "stop" /\ Tail(dq) \in Seq(Signals)
         \/ ~detaching /\ joining = "nothing" /\ dq \in Seq(Signals)
         \/ ~detaching /\ joining = "no" /\ ~server_impl /\ dq = <<>>

Reports == {"bound", "closed"}
Reported == {"impl_bound", "impl_closed"}
Ups == {"bound", "impl_bound"}
Downs == {"closed", "impl_closed"}

\* What became of the sockets, oldest first: what was reported last, what will
\* be, and what server_impl has signalled.
Happened(r, q) == (<<r>> \o Kept(q, Reports)) \o Kept(q, Reported)

\* A socket is closed only after it was bound, and the last one is bound if `up`.
Alternates(h, up) ==
    /\ \A i \in 1..Len(h) : i > 1 /\ h[i] \in Downs => h[i - 1] \in Ups
    /\ up => h[Len(h)] \in Ups

HappenedInv == attached => Alternates(Happened(reported, dq), socket = "bound")

ServerInv ==
    /\ VariablesOK /\ NoStaleSignal /\ JoinInv
    /\ DetachInv /\ DestroyInv /\ HappenedInv

-------------------------------------------------------------------------------
(* Queues *)

\* What Enqueue returns.
LEMMA EnqueueCases ==
    ASSUME NEW q \in Seq(Everything), NEW f \in Everything
    PROVE  /\ Enqueue(q, <<f>>) \in Seq(Everything)
           /\ attached => Enqueue(q, <<f>>) = Append(q, f)
           /\ ~attached => Enqueue(q, <<f>>) = q
  <1>1. q \o <<f>> = Append(q, f) /\ Append(q, f) \in Seq(Everything)
    OBVIOUS
  <1> QED BY <1>1 DEF Enqueue

\* The names of the functions, spelled out.
LEMMA Names ==
    /\ Signals \intersect Functions = {}
    /\ Signals \subseteq Everything /\ Functions \subseteq Everything
    /\ Reports \subseteq Functions /\ Reported \subseteq Signals
    /\ Reports \intersect Reported = {}
    /\ {"bind", "stop", "reconnect", "timer_start", "timer_stop", "bind_failed"} \subseteq Functions
    /\ "impl_bind_failed" \in Signals
    /\ {"bind", "stop", "reconnect", "timer_start", "timer_stop", "bind_failed", "impl_bind_failed"}
          \intersect (Reports \union Reported) = {}
  BY DEF Signals, Functions, Everything, Reports, Reported

\* Erasing the signals leaves functions, erasing the functions signals.
LEMMA ErasedTypes ==
    ASSUME NEW q \in Seq(Everything)
    PROVE  /\ WithoutSignals(q) \in Seq(Functions) /\ WithoutSignals(q) \in Seq(Everything)
           /\ WithoutFunctions(q) \in Seq(Signals) /\ WithoutFunctions(q) \in Seq(Everything)
  <1>1. Everything \intersect Functions = Functions /\ Everything \intersect Signals = Signals
    BY Names
  <1>2. Kept(q, Functions) \in Seq(Everything \intersect Functions) /\ Kept(q, Functions) \in Seq(Everything)
    BY KeptType
  <1>3. Kept(q, Signals) \in Seq(Everything \intersect Signals) /\ Kept(q, Signals) \in Seq(Everything)
    BY KeptType
  <1> QED BY <1>1, <1>2, <1>3 DEF WithoutSignals, WithoutFunctions

-------------------------------------------------------------------------------
(* What happened *)

\* The parts of Happened have their types.
LEMMA HappenedType ==
    ASSUME NEW r \in Reports, NEW q \in Seq(Everything)
    PROVE  /\ Kept(q, Reports) \in Seq(Everything) /\ Kept(q, Reported) \in Seq(Everything)
           /\ <<r>> \in Seq(Everything)
           /\ <<r>> \o Kept(q, Reports) \in Seq(Everything)
           /\ Happened(r, q) \in Seq(Everything)
           /\ Len(Happened(r, q)) > 0
  <1> DEFINE A == Kept(q, Reports)
             B == Kept(q, Reported)
  <1>1. A \in Seq(Everything) /\ B \in Seq(Everything)
    BY KeptType
  <1> HIDE DEF A, B
  <1>2. <<r>> \in Seq(Everything)
    BY Names
  <1>3. <<r>> \o A \in Seq(Everything) /\ (<<r>> \o A) \o B \in Seq(Everything)
        /\ Len((<<r>> \o A) \o B) > 0
    BY <1>1, <1>2
  <1> QED BY <1>1, <1>2, <1>3 DEF A, B, Happened

\* A function that is no report and no signal of one changes nothing.
LEMMA QuietFunction ==
    ASSUME NEW r \in Reports, NEW q \in Seq(Everything)
    PROVE  /\ \A f \in Everything : f \notin Reports \union Reported
                => Happened(r, Append(q, f)) = Happened(r, q)
           /\ q # <<>> /\ Head(q) \notin Reports \union Reported
                => Happened(r, Tail(q)) = Happened(r, q)
  <1>1. ASSUME NEW f \in Everything, f \notin Reports \union Reported
        PROVE  Happened(r, Append(q, f)) = Happened(r, q)
    <2>1. Kept(Append(q, f), Reports) = Kept(q, Reports)
      BY <1>1, KeptAppend
    <2>2. Kept(Append(q, f), Reported) = Kept(q, Reported)
      BY <1>1, KeptAppend
    <2> QED BY <2>1, <2>2 DEF Happened
  <1>2. ASSUME q # <<>>, Head(q) \notin Reports \union Reported
        PROVE  Happened(r, Tail(q)) = Happened(r, q)
    <2>1. Kept(q, Reports) = Kept(Tail(q), Reports)
      BY <1>2, KeptHead
    <2>2. Kept(q, Reported) = Kept(Tail(q), Reported)
      BY <1>2, KeptHead
    <2> QED BY <2>1, <2>2 DEF Happened
  <1> QED BY <1>1, <1>2

\* A signal is added at the end.
LEMMA SignalAdded ==
    ASSUME NEW r \in Reports, NEW q \in Seq(Everything), NEW f \in Reported
    PROVE  Happened(r, Append(q, f)) = Append(Happened(r, q), f)
  <1> DEFINE A == Kept(q, Reports)
             B == Kept(q, Reported)
  <1>1. A \in Seq(Everything) /\ B \in Seq(Everything) /\ <<r>> \o A \in Seq(Everything)
    BY HappenedType
  <1>2. f \in Everything /\ f \notin Reports
    BY Names
  <1>3. Kept(Append(q, f), Reports) = A
    BY <1>2, KeptAppend
  <1>4. Kept(Append(q, f), Reported) = Append(B, f)
    BY <1>2, KeptAppend
  <1> HIDE DEF A, B
  <1>5. (<<r>> \o A) \o Append(B, f) = Append((<<r>> \o A) \o B, f)
    BY <1>1, <1>2
  <1> QED BY <1>3, <1>4, <1>5 DEF Happened, A, B

\* A socket is bound, or closed when it was bound.
LEMMA AlternatesAppend ==
    ASSUME NEW h \in Seq(Everything), Len(h) > 0, NEW up \in BOOLEAN, NEW f \in Everything,
           Alternates(h, up)
    PROVE  /\ f \in Ups => Alternates(Append(h, f), TRUE)
           /\ f \in Downs /\ up => Alternates(Append(h, f), FALSE)
  <1> DEFINE g == Append(h, f)
             n == Len(h)
  <1>1. /\ n \in Nat /\ n > 0 /\ Len(g) = n + 1 /\ g[n + 1] = f /\ (n + 1) - 1 = n
        /\ \A i \in 1..n : g[i] = h[i]
    BY AppendElements
  <1>2. \A i \in 1..(n + 1) : i \in 1..n \/ i = n + 1
    BY <1>1
  <1>3. \A i \in 1..n : i > 1 => i - 1 \in 1..n
    BY <1>1
  <1>4. n \in 1..n
    BY <1>1
  <1>5. Ups \intersect Downs = {}
    BY DEF Ups, Downs
  <1>6. \A i \in 1..n : i > 1 /\ h[i] \in Downs => h[i - 1] \in Ups
    BY DEF Alternates, n
  <1>7. up => h[n] \in Ups
    BY DEF Alternates, n
  <1> HIDE DEF g, n
  <1>8. \A i \in 1..n : i > 1 /\ g[i] \in Downs => g[i - 1] \in Ups
    BY <1>1, <1>3, <1>6
  <1>9. f \in Ups \/ (f \in Downs /\ up) =>
          \A i \in 1..(n + 1) : i > 1 /\ g[i] \in Downs => g[i - 1] \in Ups
    BY <1>1, <1>2, <1>4, <1>5, <1>7, <1>8
  <1> QED BY <1>1, <1>9 DEF Alternates, g

\* The dispatcher runs server_impl's handler: a signal becomes a report.
LEMMA SignalReported ==
    ASSUME NEW r \in Reports, NEW q \in Seq(Everything), q # <<>>, NEW up \in BOOLEAN,
           NEW f \in Reports, Head(q) \in Reported, Head(q) \in Ups <=> f \in Ups,
           Alternates(Happened(r, q), up)
    PROVE  Alternates(Happened(r, Append(Tail(q), f)), up)
  <1> DEFINE A == Kept(Tail(q), Reports)
             B == Kept(Tail(q), Reported)
             a == <<r>> \o A
             x == Head(q)
             h == a \o (<<x>> \o B)
             g == Append(a, f) \o B
             n == Len(a)
             m == Len(B)
  <1>t. Tail(q) \in Seq(Everything) /\ x \in Everything /\ f \in Everything /\ x \notin Reports /\ f \notin Reported
    BY Names
  <1>1. A \in Seq(Everything) /\ B \in Seq(Everything) /\ a \in Seq(Everything)
    BY <1>t, HappenedType
  <1>2. Kept(q, Reports) = A /\ Kept(q, Reported) = <<x>> \o B
    BY <1>t, KeptHead
  <1>3. Happened(r, q) = h
    BY <1>2 DEF Happened
  <1>a. \A t \in Seq(Everything) : Kept(Append(t, f), Reports) = Append(Kept(t, Reports), f)
                                   /\ Kept(Append(t, f), Reported) = Kept(t, Reported)
    <2> TAKE t \in Seq(Everything)
    <2>1. f \in Everything /\ f \notin Reported
      BY <1>t
    <2>2. Kept(Append(t, f), Reports) = Append(Kept(t, Reports), f)
      BY <2>1, KeptAppend
    <2>3. Kept(Append(t, f), Reported) = Kept(t, Reported)
      BY <2>1, KeptAppend
    <2> QED BY <2>2, <2>3
  <1>4. Kept(Append(Tail(q), f), Reports) = Append(A, f)
    BY <1>t, <1>a
  <1>5. Kept(Append(Tail(q), f), Reported) = B
    BY <1>t, <1>a
  <1>6. <<r>> \o Append(A, f) = Append(a, f)
    <2>1. <<r>> \in Seq(Everything)
      BY Names
    <2> HIDE DEF A
    <2> QED BY <1>t, <1>1, <2>1
  <1>7. Happened(r, Append(Tail(q), f)) = g
    BY <1>4, <1>5, <1>6 DEF Happened
  <1> HIDE DEF A, B, a, x
  <1>8. n \in Nat /\ m \in Nat /\ Len(h) = (n + 1) + m /\ Len(g) = (n + 1) + m
    BY <1>1, <1>t
  <1>9. /\ \A i \in 1..n : h[i] = a[i] /\ g[i] = a[i]
        /\ h[n + 1] = x /\ g[n + 1] = f
        /\ \A i \in 1..m : h[(n + 1) + i] = B[i] /\ g[(n + 1) + i] = B[i]
    BY <1>1, <1>t
  <1> HIDE DEF h, g, n, m
  <1>10. \A i \in 1..((n + 1) + m) : i # n + 1 => h[i] = g[i]
    <2> TAKE i \in 1..((n + 1) + m)
    <2> HAVE i # n + 1
    <2>1. CASE i <= n
      BY <1>8, <1>9, <2>1
    <2>2. CASE i > n + 1
      <3>1. i - (n + 1) \in 1..m /\ (n + 1) + (i - (n + 1)) = i
        BY <1>8, <2>2
      <3> QED BY <1>9, <3>1
    <2> QED BY <1>8, <2>1, <2>2
  <1>11. /\ h[n + 1] \in Ups <=> g[n + 1] \in Ups
         /\ h[n + 1] \in Downs <=> g[n + 1] \in Downs
    BY <1>9 DEF x, Reports, Reported, Ups, Downs
  <1>12. \A i \in 1..((n + 1) + m) : (h[i] \in Ups <=> g[i] \in Ups) /\ (h[i] \in Downs <=> g[i] \in Downs)
    BY <1>10, <1>11
  <1>13. Alternates(h, up)
    BY <1>3
  <1>14. Alternates(g, up)
    <2>1. \A i \in 1..Len(g) : i > 1 => i - 1 \in 1..Len(g)
      BY <1>8
    <2>2. Len(g) \in 1..((n + 1) + m)
      BY <1>8
    <2> QED BY <1>8, <1>12, <1>13, <2>1, <2>2 DEF Alternates
  <1> QED BY <1>7, <1>14

\* A report is made: the oldest element goes.
LEMMA ReportMade ==
    ASSUME NEW r \in Reports, NEW q \in Seq(Everything), q # <<>>, NEW up \in BOOLEAN,
           Head(q) \in Reports, Alternates(Happened(r, q), up)
    PROVE  /\ Alternates(Happened(Head(q), Tail(q)), up)
           /\ Head(q) = "closed" => r = "bound"
  <1> DEFINE A == Kept(Tail(q), Reports)
             B == Kept(Tail(q), Reported)
             x == Head(q)
             g == (<<x>> \o A) \o B
             h == (<<r>> \o (<<x>> \o A)) \o B
  <1>t. Tail(q) \in Seq(Everything) /\ x \in Everything /\ x \notin Reported /\ r \in Everything
    BY Names
  <1>1. A \in Seq(Everything) /\ B \in Seq(Everything)
    BY <1>t, HappenedType
  <1>2. Kept(q, Reports) = <<x>> \o A /\ Kept(q, Reported) = B
    BY <1>t, KeptHead
  <1>3. Happened(r, q) = h /\ Happened(x, Tail(q)) = g
    BY <1>2 DEF Happened
  <1> HIDE DEF A, B, x
  <1>4. Len(g) \in Nat /\ Len(g) > 0 /\ Len(h) = Len(g) + 1 /\ h[1] = r /\ h[2] = x
        /\ \A i \in 1..Len(g) : h[i + 1] = g[i]
    <2>1. g \in Seq(Everything) /\ Len(g) > 0
      BY <1>1, <1>t
    <2>2. h = <<r>> \o g
      BY <1>1, <1>t
    <2>3. g[1] = x
      BY <1>1, <1>t
    <2> HIDE DEF g, h
    <2>4. Len(h) = Len(g) + 1 /\ h[1] = r /\ \A i \in 1..Len(g) : h[i + 1] = g[i]
      BY <1>t, <2>1, <2>2
    <2>5. h[2] = g[1]
      <3>1. 1 \in 1..Len(g) /\ 1 + 1 = 2
        BY <2>1
      <3> QED BY <2>4, <3>1
    <2> QED BY <2>1, <2>3, <2>4, <2>5
  <1>5. Alternates(h, up)
    BY <1>3
  <1> HIDE DEF g, h
  <1>6. \A i \in 1..Len(g) : i > 1 /\ g[i] \in Downs => g[i - 1] \in Ups
    <2> TAKE i \in 1..Len(g)
    <2> HAVE i > 1 /\ g[i] \in Downs
    <2>1. i + 1 \in 1..Len(h) /\ i + 1 > 1 /\ (i + 1) - 1 = i /\ i - 1 \in 1..Len(g) /\ (i - 1) + 1 = i
      BY <1>4
    <2>2. h[i + 1] = g[i] /\ h[i] = g[i - 1]
      BY <1>4, <2>1
    <2>3. h[(i + 1) - 1] \in Ups
      BY <1>5, <2>1, <2>2 DEF Alternates
    <2> QED BY <2>1, <2>2, <2>3
  <1>7. up => g[Len(g)] \in Ups
    <2>1. Len(g) \in 1..Len(g)
      BY <1>4
    <2>2. h[Len(g) + 1] = g[Len(g)]
      BY <1>4, <2>1
    <2> QED BY <1>4, <1>5, <2>2 DEF Alternates
  <1>8. x = "closed" => r = "bound"
    <2>1. 2 \in 1..Len(h) /\ 2 > 1 /\ 2 - 1 = 1
      BY <1>4
    <2>2. x = "closed" => h[2 - 1] \in Ups
      BY <1>4, <1>5, <2>1 DEF Alternates, Downs
    <2> QED BY <1>4, <2>1, <2>2 DEF Ups, Reports
  <1> QED BY <1>3, <1>6, <1>7, <1>8 DEF Alternates, x

\* The signals are erased: what was and will be reported remains.
LEMMA SignalsErased ==
    ASSUME NEW r \in Reports, NEW q \in Seq(Everything), NEW up \in BOOLEAN,
           Alternates(Happened(r, q), up)
    PROVE  Alternates(Happened(r, WithoutSignals(q)), FALSE)
  <1> DEFINE A == Kept(q, Reports)
             B == Kept(q, Reported)
             a == <<r>> \o A
             h == a \o B
  <1>1. A \in Seq(Everything) /\ B \in Seq(Everything) /\ a \in Seq(Everything)
    BY HappenedType
  <1>2. Functions \intersect Reports = Reports /\ Functions \intersect Reported = {}
    BY Names
  <1>3. Kept(WithoutSignals(q), Reports) = A
    BY <1>2, KeptKept DEF WithoutSignals
  <1>4. Kept(WithoutSignals(q), Reported) = <<>>
    <2>1. Kept(WithoutSignals(q), Reported) = Kept(q, {})
      BY <1>2, KeptKept DEF WithoutSignals
    <2>2. Everything \intersect {} = {}
      OBVIOUS
    <2>3. Kept(q, {}) = <<>>
      BY <2>2, KeptNoneOrAll
    <2> QED BY <2>1, <2>3
  <1>5. Happened(r, WithoutSignals(q)) = a
    <2>1. a \o <<>> = a
      BY <1>1
    <2> QED BY <1>3, <1>4, <2>1 DEF Happened
  <1> HIDE DEF a, B
  <1>6. /\ Len(a) \in Nat /\ Len(h) >= Len(a) /\ Len(h) \in Nat
        /\ \A i \in 1..Len(a) : h[i] = a[i]
    BY <1>1
  <1>7. Alternates(h, up)
    BY DEF Happened, a, B
  <1> HIDE DEF h
  <1>8. \A i \in 1..Len(a) : i > 1 => i \in 1..Len(h) /\ i - 1 \in 1..Len(a)
    BY <1>6
  <1>9. \A i \in 1..Len(a) : i > 1 /\ a[i] \in Downs => a[i - 1] \in Ups
    BY <1>6, <1>7, <1>8 DEF Alternates
  <1> QED BY <1>5, <1>9 DEF Alternates

-------------------------------------------------------------------------------
(* Types *)

\* bind() assigns values of the variables' types.
LEMMA BindType ==
    ASSUME VariablesOK, Bind
    PROVE  /\ server_impl' \in BOOLEAN
           /\ ioq' \in Seq(IoHandlers)
           /\ socket' \in {"none", "unbound", "bound"}
           /\ work_guard' \in BOOLEAN /\ checking' \in BOOLEAN
           /\ check_client' \in {"none", "connecting", "connected", "refused", "done"}
           /\ file' \in {"absent", "bound"}
  <1>1. <<"async_close", "async_bind">> \in Seq(IoHandlers)
    BY DEF IoHandlers
  <1> QED BY <1>1 DEF Bind, VariablesOK, implVars, checkVars

\* close() assigns values of the variables' types.
LEMMA CloseType ==
    ASSUME VariablesOK, NEW next \in {"nothing", "reconnect"}, Close(next)
    PROVE  /\ joining' \in {"no", "nothing", "reconnect"}
           /\ server_impl' \in BOOLEAN
           /\ ioq' \in Seq(IoHandlers)
           /\ socket' \in {"none", "unbound", "bound"}
           /\ work_guard' \in BOOLEAN /\ checking' \in BOOLEAN
           /\ check_client' \in {"none", "connecting", "connected", "refused", "done"}
           /\ file' \in {"absent", "bound"}
  <1>1. \A q \in Seq(IoHandlers) : q \o <<"async_close", "reset">> \in Seq(IoHandlers)
    BY DEF IoHandlers
  <1> QED BY <1>1 DEF Close, VariablesOK, implVars, checkVars

\* The dispatcher's queue holds functions of the server and of server_impl.
LEMMA QueueType ==
    ASSUME VariablesOK
    PROVE  /\ dq \in Seq(Everything)
           /\ dq # <<>> => Tail(dq) \in Seq(Everything) /\ Head(dq) \in Everything
           /\ \A f \in Everything : Append(dq, f) \in Seq(Everything)
           /\ \A f \in Everything : <<f>> \in Seq(Everything)
           /\ \A f \in Everything : Enqueue(dq, <<f>>) \in Seq(Everything)
           /\ \A f \in Everything : dq # <<>> => Enqueue(Tail(dq), <<f>>) \in Seq(Everything)
  <1>1. dq \in Seq(Everything)
    BY DEF VariablesOK, Everything
  <1>2. dq # <<>> => Tail(dq) \in Seq(Everything) /\ Head(dq) \in Everything
    BY <1>1
  <1>3. \A f \in Everything : Append(dq, f) \in Seq(Everything) /\ <<f>> \in Seq(Everything)
    BY <1>1
  <1> QED BY <1>1, <1>2, <1>3, EnqueueCases

\* A step keeps the types of all variables.
LEMMA TypeStep ==
    ASSUME VariablesOK, [Next]_vars
    PROVE  VariablesOK'
  <1> USE ServerBounds
  <1>q. dq' \in Seq(Everything) => dq' \in Seq(Signals \union Functions)
    BY DEF Everything
  <1>e. /\ {"bind", "stop", "reconnect", "timer_start", "timer_stop", "bind_failed"} \subseteq Everything
        /\ {"bound", "closed"} \subseteq Everything
        /\ {"impl_bound", "impl_closed", "impl_bind_failed"} \subseteq Everything
    BY DEF Everything, Signals, Functions
  <1>i. /\ ioq # <<>> => Tail(ioq) \in Seq(IoHandlers)
        /\ \A h \in IoHandlers : Append(ioq, h) \in Seq(IoHandlers)
    BY DEF VariablesOK
  <1>1. CASE Start
    <2>1. dq' \in Seq(Everything)
      BY <1>1, QueueType DEF Start, Runs
    <2> QED BY <1>1, <1>q, <2>1, BindType DEF Start, VariablesOK, modeVars, timerVars, boundVars
  <1>2. CASE Stop
    <2>1. dq' \in Seq(Everything)
      BY <1>2, QueueType DEF Stop, Runs
    <2>2. Close("nothing")
      BY <1>2 DEF Stop
    <2> QED BY <1>2, <1>q, <2>1, <2>2, CloseType DEF Stop, VariablesOK, timerVars, boundVars
  <1>3. CASE BoundSignal
    <2>1. dq' \in Seq(Everything)
      BY <1>3, <1>e, QueueType DEF BoundSignal, Runs
    <2> QED BY <1>3, <1>q, <2>1
         DEF BoundSignal, VariablesOK, implVars, checkVars, worldVars, historyVars, boundVars,
             modeVars, timerVars
  <1>4. CASE BindFailedSignal \/ ClosedSignal
    <2>1. dq' \in Seq(Everything)
      BY <1>4, <1>e, QueueType DEF BindFailedSignal, ClosedSignal, Failed, Runs
    <2>2. Close("reconnect")
      BY <1>4 DEF BindFailedSignal, ClosedSignal, Failed
    <2> QED BY <1>4, <1>q, <2>1, <2>2, CloseType
         DEF BindFailedSignal, ClosedSignal, Failed, VariablesOK, worldVars, historyVars, boundVars,
             timerVars
  <1>5. CASE Report
    <2>1. dq' \in Seq(Everything)
      BY <1>5, QueueType DEF Report, Runs
    <2> QED BY <1>5, <1>q, <2>1
         DEF Report, VariablesOK, implVars, checkVars, boundVars, modeVars, timerVars
  <1>6. CASE TimerStart \/ TimerStop
    <2>1. dq' \in Seq(Everything)
      BY <1>6, <1>e, QueueType DEF TimerStart, TimerStop, Runs
    <2>2. ticking' \in BOOLEAN
      BY <1>6, Zenon DEF TimerStart, TimerStop
    <2>3. UNCHANGED <<implVars, worldVars, modeVars, delayed>>
      BY <1>6, Zenon DEF TimerStart, TimerStop
    <2> QED BY <1>q, <2>1, <2>2, <2>3
         DEF TimerStart, TimerStop, VariablesOK, implVars, checkVars, worldVars, historyVars,
             boundVars, modeVars
  <1>7. CASE Reconnect
    <2>1. dq' \in Seq(Everything)
      BY <1>7, <1>e, QueueType DEF Reconnect, Runs
    <2>2. Bind
      BY <1>7 DEF Reconnect
    <2> QED BY <1>7, <1>q, <2>1, <2>2, BindType
         DEF Reconnect, VariablesOK, worldVars, historyVars, boundVars, modeVars, timerVars
  <1>8. CASE Joined
    <2>1. WithoutSignals(dq) \in Seq(Everything)
      BY QueueType, ErasedTypes
    <2>2. Enqueue(WithoutSignals(dq), <<"timer_stop">>) \in Seq(Everything)
      BY <1>e, <2>1, EnqueueCases
    <2>3. dq' \in Seq(Everything)
      BY <1>8, <2>1, <2>2 DEF Joined, StartReconnectTimer
    <2>4. delayed' \in Nat
      BY <1>8 DEF Joined, StartReconnectTimer, VariablesOK
    <2> QED BY <1>8, <1>q, <2>3, <2>4 DEF Joined, VariablesOK, worldVars, historyVars, boundVars
  <1>9. CASE Tick \/ DelayPasses
    <2>1. dq' \in Seq(Everything)
      BY <1>9, <1>e, QueueType DEF Tick, DelayPasses
    <2>2. delayed' \in Nat
      BY <1>9 DEF Tick, DelayPasses, VariablesOK, timerVars
    <2> QED BY <1>9, <1>q, <2>1, <2>2
         DEF Tick, DelayPasses, VariablesOK, implVars, checkVars, worldVars, historyVars, boundVars,
             modeVars, timerVars
  <1>10. CASE CheckTick \/ CheckDelivered
    <2>1. ioq' \in Seq(IoHandlers)
      BY <1>10, <1>i DEF CheckTick, CheckDelivered, IoHandlers
    <2> QED BY <1>10, <2>1
         DEF CheckTick, CheckDelivered, VariablesOK, checkVars, worldVars, historyVars, boundVars,
             modeVars, timerVars
  <1>11. CASE AsyncClose \/ AsyncBindFails \/ AsyncBind
    <2>1. dq' \in Seq(Everything)
      BY <1>11, <1>e, QueueType DEF AsyncClose, AsyncBindFails, AsyncBind
    <2>2. ioq' \in Seq(IoHandlers)
      BY <1>11, <1>i DEF AsyncClose, AsyncBindFails, AsyncBind, IoRuns
    <2> QED BY <1>11, <1>q, <2>1, <2>2, ZenonT(60)
         DEF AsyncClose, AsyncBindFails, AsyncBind, VariablesOK, checkVars, worldVars, historyVars,
             boundVars, modeVars, timerVars
  <1>12. CASE CheckServer \/ CheckReset \/ ResetWorkGuard
    <2>2. ioq' \in Seq(IoHandlers)
      BY <1>12, <1>i DEF CheckServer, CheckReset, ResetWorkGuard, IoRuns
    <2>3. checking' = FALSE \/ checking' = checking
      BY <1>12, Zenon DEF CheckServer, CheckReset, ResetWorkGuard, checkVars
    <2>4. work_guard' = FALSE \/ work_guard' = work_guard
      BY <1>12, Zenon DEF CheckServer, CheckReset, ResetWorkGuard
    <2>5. checking' \in BOOLEAN /\ work_guard' \in BOOLEAN
      BY <2>3, <2>4 DEF VariablesOK
    <2> QED BY <1>12, <2>2, <2>5
         DEF CheckServer, CheckReset, ResetWorkGuard, VariablesOK, checkVars, worldVars, historyVars,
             boundVars, modeVars, timerVars
  <1>13. CASE CheckConnects
    BY <1>13 DEF CheckConnects, VariablesOK, worldVars, historyVars, boundVars, modeVars, timerVars
  <1>14. CASE Request
    <2>1. dq' \in Seq(Everything)
      BY <1>14, <1>e, QueueType DEF Request
    <2>2. requests' \in 0..MaxRequests
      BY <1>14 DEF Request, VariablesOK
    <2> QED BY <1>14, <1>q, <2>1, <2>2
         DEF Request, VariablesOK, implVars, checkVars, historyVars, modeVars, timerVars
  <1>15. CASE Destroy
    <2>1. WithoutFunctions(dq) \in Seq(Everything)
      BY QueueType, ErasedTypes
    <2>2. dq' \in Seq(Everything)
      BY <1>15, <2>1 DEF Destroy
    <2> QED BY <1>15, <1>q, <2>2, ZenonT(60)
         DEF Destroy, VariablesOK, implVars, checkVars, worldVars, historyVars, boundVars
  <1>18. CASE EnqueueStop
    <2>1. <<"stop">> \in Seq(Everything) /\ dq \in Seq(Everything)
      BY <1>e, QueueType
    <2>2. dq' \in Seq(Everything)
      BY <1>18, <2>1 DEF EnqueueStop
    <2> QED BY <1>18, <1>q, <2>2, ZenonT(60)
         DEF EnqueueStop, VariablesOK, implVars, checkVars, worldVars, historyVars, boundVars, timerVars
  <1>16. CASE FileLost
    <2>1. losses' \in 0..MaxLosses
      BY <1>16 DEF FileLost, VariablesOK
    <2> QED BY <1>16, <2>1
         DEF FileLost, VariablesOK, checkVars, historyVars, modeVars, timerVars
  <1>17. CASE UNCHANGED vars
    BY <1>17 DEF vars, VariablesOK, implVars, checkVars, worldVars, historyVars, boundVars,
                 modeVars, timerVars
  <1> QED BY <1>1, <1>2, <1>3, <1>4, <1>5, <1>6, <1>7, <1>8, <1>9, <1>10, <1>11, <1>12, <1>13,
             <1>14, <1>15, <1>16, <1>17, <1>18 DEF Next, Dispatcher, Clock, IoThread

-------------------------------------------------------------------------------
(* The io thread of a server_impl that is being destroyed *)

\* The posts of ~server_impl come last.
LEMMA CloseEnds ==
    ASSUME NEW q \in Seq(IoHandlers)
    PROVE  EndsWithClose(q \o <<"async_close", "reset">>)
  <1> DEFINE c == <<"async_close", "reset">>
  <1>1. c \in Seq(IoHandlers) /\ Len(c) = 2 /\ c[1] = "async_close" /\ c[2] = "reset"
    BY DEF IoHandlers
  <1> HIDE DEF c
  <1>2. Len(q) \in Nat /\ Len(q \o c) = Len(q) + 2
        /\ (q \o c)[Len(q) + 1] = c[1] /\ (q \o c)[Len(q) + 2] = c[2]
    <2>1. Len(q) \in Nat /\ 1 \in 1..2 /\ 2 \in 1..2
      OBVIOUS
    <2>2. /\ Len(q \o c) = Len(q) + Len(c)
          /\ \A i \in 1..Len(c) : (q \o c)[Len(q) + i] = c[i]
      <3>1. \A s \in Seq(IoHandlers) :
              /\ Len(q \o s) = Len(q) + Len(s)
              /\ \A i \in 1..Len(s) : (q \o s)[Len(q) + i] = s[i]
        BY ConcatElements
      <3>2. c \in Seq(IoHandlers)
        BY <1>1
      <3> QED BY <3>1, <3>2, Zenon
    <2> QED BY <1>1, <2>1, <2>2
  <1>3. (Len(q) + 2) - 1 = Len(q) + 1 /\ Len(q) + 2 >= 2
    BY <1>2
  <1> QED BY <1>1, <1>2, <1>3 DEF EndsWithClose, c

\* They stay last while earlier handlers are run.
LEMMA EndsTail ==
    ASSUME NEW q \in Seq(IoHandlers), EndsWithClose(q)
    PROVE  EndsWithClose(Tail(q)) \/ (Head(q) = "async_close" /\ Tail(q) = <<"reset">>)
  <1>0. Len(q) \in Nat /\ Len(q) >= 2
    BY DEF EndsWithClose
  <1>1. q # <<>> /\ Len(q) \in Nat /\ Len(q) >= 2 /\ q[Len(q) - 1] = "async_close"
        /\ q[Len(q)] = "reset"
    BY DEF EndsWithClose
  <1> DEFINE t == Tail(q)
             n == Len(q)
  <1>2. /\ t \in Seq(IoHandlers) /\ Len(t) = n - 1 /\ Head(q) = q[1]
        /\ \A i \in 1..(n - 1) : t[i] = q[i + 1]
    BY <1>1, TailElements
  <1> HIDE DEF t, n
  <1>3. CASE n = 2
    <2>a. 1 \in 1..(n - 1) /\ 1 + 1 = n /\ n - 1 = 1
      BY <1>3
    <2>1. Len(t) = 1 /\ t[1] = "reset"
      BY <1>1, <1>2, <2>a DEF n
    <2>2. t = <<"reset">>
      <3>1. \A s \in Seq(IoHandlers) : Len(s) = 1 => s = <<s[1]>>
        OBVIOUS
      <3> QED BY <1>2, <2>1, <3>1
    <2>3. Head(q) = "async_close"
      BY <1>1, <1>2, <2>a DEF n
    <2> QED BY <2>2, <2>3 DEF t
  <1>4. CASE n > 2
    <2>1. n - 2 \in 1..(n - 1) /\ (n - 2) + 1 = n - 1 /\ n - 1 \in 1..(n - 1) /\ (n - 1) + 1 = n
          /\ (n - 1) - 1 = n - 2
      BY <1>1, <1>4 DEF n
    <2>2. t[n - 2] = "async_close" /\ t[n - 1] = "reset"
      BY <1>1, <1>2, <2>1 DEF n
    <2>3. Len(t) >= 2
      BY <1>1, <1>2, <1>4 DEF n
    <2>4. EndsWithClose(t)
      BY <1>2, <2>1, <2>2, <2>3 DEF EndsWithClose
    <2> QED BY <2>4 DEF t
  <1>5. n = 2 \/ n > 2
    BY <1>0, SMT DEF n
  <1> QED BY <1>3, <1>4, <1>5

\* What the next handler leaves behind.
LEMMA IoStep ==
    ASSUME VariablesOK, JoinInv, NEW h \in IoHandlers, IoRuns(h)
    PROVE  joining # "no" =>
             \/ EndsWithClose(Tail(ioq))
             \/ h = "async_close" /\ Tail(ioq) = <<"reset">>
             \/ h = "reset" /\ Tail(ioq) = <<>> /\ socket # "bound"
  <1>1. ioq \in Seq(IoHandlers) /\ ioq # <<>> /\ Head(ioq) = h /\ server_impl
    BY DEF VariablesOK, IoRuns
  <1>2. ioq = <<"reset">> => Tail(ioq) = <<>> /\ Head(ioq) = "reset"
    OBVIOUS
  <1> QED BY <1>1, <1>2, EndsTail DEF JoinInv

\* The socket of a server_impl is closed before its io thread ends.
LEMMA JoinStep ==
    ASSUME VariablesOK, JoinInv, [Next]_vars
    PROVE  JoinInv'
  <1>u. ASSUME UNCHANGED <<joining, server_impl, ioq, socket, file>> PROVE JoinInv'
    BY <1>u DEF JoinInv, EndsWithClose
  <1>b. ASSUME Bind, UNCHANGED joining, joining = "no" PROVE JoinInv'
    BY <1>b DEF Bind, JoinInv, implVars
  <1>c. ASSUME NEW next \in {"nothing", "reconnect"}, Close(next), joining = "no" PROVE JoinInv'
    <2>1. CASE ~server_impl
      BY <1>c, <2>1 DEF Close, JoinInv, implVars
    <2>2. CASE server_impl
      <3>1. EndsWithClose(ioq \o <<"async_close", "reset">>)
        BY CloseEnds DEF VariablesOK
      <3>2. EndsWithClose(ioq')
        BY <1>c, <2>2, <3>1 DEF Close
      <3>3. EndsWithClose(ioq)'
        BY <3>2 DEF EndsWithClose
      <3> QED BY <1>c, <2>2, <3>3 DEF Close, JoinInv
    <2> QED BY <2>1, <2>2
  <1>e. EndsWithClose(Tail(ioq)) /\ ioq' = Tail(ioq) => EndsWithClose(ioq)'
    BY DEF EndsWithClose
  <1>1. CASE Start
    BY <1>1, <1>b DEF Start, Runs, modeVars
  <1>2. CASE Stop
    BY <1>2, <1>c DEF Stop, Runs
  <1>3. CASE BoundSignal
    BY <1>3, <1>u DEF BoundSignal, implVars, modeVars
  <1>4. CASE BindFailedSignal \/ ClosedSignal
    BY <1>4, <1>c DEF BindFailedSignal, ClosedSignal, Failed, Runs
  <1>5. CASE Report
    BY <1>5, <1>u DEF Report, implVars, modeVars
  <1>6. CASE TimerStart \/ TimerStop
    BY <1>6, <1>u DEF TimerStart, TimerStop, implVars, modeVars
  <1>7. CASE Reconnect
    BY <1>7, <1>b DEF Reconnect, Runs, modeVars
  <1>8. CASE Joined
    <2>1. ~EndsWithClose(<<>>)
      BY DEF EndsWithClose
    <2>2. ioq = <<>> /\ socket # "bound" /\ file # "bound"
      BY <1>8, <2>1 DEF Joined, JoinInv
    <2> QED BY <1>8, <2>2 DEF Joined, JoinInv
  <1>9. CASE Tick \/ DelayPasses
    BY <1>9, <1>u DEF Tick, DelayPasses, implVars, modeVars
  <1>10. CASE CheckTick \/ CheckDelivered
    BY <1>10 DEF CheckTick, CheckDelivered, JoinInv, modeVars
  <1>11. CASE AsyncClose
    <2>1. IoRuns("async_close") /\ "async_close" \in IoHandlers
      BY <1>11 DEF AsyncClose, IoHandlers
    <2> QED BY <1>11, <1>e, <2>1, IoStep DEF AsyncClose, IoRuns, JoinInv, modeVars
  <1>12. CASE AsyncBind \/ AsyncBindFails
    <2>1. IoRuns("async_bind") /\ "async_bind" \in IoHandlers
      BY <1>12 DEF AsyncBind, AsyncBindFails, IoHandlers
    <2>2. joining # "no" => EndsWithClose(Tail(ioq))
      BY <2>1, IoStep
    <2> QED BY <1>12, <1>e, <2>1, <2>2 DEF AsyncBind, AsyncBindFails, IoRuns, JoinInv, modeVars
  <1>13. CASE CheckServer \/ CheckReset
    <2>1. \E h \in {"check_server", "check_reset"} : IoRuns(h) /\ h \in IoHandlers
      BY <1>13 DEF CheckServer, CheckReset, IoHandlers
    <2>2. joining # "no" => EndsWithClose(Tail(ioq))
      BY <2>1, IoStep
    <2> QED BY <1>13, <1>e, <2>1, <2>2 DEF CheckServer, CheckReset, IoRuns, JoinInv, modeVars
  <1>14. CASE ResetWorkGuard
    <2>1. IoRuns("reset") /\ "reset" \in IoHandlers
      BY <1>14 DEF ResetWorkGuard, IoHandlers
    <2> QED BY <1>14, <1>e, <2>1, IoStep DEF ResetWorkGuard, IoRuns, JoinInv, modeVars
  <1>15. CASE CheckConnects
    BY <1>15, <1>u DEF CheckConnects, modeVars
  <1>16. CASE Request \/ Destroy \/ EnqueueStop
    BY <1>16, <1>u DEF Request, Destroy, EnqueueStop, implVars, modeVars
  <1>17. CASE FileLost
    BY <1>17 DEF FileLost, JoinInv, EndsWithClose, modeVars
  <1>18. CASE UNCHANGED vars
    BY <1>18, <1>u DEF vars, implVars, modeVars
  <1> QED BY <1>1, <1>2, <1>3, <1>4, <1>5, <1>6, <1>7, <1>8, <1>9, <1>10, <1>11, <1>12, <1>13,
             <1>14, <1>15, <1>16, <1>17, <1>18 DEF Next, Dispatcher, Clock, IoThread

-------------------------------------------------------------------------------
(* No signal of a destroyed server_impl *)

\* A queue without signals is one of functions of the server.
LEMMA OnlyFunctions ==
    ASSUME NEW q \in Seq(Everything)
    PROVE  (\A i \in DOMAIN q : q[i] \notin Signals) <=> q \in Seq(Functions)
  <1>1. \A e \in Everything : e \in Functions <=> e \notin Signals
    BY Names DEF Everything
  <1>2. Len(q) \in Nat /\ q \in [1..Len(q) -> Everything] /\ DOMAIN q = 1..Len(q)
    OBVIOUS
  <1>3. \A i \in DOMAIN q : q[i] \in Everything
    BY <1>2
  <1>4. ASSUME \A i \in DOMAIN q : q[i] \notin Signals PROVE q \in Seq(Functions)
    <2>1. \A i \in 1..Len(q) : q[i] \in Functions
      BY <1>1, <1>2, <1>3, <1>4
    <2> QED BY <1>2, <2>1
  <1>5. ASSUME q \in Seq(Functions) PROVE \A i \in DOMAIN q : q[i] \notin Signals
    <2>1. \A i \in DOMAIN q : q[i] \in Functions
      BY <1>5
    <2> QED BY <1>1, <1>3, <2>1
  <1> QED BY <1>4, <1>5

\* NoStaleSignal in terms of types.
LEMMA StaleType ==
    ASSUME VariablesOK
    PROVE  NoStaleSignal <=> (~server_impl => dq \in Seq(Functions))
  BY QueueType, OnlyFunctions DEF NoStaleSignal

\* Signals come only from a server_impl that is there.
LEMMA StaleStep ==
    ASSUME VariablesOK, VariablesOK', NoStaleSignal, [Next]_vars
    PROVE  NoStaleSignal'
  <1>p. NoStaleSignal' <=> (~server_impl' => dq' \in Seq(Functions))
    <2>1. dq' \in Seq(Everything)
      BY DEF VariablesOK, Everything
    <2>2. (\A i \in DOMAIN dq' : dq'[i] \notin Signals) <=> dq' \in Seq(Functions)
      BY <2>1, OnlyFunctions
    <2> QED BY <2>2 DEF NoStaleSignal
  <1>s. ~server_impl => dq \in Seq(Functions)
    BY StaleType
  <1> SUFFICES ASSUME ~server_impl' PROVE dq' \in Seq(Functions)
    BY <1>p
  <1>t. ~server_impl /\ dq # <<>> => Tail(dq) \in Seq(Functions)
    BY <1>s
  <1>e. \A q \in Seq(Functions), f \in Functions : Enqueue(q, <<f>>) \in Seq(Functions)
    BY DEF Enqueue
  <1>f. {"bind", "stop", "reconnect", "timer_start", "timer_stop", "bind_failed", "bound", "closed"}
          \subseteq Functions
    BY DEF Functions
  <1>1. CASE Start \/ Stop
    <2>1. ~server_impl
      BY <1>1 DEF Start, Stop, Bind, Close, implVars
    <2> QED BY <1>1, <1>t, <2>1 DEF Start, Stop, Runs
  <1>2. CASE BoundSignal \/ BindFailedSignal \/ ClosedSignal
    <2>1. ~server_impl /\ dq # <<>>
      BY <1>2 DEF BoundSignal, BindFailedSignal, ClosedSignal, Failed, Close, Runs, implVars
    <2> QED BY <1>2, <2>1, <1>t, <1>e, <1>f DEF BoundSignal, BindFailedSignal, ClosedSignal, Failed
  <1>3. CASE Report \/ TimerStop
    BY <1>3, <1>t DEF Report, TimerStop, Runs, implVars
  <1>4. CASE TimerStart
    BY <1>4, <1>t, <1>e, <1>f DEF TimerStart, Runs, implVars
  <1>5. CASE Reconnect
    BY <1>5, <1>t, <1>e, <1>f DEF Reconnect, Bind, Runs, implVars
  <1>6. CASE Joined
    <2>1. WithoutSignals(dq) \in Seq(Functions)
      BY QueueType, ErasedTypes
    <2> QED BY <1>6, <2>1, <1>e, <1>f DEF Joined, StartReconnectTimer
  <1>7. CASE Tick \/ DelayPasses
    <2>1. <<"reconnect">> \in Seq(Functions) /\ <<"timer_start">> \in Seq(Functions)
      BY <1>f
    <2> QED BY <1>7, <2>1 DEF Tick, DelayPasses
  <1>8. CASE CheckTick \/ CheckConnects \/ CheckDelivered \/ CheckServer \/ CheckReset
               \/ ResetWorkGuard \/ FileLost \/ UNCHANGED vars
    BY <1>8, <1>s DEF CheckTick, CheckConnects, CheckDelivered, CheckServer, CheckReset,
                      ResetWorkGuard, FileLost, vars, implVars
  <1>9. CASE AsyncClose \/ AsyncBindFails \/ AsyncBind
    BY <1>9 DEF AsyncClose, AsyncBindFails, AsyncBind, IoRuns
  <1>10. CASE Request
    BY <1>10, <1>s, <1>f DEF Request, implVars
  <1>11. CASE Destroy
    <2>1. dq \in Seq(Functions)
      BY <1>11, <1>s DEF Destroy, implVars
    <2>2. WithoutFunctions(dq) = <<>>
      BY <2>1, Names, KeptNoneOrAll DEF WithoutFunctions
    <2> QED BY <1>11, <2>2 DEF Destroy
  <1>12. CASE EnqueueStop
    <2>1. dq \in Seq(Functions) /\ <<"stop">> \in Seq(Functions)
      BY <1>12, <1>s, <1>f DEF EnqueueStop, implVars
    <2> QED BY <1>12, <2>1 DEF EnqueueStop
  <1> QED BY <1>1, <1>2, <1>3, <1>4, <1>5, <1>6, <1>7, <1>8, <1>9, <1>10, <1>11, <1>12
       DEF Next, Dispatcher, Clock, IoThread

-------------------------------------------------------------------------------
(* The destroyed server *)

\* The queue that the destructor leaves behind.
LEMMA StopQueue ==
    ASSUME NEW q \in Seq(Everything), q # <<>>, Head(q) = "stop", Tail(q) \in Seq(Signals)
    PROVE  /\ WithoutSignals(q) = <<"stop">>
           /\ \A s \in Signals : /\ Append(q, s) # <<>> /\ Head(Append(q, s)) = "stop"
                                 /\ Tail(Append(q, s)) \in Seq(Signals)
  <1>1. Functions \intersect Signals = {} /\ "stop" \in Functions
    BY Names
  <1>2. Kept(Tail(q), Functions) = <<>>
    BY <1>1, KeptNoneOrAll
  <1>3. Kept(q, Functions) = <<"stop">> \o Kept(Tail(q), Functions)
    BY <1>1, KeptHead
  <1>4. <<"stop">> \o <<>> = <<"stop">>
    OBVIOUS
  <1>5. ASSUME NEW s \in Signals
        PROVE  /\ Append(q, s) # <<>> /\ Head(Append(q, s)) = "stop"
               /\ Tail(Append(q, s)) = Append(Tail(q), s)
    <2>1. s \in Everything
      BY Names
    <2> QED BY <2>1
  <1>6. \A s \in Signals : Append(Tail(q), s) \in Seq(Signals)
    OBVIOUS
  <1> QED BY <1>2, <1>3, <1>4, <1>5, <1>6 DEF WithoutSignals

\* Only the two steps of the destructor change what DetachInv is about.
LEMMA DetachStep ==
    ASSUME DetachInv, [Next]_vars
    PROVE  DetachInv'
  <1>1. CASE Destroy \/ EnqueueStop
    BY <1>1 DEF Destroy, EnqueueStop, DetachInv
  <1>2. CASE ~(Destroy \/ EnqueueStop)
    <2>1. UNCHANGED <<attached, detaching>>
      BY <1>2 DEF Next, Dispatcher, Clock, IoThread, Start, Stop, BoundSignal, BindFailedSignal,
                  ClosedSignal, Failed, Report, TimerStart, TimerStop, Reconnect, Joined, Tick,
                  DelayPasses, CheckTick, CheckConnects, CheckDelivered, CheckServer, CheckReset,
                  ResetWorkGuard, AsyncClose, AsyncBindFails, AsyncBind, Request, FileLost,
                  vars, modeVars
    <2> QED BY <2>1 DEF DetachInv
  <1> QED BY <1>1, <1>2

\* Nothing is added to the queue of a destroyed server but signals and stop().
LEMMA DestroyStep ==
    ASSUME VariablesOK, NoStaleSignal, DetachInv, DestroyInv, [Next]_vars
    PROVE  DestroyInv'
  <1> DEFINE A == dq # <<>> /\ Head(dq) = "stop" /\ Tail(dq) \in Seq(Signals)
             B == joining = "nothing" /\ dq \in Seq(Signals)
             C == joining = "no" /\ ~server_impl /\ dq = <<>>
  <1>u. ASSUME UNCHANGED <<attached, detaching, delayed, ticking, dq, joining, server_impl>>
        PROVE  DestroyInv'
    BY <1>u DEF DestroyInv
  <1>a. ASSUME attached' PROVE DestroyInv'
    BY <1>a DEF DestroyInv
  <1>d. ASSUME detaching', delayed' = delayed, ticking' = ticking, ~attached, dq' \in Seq(Signals)
        PROVE  DestroyInv'
    BY <1>d DEF DestroyInv
  <1>h. dq \in Seq(Signals) /\ dq # <<>> => Head(dq) \in Signals /\ Tail(dq) \in Seq(Signals)
    OBVIOUS
  <1>r. ASSUME ~attached, NEW f, Runs(f)
        PROVE  \/ detaching /\ f \in Signals /\ Tail(dq) \in Seq(Signals)
               \/ ~detaching /\ f = "stop" /\ A /\ joining = "no"
    BY <1>r, <1>h DEF DestroyInv, Runs
  <1>c. ASSUME ~attached
        PROVE  /\ delayed = 0 /\ ~ticking
               /\ (detaching /\ dq \in Seq(Signals)) \/ (~detaching /\ (A \/ B \/ C))
    BY <1>c DEF DestroyInv
  <1>1. CASE Start \/ Report \/ TimerStart \/ TimerStop \/ Reconnect
    <2>1. \E f : f # "stop" /\ f \notin Signals /\ Runs(f)
      BY <1>1 DEF Start, Report, TimerStart, TimerStop, Reconnect, Signals
    <2>2. attached /\ attached' = attached
      BY <1>1, <1>r, <2>1 DEF Start, Report, TimerStart, TimerStop, Reconnect, modeVars
    <2> QED BY <1>a, <2>2
  <1>9. CASE BoundSignal \/ BindFailedSignal \/ ClosedSignal
    <2>1. /\ UNCHANGED <<attached, detaching, delayed, ticking>>
          /\ ~attached => dq' = Tail(dq)
          /\ \E f : f # "stop" /\ Runs(f)
      BY <1>9 DEF BoundSignal, BindFailedSignal, ClosedSignal, Failed, Enqueue, modeVars, timerVars
    <2>2. ~attached => detaching /\ dq' \in Seq(Signals)
      BY <1>r, <2>1
    <2> QED BY <1>a, <1>d, <2>1, <2>2
  <1>2. CASE Stop
    <2>1. UNCHANGED <<attached, detaching, delayed, ticking>> /\ dq' = Tail(dq)
          /\ Runs("stop") /\ Close("nothing")
      BY <1>2 DEF Stop, timerVars
    <2>2. SUFFICES ASSUME ~attached PROVE DestroyInv'
      BY <1>a, <2>1
    <2>3. Tail(dq) \in Seq(Signals) /\ dq # <<>> /\ delayed = 0 /\ ~ticking /\ ~detaching
      <3>1. "stop" \notin Signals
        BY DEF Signals
      <3> QED BY <1>r, <2>1, <2>2, <3>1 DEF DestroyInv
    <2>4. CASE server_impl
      BY <2>1, <2>3, <2>4 DEF Close, DestroyInv
    <2>5. CASE ~server_impl
      <3>1. dq \in Seq(Functions)
        BY <2>5, StaleType
      <3>2. Tail(dq) = <<>>
        <4>1. Tail(dq) \in Seq(Functions)
          BY <2>3, <3>1
        <4>2. Signals \intersect Functions = {}
          BY Names
        <4>3. Kept(Tail(dq), Signals) = Tail(dq) /\ Kept(Tail(dq), Signals) = <<>>
          BY <2>3, <4>1, <4>2, KeptNoneOrAll
        <4> QED BY <4>3
      <3> QED BY <2>1, <2>3, <2>5, <3>2 DEF Close, DestroyInv, implVars
    <2> QED BY <2>4, <2>5
  <1>3. CASE Joined
    <2>1. UNCHANGED <<attached, detaching, ticking>>
      BY <1>3 DEF Joined
    <2>2. SUFFICES ASSUME ~attached PROVE DestroyInv'
      BY <1>a, <2>1
    <2>3. delayed = 0 /\ ~ticking /\ ((detaching /\ dq \in Seq(Signals)) \/ (~detaching /\ (A \/ B)))
      BY <1>3, <1>c, <2>2 DEF Joined
    <2>4. dq' = WithoutSignals(dq) /\ delayed' = delayed /\ joining' = "no" /\ server_impl' = FALSE
      BY <1>3, <2>2 DEF Joined, StartReconnectTimer, Enqueue
    <2>7. CASE detaching /\ dq \in Seq(Signals)
      <3>1. dq' = <<>>
        BY <2>4, <2>7, Names, KeptNoneOrAll DEF WithoutSignals
      <3>2. <<>> \in Seq(Signals)
        OBVIOUS
      <3> QED BY <1>d, <2>1, <2>2, <2>4, <2>7, <3>1, <3>2
    <2>5. CASE ~detaching /\ A
      <3>1. dq' = <<"stop">>
        BY <2>4, <2>5, QueueType, StopQueue
      <3>2. dq' # <<>> /\ Head(dq') = "stop" /\ Tail(dq') = <<>> /\ <<>> \in Seq(Signals)
        BY <3>1
      <3> QED BY <2>1, <2>3, <2>4, <2>5, <3>2 DEF DestroyInv
    <2>6. CASE ~detaching /\ B
      <3>1. dq' = <<>>
        BY <2>4, <2>6, Names, KeptNoneOrAll DEF WithoutSignals
      <3> QED BY <2>1, <2>3, <2>4, <2>6, <3>1 DEF DestroyInv
    <2> QED BY <2>3, <2>5, <2>6, <2>7
  <1>4. CASE Tick \/ DelayPasses
    <2>1. attached
      BY <1>4 DEF Tick, DelayPasses, DestroyInv
    <2> QED BY <1>4, <1>a, <2>1 DEF Tick, DelayPasses, modeVars
  <1>5. CASE CheckTick \/ CheckConnects \/ CheckDelivered \/ CheckServer \/ CheckReset
               \/ ResetWorkGuard \/ FileLost \/ UNCHANGED vars
    BY <1>5, <1>u DEF CheckTick, CheckConnects, CheckDelivered, CheckServer, CheckReset,
                      ResetWorkGuard, FileLost, vars, implVars, modeVars, timerVars
  <1>6. CASE AsyncClose \/ AsyncBindFails \/ AsyncBind
    <2>1. server_impl /\ server_impl' = server_impl
          /\ UNCHANGED <<attached, detaching, joining, delayed, ticking>>
      BY <1>6 DEF AsyncClose, AsyncBindFails, AsyncBind, IoRuns, modeVars, timerVars
    <2>2. dq' = dq \/ \E s \in Signals : dq' = Append(dq, s)
      BY <1>6 DEF AsyncClose, AsyncBindFails, AsyncBind, Signals
    <2>3. SUFFICES ASSUME ~attached, NEW s \in Signals, dq' = Append(dq, s) PROVE DestroyInv'
      BY <1>a, <1>u, <2>1, <2>2
    <2>4. delayed = 0 /\ ~ticking /\ ((detaching /\ dq \in Seq(Signals)) \/ (~detaching /\ (A \/ B)))
      BY <1>c, <2>1, <2>3
    <2>7. CASE dq \in Seq(Signals) /\ (detaching \/ (~detaching /\ B))
      <3>1. dq' \in Seq(Signals)
        BY <2>3, <2>7
      <3> QED BY <1>d, <2>1, <2>3, <2>4, <2>7, <3>1 DEF DestroyInv
    <2>5. CASE ~detaching /\ A
      <3>1. dq' # <<>> /\ Head(dq') = "stop" /\ Tail(dq') \in Seq(Signals)
        BY <2>3, <2>5, QueueType, StopQueue
      <3>2. /\ ~detaching' /\ delayed' = 0 /\ ~ticking'
            /\ dq' # <<>> /\ Head(dq') = "stop" /\ Tail(dq') \in Seq(Signals)
        BY <2>1, <2>4, <2>5, <3>1
      <3> QED BY <3>2 DEF DestroyInv
    <2> QED BY <2>4, <2>5, <2>7
  <1>7. CASE Request
    BY <1>7, <1>a DEF Request, modeVars
  <1>8. CASE Destroy
    <2>1. WithoutFunctions(dq) \in Seq(Signals)
      BY QueueType, ErasedTypes
    <2> QED BY <1>8, <2>1 DEF Destroy, DestroyInv
  <1>10. CASE EnqueueStop
    <2>1. ~attached /\ delayed = 0 /\ ~ticking /\ dq \in Seq(Signals)
      BY <1>10 DEF EnqueueStop, DetachInv, DestroyInv
    <2>2. dq \in Seq(Everything) /\ "stop" \in Everything
      BY QueueType, Names
    <2>3. LET q == <<"stop">> \o dq IN q # <<>> /\ Head(q) = "stop" /\ Tail(q) = dq
      BY <2>2
    <2>4. dq' # <<>> /\ Head(dq') = "stop" /\ Tail(dq') \in Seq(Signals)
      BY <1>10, <2>1, <2>3 DEF EnqueueStop
    <2> QED BY <1>10, <2>1, <2>4 DEF EnqueueStop, DestroyInv, timerVars
  <1> QED BY <1>1, <1>2, <1>3, <1>4, <1>5, <1>6, <1>7, <1>8, <1>9, <1>10
      DEF Next, Dispatcher, Clock, IoThread

-------------------------------------------------------------------------------
(* closed follows bound *)

\* A queue in which functions that report nothing came or went says the same.
LEMMA SaysTheSame ==
    ASSUME NEW r \in Reports, NEW q \in Seq(Everything), NEW up \in BOOLEAN, NEW v \in BOOLEAN,
           Alternates(Happened(r, q), up), v => up
    PROVE  /\ Alternates(Happened(r, q), v)
           /\ \A f \in Everything : f \notin Reports \union Reported
                => Alternates(Happened(r, Append(q, f)), v)
           /\ q # <<>> /\ Head(q) \notin Reports \union Reported
                => /\ Alternates(Happened(r, Tail(q)), v)
                   /\ \A f \in Everything : f \notin Reports \union Reported
                        => Alternates(Happened(r, Append(Tail(q), f)), v)
  <1>1. Alternates(Happened(r, q), v)
    BY DEF Alternates
  <1>2. \A f \in Everything : f \notin Reports \union Reported
          => Alternates(Happened(r, Append(q, f)), v)
    BY <1>1, QuietFunction
  <1>3. ASSUME q # <<>>, Head(q) \notin Reports \union Reported
        PROVE  /\ Alternates(Happened(r, Tail(q)), v)
               /\ \A f \in Everything : f \notin Reports \union Reported
                    => Alternates(Happened(r, Append(Tail(q), f)), v)
    <2>1. Tail(q) \in Seq(Everything)
      BY <1>3
    <2>2. Alternates(Happened(r, Tail(q)), v)
      BY <1>1, <1>3, QuietFunction
    <2>3. \A f \in Everything : f \notin Reports \union Reported
            => Happened(r, Append(Tail(q), f)) = Happened(r, Tail(q))
      BY <2>1, QuietFunction
    <2> QED BY <2>2, <2>3
  <1> QED BY <1>1, <1>2, <1>3

\* Every step leaves the reports, past and to come, in their order.
LEMMA HappenedStep ==
    ASSUME VariablesOK, DetachInv, HappenedInv, [Next]_vars
    PROVE  HappenedInv'
  <1> DEFINE up == socket = "bound"
             w == socket' = "bound"
             H(q, u) == Alternates(Happened(reported, q), u)
             Quiet == Everything \ (Reports \union Reported)
  <1>0. CASE ~attached'
    BY <1>0 DEF HappenedInv
  <1>a. ASSUME attached' PROVE attached
    BY <1>a DEF Next, Dispatcher, Clock, IoThread, Start, Stop, BoundSignal, BindFailedSignal,
                ClosedSignal, Failed, Report, TimerStart, TimerStop, Reconnect, Joined, Tick,
                DelayPasses, CheckTick, CheckConnects, CheckDelivered, CheckServer, CheckReset,
                ResetWorkGuard, AsyncClose, AsyncBindFails, AsyncBind, Request, Destroy, EnqueueStop,
                FileLost, vars, modeVars
  <1>b. SUFFICES ASSUME attached, attached' PROVE HappenedInv'
    BY <1>0, <1>a
  <1>t. /\ reported \in Reports /\ dq \in Seq(Everything) /\ up \in BOOLEAN /\ w \in BOOLEAN
        /\ H(dq, up)
    BY <1>b, QueueType DEF VariablesOK, Reports, HappenedInv
  <1>p. ASSUME UNCHANGED reported, H(dq', w) PROVE HappenedInv'
    BY <1>p DEF HappenedInv
  <1>n. /\ {"bind", "stop", "reconnect", "timer_start", "timer_stop", "bind_failed",
             "impl_bind_failed"} \subseteq Quiet
        /\ {"bound", "closed"} \subseteq Reports /\ {"impl_bound", "impl_closed"} \subseteq Reported
    BY Names DEF Reports, Reported
  <1>q. ASSUME w => up
        PROVE  /\ H(dq, w)
               /\ \A f \in Quiet : H(Append(dq, f), w)
               /\ \A f \in Quiet : Runs(f) => H(Tail(dq), w)
               /\ \A f, g \in Quiet : Runs(f) => H(Append(Tail(dq), g), w)
    <2>1. Alternates(Happened(reported, dq), up)
      BY <1>t
    <2> HIDE DEF up, w
    <2> QED BY <1>t, <1>q, <2>1, SaysTheSame DEF Runs
  <1>e. \A q : \A f : Enqueue(q, <<f>>) = q \o <<f>>
    BY <1>b DEF Enqueue
  <1>f. \A q \in Seq(Everything), f \in Everything : q \o <<f>> = Append(q, f)
    OBVIOUS
  <1>g. dq # <<>> => Tail(dq) \in Seq(Everything)
    BY <1>t
  <1> HIDE DEF up, w, H, Quiet
  <1>k. Quiet \subseteq Everything /\ Reports \subseteq Everything /\ Reported \subseteq Everything
    BY Names DEF Quiet
  <1>1. CASE Start \/ Reconnect
    <2>1. w => up
      BY <1>1 DEF Start, Reconnect, Bind, implVars, up, w
    <2>2. CASE Start
      BY <1>p, <1>q, <1>n, <2>1, <2>2 DEF Start
    <2>3. CASE Reconnect
      <3>1. dq # <<>> /\ Runs("reconnect")
        BY <2>3 DEF Reconnect, Runs
      <3>2. Enqueue(Tail(dq), <<"timer_stop">>) = Append(Tail(dq), "timer_stop")
        BY <1>e, <1>f, <1>g, <1>k, <1>n, <3>1
      <3>3. H(dq', w)
        BY <1>q, <1>n, <2>1, <2>3, <3>1, <3>2 DEF Reconnect
      <3> QED BY <1>p, <2>3, <3>3 DEF Reconnect, worldVars, historyVars
    <2> QED BY <1>1, <2>2, <2>3
  <1>2. CASE Stop
    <2>1. w => up
      BY <1>2 DEF Stop, Close, implVars, up, w
    <2> QED BY <1>p, <1>q, <1>n, <1>2, <2>1 DEF Stop
  <1>3. CASE BoundSignal
    <2>1. dq # <<>> /\ Head(dq) = "impl_bound" /\ w = up /\ reported' = reported
      BY <1>3 DEF BoundSignal, Runs, implVars, worldVars, historyVars, up, w
    <2>2. dq' = Append(Tail(dq), "bound")
      BY <1>3, <1>e, <1>f, <1>g, <1>k, <1>n, <2>1 DEF BoundSignal
    <2>3. "impl_bound" \in Ups /\ "bound" \in Ups
      BY DEF Ups
    <2>4. Alternates(Happened(reported, Append(Tail(dq), "bound")), up)
      BY <1>t, <1>n, <2>1, <2>3, SignalReported DEF H
    <2> QED BY <1>p, <2>1, <2>2, <2>4 DEF H
  <1>4. CASE ClosedSignal
    <2>1. dq # <<>> /\ Head(dq) = "impl_closed" /\ w = up /\ reported' = reported
      BY <1>4 DEF ClosedSignal, Failed, Close, Runs, implVars, worldVars, historyVars, up, w
    <2>2. dq' = Append(Tail(dq), "closed")
      BY <1>4, <1>e, <1>f, <1>g, <1>k, <1>n, <2>1 DEF ClosedSignal, Failed
    <2>3. "impl_closed" \notin Ups /\ "closed" \notin Ups
      BY DEF Ups
    <2>4. Alternates(Happened(reported, Append(Tail(dq), "closed")), up)
      BY <1>t, <1>n, <2>1, <2>3, SignalReported DEF H
    <2> QED BY <1>p, <2>1, <2>2, <2>4 DEF H
  <1>5. CASE BindFailedSignal
    <2>1. dq # <<>> /\ Runs("impl_bind_failed") /\ w = up /\ reported' = reported
      BY <1>5 DEF BindFailedSignal, Failed, Close, Runs, implVars, worldVars, historyVars, up, w
    <2>2. dq' = Append(Tail(dq), "bind_failed")
      BY <1>5, <1>e, <1>f, <1>g, <1>k, <1>n, <2>1 DEF BindFailedSignal, Failed
    <2> QED BY <1>p, <1>q, <1>n, <2>1, <2>2
  <1>6. CASE Report
    <2>1. dq # <<>> /\ dq' = Tail(dq) /\ w = up
      BY <1>6 DEF Report, Runs, implVars, up, w
    <2>2. CASE Runs("bind_failed") /\ UNCHANGED reported
      BY <1>p, <1>q, <1>n, <2>1, <2>2
    <2>3. CASE Head(dq) \in Reports /\ reported' = Head(dq)
      <3>1. Alternates(Happened(Head(dq), Tail(dq)), up)
        BY <1>t, <2>1, <2>3, ReportMade DEF H
      <3>2. Alternates(Happened(reported', dq'), w)
        BY <2>1, <2>3, <3>1
      <3> QED BY <3>2 DEF HappenedInv, w
    <2> QED BY <1>6, <1>n, <2>2, <2>3 DEF Report, Runs
  <1>7. CASE TimerStart
    <2>1. dq # <<>> /\ Runs("timer_start") /\ w = up /\ reported' = reported
      BY <1>7 DEF TimerStart, Runs, implVars, worldVars, historyVars, up, w
    <2>2. dq' = Append(Tail(dq), "reconnect")
      BY <1>7, <1>e, <1>f, <1>g, <1>k, <1>n, <2>1 DEF TimerStart
    <2> QED BY <1>p, <1>q, <1>n, <2>1, <2>2
  <1>8. CASE TimerStop
    <2>1. Runs("timer_stop") /\ w = up /\ reported' = reported /\ dq' = Tail(dq)
      BY <1>8 DEF TimerStop, implVars, worldVars, historyVars, up, w
    <2> QED BY <1>p, <1>q, <1>n, <2>1
  <1>9. CASE Joined
    <2> DEFINE e == WithoutSignals(dq)
    <2>1. Alternates(Happened(reported, e), FALSE)
      BY <1>t, SignalsErased DEF H
    <2>2. e \in Seq(Everything)
      BY <1>t, ErasedTypes
    <2>3. w = FALSE /\ reported' = reported
      BY <1>9 DEF Joined, w, worldVars, historyVars
    <2>4. dq' = e \/ dq' = Append(e, "timer_stop")
      <3>1. Enqueue(e, <<"timer_stop">>) = Append(e, "timer_stop")
        BY <1>e, <1>f, <1>k, <1>n, <2>2
      <3> QED BY <1>9, <3>1 DEF Joined, StartReconnectTimer
    <2> HIDE DEF e
    <2>5. "timer_stop" \in Everything /\ "timer_stop" \notin Reports \union Reported
      BY <1>n DEF Quiet
    <2>6. Alternates(Happened(reported, Append(e, "timer_stop")), FALSE)
      BY <1>t, <2>1, <2>2, <2>5, SaysTheSame
    <2> QED BY <1>p, <2>1, <2>3, <2>4, <2>6 DEF H
  <1>10. CASE Tick \/ DelayPasses
    <2>1. dq = <<>> /\ w = up /\ reported' = reported
      BY <1>10 DEF Tick, DelayPasses, implVars, worldVars, historyVars, up, w
    <2>2. \A f : Append(<<>>, f) = <<f>>
      OBVIOUS
    <2>3. dq' = Append(dq, "reconnect") \/ dq' = Append(dq, "timer_start")
      BY <1>10, <2>1, <2>2 DEF Tick, DelayPasses
    <2> QED BY <1>p, <1>q, <1>n, <2>1, <2>3
  <1>11. CASE AsyncClose
    <2>1. w = FALSE /\ reported' = reported
      BY <1>11 DEF AsyncClose, w, worldVars, historyVars
    <2>2. CASE ~up
      BY <1>11, <1>p, <1>q, <2>1, <2>2 DEF AsyncClose, up
    <2>3. CASE up
      <3>1. dq' = Append(dq, "impl_closed")
        BY <1>11, <2>3 DEF AsyncClose, up
      <3>2. "impl_closed" \in Downs
        BY DEF Downs
      <3>3. Alternates(Append(Happened(reported, dq), "impl_closed"), FALSE)
        BY <1>t, <1>k, <1>n, <2>3, <3>2, HappenedType, AlternatesAppend DEF H
      <3>4. Alternates(Happened(reported, Append(dq, "impl_closed")), FALSE)
        BY <1>t, <1>n, <3>3, SignalAdded
      <3> QED BY <1>p, <2>1, <3>1, <3>4 DEF H
    <2> QED BY <2>2, <2>3
  <1>12. CASE AsyncBindFails
    <2>1. w = FALSE /\ reported' = reported /\ dq' = Append(dq, "impl_bind_failed")
      BY <1>12 DEF AsyncBindFails, w, worldVars, historyVars
    <2> QED BY <1>p, <1>q, <1>n, <2>1
  <1>13. CASE AsyncBind
    <2>1. w = TRUE /\ reported' = reported /\ dq' = Append(dq, "impl_bound")
      BY <1>13 DEF AsyncBind, w, worldVars, historyVars
    <2>2. "impl_bound" \in Ups
      BY DEF Ups
    <2>3. Alternates(Append(Happened(reported, dq), "impl_bound"), TRUE)
      BY <1>t, <1>k, <1>n, <2>2, HappenedType, AlternatesAppend DEF H
    <2>4. Alternates(Happened(reported, Append(dq, "impl_bound")), TRUE)
      BY <1>t, <1>n, <2>3, SignalAdded
    <2> QED BY <1>p, <2>1, <2>4 DEF H
  <1>14. CASE CheckTick \/ CheckConnects \/ CheckDelivered \/ CheckServer \/ CheckReset
                \/ ResetWorkGuard \/ FileLost \/ UNCHANGED vars
    <2>1. w = up /\ reported' = reported /\ dq' = dq
      BY <1>14 DEF CheckTick, CheckConnects, CheckDelivered, CheckServer, CheckReset, up, w,
                   ResetWorkGuard, FileLost, vars, implVars, worldVars, historyVars
    <2> QED BY <1>p, <1>q, <2>1
  <1>15. CASE Request
    <2>1. w = up /\ reported' = reported /\ \E f \in {"bind", "stop"} : dq' = Append(dq, f)
      BY <1>15 DEF Request, implVars, historyVars, up, w
    <2> QED BY <1>p, <1>q, <1>n, <2>1
  <1>16. CASE Destroy \/ EnqueueStop
    BY <1>16, <1>b DEF Destroy, EnqueueStop, DetachInv
  <1> QED BY <1>1, <1>2, <1>3, <1>4, <1>5, <1>6, <1>7, <1>8, <1>9, <1>10, <1>11, <1>12, <1>13,
             <1>14, <1>15, <1>16 DEF Next, Dispatcher, Clock, IoThread

-------------------------------------------------------------------------------
(* The theorems *)

\* The invariant is inductive.
LEMMA InvariantHolds == Spec => []ServerInv
  <1>1. Init => ServerInv
    <2> SUFFICES ASSUME Init PROVE ServerInv OBVIOUS
    <2>1. VariablesOK
      <3>1. attached \in BOOLEAN /\ detaching \in BOOLEAN /\ reconnect_interval \in BOOLEAN /\ ticking \in BOOLEAN
            /\ server_impl \in BOOLEAN /\ work_guard \in BOOLEAN /\ checking \in BOOLEAN
            /\ stopped \in BOOLEAN
        BY Zenon DEF Init
      <3>2. requests \in 0..MaxRequests /\ losses \in 0..MaxLosses
        BY ServerBounds DEF Init
      <3>3. dq \in Seq(Signals \union Functions) /\ ioq \in Seq(IoHandlers)
        BY DEF Init
      <3> QED BY <3>1, <3>2, <3>3 DEF Init, VariablesOK
    <2>2. NoStaleSignal
      <3>1. DOMAIN dq = {}
        BY DEF Init
      <3> QED BY <3>1 DEF NoStaleSignal
    <2>3. JoinInv /\ DetachInv /\ DestroyInv
      BY DEF Init, JoinInv, DetachInv, DestroyInv
    <2>4. HappenedInv
      <3>1. Kept(dq, Reports) = <<>> /\ Kept(dq, Reported) = <<>>
        BY KeptEmpty DEF Init
      <3>2. Happened(reported, dq) = (<<"closed">> \o <<>>) \o <<>>
        BY <3>1 DEF Init, Happened
      <3>3. Happened(reported, dq) = <<"closed">>
        BY <3>2
      <3>4. Len(<<"closed">>) = 1
        OBVIOUS
      <3>5. socket # "bound"
        BY DEF Init
      <3>6. \A i \in 1..1 : ~(i > 1)
        OBVIOUS
      <3> QED BY <3>3, <3>4, <3>5, <3>6 DEF HappenedInv, Alternates
    <2> QED BY <2>1, <2>2, <2>3, <2>4 DEF ServerInv
  <1>2. ServerInv /\ [Next]_vars => ServerInv'
    BY TypeStep, StaleStep, JoinStep, DetachStep, DestroyStep, HappenedStep DEF ServerInv
  <1> QED BY <1>1, <1>2, PTL DEF Spec

\* Every variable of the server keeps its type, whatever the bounds on requests,
\* losses and delayed functions are, and a detached server has no function but
\* stop() in the queue (dispatcher.hpp:184-195, 321-323, server.hpp:41-45).
THEOREM TypeCorrect == Spec => []TypeOK
  <1>1. ServerInv => TypeOK
    <2> SUFFICES ASSUME ServerInv, ~attached PROVE dq \in Seq(Signals \union {"stop"})
      BY DEF ServerInv, TypeOK
    <2>1. dq \in Seq(Everything)
      BY QueueType DEF ServerInv
    <2>2. CASE dq \in Seq(Signals)
      BY <2>2
    <2>3. CASE dq # <<>> /\ Head(dq) = "stop" /\ Tail(dq) \in Seq(Signals)
      <3>1. dq = <<Head(dq)>> \o Tail(dq)
        BY <2>1, <2>3
      <3>2. <<"stop">> \o Tail(dq) \in Seq(Signals \union {"stop"})
        BY <2>3
      <3> QED BY <2>3, <3>1, <3>2
    <2>4. <<>> \in Seq(Signals)
      OBVIOUS
    <2> QED BY <2>2, <2>3, <2>4 DEF ServerInv, DestroyInv
  <1> QED BY <1>1, InvariantHolds, PTL

\* No signal of a destroyed server_impl is left in the dispatcher's queue: its
\* detach() has erased them before bind() can make another one (base_impl.hpp:83,
\* server.hpp:130-137).
THEOREM StaleSignalsErased == Spec => []NoStaleSignal
  <1>1. ServerInv => NoStaleSignal
    BY DEF ServerInv
  <1> QED BY <1>1, InvariantHolds, PTL

\* A socket file that a server_impl has bound is removed before the join() of
\* its destructor returns (base_impl.hpp:152-161).
THEOREM FileRemoved == Spec => []NoFileLeft
  <1>1. ServerInv => NoFileLeft
    BY DEF ServerInv, JoinInv, NoFileLeft, VariablesOK
  <1> QED BY <1>1, InvariantHolds, PTL

\* The user hears of closed only after the bound it belongs to, through signal,
\* queued report, erased signals and restarts (base_impl.hpp:152-166).
THEOREM ReportsAlternate == Spec => []ClosedFollowsBound
  <1>1. ServerInv => ClosedFollowsBound
    <2> SUFFICES ASSUME ServerInv, dq # <<>>, Head(dq) = "closed" PROVE reported = "bound"
      BY DEF ClosedFollowsBound
    <2>1. "closed" \notin Signals /\ "closed" # "stop" /\ "closed" \in Reports
      BY DEF Signals, Reports
    <2>2. CASE ~attached
      <3>1. \A q \in Seq(Signals) : q # <<>> => Head(q) \in Signals
        OBVIOUS
      <3> QED BY <2>1, <2>2, <3>1 DEF ServerInv, DestroyInv
    <2>3. CASE attached
      <3>1. reported \in Reports /\ dq \in Seq(Everything) /\ (socket = "bound") \in BOOLEAN
            /\ Alternates(Happened(reported, dq), socket = "bound")
        BY <2>3, QueueType DEF ServerInv, VariablesOK, Reports, HappenedInv
      <3> QED BY <2>1, <3>1, ReportMade
    <2> QED BY <2>2, <2>3
  <1> QED BY <1>1, InvariantHolds, PTL

\* When the destructor's stop() has been run and join() has returned, nothing of
\* the server is left that could bind again (server.hpp:41-45).
THEOREM DestructorIsFinal == Spec => []DestroyedIsClosed
  <1>1. ServerInv => DestroyedIsClosed
    <2> SUFFICES ASSUME ServerInv, ~attached, ~detaching, joining = "no",
                        \A i \in DOMAIN dq : dq[i] # "stop"
                 PROVE  ~server_impl /\ dq = <<>> /\ delayed = 0 /\ ~ticking
      BY DEF DestroyedIsClosed
    <2>1. dq \in Seq(Everything)
      BY QueueType DEF ServerInv
    <2>2. dq # <<>> => 1 \in DOMAIN dq /\ Head(dq) = dq[1]
      BY <2>1
    <2> QED BY <2>2 DEF ServerInv, DestroyInv
  <1> QED BY <1>1, InvariantHolds, PTL
===============================================================================
