----------------------------- MODULE ClientProofs -----------------------------
(***************************************************************************)
(* Theorems about Client for any number of datagrams and events.           *)
(***************************************************************************)
EXTENDS Client, QueueLemmas, TLAPS

-------------------------------------------------------------------------------
(* The inductive invariant *)

Names == ImplFunctions \union ClientFunctions
NumberedNames == {"send", "processed", "impl_processed"}
Numbers == 0..MaxSends

\* The functions that carry a datagram carry one; the others carry nothing.
Everything ==
    [fn : NumberedNames, n : 1..MaxSends] \union [fn : Names \ NumberedNames, n : {0}]

DqInv == dq \in Seq(Everything)

CloseComes(q) ==
    \E i \in DOMAIN q : /\ q[i].fn = "async_close"
                        /\ \A j \in DOMAIN q : j > i => q[j].fn # "async_connect"
NoConnect(q) == \A i \in DOMAIN q : q[i].fn # "async_connect"

\* While its caller waits in join(), the socket is closed for good before the io
\* thread ends.
JoinInv == joining => client_impl /\ (CloseComes(ioq) \/ (NoConnect(ioq) /\ ~socket))

\* Nothing is left of a client_impl that is gone.
GoneInv ==
    ~client_impl =>
      /\ ioq = <<>> /\ ~socket /\ ~checking /\ check_client = "none"
      /\ dq \in Seq(Calls(ClientFunctions))

Results == {"send_ok", "send_error"}
NoResult(q) == \A i \in DOMAIN q : q[i].fn \notin Results
OneResult(q) == \A i, j \in DOMAIN q : q[i].fn \in Results /\ q[j].fn \in Results => i = j

\* There is at most one result of a send, and then an entry it is about.
FlightInv == OneResult(ioq) /\ (NoResult(ioq) \/ send_entries # <<>>)

\* Once the destructor has erased the client's functions those of client_impl
\* are left, and then its stop() comes before them, or has been run.
DestroyInv ==
    /\ detaching => ~attached
    /\ ~attached =>
         /\ delayed = 0 /\ ~ticking
         /\ \/ detaching /\ dq \in Seq(Calls(ImplFunctions))
            \/ /\ ~detaching /\ ~joining /\ dq # <<>>
               /\ Head(dq) = Fn("stop") /\ Tail(dq) \in Seq(Calls(ImplFunctions))
            \/ ~detaching /\ joining /\ dq \in Seq(Calls(ImplFunctions))
            \/ ~detaching /\ ~joining /\ ~client_impl /\ dq = <<>>

Reports == [fn : {"connected", "closed"}, n : {0}]
Reported == [fn : {"impl_connected", "impl_closed"}, n : {0}]
Ups == [fn : {"connected", "impl_connected"}, n : {0}]
Downs == [fn : {"closed", "impl_closed"}, n : {0}]

\* What became of the connections, oldest first: what was reported last, what
\* will be, and what client_impl has signalled.
Happened(r, q) == (<<r>> \o Kept(q, Reports)) \o Kept(q, Reported)

\* A connection is closed only after it was made, and the last one is made if
\* `up`.
Alternates(h, up) ==
    /\ \A i \in 1..Len(h) : i > 1 /\ h[i] \in Downs => h[i - 1] \in Ups
    /\ up => h[Len(h)] \in Ups

HappenedInv ==
    attached => Alternates(Happened(Fn(reported), dq), client_impl /\ socket_ready)

\* The numbers increase and do not exceed m.
Increasing(s, m) ==
    /\ \A i, j \in DOMAIN s : i < j => s[i] < s[j]
    /\ \A i \in DOMAIN s : s[i] <= m

\* Without client_impl the callbacks are enqueued in the order of the sends.
OrderInv ==
    /\ client_impl => Carried(dq, "processed") = <<>>
    /\ attached /\ ~client_impl =>
         Increasing((processed \o Carried(dq, "processed")) \o Carried(dq, "send"), accepted)

Datagrams == 1..MaxSends
Upto(m) == [i \in 1..m |-> i]

\* The datagrams on their way to client_send_entries_.
Posted(io) == Kept(Carried(io, "async_send"), Datagrams)

\* All datagrams, in the order in which their callbacks come: called, on the way
\* back, with the io thread, on the way there.
Flow(p, a, b, d, e) == (((p \o a) \o b) \o d) \o e

\* The destructor erases the datagrams (e) that the io thread has not been given;
\* the callbacks of the others still come in order.
DetachedFlow ==
    ~attached /\ client_impl =>
      \E e \in Seq(Numbers) :
        Flow(processed, Carried(dq, "impl_processed"), Kept(send_entries, Datagrams), Posted(ioq), e)
          = Upto(accepted)

ClientInv ==
    /\ TypeOK /\ DqInv /\ JoinInv /\ GoneInv /\ FlightInv /\ DestroyInv /\ HappenedInv
    /\ Pipeline /\ DetachedFlow /\ OrderInv /\ ProcessedInOrder

-------------------------------------------------------------------------------
(* Functions and handlers *)

\* The elements of the dispatcher's queue.
LEMMA Elements ==
    /\ \A f \in Names \ NumberedNames : Fn(f) \in Everything
    /\ \A f \in NumberedNames, n \in 1..MaxSends : Carrying(f, n) \in Everything
    /\ \A f : Fn(f).fn = f /\ Fn(f).n = 0
    /\ \A f, n : Carrying(f, n).fn = f /\ Carrying(f, n).n = n
    /\ \A e \in Everything :
         /\ e.fn \in Names /\ e.n \in Numbers
         /\ e.fn \in NumberedNames => e.n \in 1..MaxSends
         /\ e.fn \notin NumberedNames => e = Fn(e.fn)
         /\ \A fs : e \in Calls(fs) <=> e.fn \in fs
    /\ Everything \subseteq Calls(Names)
  <1>1. 1..MaxSends \subseteq Numbers /\ 0 \in Numbers
    BY ClientBounds DEF Numbers
  <1>2. NumberedNames \subseteq Names
    BY DEF NumberedNames, Names, ImplFunctions, ClientFunctions
  <1>3. \A e \in Everything :
         /\ e.fn \in Names /\ e.n \in Numbers
         /\ e.fn \in NumberedNames => e.n \in 1..MaxSends
         /\ e.fn \notin NumberedNames => e = Fn(e.fn)
         /\ e = [fn |-> e.fn, n |-> e.n]
    BY <1>1, <1>2 DEF Everything, Fn
  <1>4. \A e \in Everything : \A fs : e \in Calls(fs) <=> e.fn \in fs
    BY <1>3 DEF Calls, Numbers
  <1>5. Everything \subseteq Calls(Names)
    BY <1>3, <1>4
  <1> QED BY <1>3, <1>4, <1>5 DEF Fn, Carrying, Everything

\* The elements of any queue of calls.
LEMMA CallElements ==
    ASSUME NEW fs
    PROVE  /\ \A e \in Calls(fs) : e.fn \in fs /\ e.n \in Numbers
           /\ \A e \in Calls(fs) : \A gs : e \in Calls(gs) <=> e.fn \in gs
           /\ \A f \in fs : Fn(f) \in Calls(fs)
           /\ \A f \in fs, n \in Numbers : Carrying(f, n) \in Calls(fs)
  <1>1. 0 \in Numbers
    BY ClientBounds DEF Numbers
  <1> QED BY <1>1 DEF Calls, Numbers, Fn, Carrying

\* The names, spelled out.
LEMMA SomeNames ==
    /\ {"connect", "stop", "timer_start", "timer_stop", "reconnect", "connected", "closed",
        "impl_connected", "impl_connect_failed", "impl_closed"} = Names \ NumberedNames
    /\ NumberedNames \subseteq Names
    /\ ImplFunctions \intersect ClientFunctions = {}
    /\ Names = ImplFunctions \union ClientFunctions
  BY DEF Names, NumberedNames, ImplFunctions, ClientFunctions

-------------------------------------------------------------------------------
(* The numbers carried by a queue *)

NumbersOf(q) == [i \in DOMAIN q |-> q[i].n]

\* The numbers of a queue of calls.
LEMMA NumbersOfQueue ==
    ASSUME NEW fs, NEW q \in Seq(Calls(fs)), NEW e \in Calls(fs)
    PROVE  /\ NumbersOf(q) \in Seq(Numbers)
           /\ NumbersOf(Append(q, e)) = Append(NumbersOf(q), e.n)
           /\ NumbersOf(<<e>> \o q) = <<e.n>> \o NumbersOf(q)
           /\ e.n \in Numbers
  <1>1. \A f \in Calls(fs) : f.n \in Numbers
    BY CallElements
  <1>2. DOMAIN q = 1..Len(q) /\ Len(q) \in Nat /\ \A i \in 1..Len(q) : q[i] \in Calls(fs)
    OBVIOUS
  <1>3. NumbersOf(q) \in Seq(Numbers) /\ Len(NumbersOf(q)) = Len(q) /\ DOMAIN NumbersOf(q) = 1..Len(q)
        /\ \A i \in 1..Len(q) : NumbersOf(q)[i] = q[i].n
    BY <1>1, <1>2 DEF NumbersOf
  <1>4. NumbersOf(Append(q, e)) = Append(NumbersOf(q), e.n)
    <2> DEFINE r == Append(q, e)
               N == NumbersOf(q)
    <2>1. DOMAIN r = 1..(Len(q) + 1) /\ r[Len(q) + 1] = e /\ \A i \in 1..Len(q) : r[i] = q[i]
      OBVIOUS
    <2> HIDE DEF r, N
    <2>2. NumbersOf(r) = [i \in 1..(Len(q) + 1) |-> r[i].n]
      BY <2>1 DEF NumbersOf
    <2>3. Append(N, e.n) = [i \in 1..(Len(q) + 1) |-> IF i = Len(q) + 1 THEN e.n ELSE N[i]]
      BY <1>1, <1>3 DEF N
    <2>4. \A i \in 1..(Len(q) + 1) : r[i].n = IF i = Len(q) + 1 THEN e.n ELSE N[i]
      <3>1. \A i \in 1..(Len(q) + 1) : i = Len(q) + 1 \/ i \in 1..Len(q)
        BY <1>2
      <3> QED BY <1>3, <2>1, <3>1 DEF N
    <2> QED BY <2>2, <2>3, <2>4 DEF r, N
  <1>5. NumbersOf(<<e>> \o q) = <<e.n>> \o NumbersOf(q)
    <2> DEFINE r == <<e>> \o q
               N == NumbersOf(q)
               t == <<e.n>> \o N
    <2>1. DOMAIN r = 1..(Len(q) + 1) /\ r[1] = e /\ \A i \in 1..Len(q) : r[i + 1] = q[i]
      OBVIOUS
    <2>a. N \in Seq(Numbers) /\ Len(N) = Len(q)
      BY <1>3
    <2> HIDE DEF r, N
    <2>2. t \in Seq(Numbers) /\ DOMAIN t = 1..(Len(q) + 1) /\ t[1] = e.n
          /\ \A i \in 1..Len(q) : t[i + 1] = N[i]
      BY <1>1, <1>2, <2>a
    <2>3. NumbersOf(r) = [i \in 1..(Len(q) + 1) |-> r[i].n]
      BY <2>1 DEF NumbersOf
    <2> HIDE DEF t
    <2>4. \A i \in 1..(Len(q) + 1) : r[i].n = t[i]
      <3> TAKE i \in 1..(Len(q) + 1)
      <3>1. CASE i = 1
        BY <2>1, <2>2, <3>1
      <3>2. CASE i # 1
        <4>1. i - 1 \in 1..Len(q) /\ (i - 1) + 1 = i
          BY <1>2, <3>2
        <4>2. r[(i - 1) + 1] = q[i - 1] /\ t[(i - 1) + 1] = N[i - 1]
          BY <2>1, <2>2, <4>1
        <4>3. N[i - 1] = q[i - 1].n
          BY <1>3, <4>1 DEF N
        <4> QED BY <4>1, <4>2, <4>3
      <3> QED BY <3>1, <3>2
    <2>5. t = [i \in 1..(Len(q) + 1) |-> t[i]]
      BY <2>2
    <2> QED BY <2>3, <2>4, <2>5 DEF r, t, N
  <1> QED BY <1>1, <1>3, <1>4, <1>5

\* Carried in terms of NumbersOf.
LEMMA CarriedNumbers ==
    /\ \A q, f : Carried(q, f) = NumbersOf(Kept(q, Calls({f})))
    /\ NumbersOf(<<>>) = <<>>
  BY DEF Carried, NumbersOf

\* The carried numbers of a queue that is taken from or added to.
LEMMA CarriedQueue ==
    ASSUME NEW fs, NEW q \in Seq(Calls(fs)), NEW f
    PROVE  /\ Carried(q, f) \in Seq(Numbers)
           /\ q # <<>> /\ Head(q).fn = f => Carried(q, f) = <<Head(q).n>> \o Carried(Tail(q), f)
           /\ q # <<>> /\ Head(q).fn # f => Carried(q, f) = Carried(Tail(q), f)
           /\ Carried(<<>>, f) = <<>>
  <1> DEFINE C == Calls(fs)
             F == Calls({f})
             k == Kept(q, F)
  <1>1. \A s \in Seq(C) : Kept(s, F) \in Seq(C)
    BY KeptType
  <1>e. \A e \in C : e \in F <=> e.fn = f
    BY CallElements
  <1>2. Carried(q, f) \in Seq(Numbers)
    <2>1. k \in Seq(C)
      BY <1>1
    <2> HIDE DEF k
    <2>2. \A e \in C : e.n \in Numbers
      BY CallElements
    <2>3. DOMAIN k = 1..Len(k) /\ Len(k) \in Nat /\ \A i \in 1..Len(k) : k[i] \in C
      BY <2>1
    <2>4. NumbersOf(k) = [i \in 1..Len(k) |-> k[i].n]
      BY <2>3 DEF NumbersOf
    <2>5. \A i \in 1..Len(k) : k[i].n \in Numbers
      BY <2>2, <2>3
    <2>6. NumbersOf(k) \in Seq(Numbers)
      BY <2>3, <2>4, <2>5
    <2> QED BY <2>6, CarriedNumbers DEF k
  <1>4. ASSUME q # <<>>
        PROVE  /\ Head(q).fn = f => Carried(q, f) = <<Head(q).n>> \o Carried(Tail(q), f)
               /\ Head(q).fn # f => Carried(q, f) = Carried(Tail(q), f)
    <2>1. Head(q) \in C /\ Tail(q) \in Seq(C)
      BY <1>4
    <2> DEFINE t == Kept(Tail(q), F)
    <2>2. /\ Head(q) \in F => k = <<Head(q)>> \o t
          /\ Head(q) \notin F => k = t
      BY <1>4, KeptHead
    <2>3. t \in Seq(C)
      BY <1>1, <2>1
    <2>4. NumbersOf(<<Head(q)>> \o t) = <<Head(q).n>> \o NumbersOf(t)
      BY <2>1, <2>3, NumbersOfQueue
    <2> QED BY <1>e, <2>1, <2>2, <2>4, CarriedNumbers
  <1>5. Carried(<<>>, f) = <<>>
    BY KeptEmpty, CarriedNumbers
  <1> QED BY <1>2, <1>4, <1>5

\* The newest number comes last.
LEMMA CarriedAppend ==
    ASSUME NEW fs, NEW q \in Seq(Calls(fs)), NEW e \in Calls(fs), NEW f
    PROVE  /\ e.fn = f => Carried(Append(q, e), f) = Append(Carried(q, f), e.n)
           /\ e.fn # f => Carried(Append(q, e), f) = Carried(q, f)
  <1> DEFINE F == Calls({f})
             k == Kept(q, F)
  <1>1. e \in F <=> e.fn = f
    BY CallElements
  <1>2. Kept(Append(q, e), F) = IF e \in F THEN Append(k, e) ELSE k
    BY KeptAppend
  <1>3. k \in Seq(Calls(fs))
    BY KeptType
  <1>4. NumbersOf(Append(k, e)) = Append(NumbersOf(k), e.n)
    BY <1>3, NumbersOfQueue
  <1> QED BY <1>1, <1>2, <1>4, CarriedNumbers

\* Erasing functions of other names changes nothing that is carried.
LEMMA CarriedKept ==
    ASSUME NEW q \in Seq(Everything), NEW fs, NEW f
    PROVE  /\ f \in fs => Carried(Kept(q, Calls(fs)), f) = Carried(q, f)
           /\ f \notin fs => Carried(Kept(q, Calls(fs)), f) = <<>>
  <1> DEFINE F == Calls({f})
  <1>k. \A S, R : Kept(Kept(q, S), R) = Kept(q, S \intersect R)
    BY KeptKept
  <1>1. Kept(Kept(q, Calls(fs)), F) = Kept(q, Calls(fs) \intersect F)
    BY <1>k, Zenon
  <1>2. f \in fs => Calls(fs) \intersect F = F
    BY DEF Calls
  <1>3. f \notin fs => Calls(fs) \intersect F = {}
    BY DEF Calls
  <1>4. Kept(q, {}) = <<>>
    <2>1. Everything \intersect {} = {}
      OBVIOUS
    <2> QED BY <2>1, KeptNoneOrAll
  <1> QED BY <1>1, <1>2, <1>3, <1>4, CarriedNumbers

-------------------------------------------------------------------------------
(* What happened *)

\* The reports and the signals they come from.
LEMMA ReportNames ==
    /\ Reports \subseteq Everything /\ Reported \subseteq Everything
    /\ Reports \intersect Reported = {}
    /\ \A e \in Everything :
         e.fn \notin {"connected", "closed", "impl_connected", "impl_closed"}
           => e \notin Reports \union Reported
    /\ Calls(ClientFunctions) \intersect Reports = Reports
    /\ Calls(ClientFunctions) \intersect Reported = {}
    /\ Fn("connected") \in Reports \intersect Ups /\ Fn("closed") \in Reports \intersect Downs
    /\ Fn("impl_connected") \in Reported \intersect Ups
    /\ Fn("impl_closed") \in Reported \intersect Downs
    /\ Ups \intersect Downs = {}
  <1>1. 0 \in 0..MaxSends
    BY ClientBounds
  <1> QED BY <1>1 DEF Reports, Reported, Ups, Downs, Everything, Names, NumberedNames, ImplFunctions,
                  ClientFunctions, Calls, Fn

\* The parts of Happened have their types.
LEMMA HappenedType ==
    ASSUME NEW r \in Reports, NEW q \in Seq(Everything)
    PROVE  /\ Kept(q, Reports) \in Seq(Everything) /\ Kept(q, Reported) \in Seq(Everything)
           /\ <<r>> \in Seq(Everything)
           /\ <<r>> \o Kept(q, Reports) \in Seq(Everything)
           /\ Happened(r, q) \in Seq(Everything)
           /\ Len(Happened(r, q)) > 0
  <1> DEFINE A == Kept(q, Reports)
             B == Kept(q, Reported)
  <1>1. A \in Seq(Everything) /\ B \in Seq(Everything)
    BY KeptType
  <1> HIDE DEF A, B
  <1>2. <<r>> \in Seq(Everything)
    BY ReportNames
  <1>3. <<r>> \o A \in Seq(Everything) /\ (<<r>> \o A) \o B \in Seq(Everything)
        /\ Len((<<r>> \o A) \o B) > 0
    BY <1>1, <1>2
  <1> QED BY <1>1, <1>2, <1>3 DEF A, B, Happened

\* A function that is no report and no signal of one changes nothing.
LEMMA QuietFunction ==
    ASSUME NEW r \in Reports, NEW q \in Seq(Everything)
    PROVE  /\ \A f \in Everything : f \notin Reports \union Reported
                => Happened(r, Append(q, f)) = Happened(r, q)
           /\ q # <<>> /\ Head(q) \notin Reports \union Reported
                => Happened(r, Tail(q)) = Happened(r, q)
  <1>1. ASSUME NEW f \in Everything, f \notin Reports \union Reported
        PROVE  Happened(r, Append(q, f)) = Happened(r, q)
    <2>1. Kept(Append(q, f), Reports) = Kept(q, Reports)
      BY <1>1, KeptAppend
    <2>2. Kept(Append(q, f), Reported) = Kept(q, Reported)
      BY <1>1, KeptAppend
    <2> QED BY <2>1, <2>2 DEF Happened
  <1>2. ASSUME q # <<>>, Head(q) \notin Reports \union Reported
        PROVE  Happened(r, Tail(q)) = Happened(r, q)
    <2>1. Kept(q, Reports) = Kept(Tail(q), Reports)
      BY <1>2, KeptHead
    <2>2. Kept(q, Reported) = Kept(Tail(q), Reported)
      BY <1>2, KeptHead
    <2> QED BY <2>1, <2>2 DEF Happened
  <1> QED BY <1>1, <1>2

\* A signal is added at the end.
LEMMA SignalAdded ==
    ASSUME NEW r \in Reports, NEW q \in Seq(Everything), NEW f \in Reported
    PROVE  Happened(r, Append(q, f)) = Append(Happened(r, q), f)
  <1> DEFINE A == Kept(q, Reports)
             B == Kept(q, Reported)
  <1>1. A \in Seq(Everything) /\ B \in Seq(Everything) /\ <<r>> \o A \in Seq(Everything)
    BY HappenedType
  <1>2. f \in Everything /\ f \notin Reports
    BY ReportNames
  <1>3. Kept(Append(q, f), Reports) = A
    BY <1>2, KeptAppend
  <1>4. Kept(Append(q, f), Reported) = Append(B, f)
    BY <1>2, KeptAppend
  <1> HIDE DEF A, B
  <1>5. (<<r>> \o A) \o Append(B, f) = Append((<<r>> \o A) \o B, f)
    BY <1>1, <1>2
  <1> QED BY <1>3, <1>4, <1>5 DEF Happened, A, B

\* A connection is made, or closed when it was made.
LEMMA AlternatesAppend ==
    ASSUME NEW h \in Seq(Everything), Len(h) > 0, NEW up \in BOOLEAN, NEW f \in Everything,
           Alternates(h, up)
    PROVE  /\ f \in Ups => Alternates(Append(h, f), TRUE)
           /\ f \in Downs /\ up => Alternates(Append(h, f), FALSE)
  <1> DEFINE g == Append(h, f)
             n == Len(h)
  <1>1. /\ n \in Nat /\ n > 0 /\ Len(g) = n + 1 /\ g[n + 1] = f /\ (n + 1) - 1 = n
        /\ \A i \in 1..n : g[i] = h[i]
    BY AppendElements
  <1>2. \A i \in 1..(n + 1) : i \in 1..n \/ i = n + 1
    BY <1>1
  <1>3. \A i \in 1..n : i > 1 => i - 1 \in 1..n
    BY <1>1
  <1>4. n \in 1..n
    BY <1>1
  <1>5. Ups \intersect Downs = {}
    BY DEF Ups, Downs
  <1>6. \A i \in 1..n : i > 1 /\ h[i] \in Downs => h[i - 1] \in Ups
    BY DEF Alternates, n
  <1>7. up => h[n] \in Ups
    BY DEF Alternates, n
  <1> HIDE DEF g, n
  <1>8. \A i \in 1..n : i > 1 /\ g[i] \in Downs => g[i - 1] \in Ups
    BY <1>1, <1>3, <1>6
  <1>9. f \in Ups \/ (f \in Downs /\ up) =>
          \A i \in 1..(n + 1) : i > 1 /\ g[i] \in Downs => g[i - 1] \in Ups
    BY <1>1, <1>2, <1>4, <1>5, <1>7, <1>8
  <1> QED BY <1>1, <1>9 DEF Alternates, g

\* The dispatcher runs client_impl's handler: a signal becomes a report.
LEMMA SignalReported ==
    ASSUME NEW r \in Reports, NEW q \in Seq(Everything), q # <<>>, NEW up \in BOOLEAN,
           NEW f \in Reports, Head(q) \in Reported, Head(q) \in Ups <=> f \in Ups,
           Alternates(Happened(r, q), up)
    PROVE  Alternates(Happened(r, Append(Tail(q), f)), up)
  <1> DEFINE A == Kept(Tail(q), Reports)
             B == Kept(Tail(q), Reported)
             a == <<r>> \o A
             x == Head(q)
             h == a \o (<<x>> \o B)
             g == Append(a, f) \o B
             n == Len(a)
             m == Len(B)
  <1>t. Tail(q) \in Seq(Everything) /\ x \in Everything /\ f \in Everything /\ x \notin Reports /\ f \notin Reported
    BY ReportNames
  <1>1. A \in Seq(Everything) /\ B \in Seq(Everything) /\ a \in Seq(Everything)
    BY <1>t, HappenedType
  <1>2. Kept(q, Reports) = A /\ Kept(q, Reported) = <<x>> \o B
    BY <1>t, KeptHead
  <1>3. Happened(r, q) = h
    BY <1>2 DEF Happened
  <1>a. \A t \in Seq(Everything) : Kept(Append(t, f), Reports) = Append(Kept(t, Reports), f)
                                   /\ Kept(Append(t, f), Reported) = Kept(t, Reported)
    <2> TAKE t \in Seq(Everything)
    <2>1. f \in Everything /\ f \notin Reported
      BY <1>t
    <2>2. Kept(Append(t, f), Reports) = Append(Kept(t, Reports), f)
      BY <2>1, KeptAppend
    <2>3. Kept(Append(t, f), Reported) = Kept(t, Reported)
      BY <2>1, KeptAppend
    <2> QED BY <2>2, <2>3
  <1>4. Kept(Append(Tail(q), f), Reports) = Append(A, f)
    BY <1>t, <1>a
  <1>5. Kept(Append(Tail(q), f), Reported) = B
    BY <1>t, <1>a
  <1>6. <<r>> \o Append(A, f) = Append(a, f)
    <2>1. <<r>> \in Seq(Everything)
      BY ReportNames
    <2> HIDE DEF A
    <2> QED BY <1>t, <1>1, <2>1
  <1>7. Happened(r, Append(Tail(q), f)) = g
    BY <1>4, <1>5, <1>6 DEF Happened
  <1> HIDE DEF A, B, a, x
  <1>8. n \in Nat /\ m \in Nat /\ Len(h) = (n + 1) + m /\ Len(g) = (n + 1) + m
    BY <1>1, <1>t
  <1>9. /\ \A i \in 1..n : h[i] = a[i] /\ g[i] = a[i]
        /\ h[n + 1] = x /\ g[n + 1] = f
        /\ \A i \in 1..m : h[(n + 1) + i] = B[i] /\ g[(n + 1) + i] = B[i]
    BY <1>1, <1>t
  <1> HIDE DEF h, g, n, m
  <1>10. \A i \in 1..((n + 1) + m) : i # n + 1 => h[i] = g[i]
    <2> TAKE i \in 1..((n + 1) + m)
    <2> HAVE i # n + 1
    <2>1. CASE i <= n
      BY <1>8, <1>9, <2>1
    <2>2. CASE i > n + 1
      <3>1. i - (n + 1) \in 1..m /\ (n + 1) + (i - (n + 1)) = i
        BY <1>8, <2>2
      <3> QED BY <1>9, <3>1
    <2> QED BY <1>8, <2>1, <2>2
  <1>11. /\ h[n + 1] \in Ups <=> g[n + 1] \in Ups
         /\ h[n + 1] \in Downs <=> g[n + 1] \in Downs
    BY <1>9 DEF x, Reports, Reported, Ups, Downs
  <1>12. \A i \in 1..((n + 1) + m) : (h[i] \in Ups <=> g[i] \in Ups) /\ (h[i] \in Downs <=> g[i] \in Downs)
    BY <1>10, <1>11
  <1>13. Alternates(h, up)
    BY <1>3
  <1>14. Alternates(g, up)
    <2>1. \A i \in 1..Len(g) : i > 1 => i - 1 \in 1..Len(g)
      BY <1>8
    <2>2. Len(g) \in 1..((n + 1) + m)
      BY <1>8
    <2> QED BY <1>8, <1>12, <1>13, <2>1, <2>2 DEF Alternates
  <1> QED BY <1>7, <1>14

\* A report is made: the oldest element goes.
LEMMA ReportMade ==
    ASSUME NEW r \in Reports, NEW q \in Seq(Everything), q # <<>>, NEW up \in BOOLEAN,
           Head(q) \in Reports, Alternates(Happened(r, q), up)
    PROVE  /\ Alternates(Happened(Head(q), Tail(q)), up)
           /\ Head(q) \in Downs => r \in Ups
  <1> DEFINE A == Kept(Tail(q), Reports)
             B == Kept(Tail(q), Reported)
             x == Head(q)
             g == (<<x>> \o A) \o B
             h == (<<r>> \o (<<x>> \o A)) \o B
  <1>t. Tail(q) \in Seq(Everything) /\ x \in Everything /\ x \notin Reported /\ r \in Everything
    BY ReportNames
  <1>1. A \in Seq(Everything) /\ B \in Seq(Everything)
    BY <1>t, HappenedType
  <1>2. Kept(q, Reports) = <<x>> \o A /\ Kept(q, Reported) = B
    BY <1>t, KeptHead
  <1>3. Happened(r, q) = h /\ Happened(x, Tail(q)) = g
    BY <1>2 DEF Happened
  <1> HIDE DEF A, B, x
  <1>4. Len(g) \in Nat /\ Len(g) > 0 /\ Len(h) = Len(g) + 1 /\ h[1] = r /\ h[2] = x
        /\ \A i \in 1..Len(g) : h[i + 1] = g[i]
    <2>1. g \in Seq(Everything) /\ Len(g) > 0
      BY <1>1, <1>t
    <2>2. h = <<r>> \o g
      BY <1>1, <1>t
    <2>3. g[1] = x
      BY <1>1, <1>t
    <2> HIDE DEF g, h
    <2>4. Len(h) = Len(g) + 1 /\ h[1] = r /\ \A i \in 1..Len(g) : h[i + 1] = g[i]
      BY <1>t, <2>1, <2>2
    <2>5. h[2] = g[1]
      <3>1. 1 \in 1..Len(g) /\ 1 + 1 = 2
        BY <2>1
      <3> QED BY <2>4, <3>1
    <2> QED BY <2>1, <2>3, <2>4, <2>5
  <1>5. Alternates(h, up)
    BY <1>3
  <1> HIDE DEF g, h
  <1>6. \A i \in 1..Len(g) : i > 1 /\ g[i] \in Downs => g[i - 1] \in Ups
    <2> TAKE i \in 1..Len(g)
    <2> HAVE i > 1 /\ g[i] \in Downs
    <2>1. i + 1 \in 1..Len(h) /\ i + 1 > 1 /\ (i + 1) - 1 = i /\ i - 1 \in 1..Len(g) /\ (i - 1) + 1 = i
      BY <1>4
    <2>2. h[i + 1] = g[i] /\ h[i] = g[i - 1]
      BY <1>4, <2>1
    <2>3. h[(i + 1) - 1] \in Ups
      BY <1>5, <2>1, <2>2 DEF Alternates
    <2> QED BY <2>1, <2>2, <2>3
  <1>7. up => g[Len(g)] \in Ups
    <2>1. Len(g) \in 1..Len(g)
      BY <1>4
    <2>2. h[Len(g) + 1] = g[Len(g)]
      BY <1>4, <2>1
    <2> QED BY <1>4, <1>5, <2>2 DEF Alternates
  <1>8. x \in Downs => r \in Ups
    <2>1. 2 \in 1..Len(h) /\ 2 > 1 /\ 2 - 1 = 1
      BY <1>4
    <2>2. x \in Downs => h[2 - 1] \in Ups
      BY <1>4, <1>5, <2>1 DEF Alternates
    <2> QED BY <1>4, <2>1, <2>2
  <1> QED BY <1>3, <1>6, <1>7, <1>8 DEF Alternates, x

\* The signals are erased: what was and will be reported remains.
LEMMA SignalsErased ==
    ASSUME NEW r \in Reports, NEW q \in Seq(Everything), NEW up \in BOOLEAN,
           Alternates(Happened(r, q), up)
    PROVE  Alternates(Happened(r, WithoutImplFunctions(q)), FALSE)
  <1> DEFINE A == Kept(q, Reports)
             B == Kept(q, Reported)
             a == <<r>> \o A
             h == a \o B
  <1>1. A \in Seq(Everything) /\ B \in Seq(Everything) /\ a \in Seq(Everything)
    BY HappenedType
  <1>k. \A S, R : Kept(Kept(q, S), R) = Kept(q, S \intersect R)
    BY KeptKept
  <1>2. Calls(ClientFunctions) \intersect Reports = Reports
        /\ Calls(ClientFunctions) \intersect Reported = {}
    BY ReportNames
  <1>m. /\ WithoutImplFunctions(q) = Kept(q, Calls(ClientFunctions))
        /\ Kept(Kept(q, Calls(ClientFunctions)), Reports) = Kept(q, Calls(ClientFunctions) \intersect Reports)
        /\ Kept(Kept(q, Calls(ClientFunctions)), Reported) = Kept(q, Calls(ClientFunctions) \intersect Reported)
    BY <1>k, Zenon DEF WithoutImplFunctions
  <1>3. Kept(WithoutImplFunctions(q), Reports) = A
    BY <1>2, <1>m
  <1>4. Kept(WithoutImplFunctions(q), Reported) = <<>>
    <2>1. Kept(WithoutImplFunctions(q), Reported) = Kept(q, {})
      BY <1>2, <1>m
    <2>2. Everything \intersect {} = {}
      OBVIOUS
    <2>3. Kept(q, {}) = <<>>
      BY <2>2, KeptNoneOrAll
    <2> QED BY <2>1, <2>3
  <1>5. Happened(r, WithoutImplFunctions(q)) = a
    <2>1. a \o <<>> = a
      BY <1>1
    <2> QED BY <1>3, <1>4, <2>1 DEF Happened
  <1> HIDE DEF a, B
  <1>6. /\ Len(a) \in Nat /\ Len(h) >= Len(a) /\ Len(h) \in Nat
        /\ \A i \in 1..Len(a) : h[i] = a[i]
    BY <1>1
  <1>7. Alternates(h, up)
    BY DEF Happened, a, B
  <1> HIDE DEF h
  <1>8. \A i \in 1..Len(a) : i > 1 => i \in 1..Len(h) /\ i - 1 \in 1..Len(a)
    BY <1>6
  <1>9. \A i \in 1..Len(a) : i > 1 /\ a[i] \in Downs => a[i - 1] \in Ups
    BY <1>6, <1>7, <1>8 DEF Alternates
  <1> QED BY <1>5, <1>9 DEF Alternates

-------------------------------------------------------------------------------
(* What the actions do to the dispatcher's queue *)

\* What Enqueue returns.
LEMMA EnqueueCases ==
    ASSUME NEW q \in Seq(Everything), NEW e \in Everything
    PROVE  /\ attached => Enqueue(q, <<e>>) = Append(q, e)
           /\ ~attached => Enqueue(q, <<e>>) = q
           /\ Append(q, e) \in Seq(Everything)
           /\ q \o <<e>> = Append(q, e)
  <1>1. q \o <<e>> = Append(q, e) /\ Append(q, e) \in Seq(Everything)
    OBVIOUS
  <1> QED BY <1>1 DEF Enqueue

\* The next function of the dispatcher.
LEMMA NextFunction ==
    ASSUME DqInv, NEW f, Runs(f)
    PROVE  /\ ~joining /\ dq # <<>> /\ Head(dq).fn = f
           /\ Head(dq) \in Everything /\ Tail(dq) \in Seq(Everything)
           /\ f \notin NumberedNames => Head(dq) = Fn(f)
  <1>1. ~joining /\ dq # <<>> /\ Head(dq).fn = f
    BY DEF Runs
  <1>2. Head(dq) \in Everything /\ Tail(dq) \in Seq(Everything)
    BY <1>1 DEF DqInv
  <1> QED BY <1>1, <1>2, Elements

QuietNames == {"connect", "stop", "impl_connect_failed", "timer_start", "timer_stop", "reconnect"}

\* Functions that neither carry a datagram nor report a connection.
LEMMA QuietElements ==
    \A f \in QuietNames : Fn(f) \in Everything /\ f \notin NumberedNames /\ f \in Names
  BY Elements, SomeNames DEF QuietNames, NumberedNames

\* They are run, and at most one of them is enqueued.
LEMMA QuietShape ==
    ASSUME DqInv, Start \/ Stop \/ ConnectFailedSignal \/ TimerStart \/ TimerStop \/ Reconnect
    PROVE  \E f \in QuietNames :
             /\ Runs(f)
             /\ \/ dq' = Tail(dq)
                \/ attached /\ \E g \in {"timer_stop", "reconnect"} : dq' = Append(Tail(dq), Fn(g))
  <1>e. Fn("timer_stop") \in Everything /\ Fn("reconnect") \in Everything
    BY QuietElements DEF QuietNames
  <1>q. ASSUME NEW f, Runs(f), NEW g \in {"timer_stop", "reconnect"}
        PROVE  /\ attached => Enqueue(Tail(dq), <<Fn(g)>>) = Append(Tail(dq), Fn(g))
               /\ ~attached => Enqueue(Tail(dq), <<Fn(g)>>) = Tail(dq)
    BY <1>q, <1>e, NextFunction, EnqueueCases
  <1>1. CASE Start
    BY <1>1 DEF Start, QuietNames
  <1>2. CASE Stop
    BY <1>2 DEF Stop, QuietNames
  <1>3. CASE ConnectFailedSignal
    <2>1. Runs("impl_connect_failed") /\ StartReconnectTimer(Tail(dq))
      BY <1>3 DEF ConnectFailedSignal
    <2>2. dq' = Tail(dq) \/ dq' = Enqueue(Tail(dq), <<Fn("timer_stop")>>)
      BY <2>1 DEF StartReconnectTimer
    <2> QED BY <1>q, <2>1, <2>2 DEF QuietNames
  <1>4. CASE TimerStart
    <2>1. Runs("timer_start") /\ dq' = Enqueue(Tail(dq), <<Fn("reconnect")>>)
      BY <1>4 DEF TimerStart
    <2> QED BY <1>q, <2>1 DEF QuietNames
  <1>5. CASE TimerStop
    BY <1>5 DEF TimerStop, QuietNames
  <1>6. CASE Reconnect
    <2>1. Runs("reconnect") /\ (dq' = Tail(dq) \/ dq' = Enqueue(Tail(dq), <<Fn("timer_stop")>>))
      BY <1>6 DEF Reconnect, StopWithoutInterval
    <2> QED BY <1>q, <2>1 DEF QuietNames
  <1> QED BY <1>1, <1>2, <1>3, <1>4, <1>5, <1>6

\* The handlers of client_impl's signals enqueue a report.
LEMMA SignalShape ==
    ASSUME DqInv
    PROVE  /\ ConnectedSignal =>
                /\ Runs("impl_connected")
                /\ attached => dq' = Append(Tail(dq), Fn("connected"))
                /\ ~attached => dq' = Tail(dq)
           /\ ClosedSignal =>
                /\ Runs("impl_closed")
                /\ attached => \/ dq' = Append(Tail(dq), Fn("closed"))
                               \/ dq' = Append(Append(Tail(dq), Fn("closed")), Fn("timer_stop"))
                /\ ~attached => dq' = Tail(dq)
  <1>e. /\ Fn("connected") \in Everything /\ Fn("closed") \in Everything
        /\ Fn("timer_stop") \in Everything
    BY Elements, SomeNames
  <1>1. ASSUME ConnectedSignal
        PROVE  /\ Runs("impl_connected")
               /\ attached => dq' = Append(Tail(dq), Fn("connected"))
               /\ ~attached => dq' = Tail(dq)
    <2>1. Runs("impl_connected") /\ dq' = Enqueue(Tail(dq), <<Fn("connected")>>)
      BY <1>1 DEF ConnectedSignal
    <2> QED BY <1>e, <2>1, NextFunction, EnqueueCases
  <1>2. ASSUME ClosedSignal
        PROVE  /\ Runs("impl_closed")
               /\ attached => \/ dq' = Append(Tail(dq), Fn("closed"))
                              \/ dq' = Append(Append(Tail(dq), Fn("closed")), Fn("timer_stop"))
               /\ ~attached => dq' = Tail(dq)
    <2> DEFINE r == Enqueue(Tail(dq), <<Fn("closed")>>)
    <2>1. Runs("impl_closed") /\ (dq' = r \/ dq' = Enqueue(r, <<Fn("timer_stop")>>))
      BY <1>2 DEF ClosedSignal, StartReconnectTimer
    <2>2. Tail(dq) \in Seq(Everything)
      BY <2>1, NextFunction
    <2>3. /\ attached => r = Append(Tail(dq), Fn("closed"))
          /\ ~attached => r = Tail(dq)
          /\ Append(Tail(dq), Fn("closed")) \in Seq(Everything)
      BY <1>e, <2>2, EnqueueCases
    <2>4. r \in Seq(Everything)
      BY <2>2, <2>3
    <2> HIDE DEF r
    <2>5. /\ attached => Enqueue(r, <<Fn("timer_stop")>>) = Append(r, Fn("timer_stop"))
          /\ ~attached => Enqueue(r, <<Fn("timer_stop")>>) = r
      BY <1>e, <2>4, EnqueueCases
    <2> QED BY <2>1, <2>3, <2>5
  <1> QED BY <1>1, <1>2

\* async_send's function and the callbacks.
LEMMA CarrierShape ==
    ASSUME DqInv
    PROVE  /\ Send =>
                /\ Runs("send") /\ Head(dq).n \in 1..MaxSends
                /\ client_impl \/ ~attached => dq' = Tail(dq)
                /\ ~client_impl /\ attached => dq' = Append(Tail(dq), Carrying("processed", Head(dq).n))
           /\ Report =>
                /\ dq' = Tail(dq)
                /\ \/ \E f \in {"connected", "closed"} : Runs(f) /\ reported' = f /\ processed' = processed
                   \/ \E f \in {"processed", "impl_processed"} :
                        /\ Runs(f) /\ reported' = reported
                        /\ Head(dq).n \in 1..MaxSends
                        /\ processed' = Append(processed, Head(dq).n)
  <1>1. ASSUME Send
        PROVE  /\ Runs("send") /\ Head(dq).n \in 1..MaxSends
               /\ client_impl \/ ~attached => dq' = Tail(dq)
               /\ ~client_impl /\ attached => dq' = Append(Tail(dq), Carrying("processed", Head(dq).n))
    <2>1. Runs("send")
      BY <1>1 DEF Send
    <2>2. Head(dq).n \in 1..MaxSends /\ Tail(dq) \in Seq(Everything)
      BY <2>1, NextFunction, Elements DEF NumberedNames
    <2>3. Carrying("processed", Head(dq).n) \in Everything
      BY <2>2, Elements DEF NumberedNames
    <2>4. /\ client_impl => dq' = Tail(dq)
          /\ ~client_impl => dq' = Enqueue(Tail(dq), <<Carrying("processed", Head(dq).n)>>)
      BY <1>1 DEF Send
    <2> QED BY <2>1, <2>2, <2>3, <2>4, EnqueueCases
  <1>2. ASSUME Report
        PROVE  /\ dq' = Tail(dq)
               /\ \/ \E f \in {"connected", "closed"} : Runs(f) /\ reported' = f /\ processed' = processed
                  \/ \E f \in {"processed", "impl_processed"} :
                       /\ Runs(f) /\ reported' = reported
                       /\ Head(dq).n \in 1..MaxSends
                       /\ processed' = Append(processed, Head(dq).n)
    <2>1. \A f \in {"processed", "impl_processed"} : Runs(f) => Head(dq).n \in 1..MaxSends
      BY NextFunction, Elements DEF NumberedNames
    <2>2. \A f : Runs(f) => Head(dq).fn = f
      BY DEF Runs
    <2> QED BY <1>2, <2>1, <2>2 DEF Report
  <1> QED BY <1>1, <1>2

\* An entry has been sent: its callback, if any, is enqueued.
LEMMA SentShape ==
    ASSUME TypeOK, DqInv, FlightInv, HandleSend
    PROVE  /\ ioq # <<>> /\ Head(ioq).fn = "send_ok" /\ send_entries # <<>>
           /\ Head(send_entries) \in Numbers
           /\ Head(send_entries) = 0 => dq' = dq
           /\ Head(send_entries) # 0 =>
                /\ Head(send_entries) \in 1..MaxSends
                /\ dq' = Append(dq, Carrying("impl_processed", Head(send_entries)))
  <1> DEFINE n == Head(send_entries)
  <1>1. ioq # <<>> /\ Head(ioq).fn = "send_ok" /\ dq' = dq \o Processed(n)
    BY DEF HandleSend, IoRuns
  <1>2. ioq \in Seq(Calls(IoHandlers)) /\ send_entries \in Seq(Numbers) /\ dq \in Seq(Everything)
    BY DEF TypeOK, Numbers, DqInv
  <1>3. 1 \in DOMAIN ioq /\ ioq[1] = Head(ioq)
    BY <1>1, <1>2
  <1>4. send_entries # <<>>
    BY <1>1, <1>3 DEF FlightInv, NoResult, Results
  <1>5. n \in Numbers
    BY <1>2, <1>4
  <1> HIDE DEF n
  <1>6. n # 0 => n \in 1..MaxSends
    BY <1>5, ClientBounds DEF Numbers
  <1>7. n = 0 => dq' = dq
    BY <1>1, <1>2 DEF Processed
  <1>8. n # 0 => dq' = Append(dq, Carrying("impl_processed", n))
    <2> HAVE n # 0
    <2>1. Carrying("impl_processed", n) \in Everything
      BY <1>6, Elements DEF NumberedNames
    <2>2. dq' = dq \o <<Carrying("impl_processed", n)>>
      BY <1>1 DEF Processed
    <2> QED BY <1>2, <2>1, <2>2, EnqueueCases
  <1> QED BY <1>1, <1>4, <1>5, <1>6, <1>7, <1>8 DEF n

Quietly == Start \/ Stop \/ ConnectFailedSignal \/ TimerStart \/ TimerStop \/ Reconnect

\* The actions that leave the dispatcher's queue alone.
Elsewhere ==
    \/ AsyncConnectAgain \/ AsyncConnect \/ AsyncSend \/ HandleSendError \/ CheckServer
    \/ CheckClientSocket \/ CheckReset \/ ResetWorkGuard \/ ServerCheckTick \/ SocketCheckTick
    \/ SendCompletes \/ CheckDelivered \/ CheckFails \/ ServerDown \/ ServerUp \/ FileLost
    \/ UNCHANGED vars

\* The actions by what they do to the dispatcher's queue.
LEMMA NextCases ==
    ASSUME [Next]_vars
    PROVE  \/ Quietly \/ ConnectedSignal \/ ClosedSignal \/ Send \/ Report \/ Joined
           \/ Tick \/ DelayPasses \/ AsyncClose \/ AsyncConnectFails \/ ConnectFails \/ Connected
           \/ HandleSend \/ Request \/ RequestSend \/ Destroy \/ EnqueueStop \/ Elsewhere
  BY Zenon DEF Next, Dispatcher, Clock, IoThread, User, Environment, Quietly, Elsewhere

\* What the others leave alone too.
LEMMA ElsewhereFacts ==
    ASSUME Elsewhere
    PROVE  /\ UNCHANGED <<dq, attached, detaching, reconnect_interval, joining, delayed, ticking,
                          client_impl, reported, accepted, processed>>
           /\ socket_ready' = socket_ready \/ socket_ready' = FALSE
  <1>1. CASE AsyncConnectAgain \/ HandleSendError \/ ResetWorkGuard \/ ServerCheckTick
                \/ SocketCheckTick \/ SendCompletes
    BY <1>1, Zenon DEF AsyncConnectAgain, HandleSendError, ResetWorkGuard, ServerCheckTick,
             SocketCheckTick, CheckTick, SendCompletes, implRest, worldVars, modeVars, timerVars,
             historyVars, socketVars
  <1>2. CASE AsyncConnect
    BY <1>2, Zenon DEF AsyncConnect, worldVars, modeVars, timerVars, historyVars
  <1>3. CASE AsyncSend \/ CheckServer \/ CheckClientSocket \/ CheckReset \/ CheckDelivered
    BY <1>3, Zenon DEF AsyncSend, CheckServer, CheckClientSocket, CheckReset, CheckDelivered, worldVars,
             modeVars, timerVars, historyVars, socketVars
  <1>4. CASE CheckFails \/ ServerDown \/ ServerUp \/ FileLost
    BY <1>4, Zenon DEF CheckFails, ServerDown, ServerUp, FileLost, modeVars, timerVars, historyVars, implRest,
             socketVars
  <1>5. CASE UNCHANGED vars
    BY <1>5, Zenon DEF vars, modeVars, timerVars, implRest, socketVars, worldVars, historyVars
  <1> QED BY <1>1, <1>2, <1>3, <1>4, <1>5 DEF Elsewhere

\* Erasing the functions of one object leaves those of the other.
LEMMA ErasedTypes ==
    ASSUME NEW q \in Seq(Everything)
    PROVE  /\ WithoutImplFunctions(q) \in Seq(Everything)
           /\ WithoutImplFunctions(q) \in Seq(Calls(ClientFunctions))
           /\ WithoutClientFunctions(q) \in Seq(Everything)
           /\ WithoutClientFunctions(q) \in Seq(Calls(ImplFunctions))
  <1>1. \A S : Kept(q, S) \in Seq(Everything \intersect S) /\ Kept(q, S) \in Seq(Everything)
    BY KeptType
  <1>2. \A S : Everything \intersect S \subseteq S
    OBVIOUS
  <1>3. \A S : Kept(q, S) \in Seq(S)
    BY <1>1, <1>2, SeqMonotonic
  <1> QED BY <1>1, <1>3, Zenon DEF WithoutImplFunctions, WithoutClientFunctions

-------------------------------------------------------------------------------
(* Types *)

\* The dispatcher's queue keeps its type.
LEMMA DqStep ==
    ASSUME TypeOK, DqInv, FlightInv, [Next]_vars
    PROVE  DqInv'
  <1>d. dq \in Seq(Everything) /\ \A e \in Everything : Append(dq, e) \in Seq(Everything)
    BY DEF DqInv
  <1>t. \A f : Runs(f) =>
          Tail(dq) \in Seq(Everything) /\ \A e \in Everything : Append(Tail(dq), e) \in Seq(Everything)
    BY NextFunction
  <1>e. /\ \A f \in QuietNames : Fn(f) \in Everything
        /\ \A f \in {"connected", "closed", "impl_connected", "impl_closed"} : Fn(f) \in Everything
        /\ \A f \in NumberedNames, n \in 1..MaxSends : Carrying(f, n) \in Everything
    BY QuietElements, Elements, SomeNames
  <1> SUFFICES dq' \in Seq(Everything)
    BY DEF DqInv
  <1>1. CASE Quietly
    BY <1>1, <1>t, <1>e, QuietShape DEF Quietly, QuietNames
  <1>2. CASE ConnectedSignal \/ ClosedSignal
    <2>1. \A q \in Seq(Everything) : Append(q, Fn("timer_stop")) \in Seq(Everything)
      BY <1>e DEF QuietNames
    <2> QED BY <1>2, <1>t, <1>e, <2>1, SignalShape
  <1>3. CASE Send \/ Report
    BY <1>3, <1>t, <1>e, CarrierShape DEF NumberedNames
  <1>4. CASE Joined
    BY <1>4, <1>d, ErasedTypes DEF Joined
  <1>5. CASE Tick \/ DelayPasses
    <2>1. \A e \in Everything : <<e>> \in Seq(Everything)
      OBVIOUS
    <2>2. dq' = <<Fn("reconnect")>> \/ dq' = <<Fn("timer_start")>>
      BY <1>5 DEF Tick, DelayPasses
    <2> QED BY <1>e, <2>1, <2>2 DEF QuietNames
  <1>6. CASE AsyncClose
    BY <1>6, <1>d, <1>e DEF AsyncClose
  <1>7. CASE AsyncConnectFails \/ ConnectFails
    BY <1>7, <1>d, <1>e DEF AsyncConnectFails, ConnectFails, QuietNames
  <1>8. CASE Connected
    BY <1>8, <1>d, <1>e DEF Connected
  <1>9. CASE HandleSend
    BY <1>9, <1>d, <1>e, SentShape DEF NumberedNames
  <1>10. CASE Request
    BY <1>10, <1>d, <1>e DEF Request, QuietNames
  <1>11. CASE RequestSend
    <2>1. accepted' \in 1..MaxSends
      BY <1>11, ClientBounds DEF RequestSend, TypeOK
    <2> QED BY <1>11, <1>d, <1>e, <2>1 DEF RequestSend, NumberedNames
  <1>12. CASE Destroy
    BY <1>12, <1>d, ErasedTypes DEF Destroy
  <1>13. CASE EnqueueStop
    <2>1. Fn("stop") \in Everything
      BY <1>e DEF QuietNames
    <2> QED BY <1>13, <1>d, <2>1 DEF EnqueueStop
  <1>14. CASE Elsewhere
    BY <1>14, <1>d, ElsewhereFacts
  <1> QED BY <1>1, <1>2, <1>3, <1>4, <1>5, <1>6, <1>7, <1>8, <1>9, <1>10, <1>11, <1>12, <1>13,
             <1>14, NextCases

\* The next handler of the io thread.
LEMMA NextHandler ==
    ASSUME TypeOK, NEW h, IoRuns(h)
    PROVE  /\ ioq # <<>> /\ Head(ioq).fn = h
           /\ Head(ioq) \in Calls(IoHandlers) /\ Tail(ioq) \in Seq(Calls(IoHandlers))
           /\ Head(ioq).n \in Numbers
  <1>1. ioq # <<>> /\ Head(ioq).fn = h /\ ioq \in Seq(Calls(IoHandlers))
    BY DEF IoRuns, TypeOK
  <1>2. Head(ioq) \in Calls(IoHandlers) /\ Tail(ioq) \in Seq(Calls(IoHandlers))
    BY <1>1
  <1> QED BY <1>1, <1>2, CallElements

\* The io thread takes its next handler and posts at most one of another kind.
LEMMA IoShape ==
    ASSUME TypeOK
    PROVE  /\ AsyncClose =>
                /\ IoRuns("async_close")
                /\ \/ ioq' = Tail(ioq)
                   \/ InFlight /\ ioq' = Append(Tail(ioq), Fn("send_error"))
           /\ AsyncConnectAgain \/ AsyncConnectFails => IoRuns("async_connect") /\ ioq' = Tail(ioq)
           /\ AsyncConnect =>
                /\ IoRuns("async_connect")
                /\ \E f \in {"connect_ok", "connect_error"} : ioq' = Append(Tail(ioq), Fn(f))
           /\ ConnectFails => IoRuns("connect_error") /\ ioq' = Tail(ioq)
           /\ Connected => IoRuns("connect_ok") /\ ioq' = Tail(ioq)
           /\ AsyncSend => IoRuns("async_send") /\ ioq' = Tail(ioq)
           /\ HandleSend => IoRuns("send_ok") /\ ioq' = Tail(ioq)
           /\ HandleSendError =>
                IoRuns("send_error") /\ ioq' = Append(Tail(ioq), Fn("async_close"))
           /\ CheckServer =>
                /\ IoRuns("check_server")
                /\ ioq' = Tail(ioq) \/ ioq' = Append(Tail(ioq), Fn("async_send"))
           /\ CheckClientSocket => IoRuns("check_client_socket") /\ ioq' = Tail(ioq)
           /\ CheckReset => IoRuns("check_reset") /\ ioq' = Tail(ioq)
           /\ ResetWorkGuard => IoRuns("reset") /\ ioq' = Tail(ioq)
  <1>1. ASSUME AsyncClose
        PROVE  /\ IoRuns("async_close")
               /\ \/ ioq' = Tail(ioq)
                  \/ InFlight /\ ioq' = Append(Tail(ioq), Fn("send_error"))
    BY <1>1, Zenon DEF AsyncClose
  <1>2. ASSUME AsyncConnect
        PROVE  /\ IoRuns("async_connect")
               /\ \E f \in {"connect_ok", "connect_error"} : ioq' = Append(Tail(ioq), Fn(f))
    BY <1>2 DEF AsyncConnect
  <1>3. CheckServer =>
           /\ IoRuns("check_server")
           /\ ioq' = Tail(ioq) \/ ioq' = Append(Tail(ioq), Fn("async_send"))
    BY DEF CheckServer
  <1>4. /\ AsyncConnectAgain \/ AsyncConnectFails => IoRuns("async_connect") /\ ioq' = Tail(ioq)
        /\ ConnectFails => IoRuns("connect_error") /\ ioq' = Tail(ioq)
        /\ Connected => IoRuns("connect_ok") /\ ioq' = Tail(ioq)
        /\ AsyncSend => IoRuns("async_send") /\ ioq' = Tail(ioq)
        /\ HandleSend => IoRuns("send_ok") /\ ioq' = Tail(ioq)
        /\ HandleSendError => IoRuns("send_error") /\ ioq' = Append(Tail(ioq), Fn("async_close"))
        /\ CheckClientSocket => IoRuns("check_client_socket") /\ ioq' = Tail(ioq)
        /\ CheckReset => IoRuns("check_reset") /\ ioq' = Tail(ioq)
        /\ ResetWorkGuard => IoRuns("reset") /\ ioq' = Tail(ioq)
    BY Zenon DEF AsyncConnectAgain, AsyncConnectFails, ConnectFails, Connected, AsyncSend, HandleSend,
        HandleSendError, CheckClientSocket, CheckReset, ResetWorkGuard
  <1> QED BY <1>1, <1>2, <1>3, <1>4

\* Other threads post at most one handler, and ~client_impl two.
LEMMA PostShape ==
    ASSUME DqInv
    PROVE  /\ Start \/ Reconnect =>
                \/ ~client_impl /\ ioq' = ioq
                \/ client_impl /\ ioq' = Append(ioq, Fn("async_connect"))
           /\ Send => \/ ~client_impl /\ ioq' = ioq
                      \/ client_impl /\ ioq' = Append(ioq, Carrying("async_send", Head(dq).n))
           /\ ConnectFailedSignal => ioq' = Append(ioq, Fn("async_close"))
           /\ ServerCheckTick => ioq' = Append(ioq, Fn("check_server"))
           /\ SocketCheckTick => ioq' = Append(ioq, Fn("check_client_socket"))
           /\ SendCompletes => InFlight /\ \E f \in Results : ioq' = Append(ioq, Fn(f))
           /\ CheckDelivered \/ CheckFails =>
                \E f \in {"check_reset", "async_close"} : ioq' = Append(ioq, Fn(f))
           /\ Stop => \/ ~client_impl /\ ioq' = ioq
                      \/ client_impl /\ ioq' = ioq \o <<Fn("async_close"), Fn("reset")>>
  <1>1. SendCompletes => InFlight /\ \E f \in Results : ioq' = Append(ioq, Fn(f))
    BY DEF SendCompletes, Results
  <1>2. CheckDelivered \/ CheckFails =>
          \E f \in {"check_reset", "async_close"} : ioq' = Append(ioq, Fn(f))
    BY DEF CheckDelivered, CheckFails
  <1>3. Start \/ Reconnect => \/ ~client_impl /\ ioq' = ioq
                              \/ client_impl /\ ioq' = Append(ioq, Fn("async_connect"))
    BY DEF Start, Reconnect, Connect
  <1>4. Send => \/ ~client_impl /\ ioq' = ioq
                \/ client_impl /\ ioq' = Append(ioq, Carrying("async_send", Head(dq).n))
    BY DEF Send
  <1>5. Stop => \/ ~client_impl /\ ioq' = ioq
                \/ client_impl /\ ioq' = ioq \o <<Fn("async_close"), Fn("reset")>>
    BY DEF Stop
  <1> QED BY <1>1, <1>2, <1>3, <1>4, <1>5
        DEF ConnectFailedSignal, ServerCheckTick, SocketCheckTick, CheckTick

\* The actions that leave the io thread's queue alone.
NotPosting ==
    \/ Joined \/ ConnectedSignal \/ ClosedSignal \/ Report \/ TimerStart \/ TimerStop \/ Tick
    \/ DelayPasses \/ Request \/ RequestSend \/ Destroy \/ EnqueueStop
    \/ ServerDown \/ ServerUp \/ FileLost \/ UNCHANGED vars

\* They leave the rest of client_impl alone, too, unless it is gone.
LEMMA NotPostingFacts ==
    ASSUME NotPosting
    PROVE  /\ UNCHANGED <<ioq, send_entries, socket, socket_ready>>
           /\ Joined \/ UNCHANGED <<client_impl, checking, check_client, joining>>
  <1>1. CASE Joined
    BY <1>1 DEF Joined, socketVars
  <1>2. CASE ConnectedSignal \/ ClosedSignal \/ Report \/ TimerStart \/ TimerStop \/ Tick \/ DelayPasses
    BY <1>2, Zenon DEF ConnectedSignal, ClosedSignal, Report, TimerStart, TimerStop, Tick, DelayPasses,
             implRest, socketVars, checkVars, modeVars
  <1>3. CASE Request \/ RequestSend \/ Destroy \/ EnqueueStop
    BY <1>3, Zenon DEF Request, RequestSend, Destroy, EnqueueStop, implRest, socketVars, checkVars, modeVars
  <1>4. CASE ServerDown \/ ServerUp \/ FileLost
    BY <1>4, Zenon DEF ServerDown, ServerUp, FileLost, implRest, socketVars, checkVars, modeVars
  <1>5. CASE UNCHANGED vars
    BY <1>5, Zenon DEF vars, implRest, socketVars, checkVars, modeVars
  <1> QED BY <1>1, <1>2, <1>3, <1>4, <1>5 DEF NotPosting

\* The actions of other threads that post one handler to it.
Posting ==
    \/ Start \/ Reconnect \/ Send \/ ConnectFailedSignal \/ ServerCheckTick \/ SocketCheckTick
    \/ SendCompletes \/ CheckDelivered \/ CheckFails

\* The actions by what they do to the io thread's queue.
LEMMA PostCases ==
    ASSUME [Next]_vars
    PROVE  NotPosting \/ Posting \/ Stop \/ IoThread
  BY Zenon DEF Next, Dispatcher, Clock, User, Environment, NotPosting, Posting

\* The io thread's queue keeps its type.
LEMMA IoqStep ==
    ASSUME TypeOK, DqInv, [Next]_vars
    PROVE  ioq' \in Seq(Calls(IoHandlers))
  <1> DEFINE C == Calls(IoHandlers)
  <1>d. ioq \in Seq(C)
    BY DEF TypeOK
  <1>e. \A f \in IoHandlers : Fn(f) \in C
    BY CallElements
  <1>t. \A h : IoRuns(h) => Tail(ioq) \in Seq(C)
    BY NextHandler
  <1> SUFFICES ioq' \in Seq(C)
    OBVIOUS
  <1> HIDE DEF C
  <1>a. \A q \in Seq(C), e \in C : Append(q, e) \in Seq(C)
    OBVIOUS
  <1>1. CASE NotPosting
    BY <1>1, <1>d, NotPostingFacts
  <1>2. CASE Posting
    <2>1. Send => Carrying("async_send", Head(dq).n) \in C
      <3> HAVE Send
      <3>1. Head(dq).n \in Numbers /\ "async_send" \in IoHandlers
        BY CarrierShape, ClientBounds DEF Numbers, IoHandlers
      <3> QED BY <3>1, CallElements DEF C
    <2> QED BY <1>2, <1>d, <1>e, <1>a, <2>1, PostShape DEF Posting, IoHandlers, Results
  <1>3. CASE Stop
    <2>1. Fn("async_close") \in C /\ Fn("reset") \in C
      BY <1>e DEF IoHandlers
    <2>2. <<Fn("async_close"), Fn("reset")>> \in Seq(C)
      BY <2>1
    <2>3. \A q, r \in Seq(C) : q \o r \in Seq(C)
      OBVIOUS
    <2>4. ioq \o <<Fn("async_close"), Fn("reset")>> \in Seq(C)
      BY <1>d, <2>2, <2>3
    <2> QED BY <1>3, <1>d, <2>4, PostShape
  <1>4. CASE IoThread
    <2>1. /\ \A h : IoRuns(h) /\ ioq' = Tail(ioq) => ioq' \in Seq(C)
          /\ \A h, f : IoRuns(h) /\ f \in IoHandlers /\ ioq' = Append(Tail(ioq), Fn(f)) => ioq' \in Seq(C)
      BY <1>t, <1>e, <1>a
    <2>2. {"send_error", "connect_ok", "connect_error", "async_close", "async_send"} \subseteq IoHandlers
      BY DEF IoHandlers
    <2> QED BY <1>4, <2>1, <2>2, IoShape DEF IoThread
  <1> QED BY <1>1, <1>2, <1>3, <1>4, PostCases DEF C

\* client_send_entries_ keeps its type.
LEMMA EntriesStep ==
    ASSUME TypeOK, DqInv, FlightInv, [Next]_vars
    PROVE  /\ send_entries' \in Seq(Numbers)
           /\ ~AsyncSend /\ ~HandleSend => send_entries' = send_entries
  <1>d. send_entries \in Seq(Numbers)
    BY DEF TypeOK, Numbers
  <1>1. CASE AsyncSend
    <2>1. Head(ioq).n \in Numbers
      BY <1>1, IoShape, NextHandler
    <2> QED BY <1>1, <1>d, <2>1 DEF AsyncSend, PushBack
  <1>2. CASE HandleSend
    BY <1>2, <1>d, SentShape DEF HandleSend, PopFront
  <1>3. CASE NotPosting
    BY <1>3, <1>d, NotPostingFacts
  <1>4. CASE Posting \/ Stop
    <2>1. send_entries' = send_entries
      BY <1>4, Zenon DEF Posting, Start, Reconnect, Send, ConnectFailedSignal, ServerCheckTick, SocketCheckTick,
             CheckTick, SendCompletes, CheckDelivered, CheckFails, Stop, implRest
    <2> QED BY <1>d, <2>1
  <1>5. CASE IoThread /\ ~AsyncSend /\ ~HandleSend
    <2>1. send_entries' = send_entries
      BY <1>5, Zenon DEF IoThread, AsyncClose, AsyncConnectAgain, AsyncConnectFails, AsyncConnect, ConnectFails,
             Connected, HandleSendError, CheckServer, CheckClientSocket, CheckReset, ResetWorkGuard, implRest
    <2> QED BY <1>d, <2>1
  <1> QED BY <1>1, <1>2, <1>3, <1>4, <1>5, PostCases

\* A step keeps the types of all variables.
LEMMA TypeStep ==
    ASSUME TypeOK, DqInv, DqInv', FlightInv, [Next]_vars
    PROVE  TypeOK'
  <1> USE ClientBounds
  <1>d. dq' \in Seq(Calls(ImplFunctions \union ClientFunctions))
    BY Elements, SeqMonotonic DEF DqInv, Names
  <1>i. ioq' \in Seq(Calls(IoHandlers))
    BY IoqStep
  <1>s. send_entries' \in Seq(0..MaxSends)
    BY EntriesStep DEF Numbers
  <1>p. processed' \in Seq(1..MaxSends)
    <2>1. CASE Report
      <3>1. \A n \in 1..MaxSends : Append(processed, n) \in Seq(1..MaxSends)
        BY DEF TypeOK
      <3> QED BY <2>1, <3>1, CarrierShape DEF TypeOK
    <2>2. CASE ~Report
      <3>1. processed' = processed
        BY <2>2, Zenon DEF Next, Dispatcher, Clock, IoThread, User, Environment, Start, Stop, Joined, Send,
               ConnectedSignal, ConnectFailedSignal, ClosedSignal, TimerStart, TimerStop, Reconnect, Tick,
               DelayPasses, ServerCheckTick, SocketCheckTick, CheckTick, AsyncClose, AsyncConnectAgain,
               AsyncConnectFails, AsyncConnect, ConnectFails, Connected, AsyncSend, HandleSend,
               HandleSendError, CheckServer, CheckClientSocket, CheckReset, ResetWorkGuard, Request,
               RequestSend, Destroy, EnqueueStop, SendCompletes, CheckDelivered, CheckFails, ServerDown,
               ServerUp, FileLost, vars,
               worldVars, historyVars
      <3> QED BY <3>1 DEF TypeOK
    <2> QED BY <2>1, <2>2
  <1> USE <1>d, <1>i, <1>s, <1>p
  <1>1. CASE Start \/ Stop \/ Reconnect
    <2>1. joining' \in BOOLEAN /\ reconnect_interval' \in BOOLEAN
      BY <1>1, Zenon DEF Start, Stop, Reconnect, TypeOK, modeVars
    <2>2. UNCHANGED <<attached, detaching, timerVars, implRest, worldVars>>
      BY <1>1, Zenon DEF Start, Stop, Reconnect, modeVars
    <2> QED BY <2>1, <2>2 DEF TypeOK, timerVars, implRest, worldVars, socketVars, checkVars, historyVars
  <1>2. CASE Joined
    BY <1>2 DEF Joined, TypeOK, worldVars, socketVars, timerVars, historyVars
  <1>3. CASE Send \/ ConnectedSignal
    <2>1. UNCHANGED <<implRest, worldVars, modeVars, timerVars>>
      BY <1>3, Zenon DEF Send, ConnectedSignal
    <2> QED BY <2>1 DEF TypeOK, timerVars, modeVars, implRest, worldVars, socketVars, checkVars, historyVars
  <1>4. CASE ConnectFailedSignal \/ ClosedSignal
    <2>1. UNCHANGED <<implRest, worldVars, modeVars, ticking>>
      BY <1>4, Zenon DEF ConnectFailedSignal, ClosedSignal
    <2>2. delayed' \in Nat
      BY <1>4 DEF ConnectFailedSignal, ClosedSignal, StartReconnectTimer, TypeOK
    <2> QED BY <2>1, <2>2 DEF TypeOK, modeVars, implRest, worldVars, socketVars, checkVars, historyVars
  <1>5. CASE Report
    <2>1. reported' \in {"connected", "closed"}
      BY <1>5, CarrierShape DEF TypeOK
    <2>2. UNCHANGED <<implRest, modeVars, timerVars, server, accepted, events>>
      BY <1>5, Zenon DEF Report
    <2> QED BY <2>1, <2>2 DEF TypeOK, modeVars, timerVars, implRest, socketVars, checkVars
  <1>6. CASE TimerStart \/ TimerStop
    <2>1. ticking' \in BOOLEAN
      BY <1>6, Zenon DEF TimerStart, TimerStop
    <2>2. UNCHANGED <<implRest, worldVars, modeVars, delayed>>
      BY <1>6, Zenon DEF TimerStart, TimerStop
    <2> QED BY <2>1, <2>2 DEF TypeOK, modeVars, implRest, worldVars, socketVars, checkVars, historyVars
  <1>7. CASE Tick \/ DelayPasses
    <2>1. delayed' \in Nat
      BY <1>7 DEF Tick, DelayPasses, timerVars, TypeOK
    <2>2. UNCHANGED <<implRest, worldVars, modeVars, ticking>>
      BY <1>7, Zenon DEF Tick, DelayPasses, timerVars
    <2> QED BY <2>1, <2>2 DEF TypeOK, modeVars, implRest, worldVars, socketVars, checkVars, historyVars
  <1>8. CASE ServerCheckTick \/ SocketCheckTick \/ AsyncConnectAgain \/ ConnectFails \/ HandleSendError
               \/ ResetWorkGuard \/ SendCompletes
    <2>1. UNCHANGED <<implRest, worldVars, modeVars, timerVars>>
      BY <1>8, Zenon DEF ServerCheckTick, SocketCheckTick, CheckTick, AsyncConnectAgain, ConnectFails,
             HandleSendError, ResetWorkGuard, SendCompletes
    <2> QED BY <2>1 DEF TypeOK, timerVars, modeVars, implRest, worldVars, socketVars, checkVars, historyVars
  <1>9. CASE AsyncClose
    <2>1. socket_ready' \in BOOLEAN
      BY <1>9, Zenon DEF AsyncClose, TypeOK
    <2>2. file' \in {"absent", "ours", "stale"}
      BY <1>9 DEF AsyncClose, TypeOK
    <2> QED BY <1>9, <2>1, <2>2 DEF AsyncClose, TypeOK, worldVars, modeVars, timerVars, checkVars, historyVars
  <1>10. CASE AsyncConnectFails \/ AsyncConnect
    <2>1. /\ UNCHANGED <<worldVars, modeVars, timerVars, checkVars, client_impl>>
          /\ socket' = TRUE /\ socket_ready' = FALSE
      BY <1>10, Zenon DEF AsyncConnectFails, AsyncConnect
    <2>2. peer' \in {"none", "live", "dead"} /\ file' \in {"absent", "ours", "stale"}
      BY <1>10 DEF AsyncConnectFails, AsyncConnect, TypeOK
    <2> QED BY <2>1, <2>2 DEF TypeOK, worldVars, modeVars, timerVars, checkVars, historyVars
  <1>11. CASE Connected
    BY <1>11 DEF Connected, TypeOK, worldVars, modeVars, timerVars, historyVars
  <1>12. CASE AsyncSend \/ HandleSend
    <2>1. UNCHANGED <<worldVars, modeVars, socketVars, timerVars, checkVars, client_impl>>
      BY <1>12, Zenon DEF AsyncSend, HandleSend
    <2> QED BY <2>1 DEF TypeOK, timerVars, modeVars, worldVars, socketVars, checkVars, historyVars
  <1>13. CASE CheckServer \/ CheckClientSocket \/ CheckReset \/ CheckDelivered
    <2>1. checking' \in BOOLEAN
      BY <1>13, Zenon DEF CheckServer, CheckClientSocket, CheckReset, CheckDelivered, TypeOK
    <2>2. check_client' \in {"none", "connecting", "done"}
      BY <1>13 DEF CheckServer, CheckClientSocket, CheckReset, CheckDelivered, TypeOK
    <2>3. UNCHANGED <<worldVars, modeVars, socketVars, timerVars, client_impl>>
      BY <1>13, Zenon DEF CheckServer, CheckClientSocket, CheckReset, CheckDelivered
    <2> QED BY <2>1, <2>2, <2>3 DEF TypeOK, timerVars, modeVars, worldVars, socketVars, historyVars
  <1>14. CASE Request \/ RequestSend
    <2>1. events' \in 0..MaxEvents
      BY <1>14 DEF Request, RequestSend, Event, TypeOK
    <2>2. accepted' \in 0..MaxSends
      BY <1>14 DEF Request, RequestSend, historyVars, TypeOK
    <2>3. UNCHANGED <<implRest, modeVars, timerVars, server, reported>>
      BY <1>14, Zenon DEF Request, RequestSend, historyVars
    <2> QED BY <2>1, <2>2, <2>3 DEF TypeOK, timerVars, modeVars, implRest, socketVars, checkVars
  <1>15. CASE Destroy
    <2>1. UNCHANGED <<implRest, worldVars, reconnect_interval, joining>>
      BY <1>15, Zenon DEF Destroy
    <2>2. attached' \in BOOLEAN /\ detaching' \in BOOLEAN /\ ticking' \in BOOLEAN
      BY <1>15, Zenon DEF Destroy
    <2>3. delayed' \in Nat
      BY <1>15 DEF Destroy
    <2> QED BY <2>1, <2>2, <2>3 DEF TypeOK, implRest, worldVars, socketVars, checkVars, historyVars
  <1>16. CASE ServerDown \/ ServerUp \/ FileLost
    <2>1. server' \in BOOLEAN
      BY <1>16, Zenon DEF ServerDown, ServerUp, FileLost, TypeOK
    <2>2. events' \in 0..MaxEvents
      BY <1>16 DEF ServerDown, ServerUp, FileLost, Event, TypeOK
    <2>3. peer' \in {"none", "live", "dead"} /\ file' \in {"absent", "ours", "stale"}
      BY <1>16 DEF ServerDown, ServerUp, FileLost, TypeOK, implRest, socketVars
    <2>4. UNCHANGED <<modeVars, historyVars, timerVars, checkVars, client_impl, socket, socket_ready>>
      BY <1>16, Zenon DEF ServerDown, ServerUp, FileLost, implRest, socketVars
    <2> QED BY <2>1, <2>2, <2>3, <2>4 DEF TypeOK, timerVars, modeVars, historyVars, checkVars
  <1>17. CASE EnqueueStop
    <2>1. UNCHANGED <<implRest, worldVars, timerVars, attached, reconnect_interval, joining>>
      BY <1>17, Zenon DEF EnqueueStop
    <2>2. detaching' \in BOOLEAN
      BY <1>17, Zenon DEF EnqueueStop
    <2> QED BY <2>1, <2>2 DEF TypeOK, timerVars, implRest, worldVars, socketVars, checkVars, historyVars
  <1>18. CASE CheckFails
    <2>1. events' \in 0..MaxEvents
      BY <1>18 DEF CheckFails, Event, TypeOK
    <2>2. /\ UNCHANGED <<modeVars, socketVars, timerVars, client_impl, checking, server, historyVars>>
          /\ check_client' = "done"
      BY <1>18, Zenon DEF CheckFails
    <2> QED BY <2>1, <2>2 DEF TypeOK, modeVars, socketVars, timerVars, historyVars
  <1>19. CASE UNCHANGED vars
    BY <1>19 DEF vars, TypeOK, timerVars, modeVars, implRest, worldVars, socketVars, checkVars, historyVars
  <1> QED BY <1>1, <1>2, <1>3, <1>4, <1>5, <1>6, <1>7, <1>8, <1>9, <1>10, <1>11, <1>12, <1>13, <1>14,
             <1>15, <1>16, <1>17, <1>18, <1>19, Zenon DEF Next, Dispatcher, Clock, IoThread, User,
             Environment

-------------------------------------------------------------------------------
(* The send in flight *)

\* Results in a queue that is taken from or added to.
LEMMA ResultQueue ==
    ASSUME NEW C, NEW q \in Seq(C)
    PROVE  /\ \A e \in C : e.fn \notin Results =>
                /\ OneResult(q) => OneResult(Append(q, e))
                /\ NoResult(q) => NoResult(Append(q, e))
           /\ \A e \in C : NoResult(q) => OneResult(Append(q, e))
           /\ q # <<>> => /\ OneResult(q) => OneResult(Tail(q))
                          /\ NoResult(q) => NoResult(Tail(q))
                          /\ OneResult(q) /\ Head(q).fn \in Results => NoResult(Tail(q))
           /\ NoResult(q) => OneResult(q)
  <1>1. ASSUME NEW e \in C
        PROVE  /\ e.fn \notin Results =>
                    /\ OneResult(q) => OneResult(Append(q, e))
                    /\ NoResult(q) => NoResult(Append(q, e))
               /\ NoResult(q) => OneResult(Append(q, e))
    <2> DEFINE r == Append(q, e)
    <2>1. /\ DOMAIN q = 1..Len(q) /\ DOMAIN r = 1..(Len(q) + 1) /\ Len(q) \in Nat
          /\ r[Len(q) + 1] = e /\ \A i \in 1..Len(q) : r[i] = q[i]
      BY AppendElements
    <2> HIDE DEF r
    <2>2. \A i \in 1..(Len(q) + 1) : i \in 1..Len(q) \/ i = Len(q) + 1
      BY <2>1
    <2>3. /\ e.fn \notin Results =>
                    /\ OneResult(q) => OneResult(r)
                    /\ NoResult(q) => NoResult(r)
          /\ NoResult(q) => OneResult(r)
      BY <2>1, <2>2 DEF OneResult, NoResult
    <2> QED BY <2>3 DEF r
  <1>2. ASSUME q # <<>>
        PROVE  /\ OneResult(q) => OneResult(Tail(q))
               /\ NoResult(q) => NoResult(Tail(q))
               /\ OneResult(q) /\ Head(q).fn \in Results => NoResult(Tail(q))
    <2> DEFINE t == Tail(q)
               n == Len(q)
    <2>1. /\ DOMAIN q = 1..n /\ DOMAIN t = 1..(n - 1) /\ n \in Nat \ {0} /\ Head(q) = q[1]
          /\ \A i \in 1..(n - 1) : t[i] = q[i + 1]
      BY <1>2, TailElements
    <2> HIDE DEF t, n
    <2>2. 1 \in 1..n /\ \A i \in 1..(n - 1) : i + 1 \in 1..n /\ i + 1 # 1
      BY <2>1
    <2>3. \A i, j \in 1..(n - 1) : i + 1 = j + 1 => i = j
      BY <2>1
    <2>4. OneResult(q) => OneResult(t)
      <3> SUFFICES ASSUME OneResult(q), NEW i \in DOMAIN t, NEW j \in DOMAIN t,
                          t[i].fn \in Results, t[j].fn \in Results
                   PROVE  i = j
        BY DEF OneResult
      <3>1. i \in 1..(n - 1) /\ j \in 1..(n - 1) /\ q[i + 1] = t[i] /\ q[j + 1] = t[j]
        BY <2>1
      <3>2. i + 1 = j + 1
        BY <2>1, <2>2, <3>1 DEF OneResult
      <3> QED BY <2>3, <3>1, <3>2
    <2>5. NoResult(q) => NoResult(t)
      BY <2>1, <2>2 DEF NoResult
    <2>6. OneResult(q) /\ Head(q).fn \in Results => NoResult(t)
      BY <2>1, <2>2 DEF OneResult, NoResult
    <2> QED BY <2>4, <2>5, <2>6 DEF t
  <1> QED BY <1>1, <1>2 DEF NoResult, OneResult

\* At most one result is queued.
LEMMA FlightStep ==
    ASSUME TypeOK, DqInv, FlightInv, [Next]_vars
    PROVE  FlightInv'
  <1> DEFINE C == Calls(IoHandlers)
  <1>d. ioq \in Seq(C) /\ (\A h : IoRuns(h) => Tail(ioq) \in Seq(C) /\ ioq # <<>> /\ Head(ioq).fn = h)
    BY NextHandler DEF TypeOK
  <1>e. \A f \in IoHandlers : Fn(f) \in C /\ Fn(f).fn = f
    BY CallElements, Elements
  <1>f. FlightInv' <=> OneResult(ioq') /\ (NoResult(ioq') \/ send_entries' # <<>>)
    BY DEF FlightInv, OneResult, NoResult
  <1>o. OneResult(ioq) /\ (NoResult(ioq) \/ send_entries # <<>>)
    BY DEF FlightInv
  <1>i. InFlight => NoResult(ioq) /\ send_entries # <<>>
    BY DEF InFlight, NoResult, Results
  <1>k. ~AsyncSend /\ ~HandleSend => send_entries' = send_entries
    BY EntriesStep
  <1> HIDE DEF C
  <1>a. \A q \in Seq(C), e \in C :
          /\ Append(q, e) \in Seq(C)
          /\ e.fn \notin Results => /\ OneResult(q) => OneResult(Append(q, e))
                                    /\ NoResult(q) => NoResult(Append(q, e))
          /\ NoResult(q) => OneResult(Append(q, e))
    BY ResultQueue
  <1>t. ioq # <<>> => /\ OneResult(Tail(ioq))
                      /\ NoResult(ioq) => NoResult(Tail(ioq))
                      /\ Head(ioq).fn \in Results => NoResult(Tail(ioq))
    BY <1>d, <1>o, ResultQueue
  <1>1. CASE NotPosting
    BY <1>1, <1>f, <1>o, NotPostingFacts
  <1>2. CASE SendCompletes
    <2>1. InFlight /\ \E f \in Results : ioq' = Append(ioq, Fn(f))
      BY <1>2, PostShape
    <2>2. Results \subseteq IoHandlers
      BY DEF Results, IoHandlers
    <2>3. send_entries' = send_entries
      BY <1>2 DEF SendCompletes, implRest
    <2> QED BY <1>a, <1>d, <1>e, <1>f, <1>i, <2>1, <2>2, <2>3
  <1>3. CASE Posting /\ ~SendCompletes
    <2>1. \/ ioq' = ioq
          \/ \E f \in IoHandlers \ Results, n \in Numbers : ioq' = Append(ioq, Carrying(f, n))
      <3>1. Send => Head(dq).n \in Numbers
        BY CarrierShape, ClientBounds DEF Numbers
      <3>2. 0 \in Numbers /\ \A f : Fn(f) = Carrying(f, 0)
        BY ClientBounds DEF Numbers, Fn, Carrying
      <3>3. {"async_connect", "async_send", "async_close", "check_server", "check_client_socket",
             "check_reset"} \subseteq IoHandlers \ Results
        BY DEF IoHandlers, Results
      <3> QED BY <1>3, <3>1, <3>2, <3>3, PostShape DEF Posting
    <2>2. \A f \in IoHandlers, n \in Numbers : Carrying(f, n) \in C /\ Carrying(f, n).fn = f
      BY CallElements, Elements DEF C
    <2>3. send_entries' = send_entries
      BY <1>3, Zenon DEF Posting, Start, Reconnect, Send, ConnectFailedSignal, ServerCheckTick, SocketCheckTick,
             CheckTick, CheckDelivered, CheckFails, implRest
    <2> QED BY <1>a, <1>d, <1>f, <1>o, <2>1, <2>2, <2>3
  <1>4. CASE Stop
    <2>1. "async_close" \in IoHandlers \ Results /\ "reset" \in IoHandlers \ Results
      BY DEF IoHandlers, Results
    <2>2. ioq \o <<Fn("async_close"), Fn("reset")>> = Append(Append(ioq, Fn("async_close")), Fn("reset"))
      <3>1. \A a, b \in C : ioq \o <<a, b>> = Append(Append(ioq, a), b)
        BY <1>d
      <3> QED BY <1>e, <2>1, <3>1
    <2>3. ioq' = ioq \/ ioq' = Append(Append(ioq, Fn("async_close")), Fn("reset"))
      BY <1>4, <2>2, PostShape
    <2>4. send_entries' = send_entries
      BY <1>4 DEF Stop, implRest
    <2>5. /\ OneResult(Append(ioq, Fn("async_close")))
          /\ NoResult(ioq) => NoResult(Append(ioq, Fn("async_close")))
          /\ Append(ioq, Fn("async_close")) \in Seq(C)
      BY <1>a, <1>d, <1>e, <1>o, <2>1
    <2>6. /\ OneResult(Append(Append(ioq, Fn("async_close")), Fn("reset")))
          /\ NoResult(ioq) => NoResult(Append(Append(ioq, Fn("async_close")), Fn("reset")))
      BY <1>a, <1>e, <2>1, <2>5
    <2> QED BY <1>f, <1>o, <2>3, <2>4, <2>6
  <1>5. CASE AsyncClose
    <2>1. IoRuns("async_close") /\ send_entries' = send_entries
      BY <1>5 DEF AsyncClose
    <2>2. ioq' = Tail(ioq) \/ (InFlight /\ ioq' = Append(Tail(ioq), Fn("send_error")))
      BY <1>5, IoShape
    <2>3. "send_error" \in IoHandlers
      BY DEF IoHandlers
    <2> QED BY <1>a, <1>d, <1>e, <1>f, <1>i, <1>o, <1>t, <2>1, <2>2, <2>3
  <1>6. CASE HandleSend \/ HandleSendError
    <2>1. \E h \in Results : IoRuns(h)
      BY <1>6, IoShape DEF Results
    <2>2. NoResult(Tail(ioq)) /\ Tail(ioq) \in Seq(C)
      BY <1>d, <1>t, <2>1
    <2>3. ioq' = Tail(ioq) \/ ioq' = Append(Tail(ioq), Fn("async_close"))
      BY <1>6, IoShape
    <2>4. "async_close" \in IoHandlers \ Results
      BY DEF IoHandlers, Results
    <2>5. NoResult(ioq')
      BY <1>a, <1>e, <2>2, <2>3, <2>4
    <2>6. OneResult(ioq')
      BY <2>5 DEF NoResult, OneResult
    <2> QED BY <1>f, <2>5, <2>6
  <1>7. CASE AsyncSend
    <2>1. IoRuns("async_send") /\ ioq' = Tail(ioq)
      BY <1>7, IoShape
    <2>2. send_entries' = Append(send_entries, Head(ioq).n)
      BY <1>7 DEF AsyncSend, PushBack
    <2>3. send_entries' # <<>>
      BY <2>2 DEF TypeOK
    <2> QED BY <1>d, <1>f, <1>t, <2>1, <2>3
  <1>8. CASE /\ ~AsyncSend /\ ~HandleSend
             /\ \/ AsyncConnectAgain \/ AsyncConnectFails \/ AsyncConnect \/ ConnectFails \/ Connected
                \/ CheckServer \/ CheckClientSocket \/ CheckReset \/ ResetWorkGuard
    <2>1. \E h : IoRuns(h)
      BY <1>8, IoShape
    <2>2. \/ ioq' = Tail(ioq)
          \/ \E f \in {"connect_ok", "connect_error", "async_send"} : ioq' = Append(Tail(ioq), Fn(f))
      BY <1>8, IoShape
    <2>3. {"connect_ok", "connect_error", "async_send"} \subseteq IoHandlers \ Results
      BY DEF IoHandlers, Results
    <2>4. Tail(ioq) \in Seq(C) /\ OneResult(Tail(ioq)) /\ (NoResult(ioq) => NoResult(Tail(ioq)))
      BY <1>d, <1>t, <2>1
    <2>5. OneResult(ioq') /\ (NoResult(ioq) => NoResult(ioq'))
      BY <1>a, <1>e, <2>2, <2>3, <2>4
    <2> QED BY <1>8, <1>f, <1>k, <1>o, <2>5
  <1> QED BY <1>1, <1>2, <1>3, <1>4, <1>5, <1>6, <1>7, <1>8, PostCases, Zenon DEF IoThread

-------------------------------------------------------------------------------
(* The end of client_impl *)

\* Closes and connects in a queue that is taken from or added to.
LEMMA CloseQueue ==
    ASSUME NEW C, NEW q \in Seq(C)
    PROVE  /\ \A e \in C : e.fn # "async_connect" =>
                /\ CloseComes(q) => CloseComes(Append(q, e))
                /\ NoConnect(q) => NoConnect(Append(q, e))
           /\ \A e \in C : e.fn = "async_close" => CloseComes(Append(q, e))
           /\ q # <<>> =>
                /\ CloseComes(q) => CloseComes(Tail(q)) \/ (Head(q).fn = "async_close" /\ NoConnect(Tail(q)))
                /\ NoConnect(q) => Head(q).fn # "async_connect" /\ NoConnect(Tail(q))
           /\ ~CloseComes(<<>>)
  <1>1. ASSUME NEW e \in C
        PROVE  /\ e.fn # "async_connect" =>
                    /\ CloseComes(q) => CloseComes(Append(q, e))
                    /\ NoConnect(q) => NoConnect(Append(q, e))
               /\ e.fn = "async_close" => CloseComes(Append(q, e))
    <2> DEFINE r == Append(q, e)
               n == Len(q)
    <2>1. /\ DOMAIN q = 1..n /\ DOMAIN r = 1..(n + 1) /\ n \in Nat
          /\ r[n + 1] = e /\ \A i \in 1..n : r[i] = q[i]
      BY AppendElements
    <2> HIDE DEF r, n
    <2>2. \A i \in 1..(n + 1) : i \in 1..n \/ i = n + 1
      BY <2>1
    <2>3. n + 1 \in 1..(n + 1) /\ \A j \in 1..(n + 1) : ~(j > n + 1)
      BY <2>1
    <2>4. e.fn = "async_close" => CloseComes(r)
      BY <2>1, <2>3 DEF CloseComes
    <2>5. e.fn # "async_connect" /\ NoConnect(q) => NoConnect(r)
      BY <2>1, <2>2 DEF NoConnect
    <2>6. ASSUME e.fn # "async_connect", CloseComes(q) PROVE CloseComes(r)
      <3>1. PICK i \in 1..n : /\ q[i].fn = "async_close"
                              /\ \A j \in 1..n : j > i => q[j].fn # "async_connect"
        BY <2>1, <2>6 DEF CloseComes
      <3>2. i \in 1..(n + 1) /\ r[i].fn = "async_close"
        BY <2>1, <3>1
      <3>3. \A j \in 1..(n + 1) : j > i => r[j].fn # "async_connect"
        BY <2>1, <2>2, <2>6, <3>1
      <3> QED BY <2>1, <3>2, <3>3 DEF CloseComes
    <2> QED BY <2>4, <2>5, <2>6 DEF r
  <1>2. ASSUME q # <<>>
        PROVE  /\ CloseComes(q) => CloseComes(Tail(q)) \/ (Head(q).fn = "async_close" /\ NoConnect(Tail(q)))
               /\ NoConnect(q) => Head(q).fn # "async_connect" /\ NoConnect(Tail(q))
    <2> DEFINE t == Tail(q)
               n == Len(q)
    <2>1. /\ DOMAIN q = 1..n /\ DOMAIN t = 1..(n - 1) /\ n \in Nat \ {0} /\ Head(q) = q[1]
          /\ \A i \in 1..(n - 1) : t[i] = q[i + 1]
      BY <1>2, TailElements
    <2> HIDE DEF t, n
    <2>2. 1 \in 1..n /\ \A i \in 1..(n - 1) : i + 1 \in 1..n /\ i + 1 > 1
      BY <2>1
    <2>3. NoConnect(q) => Head(q).fn # "async_connect" /\ NoConnect(t)
      BY <2>1, <2>2 DEF NoConnect
    <2>4. ASSUME CloseComes(q) PROVE CloseComes(t) \/ (Head(q).fn = "async_close" /\ NoConnect(t))
      <3>1. PICK i \in 1..n : /\ q[i].fn = "async_close"
                              /\ \A j \in 1..n : j > i => q[j].fn # "async_connect"
        BY <2>1, <2>4 DEF CloseComes
      <3>2. CASE i = 1
        BY <2>1, <2>2, <3>1, <3>2 DEF NoConnect
      <3>3. CASE i # 1
        <4>1. i - 1 \in 1..(n - 1) /\ (i - 1) + 1 = i
          BY <2>1, <3>3
        <4>2. t[i - 1].fn = "async_close"
          BY <2>1, <3>1, <4>1
        <4>3. \A j \in 1..(n - 1) : j > i - 1 => j + 1 > i
          BY <4>1, <2>1
        <4>4. \A j \in 1..(n - 1) : j > i - 1 => t[j].fn # "async_connect"
          BY <2>1, <2>2, <3>1, <4>3
        <4> QED BY <2>1, <4>1, <4>2, <4>4 DEF CloseComes
      <3> QED BY <3>2, <3>3
    <2> QED BY <2>3, <2>4 DEF t
  <1>3. ~CloseComes(<<>>)
    BY DEF CloseComes
  <1> QED BY <1>1, <1>2, <1>3

\* ~client_impl closes the socket before its io thread ends.
LEMMA JoinStep ==
    ASSUME TypeOK, DqInv, JoinInv, GoneInv, [Next]_vars
    PROVE  JoinInv'
  <1> DEFINE C == Calls(IoHandlers)
             Good(q) == CloseComes(q) \/ (NoConnect(q) /\ ~socket')
  <1>d. ioq \in Seq(C) /\ (\A h : IoRuns(h) => Tail(ioq) \in Seq(C) /\ ioq # <<>> /\ Head(ioq).fn = h)
    BY NextHandler DEF TypeOK
  <1>e. \A f \in IoHandlers : Fn(f) \in C /\ Fn(f).fn = f
    BY CallElements, Elements
  <1>j. JoinInv' <=> (joining' => client_impl' /\ Good(ioq'))
    BY DEF JoinInv, CloseComes, NoConnect
  <1> HIDE DEF C
  <1>a. \A q \in Seq(C), e \in C :
          /\ Append(q, e) \in Seq(C)
          /\ e.fn # "async_connect" => /\ CloseComes(q) => CloseComes(Append(q, e))
                                       /\ NoConnect(q) => NoConnect(Append(q, e))
          /\ e.fn = "async_close" => CloseComes(Append(q, e))
    BY CloseQueue
  <1>t. ioq # <<>> =>
          /\ CloseComes(ioq) => CloseComes(Tail(ioq)) \/ (Head(ioq).fn = "async_close" /\ NoConnect(Tail(ioq)))
          /\ NoConnect(ioq) => Head(ioq).fn # "async_connect" /\ NoConnect(Tail(ioq))
    BY <1>d, CloseQueue
  <1>1. CASE NotPosting
    <2>1. CASE Joined
      BY <2>1, <1>j DEF Joined
    <2>2. CASE ~Joined
      BY <1>1, <1>j, <2>2, NotPostingFacts DEF JoinInv
    <2> QED BY <2>1, <2>2
  <1>2. CASE SendCompletes
    <2>1. InFlight /\ \E f \in Results : ioq' = Append(ioq, Fn(f))
      BY <1>2, PostShape
    <2>2. \A f \in Results : Fn(f) \in C /\ Fn(f).fn # "async_connect"
      BY <1>e DEF Results, IoHandlers
    <2>3. UNCHANGED <<joining, client_impl>> /\ socket
      BY <1>2 DEF SendCompletes, implRest, modeVars, InFlight, Ready
    <2> QED BY <1>a, <1>d, <1>j, <2>1, <2>2, <2>3 DEF JoinInv
  <1>3. CASE Posting /\ ~SendCompletes
    <2>1. ~joining /\ joining' = joining
      BY <1>3, Zenon DEF Posting, Start, Reconnect, Send, ConnectFailedSignal, ServerCheckTick, SocketCheckTick,
             CheckTick, CheckDelivered, CheckFails, Runs, Idle, modeVars
    <2> QED BY <1>j, <2>1
  <1>4. CASE Stop
    <2>1. CASE ~client_impl
      BY <1>4, <1>j, <2>1 DEF Stop
    <2>2. CASE client_impl
      <3>1. "async_close" \in IoHandlers /\ "reset" \in IoHandlers
        BY DEF IoHandlers
      <3>2. \A a, b \in C : ioq \o <<a, b>> = Append(Append(ioq, a), b)
        BY <1>d
      <3>3. ioq' = Append(Append(ioq, Fn("async_close")), Fn("reset"))
        BY <1>4, <1>e, <2>2, <3>1, <3>2, PostShape
      <3>4. CloseComes(Append(ioq, Fn("async_close"))) /\ Append(ioq, Fn("async_close")) \in Seq(C)
        BY <1>a, <1>d, <1>e, <3>1
      <3>5. CloseComes(ioq')
        BY <1>a, <1>e, <3>1, <3>3, <3>4
      <3>6. client_impl'
        BY <1>4, <2>2 DEF Stop, implRest
      <3> QED BY <1>j, <3>5, <3>6
    <2> QED BY <2>1, <2>2
  <1>5. CASE AsyncClose
    <2>1. IoRuns("async_close") /\ ~socket' /\ UNCHANGED <<client_impl, joining>>
      BY <1>5 DEF AsyncClose, modeVars
    <2>2. ioq' = Tail(ioq) \/ ioq' = Append(Tail(ioq), Fn("send_error"))
      BY <1>5, IoShape
    <2>3. "send_error" \in IoHandlers
      BY DEF IoHandlers
    <2>4. joining => client_impl /\ (CloseComes(Tail(ioq)) \/ NoConnect(Tail(ioq)))
      BY <1>d, <1>t, <2>1 DEF JoinInv
    <2> QED BY <1>a, <1>d, <1>e, <1>j, <2>1, <2>2, <2>3, <2>4
  <1>6. CASE AsyncConnectFails \/ AsyncConnect
    <2>1. IoRuns("async_connect") /\ UNCHANGED <<client_impl, joining>>
      BY <1>6 DEF AsyncConnectFails, AsyncConnect, modeVars
    <2>2. ioq' = Tail(ioq) \/ \E f \in {"connect_ok", "connect_error"} : ioq' = Append(Tail(ioq), Fn(f))
      BY <1>6, IoShape
    <2>3. {"connect_ok", "connect_error"} \subseteq IoHandlers
      BY DEF IoHandlers
    <2>4. joining => client_impl /\ CloseComes(Tail(ioq))
      BY <1>d, <1>t, <2>1 DEF JoinInv
    <2> QED BY <1>a, <1>d, <1>e, <1>j, <2>1, <2>2, <2>3, <2>4
  <1>7. CASE \/ AsyncConnectAgain \/ ConnectFails \/ Connected \/ AsyncSend \/ HandleSend \/ HandleSendError
             \/ CheckServer \/ CheckClientSocket \/ CheckReset \/ ResetWorkGuard
    <2>1. UNCHANGED <<client_impl, joining, socket>>
      BY <1>7, Zenon DEF AsyncConnectAgain, ConnectFails, Connected, AsyncSend, HandleSend, HandleSendError,
             CheckServer, CheckClientSocket, CheckReset, ResetWorkGuard, implRest, socketVars, modeVars
    <2>2. \E h \in IoHandlers \ {"async_close"} : IoRuns(h)
      BY <1>7, IoShape DEF IoHandlers
    <2>3. ioq' = Tail(ioq) \/ \E f \in {"async_close", "async_send"} : ioq' = Append(Tail(ioq), Fn(f))
      BY <1>7, IoShape
    <2>4. {"async_close", "async_send"} \subseteq IoHandlers
      BY DEF IoHandlers
    <2>5. joining => client_impl /\ (CloseComes(Tail(ioq)) \/ (NoConnect(Tail(ioq)) /\ ~socket))
      BY <1>d, <1>t, <2>2 DEF JoinInv
    <2>6. Tail(ioq) \in Seq(C)
      BY <1>d, <2>2
    <2> QED BY <1>a, <1>e, <1>j, <2>1, <2>3, <2>4, <2>5, <2>6
  <1> QED BY <1>1, <1>2, <1>3, <1>4, <1>5, <1>6, <1>7, PostCases, Zenon DEF IoThread

\* A queue of functions of the client holds none of client_impl.
LEMMA ClientQueue ==
    ASSUME NEW q \in Seq(Calls(ClientFunctions))
    PROVE  /\ WithoutClientFunctions(q) = <<>>
           /\ q \in Seq(Calls(ImplFunctions)) => q = <<>>
           /\ q # <<>> => Head(q).fn \notin ImplFunctions /\ Tail(q) \in Seq(Calls(ClientFunctions))
  <1>1. Calls(ClientFunctions) \intersect Calls(ImplFunctions) = {}
    BY SomeNames, CallElements
  <1>2. WithoutClientFunctions(q) = <<>>
    BY <1>1, KeptNoneOrAll DEF WithoutClientFunctions
  <1>3. q # <<>> => Head(q) \in Calls(ClientFunctions) /\ Tail(q) \in Seq(Calls(ClientFunctions))
    OBVIOUS
  <1>4. q # <<>> => Head(q).fn \notin ImplFunctions
    BY <1>3, SomeNames, CallElements
  <1>5. q \in Seq(Calls(ImplFunctions)) /\ q # <<>> => Head(q) \in Calls(ImplFunctions)
    OBVIOUS
  <1> QED BY <1>1, <1>2, <1>3, <1>4, <1>5

\* Nothing is left of a client_impl that is gone, and nothing of it comes back.
LEMMA GoneStep ==
    ASSUME TypeOK, DqInv, JoinInv, GoneInv, [Next]_vars
    PROVE  GoneInv'
  <1> DEFINE F == Calls(ClientFunctions)
  <1>e. \A f \in ClientFunctions : Fn(f) \in F
    BY CallElements
  <1>c. \A f \in ClientFunctions, n \in 1..MaxSends : Carrying(f, n) \in F
    BY CallElements, ClientBounds DEF Numbers
  <1>n. {"connect", "stop", "timer_start", "timer_stop", "reconnect", "send", "processed"} \subseteq ClientFunctions
    BY DEF ClientFunctions
  <1>q. ~client_impl => /\ dq \in Seq(F)
                        /\ dq # <<>> => Head(dq).fn \notin ImplFunctions /\ Tail(dq) \in Seq(F)
    BY ClientQueue DEF GoneInv
  <1>r. ~client_impl => \A f \in ImplFunctions : ~Runs(f)
    BY <1>q DEF Runs
  <1>i. {"impl_connected", "impl_connect_failed", "impl_closed", "impl_processed"} \subseteq ImplFunctions
    BY DEF ImplFunctions
  <1> HIDE DEF F
  <1>a. \A s \in Seq(F), e \in F : Append(s, e) \in Seq(F)
    OBVIOUS
  <1>s. ASSUME ~client_impl, UNCHANGED <<ioq, socket, checking, check_client>>, dq' \in Seq(F) PROVE GoneInv'
    BY <1>s DEF GoneInv, F
  <1>p. ASSUME client_impl' PROVE GoneInv'
    BY <1>p DEF GoneInv
  <1>1. CASE Joined
    <2>a. ~CloseComes(<<>>)
      BY DEF CloseComes
    <2>1. ioq = <<>> /\ ~socket
      BY <1>1, <2>a DEF Joined, JoinInv
    <2>2. dq' \in Seq(Calls(ClientFunctions))
      BY <1>1, ErasedTypes DEF Joined, DqInv
    <2> QED BY <1>1, <2>1, <2>2 DEF Joined, GoneInv, socketVars
  <1>2. CASE ~Joined /\ client_impl
    <2>1. client_impl' = client_impl
      BY <1>2, Zenon DEF Next, Dispatcher, Clock, IoThread, User, Environment, Start, Stop, Send,
               ConnectedSignal, ConnectFailedSignal, ClosedSignal, Report, TimerStart, TimerStop, Reconnect, Tick,
               DelayPasses, ServerCheckTick, SocketCheckTick, CheckTick, AsyncClose, AsyncConnectAgain,
               AsyncConnectFails, AsyncConnect, ConnectFails, Connected, AsyncSend, HandleSend,
               HandleSendError, CheckServer, CheckClientSocket, CheckReset, ResetWorkGuard, Request,
               RequestSend, Destroy, EnqueueStop, SendCompletes, CheckDelivered, CheckFails, ServerDown,
               ServerUp, FileLost, vars,
               implRest
    <2> QED BY <1>2, <1>p, <2>1
  <1>3. CASE ~Joined /\ ~client_impl
    <2>g. ioq = <<>> /\ ~socket /\ ~checking /\ check_client = "none"
      BY <1>3 DEF GoneInv
    <2>1. CASE Quietly
      <3>1. PICK f \in QuietNames : /\ Runs(f)
                                    /\ \/ dq' = Tail(dq)
                                       \/ \E g \in {"timer_stop", "reconnect"} : dq' = Append(Tail(dq), Fn(g))
        BY <2>1, QuietShape DEF Quietly
      <3>2. dq' \in Seq(F)
        BY <1>3, <1>a, <1>e, <1>n, <1>q, <3>1 DEF Runs
      <3>3. ~ConnectFailedSignal
        BY <1>3, <1>i, <1>r DEF ConnectFailedSignal
      <3>4. ioq' = ioq
        BY <1>3, <2>1, <3>3, PostShape DEF Quietly, TimerStart, TimerStop
      <3>5. UNCHANGED <<socket, checking, check_client>>
        BY <2>1, Zenon DEF Quietly, Start, Stop, ConnectFailedSignal, TimerStart, TimerStop, Reconnect, implRest,
               socketVars, checkVars
      <3> QED BY <1>3, <1>s, <3>2, <3>4, <3>5
    <2>2. ~ConnectedSignal /\ ~ClosedSignal
      BY <1>3, <1>i, <1>r, SignalShape
    <2>3. CASE Send \/ Report
      <3>1. dq' \in Seq(F)
        <4>1. \E f : Runs(f)
          BY <2>3, CarrierShape
        <4>2. Tail(dq) \in Seq(F)
          BY <1>3, <1>q, <4>1 DEF Runs
        <4>3. Send => dq' = Tail(dq) \/ \E n \in 1..MaxSends : dq' = Append(Tail(dq), Carrying("processed", n))
          BY CarrierShape
        <4>4. Report => dq' = Tail(dq)
          BY CarrierShape
        <4> QED BY <1>a, <1>c, <1>n, <2>3, <4>2, <4>3, <4>4
      <3>2. ioq' = ioq
        BY <1>3, <2>3, PostShape DEF Report
      <3>3. UNCHANGED <<socket, checking, check_client>>
        BY <2>3, Zenon DEF Send, Report, implRest, socketVars, checkVars
      <3> QED BY <1>3, <1>s, <3>1, <3>2, <3>3
    <2>4. CASE Tick \/ DelayPasses \/ Request \/ RequestSend \/ Destroy \/ EnqueueStop
      <3>1. dq' \in Seq(F)
        <4>1. \A x \in F : <<x>> \in Seq(F)
          OBVIOUS
        <4>2. CASE Tick \/ DelayPasses
          <5>1. dq' = <<Fn("reconnect")>> \/ dq' = <<Fn("timer_start")>>
            BY <4>2 DEF Tick, DelayPasses
          <5> QED BY <1>e, <1>n, <4>1, <5>1
        <4>3. CASE Request
          <5>1. \E f \in {"connect", "stop"} : dq' = Append(dq, Fn(f))
            BY <4>3 DEF Request
          <5> QED BY <1>3, <1>a, <1>e, <1>n, <1>q, <5>1
        <4>4. CASE RequestSend
          <5>1. accepted' \in 1..MaxSends /\ dq' = Append(dq, Carrying("send", accepted'))
            BY <4>4, ClientBounds DEF RequestSend, TypeOK
          <5> QED BY <1>3, <1>a, <1>c, <1>n, <1>q, <5>1
        <4>5. CASE Destroy
          <5>1. WithoutClientFunctions(dq) = <<>>
            BY <1>3, <1>q, ClientQueue DEF F
          <5>2. <<>> \in Seq(F)
            OBVIOUS
          <5> QED BY <4>5, <5>1, <5>2 DEF Destroy
        <4>6. CASE EnqueueStop
          <5>1. \A x \in F, s \in Seq(F) : <<x>> \o s \in Seq(F)
            OBVIOUS
          <5> QED BY <1>3, <1>e, <1>n, <1>q, <4>6, <5>1 DEF EnqueueStop
        <4> QED BY <2>4, <4>2, <4>3, <4>4, <4>5, <4>6
      <3>2. UNCHANGED <<ioq, socket, checking, check_client>>
        BY <1>3, <2>4, NotPostingFacts DEF NotPosting
      <3> QED BY <1>3, <1>s, <3>1, <3>2
    <2>5. ~IoThread
      <3>1. \A h : ~IoRuns(h)
        BY <2>g DEF IoRuns
      <3> QED BY <3>1, IoShape DEF IoThread
    <2>6. ~ServerCheckTick /\ ~SocketCheckTick /\ ~SendCompletes /\ ~CheckDelivered /\ ~CheckFails
      BY <2>g DEF ServerCheckTick, SocketCheckTick, CheckTick, SendCompletes, InFlight, Ready, CheckDelivered,
                  CheckFails
    <2>7. CASE ServerDown \/ ServerUp \/ FileLost \/ UNCHANGED vars
      <3>1. UNCHANGED <<ioq, socket, checking, check_client>>
        BY <1>3, <2>7, NotPostingFacts DEF NotPosting
      <3>2. dq' = dq
        BY <2>7, ElsewhereFacts DEF Elsewhere
      <3> QED BY <1>3, <1>q, <1>s, <3>1, <3>2
    <2> QED BY <1>3, <2>1, <2>2, <2>3, <2>4, <2>5, <2>6, <2>7, Zenon
         DEF Next, Dispatcher, Clock, User, Environment, Quietly
  <1> QED BY <1>1, <1>2, <1>3

-------------------------------------------------------------------------------
(* The destroyed client *)

\* What the io thread enqueues.
LEMMA SignalQueued ==
    ASSUME TypeOK, DqInv, FlightInv, GoneInv,
           AsyncClose \/ AsyncConnectFails \/ ConnectFails \/ Connected \/ HandleSend
    PROVE  /\ client_impl
           /\ UNCHANGED <<attached, detaching, joining, delayed, ticking, client_impl, reported, accepted,
                          processed>>
           /\ \/ dq' = dq
              \/ \E e \in Everything : e.fn \in ImplFunctions /\ dq' = Append(dq, e)
  <1>1. client_impl
    <2>1. \E h : IoRuns(h)
      BY IoShape
    <2> QED BY <2>1 DEF IoRuns, GoneInv
  <1>2. UNCHANGED <<attached, detaching, joining, delayed, ticking, client_impl, reported, accepted, processed>>
    BY Zenon DEF AsyncClose, AsyncConnectFails, ConnectFails, Connected, HandleSend, modeVars, timerVars, implRest,
           worldVars, historyVars
  <1>3. /\ \A f \in {"impl_connected", "impl_connect_failed", "impl_closed"} :
             Fn(f) \in Everything /\ Fn(f).fn \in ImplFunctions
        /\ \A n \in 1..MaxSends : /\ Carrying("impl_processed", n) \in Everything
                                  /\ Carrying("impl_processed", n).fn \in ImplFunctions
    BY Elements, SomeNames DEF ImplFunctions, NumberedNames
  <1>4. \/ dq' = dq
        \/ \E f \in {"impl_connected", "impl_connect_failed", "impl_closed"} : dq' = Append(dq, Fn(f))
        \/ \E n \in 1..MaxSends : dq' = Append(dq, Carrying("impl_processed", n))
    <2>1. CASE AsyncClose
      BY <2>1 DEF AsyncClose
    <2>2. CASE AsyncConnectFails \/ ConnectFails \/ Connected
      BY <2>2 DEF AsyncConnectFails, ConnectFails, Connected
    <2>3. CASE HandleSend
      BY <2>3, SentShape
    <2> QED BY <2>1, <2>2, <2>3
  <1> QED BY <1>1, <1>2, <1>3, <1>4

\* While the destructor goes on only functions of client_impl are run, and
\* nothing of the client is enqueued.
LEMMA DetachingStep ==
    ASSUME TypeOK, DqInv, FlightInv, GoneInv, ~attached, detaching, delayed = 0, ~ticking,
           dq \in Seq(Calls(ImplFunctions)), ~Destroy, ~EnqueueStop, [Next]_vars
    PROVE  dq' \in Seq(Calls(ImplFunctions)) /\ delayed' = 0 /\ ~ticking'
  <1> DEFINE I == Calls(ImplFunctions)
  <1>r. \A f : Runs(f) => f \in ImplFunctions /\ Tail(dq) \in Seq(I)
    <2>1. dq # <<>> => Head(dq) \in I /\ Tail(dq) \in Seq(I)
      OBVIOUS
    <2> QED BY <2>1, CallElements DEF Runs
  <1>n. {"connect", "stop", "timer_start", "timer_stop", "reconnect", "send"} \intersect ImplFunctions = {}
    BY DEF ImplFunctions
  <1>1. ~Start /\ ~Stop /\ ~TimerStart /\ ~TimerStop /\ ~Reconnect /\ ~Send
    BY <1>r, <1>n DEF Start, Stop, TimerStart, TimerStop, Reconnect, Send
  <1>2. CASE ConnectFailedSignal
    <2>1. dq' = Tail(dq) /\ \E f : Runs(f)
      BY <1>2, QuietShape
    <2>2. UNCHANGED <<delayed, ticking>>
      BY <1>2 DEF ConnectFailedSignal, StartReconnectTimer
    <2> QED BY <1>r, <2>1, <2>2
  <1>3. CASE ConnectedSignal \/ ClosedSignal
    <2>1. dq' = Tail(dq) /\ \E f : Runs(f)
      BY <1>3, SignalShape
    <2>2. UNCHANGED <<delayed, ticking>>
      BY <1>3 DEF ConnectedSignal, ClosedSignal, StartReconnectTimer, timerVars
    <2> QED BY <1>r, <2>1, <2>2
  <1>4. CASE Report
    <2>1. dq' = Tail(dq) /\ \E f : Runs(f)
      BY <1>4, CarrierShape
    <2>2. UNCHANGED <<delayed, ticking>>
      BY <1>4 DEF Report, timerVars
    <2> QED BY <1>r, <2>1, <2>2
  <1>5. CASE Joined
    <2>1. I \intersect Calls(ClientFunctions) = {}
      BY SomeNames, CallElements
    <2>2. WithoutImplFunctions(dq) = <<>>
      <3> HIDE DEF I
      <3>1. dq \in Seq(I)
        BY DEF I
      <3> QED BY <2>1, <3>1, KeptNoneOrAll DEF WithoutImplFunctions
    <2>3. <<>> \in Seq(I)
      OBVIOUS
    <2> QED BY <1>5, <2>2, <2>3 DEF Joined, timerVars
  <1>6. ~Tick /\ ~DelayPasses /\ ~Request /\ ~RequestSend
    BY DEF Tick, DelayPasses, Request, RequestSend
  <1>7. CASE AsyncClose \/ AsyncConnectFails \/ ConnectFails \/ Connected \/ HandleSend
    <2>1. UNCHANGED <<delayed, ticking>>
      BY <1>7, SignalQueued
    <2>2. dq' = dq \/ \E e \in I : dq' = Append(dq, e)
      BY <1>7, SignalQueued, Elements
    <2>3. \A e \in I : Append(dq, e) \in Seq(I)
      OBVIOUS
    <2> QED BY <2>1, <2>2, <2>3
  <1>8. CASE Elsewhere
    BY <1>8, ElsewhereFacts
  <1> QED BY <1>1, <1>2, <1>3, <1>4, <1>5, <1>6, <1>7, <1>8, NextCases DEF Quietly

\* The others neither begin nor go on with the destructor.
LEMMA NotDestroying ==
    ASSUME [Next]_vars, ~Destroy, ~EnqueueStop
    PROVE  UNCHANGED <<attached, detaching>>
  BY Zenon DEF Next, Dispatcher, Clock, IoThread, User, Environment, Start, Stop, Joined, Send,
         ConnectedSignal, ConnectFailedSignal, ClosedSignal, Report, TimerStart, TimerStop, Reconnect, Tick,
         DelayPasses, ServerCheckTick, SocketCheckTick, CheckTick, AsyncClose, AsyncConnectAgain,
         AsyncConnectFails, AsyncConnect, ConnectFails, Connected, AsyncSend, HandleSend,
         HandleSendError, CheckServer, CheckClientSocket, CheckReset, ResetWorkGuard, Request,
         RequestSend, SendCompletes, CheckDelivered, CheckFails, ServerDown, ServerUp, FileLost, vars,
         modeVars

\* After the destructor only its stop() and the end of client_impl happen.
LEMMA DestroyStep ==
    ASSUME TypeOK, DqInv, FlightInv, JoinInv, GoneInv, DestroyInv, [Next]_vars
    PROVE  DestroyInv'
  <1> DEFINE I == Calls(ImplFunctions)
             Detaching == detaching /\ dq \in Seq(I)
             Stopping == ~detaching /\ ~joining /\ dq # <<>> /\ Head(dq) = Fn("stop") /\ Tail(dq) \in Seq(I)
             Waiting == ~detaching /\ joining /\ dq \in Seq(I)
             Over == ~detaching /\ ~joining /\ ~client_impl /\ dq = <<>>
  <1>d. ~attached => delayed = 0 /\ ~ticking /\ (Detaching \/ Stopping \/ Waiting \/ Over)
    BY DEF DestroyInv
  <1>1. CASE Destroy
    <2>1. dq' \in Seq(I)
      BY <1>1, ErasedTypes DEF Destroy, DqInv
    <2> QED BY <1>1, <2>1 DEF Destroy, DestroyInv
  <1>2. CASE EnqueueStop
    <2>1. ~attached /\ detaching /\ ~joining
      BY <1>2 DEF EnqueueStop, DestroyInv
    <2>2. dq \in Seq(I) /\ delayed = 0 /\ ~ticking
      BY <1>d, <2>1
    <2>3. \A x, r : r \in Seq(I) => <<x>> \o r # <<>> /\ Head(<<x>> \o r) = x /\ Tail(<<x>> \o r) = r
      <3> TAKE x, r
      <3> HAVE r \in Seq(I)
      <3> DEFINE S == I \union {x}
      <3>1. r \in Seq(S) /\ x \in S
        BY SeqMonotonic
      <3> HIDE DEF S, I
      <3> QED BY <3>1
    <2>4. dq' # <<>> /\ Head(dq') = Fn("stop") /\ Tail(dq') \in Seq(I)
      BY <1>2, <2>2, <2>3 DEF EnqueueStop
    <2> QED BY <1>2, <2>1, <2>2, <2>4 DEF EnqueueStop, DestroyInv, timerVars
  <1>3. CASE ~Destroy /\ ~EnqueueStop
    <2>a. UNCHANGED <<attached, detaching>>
      BY <1>3, NotDestroying
    <2>b. CASE attached
      BY <2>a, <2>b DEF DestroyInv
    <2> SUFFICES ASSUME ~attached PROVE DestroyInv'
      BY <2>b
    <2>g. DestroyInv' <=> (delayed' = 0 /\ ~ticking' /\ (Detaching' \/ Stopping' \/ Waiting' \/ Over'))
      BY <2>a DEF DestroyInv
    <2>c. CASE detaching
      BY <1>3, <1>d, <2>a, <2>c, <2>g, DetachingStep
    <2> SUFFICES ASSUME ~detaching PROVE DestroyInv'
      BY <2>c
    <2>d. delayed = 0 /\ ~ticking /\ (Stopping \/ Waiting \/ Over)
      BY <1>d
    <2>r. \A f : Runs(f) => f = "stop" /\ Stopping
      BY <2>d, Elements DEF Runs
    <2>1. CASE Stop
      <3>1. Stopping /\ dq' = Tail(dq) /\ joining' = client_impl
        BY <2>1, <2>r DEF Stop
      <3>2. UNCHANGED <<delayed, ticking, client_impl>>
        BY <2>1 DEF Stop, timerVars, implRest
      <3>3. CASE client_impl
        BY <2>a, <2>d, <2>g, <3>1, <3>2, <3>3
      <3>4. CASE ~client_impl
        <4>1. dq \in Seq(Calls(ClientFunctions))
          BY <3>4 DEF GoneInv
        <4>2. Tail(dq) \in Seq(Calls(ClientFunctions))
          BY <3>1, <4>1, ClientQueue
        <4>3. Tail(dq) = <<>>
          BY <3>1, <4>2, ClientQueue
        <4> QED BY <2>a, <2>d, <2>g, <3>1, <3>2, <3>4, <4>3
      <3> QED BY <3>3, <3>4 DEF TypeOK
    <2>2. ~Start /\ ~ConnectFailedSignal /\ ~TimerStart /\ ~TimerStop /\ ~Reconnect
      BY <2>r DEF Start, ConnectFailedSignal, TimerStart, TimerStop, Reconnect
    <2>3. ~ConnectedSignal /\ ~ClosedSignal /\ ~Send /\ ~Report
      BY <2>r, SignalShape, CarrierShape
    <2>4. CASE Joined
      <3>1. Waiting
        BY <2>4, <2>d DEF Joined
      <3>2. I \intersect Calls(ClientFunctions) = {}
        BY SomeNames, CallElements
      <3>3. WithoutImplFunctions(dq) = <<>>
        <4> HIDE DEF I
        <4> QED BY <3>1, <3>2, KeptNoneOrAll DEF WithoutImplFunctions
      <3> QED BY <2>4, <2>a, <2>d, <2>g, <3>3 DEF Joined, timerVars
    <2>5. ~Tick /\ ~DelayPasses /\ ~Request /\ ~RequestSend
      BY <2>d DEF Tick, DelayPasses, Request, RequestSend
    <2>6. CASE AsyncClose \/ AsyncConnectFails \/ ConnectFails \/ Connected \/ HandleSend
      <3>1. client_impl /\ UNCHANGED <<joining, delayed, ticking, client_impl>>
        BY <2>6, SignalQueued
      <3>2. dq' = dq \/ \E e \in I : dq' = Append(dq, e)
        BY <2>6, SignalQueued, Elements
      <3>3. CASE Stopping
        <4>1. dq \in Seq(Everything)
          BY DEF DqInv
        <4>2. \A e \in Everything : /\ Append(dq, e) # <<>> /\ Head(Append(dq, e)) = Head(dq)
                                    /\ Tail(Append(dq, e)) = Append(Tail(dq), e)
          BY <3>3, <4>1
        <4>3. \A s \in Seq(I), e \in I : Append(s, e) \in Seq(I)
          OBVIOUS
        <4>4. dq' = dq \/ \E e \in I \intersect Everything : dq' = Append(dq, e)
          BY <2>6, SignalQueued, Elements
        <4>5. dq' # <<>> /\ Head(dq') = Fn("stop") /\ Tail(dq') \in Seq(I)
          BY <3>3, <4>2, <4>3, <4>4
        <4> QED BY <2>a, <2>d, <2>g, <3>1, <3>3, <4>5
      <3>4. CASE Waiting
        <4>1. \A e \in I : Append(dq, e) \in Seq(I)
          BY <3>4
        <4>2. dq' \in Seq(I)
          BY <3>2, <3>4, <4>1
        <4> QED BY <2>a, <2>d, <2>g, <3>1, <3>4, <4>2
      <3> QED BY <2>d, <3>1, <3>3, <3>4
    <2>7. CASE Elsewhere
      BY <2>7, <2>a, <2>d, <2>g, ElsewhereFacts
    <2> QED BY <1>3, <2>1, <2>2, <2>3, <2>4, <2>5, <2>6, <2>7, NextCases DEF Quietly
  <1> QED BY <1>1, <1>2, <1>3

-------------------------------------------------------------------------------
(* closed follows connected *)

\* A queue in which functions that report nothing came or went says the same.
LEMMA SaysTheSame ==
    ASSUME NEW r \in Reports, NEW q \in Seq(Everything), NEW up \in BOOLEAN, NEW v \in BOOLEAN,
           Alternates(Happened(r, q), up), v => up
    PROVE  /\ Alternates(Happened(r, q), v)
           /\ \A f \in Everything : f \notin Reports \union Reported
                => Alternates(Happened(r, Append(q, f)), v)
           /\ q # <<>> /\ Head(q) \notin Reports \union Reported
                => /\ Alternates(Happened(r, Tail(q)), v)
                   /\ \A f \in Everything : f \notin Reports \union Reported
                        => Alternates(Happened(r, Append(Tail(q), f)), v)
  <1>1. Alternates(Happened(r, q), v)
    BY DEF Alternates
  <1>2. \A f \in Everything : f \notin Reports \union Reported
          => Alternates(Happened(r, Append(q, f)), v)
    BY <1>1, QuietFunction
  <1>3. ASSUME q # <<>>, Head(q) \notin Reports \union Reported
        PROVE  /\ Alternates(Happened(r, Tail(q)), v)
               /\ \A f \in Everything : f \notin Reports \union Reported
                    => Alternates(Happened(r, Append(Tail(q), f)), v)
    <2>1. Tail(q) \in Seq(Everything)
      BY <1>3
    <2>2. Alternates(Happened(r, Tail(q)), v)
      BY <1>1, <1>3, QuietFunction
    <2>3. \A f \in Everything : f \notin Reports \union Reported
            => Happened(r, Append(Tail(q), f)) = Happened(r, Tail(q))
      BY <2>1, QuietFunction
    <2> QED BY <2>2, <2>3
  <1> QED BY <1>1, <1>2, <1>3

\* Every step leaves the reports, past and to come, in their order.
LEMMA HappenedStep ==
    ASSUME TypeOK, DqInv, FlightInv, GoneInv, DestroyInv, HappenedInv, [Next]_vars
    PROVE  HappenedInv'
  <1> DEFINE up == client_impl /\ socket_ready
             w == client_impl' /\ socket_ready'
             r == Fn(reported)
             H(q, u) == Alternates(Happened(r, q), u)
             Quiet == Everything \ (Reports \union Reported)
  <1>0. CASE ~attached'
    BY <1>0 DEF HappenedInv
  <1>a. ASSUME attached' PROVE attached /\ ~Destroy /\ ~EnqueueStop
    <2>1. ~Destroy
      BY <1>a DEF Destroy
    <2>2. ~EnqueueStop
      BY <1>a DEF EnqueueStop, DestroyInv
    <2> QED BY <1>a, <2>1, <2>2, NotDestroying
  <1>b. SUFFICES ASSUME attached, attached' PROVE HappenedInv'
    BY <1>0, <1>a
  <1>t. /\ r \in Reports /\ dq \in Seq(Everything) /\ up \in BOOLEAN /\ w \in BOOLEAN
        /\ H(dq, up)
    <2>1. r \in Reports
      BY ReportNames DEF TypeOK
    <2>2. H(dq, up)
      BY <1>b DEF HappenedInv
    <2> QED BY <2>1, <2>2 DEF DqInv
  <1>p. ASSUME UNCHANGED reported, H(dq', w) PROVE HappenedInv'
    BY <1>p DEF HappenedInv
  <1>n. /\ \A f \in QuietNames : Fn(f) \in Quiet
        /\ \A f \in NumberedNames, n \in 1..MaxSends : Carrying(f, n) \in Quiet
        /\ \A e \in Everything : e.fn \in QuietNames \union NumberedNames => e \in Quiet
    BY QuietElements, Elements, ReportNames DEF QuietNames, NumberedNames
  <1>q. ASSUME w => up
        PROVE  /\ H(dq, w)
               /\ \A f \in Quiet : H(Append(dq, f), w)
               /\ dq # <<>> /\ Head(dq) \in Quiet => H(Tail(dq), w)
               /\ \A g \in Quiet : dq # <<>> /\ Head(dq) \in Quiet => H(Append(Tail(dq), g), w)
    <2>1. Alternates(Happened(r, dq), up)
      BY <1>t
    <2> HIDE DEF up, w, r
    <2> QED BY <1>t, <1>q, <2>1, SaysTheSame
  <1>h. \A f \in QuietNames \union NumberedNames : Runs(f) => dq # <<>> /\ Head(dq) \in Quiet
    BY <1>n, NextFunction
  <1> HIDE DEF up, w, H, Quiet, r
  <1>1. CASE Quietly
    <2>0. UNCHANGED <<client_impl, socket_ready, reported>>
      BY <1>1, Zenon DEF Quietly, Start, Stop, ConnectFailedSignal, TimerStart, TimerStop, Reconnect, implRest,
             socketVars, worldVars, historyVars
    <2>1. w = up /\ reported' = reported
      BY <2>0 DEF up, w
    <2>2. dq # <<>> /\ Head(dq) \in Quiet /\ (dq' = Tail(dq) \/ \E g \in Quiet : dq' = Append(Tail(dq), g))
      <3>1. Fn("timer_stop") \in Quiet /\ Fn("reconnect") \in Quiet
        BY <1>n DEF QuietNames
      <3> QED BY <1>1, <1>h, <3>1, QuietShape DEF Quietly
    <2> QED BY <1>p, <1>q, <2>1, <2>2
  <1>2. CASE ConnectedSignal
    <2>1. w = up /\ reported' = reported
      BY <1>2 DEF ConnectedSignal, implRest, socketVars, worldVars, historyVars, up, w
    <2>2. dq # <<>> /\ Head(dq) = Fn("impl_connected") /\ dq' = Append(Tail(dq), Fn("connected"))
      BY <1>2, <1>b, SignalShape, NextFunction DEF NumberedNames
    <2>3. Alternates(Happened(r, Append(Tail(dq), Fn("connected"))), up)
      BY <1>t, <2>2, ReportNames, SignalReported DEF H
    <2> QED BY <1>p, <2>1, <2>2, <2>3 DEF H
  <1>3. CASE ClosedSignal
    <2>1. w = up /\ reported' = reported
      BY <1>3 DEF ClosedSignal, implRest, socketVars, worldVars, historyVars, up, w
    <2> DEFINE q == Append(Tail(dq), Fn("closed"))
    <2>2. dq # <<>> /\ Head(dq) = Fn("impl_closed") /\ (dq' = q \/ dq' = Append(q, Fn("timer_stop")))
      BY <1>3, <1>b, SignalShape, NextFunction DEF NumberedNames
    <2>3. Alternates(Happened(r, q), up)
      <3>1. Fn("impl_closed") \notin Ups /\ Fn("closed") \notin Ups
        BY ReportNames
      <3> QED BY <1>t, <2>2, <3>1, ReportNames, SignalReported DEF H
    <2>4. q \in Seq(Everything)
      <3>1. Fn("closed") \in Everything
        BY ReportNames
      <3> QED BY <1>t, <2>2, <3>1
    <2>5. Fn("timer_stop") \in Everything /\ Fn("timer_stop") \notin Reports \union Reported
      BY <1>n DEF Quiet, QuietNames
    <2> HIDE DEF q
    <2>6. Alternates(Happened(r, Append(q, Fn("timer_stop"))), up)
      BY <1>t, <2>3, <2>4, <2>5, SaysTheSame
    <2> QED BY <1>p, <2>1, <2>2, <2>3, <2>6 DEF H
  <1>4. CASE Send
    <2>1. w = up /\ reported' = reported
      BY <1>4 DEF Send, implRest, socketVars, worldVars, historyVars, up, w
    <2>2. dq # <<>> /\ Head(dq) \in Quiet
      BY <1>4, <1>h, CarrierShape DEF NumberedNames
    <2>3. dq' = Tail(dq) \/ \E g \in Quiet : dq' = Append(Tail(dq), g)
      BY <1>4, <1>n, CarrierShape DEF NumberedNames
    <2> QED BY <1>p, <1>q, <2>1, <2>2, <2>3
  <1>5. CASE Report
    <2>1. w = up /\ dq' = Tail(dq)
      BY <1>5 DEF Report, implRest, socketVars, up, w
    <2>2. CASE \E f \in {"processed", "impl_processed"} : Runs(f) /\ reported' = reported
      <3>1. dq # <<>> /\ Head(dq) \in Quiet
        BY <1>h, <2>2 DEF NumberedNames
      <3> QED BY <1>p, <1>q, <2>1, <2>2, <3>1
    <2>3. CASE \E f \in {"connected", "closed"} : Runs(f) /\ reported' = f
      <3>1. dq # <<>> /\ Head(dq) = Fn(reported')
        BY <2>3, NextFunction DEF NumberedNames
      <3>2. Fn(reported') \in Reports
        BY <2>3, ReportNames
      <3>3. Alternates(Happened(Head(dq), Tail(dq)), up)
        BY <1>t, <3>1, <3>2, ReportMade DEF H
      <3>4. Alternates(Happened(Fn(reported'), dq'), w)
        BY <2>1, <3>1, <3>3
      <3>5. Fn(reported)' = Fn(reported')
        BY DEF Fn
      <3> QED BY <3>4, <3>5 DEF HappenedInv, w
    <2> QED BY <1>5, <2>2, <2>3, CarrierShape
  <1>6. CASE Joined
    <2>1. Alternates(Happened(r, WithoutImplFunctions(dq)), FALSE)
      BY <1>t, SignalsErased DEF H
    <2>2. w = FALSE /\ reported' = reported /\ dq' = WithoutImplFunctions(dq)
      BY <1>6 DEF Joined, w, worldVars, historyVars
    <2> QED BY <1>p, <2>1, <2>2 DEF H
  <1>7. CASE Tick \/ DelayPasses
    <2>1. dq = <<>> /\ w = up /\ reported' = reported
      BY <1>7 DEF Tick, DelayPasses, Idle, implRest, socketVars, worldVars, historyVars, up, w
    <2>2. \A f : Append(<<>>, f) = <<f>>
      OBVIOUS
    <2>3. dq' = Append(dq, Fn("reconnect")) \/ dq' = Append(dq, Fn("timer_start"))
      BY <1>7, <2>1, <2>2 DEF Tick, DelayPasses
    <2>4. Fn("reconnect") \in Quiet /\ Fn("timer_start") \in Quiet
      BY <1>n DEF QuietNames
    <2> QED BY <1>p, <1>q, <2>1, <2>3, <2>4
  <1>8. CASE AsyncClose
    <2>0. client_impl /\ client_impl' = client_impl /\ reported' = reported
      BY <1>8, SignalQueued
    <2>1. CASE ~Ready
      <3>1. w = up /\ dq' = dq
        BY <1>8, <2>0, <2>1 DEF AsyncClose, up, w
      <3> QED BY <1>p, <1>q, <2>0, <3>1
    <2>2. CASE Ready
      <3>1. up /\ w = FALSE /\ dq' = Append(dq, Fn("impl_closed"))
        BY <1>8, <2>0, <2>2 DEF AsyncClose, Ready, up, w
      <3>2. Alternates(Append(Happened(r, dq), Fn("impl_closed")), FALSE)
        <4>1. Fn("impl_closed") \in Everything /\ Fn("impl_closed") \in Downs
          BY ReportNames
        <4> QED BY <1>t, <3>1, <4>1, HappenedType, AlternatesAppend DEF H
      <3>3. Alternates(Happened(r, Append(dq, Fn("impl_closed"))), FALSE)
        BY <1>t, <3>2, ReportNames, SignalAdded
      <3> QED BY <1>p, <2>0, <3>1, <3>3 DEF H
    <2> QED BY <2>1, <2>2
  <1>9. CASE AsyncConnectFails \/ ConnectFails
    <2>0. /\ socket_ready' = FALSE \/ UNCHANGED <<client_impl, socket_ready>>
          /\ reported' = reported
      BY <1>9, Zenon DEF AsyncConnectFails, ConnectFails, implRest, socketVars, worldVars, historyVars
    <2>1. (w => up) /\ reported' = reported
      BY <2>0 DEF up, w
    <2>2. dq' = Append(dq, Fn("impl_connect_failed"))
      BY <1>9 DEF AsyncConnectFails, ConnectFails
    <2>3. Fn("impl_connect_failed") \in Quiet
      BY <1>n DEF QuietNames
    <2> QED BY <1>p, <1>q, <2>1, <2>2, <2>3
  <1>10. CASE Connected
    <2>0. client_impl /\ client_impl' = client_impl /\ reported' = reported
      BY <1>10, SignalQueued
    <2>1. w = TRUE /\ dq' = Append(dq, Fn("impl_connected"))
      BY <1>10, <2>0 DEF Connected, w
    <2>2. Alternates(Append(Happened(r, dq), Fn("impl_connected")), TRUE)
      <3>1. Fn("impl_connected") \in Everything /\ Fn("impl_connected") \in Ups
        BY ReportNames
      <3> QED BY <1>t, <3>1, HappenedType, AlternatesAppend DEF H
    <2>3. Alternates(Happened(r, Append(dq, Fn("impl_connected"))), TRUE)
      BY <1>t, <2>2, ReportNames, SignalAdded
    <2> QED BY <1>p, <2>0, <2>1, <2>3 DEF H
  <1>11. CASE HandleSend
    <2>0. UNCHANGED <<client_impl, socket_ready, reported>>
      BY <1>11 DEF HandleSend, socketVars, worldVars, historyVars
    <2>1. w = up /\ reported' = reported
      BY <2>0 DEF up, w
    <2>2. dq' = dq \/ \E g \in Quiet : dq' = Append(dq, g)
      BY <1>11, <1>n, SentShape DEF NumberedNames
    <2> QED BY <1>p, <1>q, <2>1, <2>2
  <1>12. CASE Request \/ RequestSend
    <2>0. UNCHANGED <<client_impl, socket_ready, reported>>
      BY <1>12, Zenon DEF Request, RequestSend, implRest, socketVars, historyVars
    <2>1. w = up /\ reported' = reported
      BY <2>0 DEF up, w
    <2>2. \E g \in Quiet : dq' = Append(dq, g)
      <3>1. Request => \E f \in QuietNames : dq' = Append(dq, Fn(f))
        BY DEF Request, QuietNames
      <3>2. RequestSend => \E n \in 1..MaxSends : dq' = Append(dq, Carrying("send", n))
        BY ClientBounds DEF RequestSend, TypeOK
      <3> QED BY <1>12, <1>n, <3>1, <3>2 DEF NumberedNames
    <2> QED BY <1>p, <1>q, <2>1, <2>2
  <1>13. ~Destroy /\ ~EnqueueStop
    BY <1>a, <1>b
  <1>14. CASE Elsewhere
    <2>1. client_impl' = client_impl /\ reported' = reported /\ dq' = dq
      BY <1>14, ElsewhereFacts
    <2>2. socket_ready' = socket_ready \/ ~socket_ready'
      BY <1>14, ElsewhereFacts
    <2>3. w => up
      BY <2>1, <2>2 DEF up, w
    <2> QED BY <1>p, <1>q, <2>1, <2>3
  <1> QED BY <1>1, <1>2, <1>3, <1>4, <1>5, <1>6, <1>7, <1>8, <1>9, <1>10, <1>11, <1>12, <1>13,
             <1>14, NextCases

-------------------------------------------------------------------------------
(* The way of a datagram *)

\* A number moves from the front of one part to the end of the part before it.
LEMMA MovesBack ==
    ASSUME NEW a \in Seq(Numbers), NEW b \in Seq(Numbers), NEW n \in Numbers
    PROVE  /\ Append(a, n) \o b = a \o (<<n>> \o b)
           /\ a \o Append(b, n) = Append(a \o b, n)
           /\ a \o b \in Seq(Numbers)
  <1>1. Append(a, n) \o b = a \o (<<n>> \o b)
    OBVIOUS
  <1>2. a \o Append(b, n) = Append(a \o b, n) /\ a \o b \in Seq(Numbers)
    OBVIOUS
  <1> QED BY <1>1, <1>2

\* Parts of the numbers 1..m, in order, increase.
LEMMA UptoParts ==
    ASSUME NEW P \in Seq(Numbers), NEW M \in Seq(Numbers), NEW E \in Seq(Numbers), NEW m \in Nat,
           (P \o M) \o E = Upto(m)
    PROVE  Increasing(P \o E, m)
  <1> DEFINE s == (P \o M) \o E
             d == P \o E
             a == Len(P)
             b == Len(M)
             c == Len(E)
  <1>1. a \in Nat /\ b \in Nat /\ c \in Nat /\ DOMAIN s = 1..((a + b) + c) /\ DOMAIN d = 1..(a + c)
    OBVIOUS
  <1>2. /\ \A i \in 1..a : s[i] = P[i] /\ d[i] = P[i]
        /\ \A i \in 1..c : s[(a + b) + i] = E[i] /\ d[a + i] = E[i]
    <2> DEFINE k == P \o M
    <2>1. k \in Seq(Numbers) /\ Len(k) = a + b /\ 1..a \subseteq 1..(a + b)
          /\ \A i \in 1..a : k[i] = P[i]
      BY <1>1
    <2> HIDE DEF k
    <2>2. \A i \in 1..Len(k) : (k \o E)[i] = k[i]
      BY <2>1, ConcatElements
    <2>3. \A i \in 1..Len(E) : (k \o E)[Len(k) + i] = E[i]
      BY <2>1, ConcatElements
    <2>4. /\ \A i \in 1..Len(P) : (P \o E)[i] = P[i]
          /\ \A i \in 1..Len(E) : (P \o E)[Len(P) + i] = E[i]
      BY ConcatElements
    <2>5. s = k \o E
      BY DEF k
    <2> HIDE DEF s
    <2>6. \A i \in 1..a : s[i] = P[i]
      BY <2>1, <2>2, <2>5
    <2>7. \A i \in 1..c : s[(a + b) + i] = E[i]
      BY <2>1, <2>3, <2>5
    <2> QED BY <2>4, <2>6, <2>7
  <1>3. s = Upto(m) /\ DOMAIN s = 1..m
    BY DEF Upto
  <1> DEFINE g(i) == IF i <= a THEN i ELSE i + b
  <1> HIDE DEF s, d, a, b, c
  <1>4. \A i \in 1..(a + c) : g(i) \in DOMAIN s /\ d[i] = s[g(i)] /\ g(i) \in Nat
    <2> TAKE i \in 1..(a + c)
    <2>1. CASE i <= a
      BY <1>1, <1>2, <2>1
    <2>2. CASE i > a
      <3>1. i - a \in 1..c /\ a + (i - a) = i /\ (a + b) + (i - a) = i + b
        BY <1>1, <2>2
      <3>2. d[a + (i - a)] = E[i - a] /\ s[(a + b) + (i - a)] = E[i - a]
        BY <1>2, <3>1
      <3> QED BY <1>1, <2>2, <3>1, <3>2
    <2> QED BY <1>1, <2>1, <2>2
  <1>5. \A i, j \in 1..(a + c) : i < j => g(i) < g(j)
    BY <1>1
  <1>6. \A i \in 1..m : s[i] = i
    BY <1>3 DEF Upto
  <1> HIDE DEF g
  <1>7. \A i \in 1..(a + c) : g(i) \in 1..m /\ d[i] = g(i)
    BY <1>3, <1>4, <1>6
  <1>8. \A i \in 1..(a + c) : d[i] <= m
    BY <1>7
  <1>9. Increasing(d, m)
    BY <1>1, <1>5, <1>7, <1>8 DEF Increasing
  <1> QED BY <1>9 DEF d

\* What comes first of increasing numbers increases.
LEMMA IncreasingFirst ==
    ASSUME NEW P \in Seq(Numbers), NEW M \in Seq(Numbers), NEW m, Increasing(P \o M, m)
    PROVE  \A i, j \in DOMAIN P : i < j => P[i] < P[j]
  <1> DEFINE s == P \o M
  <1>1. DOMAIN P \subseteq DOMAIN s /\ \A i \in DOMAIN P : s[i] = P[i]
    OBVIOUS
  <1>2. \A i, j \in DOMAIN s : i < j => s[i] < s[j]
    BY DEF Increasing
  <1> HIDE DEF s
  <1> QED BY <1>1, <1>2

\* The next number may be added.
LEMMA AddNext ==
    ASSUME NEW s \in Seq(Numbers), NEW m \in Nat
    PROVE  /\ s = Upto(m) => Append(s, m + 1) = Upto(m + 1)
           /\ Increasing(s, m) => Increasing(Append(s, m + 1), m + 1)
  <1> DEFINE t == Append(s, m + 1)
             c == Len(s)
  <1>1. /\ c \in Nat /\ DOMAIN s = 1..c /\ DOMAIN t = 1..(c + 1) /\ t[c + 1] = m + 1
        /\ \A i \in 1..c : t[i] = s[i] /\ s[i] \in Nat
    BY ClientBounds DEF Numbers
  <1>a. t = [i \in 1..(c + 1) |-> IF i = c + 1 THEN m + 1 ELSE s[i]]
    OBVIOUS
  <1> HIDE DEF t, c
  <1>2. ASSUME s = Upto(m) PROVE t = Upto(m + 1)
    <2>0. 1..c = 1..m
      BY <1>1, <1>2 DEF Upto
    <2>1. c = m
      BY <1>1, <2>0
    <2>2. \A i \in 1..m : s[i] = i
      BY <1>2 DEF Upto
    <2>3. \A i \in 1..(m + 1) : (IF i = m + 1 THEN m + 1 ELSE s[i]) = i
      <3>1. \A i \in 1..(m + 1) : i = m + 1 \/ i \in 1..m
        OBVIOUS
      <3> QED BY <2>2, <3>1
    <2> QED BY <1>a, <2>1, <2>3 DEF Upto
  <1>3. ASSUME Increasing(s, m) PROVE Increasing(t, m + 1)
    <2>1. \A i \in 1..c : s[i] <= m /\ s[i] \in Nat
      BY <1>1, <1>3 DEF Increasing
    <2>2. \A i, j \in 1..c : i < j => s[i] < s[j]
      BY <1>1, <1>3 DEF Increasing
    <2>3. \A i \in 1..(c + 1) : i \in 1..c \/ i = c + 1
      BY <1>1
    <2>4. \A i \in 1..c : s[i] <= m + 1 /\ s[i] < m + 1
      BY <2>1
    <2>5. \A i, j \in 1..(c + 1) : i < j => i \in 1..c
      BY <1>1
    <2>6. \A i, j \in 1..(c + 1) : i < j => t[i] < t[j]
      BY <1>1, <2>2, <2>3, <2>4, <2>5
    <2>7. \A i \in 1..(c + 1) : t[i] <= m + 1
      BY <1>1, <2>3, <2>4
    <2> QED BY <1>1, <2>6, <2>7 DEF Increasing
  <1> QED BY <1>2, <1>3 DEF t

\* Entries without a number, heartbeats, are not counted.
LEMMA Counted ==
    ASSUME NEW s \in Seq(Numbers)
    PROVE  /\ Kept(s, Datagrams) \in Seq(Numbers)
           /\ \A n \in Numbers :
                Kept(Append(s, n), Datagrams) = IF n = 0 THEN Kept(s, Datagrams)
                                                ELSE Append(Kept(s, Datagrams), n)
           /\ s # <<>> =>
                Kept(s, Datagrams) = IF Head(s) = 0 THEN Kept(Tail(s), Datagrams)
                                     ELSE <<Head(s)>> \o Kept(Tail(s), Datagrams)
  <1>1. \A n \in Numbers : n \in Datagrams <=> n # 0
    BY ClientBounds DEF Numbers, Datagrams
  <1>2. Kept(s, Datagrams) \in Seq(Numbers)
    BY KeptType
  <1>3. \A n \in Numbers :
          Kept(Append(s, n), Datagrams) = IF n \in Datagrams THEN Append(Kept(s, Datagrams), n)
                                          ELSE Kept(s, Datagrams)
    BY KeptAppend
  <1>4. s # <<>> => Head(s) \in Numbers
    OBVIOUS
  <1>5. s # <<>> => /\ Head(s) \in Datagrams => Kept(s, Datagrams) = <<Head(s)>> \o Kept(Tail(s), Datagrams)
                    /\ Head(s) \notin Datagrams => Kept(s, Datagrams) = Kept(Tail(s), Datagrams)
    BY KeptHead
  <1> QED BY <1>1, <1>2, <1>3, <1>4, <1>5

\* An element before a sequence is its head.
LEMMA Prefixed ==
    ASSUME NEW X, NEW t \in Seq(X), NEW x \in X
    PROVE  /\ <<x>> \o t \in Seq(X) /\ <<x>> \o t # <<>>
           /\ Head(<<x>> \o t) = x /\ Tail(<<x>> \o t) = t
  <1> DEFINE r == <<x>> \o t
  <1>1. r \in Seq(X) /\ Len(r) = 1 + Len(t) /\ Len(t) \in Nat
    OBVIOUS
  <1>2. r[1] = x /\ \A i \in 1..Len(t) : r[i + 1] = t[i]
    OBVIOUS
  <1> HIDE DEF r
  <1>3. r # <<>> /\ Head(r) = x
    BY <1>1, <1>2
  <1>4. /\ Tail(r) \in Seq(X) /\ Len(Tail(r)) = Len(t)
        /\ \A i \in 1..Len(t) : Tail(r)[i] = r[i + 1]
    BY <1>1, <1>3
  <1>5. Tail(r) = t
    <2>1. \A i \in 1..Len(t) : Tail(r)[i] = t[i]
      BY <1>2, <1>4
    <2> QED BY <1>4, <2>1, SeqEqual
  <1> QED BY <1>1, <1>3, <1>5 DEF r

\* The datagrams posted in a queue that is taken from or added to.
LEMMA PostedQueue ==
    ASSUME NEW io \in Seq(Calls(IoHandlers))
    PROVE  /\ Posted(io) \in Seq(Numbers)
           /\ \A e \in Calls(IoHandlers) :
                Posted(Append(io, e)) = IF e.fn # "async_send" \/ e.n = 0 THEN Posted(io)
                                        ELSE Append(Posted(io), e.n)
           /\ io # <<>> =>
                Posted(io) = IF Head(io).fn # "async_send" \/ Head(io).n = 0 THEN Posted(Tail(io))
                             ELSE <<Head(io).n>> \o Posted(Tail(io))
  <1> DEFINE c == Carried(io, "async_send")
  <1>1. c \in Seq(Numbers)
    BY CarriedQueue
  <1>2. Posted(io) \in Seq(Numbers)
    BY <1>1, Counted DEF Posted
  <1>3. ASSUME NEW e \in Calls(IoHandlers)
        PROVE  Posted(Append(io, e)) = IF e.fn # "async_send" \/ e.n = 0 THEN Posted(io)
                                       ELSE Append(Posted(io), e.n)
    <2>1. /\ e.fn = "async_send" => Carried(Append(io, e), "async_send") = Append(c, e.n)
          /\ e.fn # "async_send" => Carried(Append(io, e), "async_send") = c
      BY CarriedAppend
    <2>2. e.n \in Numbers
      BY CallElements
    <2> HIDE DEF c
    <2>3. Kept(Append(c, e.n), Datagrams) = IF e.n = 0 THEN Kept(c, Datagrams) ELSE Append(Kept(c, Datagrams), e.n)
      BY <1>1, <2>2, Counted
    <2> QED BY <2>1, <2>3 DEF Posted, c
  <1>4. ASSUME io # <<>>
        PROVE  Posted(io) = IF Head(io).fn # "async_send" \/ Head(io).n = 0 THEN Posted(Tail(io))
                            ELSE <<Head(io).n>> \o Posted(Tail(io))
    <2> DEFINE t == Carried(Tail(io), "async_send")
    <2>1. Head(io) \in Calls(IoHandlers) /\ Tail(io) \in Seq(Calls(IoHandlers))
      BY <1>4
    <2>2. c = IF Head(io).fn = "async_send" THEN <<Head(io).n>> \o t ELSE t
      BY <1>4, CarriedQueue
    <2>3. t \in Seq(Numbers) /\ Head(io).n \in Numbers
      BY <2>1, CarriedQueue, CallElements
    <2> HIDE DEF c, t
    <2>4. \A n \in Numbers : /\ <<n>> \o t \in Seq(Numbers) /\ <<n>> \o t # <<>>
                             /\ Head(<<n>> \o t) = n /\ Tail(<<n>> \o t) = t
      BY <2>3, Prefixed
    <2>5. \A n \in Numbers : Kept(<<n>> \o t, Datagrams) = IF n = 0 THEN Kept(t, Datagrams)
                                                           ELSE <<n>> \o Kept(t, Datagrams)
      BY <2>4, Counted
    <2> QED BY <2>2, <2>3, <2>5 DEF Posted, c, t
  <1> QED BY <1>2, <1>3, <1>4

\* A number before the others, and behind them.
Leading(n, s) == <<n>> \o s
Trailing(s, n) == Append(s, n)

\* A new datagram comes last.
LEMMA FlowAdded ==
    ASSUME NEW p \in Seq(Numbers), NEW a \in Seq(Numbers), NEW b \in Seq(Numbers), NEW d \in Seq(Numbers),
           NEW e \in Seq(Numbers), NEW n \in Numbers
    PROVE  /\ Flow(p, a, b, d, e) \in Seq(Numbers)
           /\ Flow(p, a, b, d, Trailing(e, n)) = Append(Flow(p, a, b, d, e), n)
  <1> DEFINE pa == p \o a
             pab == pa \o b
             pabd == pab \o d
  <1>1. pa \in Seq(Numbers)
    OBVIOUS
  <1> HIDE DEF pa
  <1>2. pab \in Seq(Numbers)
    BY <1>1
  <1> HIDE DEF pab
  <1>3. pabd \in Seq(Numbers)
    BY <1>2
  <1> HIDE DEF pabd
  <1>4. pabd \o e \in Seq(Numbers) /\ pabd \o Append(e, n) = Append(pabd \o e, n)
    BY <1>3, MovesBack
  <1> QED BY <1>4 DEF Flow, Trailing, pa, pab, pabd

\* A datagram goes from one part to the one before it.
LEMMA FlowMoves ==
    ASSUME NEW p \in Seq(Numbers), NEW a \in Seq(Numbers), NEW b \in Seq(Numbers), NEW d \in Seq(Numbers),
           NEW e \in Seq(Numbers), NEW n \in Numbers
    PROVE  /\ Flow(p, a, b, d, Leading(n, e)) = Flow(p, a, b, Trailing(d, n), e)
           /\ Flow(p, a, b, Leading(n, d), e) = Flow(p, a, Trailing(b, n), d, e)
           /\ Flow(p, a, Leading(n, b), d, e) = Flow(p, Trailing(a, n), b, d, e)
           /\ Flow(p, Leading(n, a), b, d, e) = Flow(Trailing(p, n), a, b, d, e)
  <1> DEFINE pa == p \o a
             pab == pa \o b
             pabd == pab \o d
  <1>1. pa \in Seq(Numbers)
    OBVIOUS
  <1>2. Append(p, n) \o a = p \o (<<n>> \o a)
    BY MovesBack
  <1>3. p \o Append(a, n) = Append(pa, n)
    BY MovesBack
  <1> HIDE DEF pa
  <1>4. Append(pa, n) \o b = pa \o (<<n>> \o b) /\ pab \in Seq(Numbers) /\ pa \o Append(b, n) = Append(pab, n)
    BY <1>1, MovesBack
  <1> HIDE DEF pab
  <1>5. Append(pab, n) \o d = pab \o (<<n>> \o d) /\ pabd \in Seq(Numbers) /\ pab \o Append(d, n) = Append(pabd, n)
    BY <1>4, MovesBack
  <1> HIDE DEF pabd
  <1>6. Append(pabd, n) \o e = pabd \o (<<n>> \o e)
    BY <1>5, MovesBack
  <1> QED BY <1>2, <1>3, <1>4, <1>5, <1>6 DEF Flow, Leading, Trailing, pa, pab, pabd

\* The name keeps the provers from taking the sequences apart.
Rows == Seq(Numbers)

\* A datagram is posted to the io thread, ...
LEMMA FlowPosted ==
    ASSUME NEW p \in Rows, NEW a \in Rows, NEW b \in Rows, NEW d \in Rows,
           NEW e \in Rows, NEW n \in Numbers
    PROVE  Flow(p, a, b, d, Leading(n, e)) = Flow(p, a, b, Trailing(d, n), e)
  BY FlowMoves DEF Rows

\* ... it becomes an entry, ...
LEMMA FlowEntered ==
    ASSUME NEW p \in Rows, NEW a \in Rows, NEW b \in Rows, NEW d \in Rows,
           NEW e \in Rows, NEW n \in Numbers
    PROVE  Flow(p, a, b, Leading(n, d), e) = Flow(p, a, Trailing(b, n), d, e)
  BY FlowMoves DEF Rows

\* ... the entry is sent, ...
LEMMA FlowSent ==
    ASSUME NEW p \in Rows, NEW a \in Rows, NEW b \in Rows, NEW d \in Rows,
           NEW e \in Rows, NEW n \in Numbers
    PROVE  Flow(p, a, Leading(n, b), d, e) = Flow(p, Trailing(a, n), b, d, e)
  BY FlowMoves DEF Rows

\* ... and its callback is called.
LEMMA FlowCalled ==
    ASSUME NEW p \in Rows, NEW a \in Rows, NEW b \in Rows, NEW d \in Rows,
           NEW e \in Rows, NEW n \in Numbers
    PROVE  Flow(p, Leading(n, a), b, d, e) = Flow(Trailing(p, n), a, b, d, e)
  BY FlowMoves DEF Rows

-------------------------------------------------------------------------------
(* The steps that move a datagram *)

\* What the dispatcher's queue carries.
LEMMA DqCarried ==
    ASSUME NEW q \in Seq(Everything), NEW f
    PROVE  /\ Carried(q, f) \in Seq(Numbers)
           /\ q # <<>> /\ Head(q).fn = f => Carried(q, f) = <<Head(q).n>> \o Carried(Tail(q), f)
           /\ q # <<>> /\ Head(q).fn # f => Carried(q, f) = Carried(Tail(q), f)
           /\ q # <<>> => Tail(q) \in Seq(Everything) /\ Head(q).n \in Numbers
  <1>1. q \in Seq(Calls(Names))
    BY Elements, SeqMonotonic
  <1>2. q # <<>> => Tail(q) \in Seq(Everything) /\ Head(q) \in Everything
    OBVIOUS
  <1> QED BY <1>1, <1>2, CarriedQueue, Elements

\* What it carries with another function.
LEMMA DqAppended ==
    ASSUME NEW q \in Seq(Everything), NEW e \in Everything, NEW f
    PROVE  /\ e.fn = f => Carried(Append(q, e), f) = Append(Carried(q, f), e.n)
           /\ e.fn # f => Carried(Append(q, e), f) = Carried(q, f)
           /\ Append(q, e) \in Seq(Everything)
  <1>1. q \in Seq(Calls(Names)) /\ e \in Calls(Names)
    BY Elements, SeqMonotonic
  <1>2. Append(q, e) \in Seq(Everything)
    OBVIOUS
  <1> QED BY <1>1, <1>2, CarriedAppend

\* A callback is called.
Callback == Report /\ \E f \in {"processed", "impl_processed"} : Runs(f)

Moving == Send \/ Callback \/ Joined \/ HandleSend \/ RequestSend \/ Destroy

\* The other steps leave what the dispatcher's queue carries alone.
LEMMA DqUnmoved ==
    ASSUME DqInv, [Next]_vars, ~Moving, NEW f \in NumberedNames
    PROVE  Carried(dq', f) = Carried(dq, f)
  <1> DEFINE Others == Names \ NumberedNames
             K(q) == Carried(q, f)
             Added(q, g) == Append(q, Fn(g))
             D == Seq(Everything)
  <1>d. dq \in D
    BY DEF DqInv
  <1>n. \A g \in Others : Fn(g) \in Everything /\ Fn(g).fn # f
    BY Elements
  <1>a. \A q \in D, g \in Others : K(Added(q, g)) = K(q) /\ Added(q, g) \in D
    BY <1>n, DqAppended
  <1>t. \A h : Runs(h) /\ h \notin NumberedNames => K(Tail(dq)) = K(dq) /\ Tail(dq) \in D
    <2> TAKE h
    <2> HAVE Runs(h) /\ h \notin NumberedNames
    <2>1. dq # <<>> /\ Head(dq).fn # f /\ Tail(dq) \in D
      BY NextFunction
    <2> QED BY <1>d, <2>1, DqCarried
  <1>m. Others = {"connect", "stop", "timer_start", "timer_stop", "reconnect", "connected", "closed",
                  "impl_connected", "impl_connect_failed", "impl_closed"}
    BY SomeNames
  <1>o. \A g \in Others : g \notin NumberedNames
    OBVIOUS
  <1> SUFFICES K(dq') = K(dq)
    OBVIOUS
  <1>1. CASE Quietly
    <2>1. PICK h \in QuietNames :
            Runs(h) /\ (dq' = Tail(dq) \/ \E g \in {"timer_stop", "reconnect"} : dq' = Added(Tail(dq), g))
      BY <1>1, QuietShape DEF Quietly
    <2>2. h \in Others /\ {"timer_stop", "reconnect"} \subseteq Others
      BY <1>m DEF QuietNames
    <2> HIDE DEF K, Added, D, Others
    <2> QED BY <1>a, <1>o, <1>t, <2>1, <2>2
  <1>2. CASE ConnectedSignal
    <2>1. Runs("impl_connected") /\ (dq' = Tail(dq) \/ dq' = Added(Tail(dq), "connected"))
      BY <1>2, SignalShape
    <2> HIDE DEF K, Added, D, Others
    <2> QED BY <1>a, <1>o, <1>t, <1>m, <2>1
  <1>3. CASE ClosedSignal
    <2>1. Runs("impl_closed") /\ \/ dq' = Tail(dq) \/ dq' = Added(Tail(dq), "closed")
                                 \/ dq' = Added(Added(Tail(dq), "closed"), "timer_stop")
      BY <1>3, SignalShape
    <2>2. "impl_closed" \in Others /\ "closed" \in Others /\ "timer_stop" \in Others
      BY <1>m
    <2> HIDE DEF K, Added, D, Others
    <2>3. K(Tail(dq)) = K(dq) /\ Tail(dq) \in D
      BY <1>o, <1>t, <2>1, <2>2
    <2>4. K(Added(Tail(dq), "closed")) = K(dq) /\ Added(Tail(dq), "closed") \in D
      BY <1>a, <2>2, <2>3
    <2>5. K(Added(Added(Tail(dq), "closed"), "timer_stop")) = K(dq)
      BY <1>a, <2>2, <2>4
    <2> QED BY <2>1, <2>3, <2>4, <2>5
  <1>4. CASE Report /\ ~Callback
    <2>1. dq' = Tail(dq) /\ \E h \in {"connected", "closed"} : Runs(h)
      BY <1>4, CarrierShape DEF Callback
    <2> HIDE DEF K, Added, D, Others
    <2> QED BY <1>o, <1>t, <1>m, <2>1
  <1>5. CASE Tick \/ DelayPasses
    <2>1. dq = <<>> /\ (dq' = <<Fn("reconnect")>> \/ dq' = <<Fn("timer_start")>>)
      BY <1>5 DEF Tick, DelayPasses, Idle
    <2>2. \A g : Added(<<>>, g) = <<Fn(g)>>
      OBVIOUS
    <2>3. dq' = Added(dq, "reconnect") \/ dq' = Added(dq, "timer_start")
      BY <2>1, <2>2
    <2> HIDE DEF K, Added, D, Others
    <2> QED BY <1>a, <1>d, <1>m, <2>3
  <1>6. CASE AsyncClose \/ AsyncConnectFails \/ ConnectFails \/ Connected
    <2>1. dq' = dq \/ \E g \in {"impl_closed", "impl_connect_failed", "impl_connected"} : dq' = Added(dq, g)
      BY <1>6 DEF AsyncClose, AsyncConnectFails, ConnectFails, Connected
    <2> HIDE DEF K, Added, D, Others
    <2> QED BY <1>a, <1>d, <1>m, <2>1
  <1>7. CASE Request
    <2>1. \E g \in {"connect", "stop"} : dq' = Added(dq, g)
      BY <1>7 DEF Request
    <2> HIDE DEF K, Added, D, Others
    <2> QED BY <1>a, <1>d, <1>m, <2>1
  <1>8. CASE EnqueueStop
    <2> DEFINE s == Fn("stop")
               x == <<s>> \o dq
    <2>1. dq' = x /\ s \in Everything /\ s.fn # f
      BY <1>8, <1>n, <1>m DEF EnqueueStop
    <2> HIDE DEF s
    <2>2. x \in D /\ x # <<>> /\ Head(x) = s /\ Tail(x) = dq
      BY <1>d, <2>1, Prefixed
    <2> HIDE DEF x
    <2>3. Carried(x, f) = Carried(Tail(x), f)
      BY <2>1, <2>2, DqCarried
    <2> QED BY <2>1, <2>2, <2>3
  <1>9. CASE Elsewhere
    BY <1>9, ElsewhereFacts
  <1> QED BY <1>1, <1>2, <1>3, <1>4, <1>5, <1>6, <1>7, <1>8, <1>9, NextCases DEF Moving

\* Only async_send's function and handler change what is posted.
LEMMA IoUnmoved ==
    ASSUME TypeOK, DqInv, [Next]_vars, ~Send, ~AsyncSend
    PROVE  Posted(ioq') = Posted(ioq)
  <1> DEFINE C == Calls(IoHandlers)
  <1>d. ioq \in Seq(C)
    BY DEF TypeOK
  <1>e. \A f \in IoHandlers : Fn(f) \in C /\ Fn(f).n = 0
    BY CallElements, Elements
  <1>a. \A q \in Seq(C), f \in IoHandlers : Posted(Append(q, Fn(f))) = Posted(q) /\ Append(q, Fn(f)) \in Seq(C)
    <2> TAKE q \in Seq(C), f \in IoHandlers
    <2>1. Posted(Append(q, Fn(f))) = Posted(q)
      BY <1>e, PostedQueue
    <2> QED BY <1>e, <2>1
  <1>t. \A h : IoRuns(h) /\ h # "async_send" => Posted(Tail(ioq)) = Posted(ioq) /\ Tail(ioq) \in Seq(C)
    <2> TAKE h
    <2> HAVE IoRuns(h) /\ h # "async_send"
    <2>1. ioq # <<>> /\ Head(ioq).fn # "async_send" /\ Tail(ioq) \in Seq(C)
      BY NextHandler
    <2>2. Posted(ioq) = IF Head(ioq).fn # "async_send" \/ Head(ioq).n = 0 THEN Posted(Tail(ioq))
                        ELSE <<Head(ioq).n>> \o Posted(Tail(ioq))
      BY <1>d, <2>1, PostedQueue
    <2> QED BY <2>1, <2>2
  <1>n. {"async_close", "reset", "send_error", "connect_ok", "connect_error", "async_send", "check_reset",
         "check_server", "check_client_socket", "async_connect", "send_ok"} \subseteq IoHandlers
    BY DEF IoHandlers
  <1> HIDE DEF C
  <1>1. CASE NotPosting
    BY <1>1, NotPostingFacts
  <1>2. CASE Posting
    <2>1. ioq' = ioq \/ \E f \in IoHandlers : ioq' = Append(ioq, Fn(f))
      BY <1>2, <1>n, PostShape DEF Posting, Results
    <2>2. ASSUME NEW f \in IoHandlers, ioq' = Append(ioq, Fn(f)) PROVE Posted(ioq') = Posted(ioq)
      BY <1>d, <1>a, <2>2
    <2> QED BY <2>1, <2>2
  <1>3. CASE Stop
    <2>1. ioq \o <<Fn("async_close"), Fn("reset")>> = Append(Append(ioq, Fn("async_close")), Fn("reset"))
      <3>1. Fn("async_close") \in C /\ Fn("reset") \in C
        BY <1>e, <1>n
      <3> QED BY <1>d, <3>1
    <2>2. Posted(Append(Append(ioq, Fn("async_close")), Fn("reset"))) = Posted(ioq)
      BY <1>d, <1>a, <1>n
    <2> QED BY <1>3, <2>1, <2>2, PostShape
  <1>4. CASE IoThread
    <2>1. \E h : IoRuns(h) /\ h # "async_send"
                 /\ (ioq' = Tail(ioq) \/ \E f \in IoHandlers : ioq' = Append(Tail(ioq), Fn(f)))
      BY <1>4, <1>n, IoShape DEF IoThread
    <2> QED BY <1>a, <1>t, <2>1
  <1> QED BY <1>1, <1>2, <1>3, <1>4, PostCases

\* Who changes what else.
LEMMA OthersUnmoved ==
    ASSUME [Next]_vars
    PROVE  /\ attached' = attached \/ Destroy
           /\ client_impl' = client_impl \/ Joined
           /\ accepted' = accepted \/ RequestSend
           /\ processed' = processed \/ Callback
  <1> USE DEF modeVars, worldVars, historyVars, implRest
  <1>1. CASE Start \/ Stop \/ Joined \/ Send \/ ConnectedSignal \/ ConnectFailedSignal \/ ClosedSignal
                \/ TimerStart \/ TimerStop \/ Reconnect
    BY <1>1, Zenon DEF Start, Stop, Joined, Send, ConnectedSignal, ConnectFailedSignal, ClosedSignal, TimerStart,
             TimerStop, Reconnect
  <1>2. CASE Report
    <2>1. attached' = attached /\ client_impl' = client_impl /\ accepted' = accepted
      BY <1>2, Zenon DEF Report
    <2>2. processed' = processed \/ Runs("processed") \/ Runs("impl_processed")
      BY <1>2, Zenon DEF Report
    <2> QED BY <1>2, <2>1, <2>2 DEF Callback
  <1>3. CASE Tick \/ DelayPasses
    BY <1>3, Zenon DEF Tick, DelayPasses
  <1>4. CASE AsyncClose \/ AsyncConnectFails \/ ConnectFails \/ Connected \/ HandleSend
    BY <1>4, Zenon DEF AsyncClose, AsyncConnectFails, ConnectFails, Connected, HandleSend
  <1>5. CASE Request \/ RequestSend \/ Destroy \/ EnqueueStop
    BY <1>5, Zenon DEF Request, RequestSend, Destroy, EnqueueStop
  <1>6. CASE Elsewhere
    BY <1>6, ElsewhereFacts
  <1> QED BY <1>1, <1>2, <1>3, <1>4, <1>5, <1>6, NextCases DEF Quietly

\* async_send's function hands the datagram to the io thread, or its callback to
\* the dispatcher.
LEMMA SendMoves ==
    ASSUME TypeOK, DqInv, Send
    PROVE  /\ Head(dq).n \in 1..MaxSends
           /\ Carried(dq, "send") = <<Head(dq).n>> \o Carried(dq', "send")
           /\ Carried(dq', "impl_processed") = Carried(dq, "impl_processed")
           /\ client_impl => /\ Posted(ioq') = Append(Posted(ioq), Head(dq).n)
                             /\ Carried(dq', "processed") = Carried(dq, "processed")
           /\ attached /\ ~client_impl =>
                Carried(dq', "processed") = Append(Carried(dq, "processed"), Head(dq).n)
  <1> DEFINE n == Head(dq).n
             t == Tail(dq)
             e == Carrying("processed", n)
  <1>d. dq \in Seq(Everything)
    BY DEF DqInv
  <1>1. /\ Runs("send") /\ n \in 1..MaxSends
        /\ client_impl \/ ~attached => dq' = t
        /\ ~client_impl /\ attached => dq' = Append(t, e)
    BY CarrierShape
  <1>2. dq # <<>> /\ Head(dq).fn = "send" /\ t \in Seq(Everything)
    BY <1>1, NextFunction
  <1>3. e \in Everything /\ e.fn = "processed" /\ e.n = n
    BY <1>1, Elements DEF NumberedNames
  <1>4. /\ Carried(dq, "send") = <<n>> \o Carried(t, "send")
        /\ Carried(dq, "impl_processed") = Carried(t, "impl_processed")
        /\ Carried(dq, "processed") = Carried(t, "processed")
    BY <1>d, <1>2, DqCarried
  <1> HIDE DEF t, e
  <1>5. /\ Carried(Append(t, e), "send") = Carried(t, "send")
        /\ Carried(Append(t, e), "impl_processed") = Carried(t, "impl_processed")
    BY <1>2, <1>3, DqAppended
  <1>6. Carried(Append(t, e), "processed") = Append(Carried(t, "processed"), e.n)
    BY <1>2, <1>3, DqAppended
  <1>7. ASSUME client_impl PROVE Posted(ioq') = Append(Posted(ioq), n)
    <2>1. ioq' = Append(ioq, Carrying("async_send", n)) /\ ioq \in Seq(Calls(IoHandlers))
      BY <1>7, PostShape DEF TypeOK
    <2> DEFINE g == Carrying("async_send", n)
    <2>2. g \in Calls(IoHandlers) /\ g.fn = "async_send" /\ g.n = n /\ n # 0
      <3>1. n \in Numbers /\ n # 0
        BY <1>1, ClientBounds DEF Numbers
      <3> HIDE DEF n
      <3>2. "async_send" \in IoHandlers
        BY DEF IoHandlers
      <3> QED BY <3>1, <3>2, CallElements, Elements
    <2> HIDE DEF g
    <2>3. Posted(Append(ioq, g)) = Append(Posted(ioq), g.n)
      BY <2>1, <2>2, PostedQueue
    <2> QED BY <2>1, <2>2, <2>3 DEF g
  <1>8. attached \in BOOLEAN /\ client_impl \in BOOLEAN
    BY DEF TypeOK
  <1>9. dq' = t \/ dq' = Append(t, e)
    BY <1>1, <1>8
  <1>a. Carried(dq', "send") = Carried(t, "send") /\ Carried(dq', "impl_processed") = Carried(t, "impl_processed")
    BY <1>5, <1>9
  <1> QED BY <1>1, <1>3, <1>4, <1>6, <1>7, <1>a

\* A callback is called.
LEMMA CallbackMoves ==
    ASSUME TypeOK, DqInv, Callback
    PROVE  /\ Head(dq).n \in 1..MaxSends /\ processed' = Append(processed, Head(dq).n)
           /\ Runs("processed") \/ Runs("impl_processed")
           /\ \A f : Runs(f) => Carried(dq, f) = <<Head(dq).n>> \o Carried(dq', f)
           /\ \A f, g : Runs(f) /\ g # f => Carried(dq', g) = Carried(dq, g)
  <1>1. dq' = Tail(dq) /\ \A f : Runs(f) => dq # <<>> /\ Head(dq).fn = f
    BY DEF Callback, Report, Runs
  <1>2. /\ Head(dq).n \in 1..MaxSends /\ processed' = Append(processed, Head(dq).n)
    <2>1. Head(dq).fn \notin {"connected", "closed"}
      BY DEF Callback, Runs
    <2> QED BY <1>1, <2>1, CarrierShape DEF Callback
  <1>3. \A f : Runs(f) => Carried(dq, f) = <<Head(dq).n>> \o Carried(Tail(dq), f)
    BY <1>1, DqCarried DEF DqInv
  <1>4. ASSUME NEW f, NEW g, Runs(f), g # f PROVE Carried(Tail(dq), g) = Carried(dq, g)
    <2>1. dq # <<>> /\ Head(dq).fn # g /\ dq \in Seq(Everything)
      BY <1>1, <1>4 DEF DqInv
    <2> QED BY <2>1, DqCarried
  <1> QED BY <1>1, <1>2, <1>3, <1>4 DEF Callback

\* async_send's handler: the datagram, or a heartbeat, joins the entries.
LEMMA AsyncSendMoves ==
    ASSUME TypeOK, AsyncSend
    PROVE  /\ Head(ioq).n \in Numbers
           /\ Head(ioq).n = 0 => /\ Posted(ioq') = Posted(ioq)
                                 /\ Kept(send_entries', Datagrams) = Kept(send_entries, Datagrams)
           /\ Head(ioq).n # 0 => /\ Posted(ioq) = <<Head(ioq).n>> \o Posted(ioq')
                                 /\ Kept(send_entries', Datagrams)
                                      = Append(Kept(send_entries, Datagrams), Head(ioq).n)
  <1> DEFINE n == Head(ioq).n
  <1>1. ioq # <<>> /\ Head(ioq).fn = "async_send" /\ n \in Numbers
    BY IoShape, NextHandler
  <1>2. ioq' = Tail(ioq) /\ send_entries' = Append(send_entries, n)
    BY DEF AsyncSend, PushBack
  <1>3. ioq \in Seq(Calls(IoHandlers)) /\ send_entries \in Seq(Numbers)
    BY DEF TypeOK, Numbers
  <1>4. Posted(ioq) = IF Head(ioq).fn # "async_send" \/ n = 0 THEN Posted(Tail(ioq))
                      ELSE <<n>> \o Posted(Tail(ioq))
    BY <1>1, <1>3, PostedQueue
  <1> HIDE DEF n
  <1>5. Kept(Append(send_entries, n), Datagrams)
          = IF n = 0 THEN Kept(send_entries, Datagrams) ELSE Append(Kept(send_entries, Datagrams), n)
    BY <1>1, <1>3, Counted
  <1> QED BY <1>1, <1>2, <1>4, <1>5 DEF n

\* An entry has been sent.
LEMMA HandleSendMoves ==
    ASSUME TypeOK, DqInv, FlightInv, HandleSend
    PROVE  /\ Head(send_entries) \in Numbers
           /\ \A f : f # "impl_processed" => Carried(dq', f) = Carried(dq, f)
           /\ Head(send_entries) = 0 =>
                /\ Carried(dq', "impl_processed") = Carried(dq, "impl_processed")
                /\ Kept(send_entries', Datagrams) = Kept(send_entries, Datagrams)
           /\ Head(send_entries) # 0 =>
                /\ Carried(dq', "impl_processed") = Append(Carried(dq, "impl_processed"), Head(send_entries))
                /\ Kept(send_entries, Datagrams) = <<Head(send_entries)>> \o Kept(send_entries', Datagrams)
  <1> DEFINE n == Head(send_entries)
             e == Carrying("impl_processed", n)
  <1>1. /\ send_entries # <<>> /\ n \in Numbers
        /\ n = 0 => dq' = dq
        /\ n # 0 => n \in 1..MaxSends /\ dq' = Append(dq, e)
    BY SentShape
  <1>2. send_entries' = Tail(send_entries)
    BY DEF HandleSend, PopFront
  <1>3. dq \in Seq(Everything) /\ send_entries \in Seq(Numbers)
    BY DEF DqInv, TypeOK, Numbers
  <1>4. Kept(send_entries, Datagrams) = IF n = 0 THEN Kept(Tail(send_entries), Datagrams)
                                        ELSE <<n>> \o Kept(Tail(send_entries), Datagrams)
    BY <1>1, <1>3, Counted
  <1> HIDE DEF n
  <1>5. n # 0 => e \in Everything /\ e.fn = "impl_processed" /\ e.n = n
    BY <1>1, Elements DEF NumberedNames
  <1> HIDE DEF e
  <1>6. n # 0 => /\ Carried(Append(dq, e), "impl_processed") = Append(Carried(dq, "impl_processed"), n)
                 /\ \A f : f # "impl_processed" => Carried(Append(dq, e), f) = Carried(dq, f)
    BY <1>3, <1>5, DqAppended
  <1> QED BY <1>1, <1>2, <1>4, <1>6 DEF n

\* async_send: the next number comes last.
LEMMA RequestMoves ==
    ASSUME TypeOK, DqInv, RequestSend
    PROVE  /\ accepted' = accepted + 1 /\ accepted \in Nat /\ accepted + 1 \in Numbers
           /\ Carried(dq', "send") = Append(Carried(dq, "send"), accepted + 1)
           /\ \A f : f # "send" => Carried(dq', f) = Carried(dq, f)
  <1> DEFINE n == accepted + 1
             e == Carrying("send", n)
  <1>1. accepted' = n /\ dq' = Append(dq, e)
    BY DEF RequestSend
  <1>2. accepted \in Nat /\ n \in 1..MaxSends /\ n \in Numbers
    BY ClientBounds DEF RequestSend, TypeOK, Numbers
  <1> HIDE DEF n
  <1>3. e \in Everything /\ e.fn = "send" /\ e.n = n
    BY <1>2, Elements DEF NumberedNames
  <1> HIDE DEF e
  <1>4. dq \in Seq(Everything)
    BY DEF DqInv
  <1>5. /\ Carried(Append(dq, e), "send") = Append(Carried(dq, "send"), n)
        /\ \A f : f # "send" => Carried(Append(dq, e), f) = Carried(dq, f)
    BY <1>3, <1>4, DqAppended
  <1> QED BY <1>1, <1>2, <1>5 DEF n

-------------------------------------------------------------------------------
(* The order of the callbacks *)

\* Pipeline, with its parts named.
LEMMA PipelineFlow ==
    /\ Pipeline <=>
         (attached /\ client_impl =>
            Flow(processed, Carried(dq, "impl_processed"), Kept(send_entries, Datagrams), Posted(ioq),
                 Carried(dq, "send")) = Upto(accepted))
    /\ Pipeline' <=>
         (attached' /\ client_impl' =>
            Flow(processed', Carried(dq', "impl_processed"), Kept(send_entries', Datagrams), Posted(ioq'),
                 Carried(dq', "send")) = Upto(accepted'))
  BY Zenon DEF Pipeline, Flow, Upto, Posted, Datagrams, Carried, Kept
\* The parts are sequences of numbers.
LEMMA FlowTypes ==
    ASSUME NEW p \in Seq(1..MaxSends), NEW q \in Seq(Everything), NEW s \in Seq(0..MaxSends),
           NEW io \in Seq(Calls(IoHandlers))
    PROVE  /\ p \in Seq(Numbers) /\ Posted(io) \in Seq(Numbers) /\ Kept(s, Datagrams) \in Seq(Numbers)
           /\ \A f : Carried(q, f) \in Seq(Numbers)
  <1>1. 1..MaxSends \subseteq Numbers /\ Numbers = 0..MaxSends
    BY ClientBounds DEF Numbers
  <1>2. p \in Seq(Numbers)
    BY <1>1, SeqMonotonic
  <1>3. s \in Seq(Numbers)
    BY <1>1
  <1> QED BY <1>2, <1>3, PostedQueue, Counted, DqCarried

\* As long as client_impl exists its steps, and the dispatcher's callbacks, leave
\* the datagrams it was given in their order.
LEMMA FlowStep ==
    ASSUME TypeOK, TypeOK', DqInv, DqInv', FlightInv, OrderInv, [Next]_vars, client_impl,
           ~Joined, ~Destroy, ~Send, ~RequestSend, NEW e \in Seq(Numbers)
    PROVE  /\ Flow(processed', Carried(dq', "impl_processed"), Kept(send_entries', Datagrams),
                   Posted(ioq'), e)
                = Flow(processed, Carried(dq, "impl_processed"), Kept(send_entries, Datagrams),
                       Posted(ioq), e)
           /\ Carried(dq', "send") = Carried(dq, "send")
           /\ accepted' = accepted
  <1> DEFINE P == processed
             A == Carried(dq, "impl_processed")
             B == Kept(send_entries, Datagrams)
             D == Posted(ioq)
             E == Carried(dq, "send")
             P1 == processed'
             A1 == Carried(dq', "impl_processed")
             B1 == Kept(send_entries', Datagrams)
             D1 == Posted(ioq')
             E1 == Carried(dq', "send")
  <1>t. P \in Rows /\ A \in Rows /\ B \in Rows /\ D \in Rows /\ e \in Rows
    <2>1. /\ processed \in Seq(1..MaxSends) /\ dq \in Seq(Everything) /\ send_entries \in Seq(0..MaxSends)
          /\ ioq \in Seq(Calls(IoHandlers))
      BY DEF TypeOK, DqInv
    <2> QED BY <2>1, FlowTypes DEF Rows
  <1>u. A1 \in Rows /\ B1 \in Rows /\ D1 \in Rows
    <2>1. /\ processed' \in Seq(1..MaxSends) /\ dq' \in Seq(Everything) /\ send_entries' \in Seq(0..MaxSends)
          /\ ioq' \in Seq(Calls(IoHandlers))
      BY DEF TypeOK, DqInv
    <2> QED BY <2>1, FlowTypes DEF Rows
  <1>n. \A n \in 1..MaxSends : n \in Numbers
    BY ClientBounds DEF Numbers
  <1> SUFFICES Flow(P1, A1, B1, D1, e) = Flow(P, A, B, D, e) /\ E1 = E /\ accepted' = accepted
    OBVIOUS
  <1>1. accepted' = accepted
    BY OthersUnmoved
  <1>2. CASE Callback
    <2>1. D1 = D /\ B1 = B
      BY <1>2 DEF Callback, Report, implRest
    <2> DEFINE n == Head(dq).n
    <2>2. n \in Numbers /\ P1 = Trailing(P, n)
      BY <1>2, <1>n, CallbackMoves DEF Trailing
    <2>3. Runs("impl_processed")
      <3>1. ASSUME Runs("processed") PROVE FALSE
        <4>1. Carried(dq, "processed") = <<Head(dq).n>> \o Carried(dq', "processed")
          BY <1>2, <3>1, CallbackMoves
        <4>2. Carried(dq', "processed") \in Rows
          BY DqCarried DEF DqInv, Rows
        <4>3. \A k, s : k \in Numbers /\ s \in Rows => <<k>> \o s # <<>>
          BY DEF Rows
        <4> QED BY <2>2, <4>1, <4>2, <4>3 DEF OrderInv
      <3> QED BY <1>2, <3>1, CallbackMoves
    <2>4. A = Leading(n, A1) /\ E1 = E
      BY <1>2, <2>3, CallbackMoves DEF Leading
    <2> HIDE DEF P, A, B, D, E, P1, A1, B1, D1, E1, n
    <2>5. Flow(P, Leading(n, A1), B, D, e) = Flow(Trailing(P, n), A1, B, D, e)
      <3>1. P \in Rows /\ A1 \in Rows /\ B \in Rows /\ D \in Rows /\ e \in Rows /\ n \in Numbers
        BY <1>t, <1>u, <2>2
      <3> QED BY <3>1, FlowCalled
    <2> QED BY <1>1, <2>1, <2>2, <2>4, <2>5
  <1>3. CASE AsyncSend
    <2>1. P1 = P /\ A1 = A /\ E1 = E
      BY <1>3 DEF AsyncSend, worldVars, historyVars
    <2> DEFINE n == Head(ioq).n
    <2>2. /\ n \in Numbers
          /\ n = 0 => D1 = D /\ B1 = B
          /\ n # 0 => D = Leading(n, D1) /\ B1 = Trailing(B, n)
      BY <1>3, AsyncSendMoves DEF Leading, Trailing
    <2> HIDE DEF P, A, B, D, E, P1, A1, B1, D1, E1, n
    <2>3. Flow(P, A, B, Leading(n, D1), e) = Flow(P, A, Trailing(B, n), D1, e)
      <3>1. P \in Rows /\ A \in Rows /\ B \in Rows /\ D1 \in Rows /\ e \in Rows /\ n \in Numbers
        BY <1>t, <1>u, <2>2
      <3> QED BY <3>1, FlowEntered
    <2> QED BY <1>1, <2>1, <2>2, <2>3
  <1>4. CASE HandleSend
    <2>1. P1 = P
      BY <1>4 DEF HandleSend, worldVars, historyVars
    <2>2. D1 = D
      <3>1. ioq # <<>> /\ Head(ioq).fn = "send_ok" /\ ioq' = Tail(ioq) /\ ioq \in Seq(Calls(IoHandlers))
        BY <1>4 DEF HandleSend, IoRuns, TypeOK
      <3>2. Posted(ioq) = IF Head(ioq).fn # "async_send" \/ Head(ioq).n = 0 THEN Posted(Tail(ioq))
                          ELSE <<Head(ioq).n>> \o Posted(Tail(ioq))
        BY <3>1, PostedQueue
      <3> QED BY <3>1, <3>2
    <2> DEFINE n == Head(send_entries)
    <2>3. /\ n \in Numbers /\ E1 = E
          /\ n = 0 => A1 = A /\ B1 = B
          /\ n # 0 => A1 = Trailing(A, n) /\ B = Leading(n, B1)
      BY <1>4, HandleSendMoves DEF Leading, Trailing
    <2> HIDE DEF P, A, B, D, E, P1, A1, B1, D1, E1, n
    <2>4. Flow(P, A, Leading(n, B1), D, e) = Flow(P, Trailing(A, n), B1, D, e)
      <3>1. P \in Rows /\ A \in Rows /\ B1 \in Rows /\ D \in Rows /\ e \in Rows /\ n \in Numbers
        BY <1>t, <1>u, <2>3
      <3> QED BY <3>1, FlowSent
    <2> QED BY <1>1, <2>1, <2>2, <2>3, <2>4
  <1>5. CASE ~Callback /\ ~AsyncSend /\ ~HandleSend
    <2>1. A1 = A /\ E1 = E
      BY <1>5, DqUnmoved DEF NumberedNames, Moving
    <2>2. D1 = D
      BY <1>5, IoUnmoved
    <2>3. B1 = B
      BY <1>5, EntriesStep
    <2>4. P1 = P
      BY <1>5, OthersUnmoved
    <2> QED BY <1>1, <2>1, <2>2, <2>3, <2>4
  <1> QED BY <1>2, <1>3, <1>4, <1>5

\* Every datagram stays on its way, in its place, as long as the client and
\* client_impl exist.
LEMMA PipelineStep ==
    ASSUME TypeOK, TypeOK', DqInv, DqInv', FlightInv, OrderInv, Pipeline, [Next]_vars
    PROVE  Pipeline'
  <1> DEFINE P == processed
             A == Carried(dq, "impl_processed")
             B == Kept(send_entries, Datagrams)
             D == Posted(ioq)
             E == Carried(dq, "send")
             P1 == processed'
             A1 == Carried(dq', "impl_processed")
             B1 == Kept(send_entries', Datagrams)
             D1 == Posted(ioq')
             E1 == Carried(dq', "send")
  <1>t. P \in Rows /\ A \in Rows /\ B \in Rows /\ D \in Rows /\ E \in Rows /\ accepted \in Nat
    <2>1. /\ processed \in Seq(1..MaxSends) /\ dq \in Seq(Everything) /\ send_entries \in Seq(0..MaxSends)
          /\ ioq \in Seq(Calls(IoHandlers)) /\ accepted \in Nat
      BY ClientBounds DEF TypeOK, DqInv
    <2> QED BY <2>1, FlowTypes DEF Rows
  <1>u. E1 \in Rows
    <2>1. dq' \in Seq(Everything)
      BY DEF DqInv
    <2> QED BY <2>1, DqCarried DEF Rows
  <1>n. \A n \in 1..MaxSends : n \in Numbers
    BY ClientBounds DEF Numbers
  <1>1. SUFFICES ASSUME attached', client_impl'
                 PROVE  Flow(P1, A1, B1, D1, E1) = Upto(accepted')
    BY PipelineFlow
  <1>2. attached /\ client_impl /\ ~Joined /\ ~Destroy
    <2>1. ~Joined /\ ~Destroy
      BY <1>1 DEF Joined, Destroy
    <2> QED BY <1>1, <2>1, OthersUnmoved
  <1>3. Flow(P, A, B, D, E) = Upto(accepted)
    BY <1>2, PipelineFlow
  <1>4. CASE Send
    <2>1. P1 = P /\ B1 = B /\ accepted' = accepted
      BY <1>4 DEF Send, implRest, worldVars, historyVars
    <2> DEFINE n == Head(dq).n
    <2>2. n \in Numbers /\ E = Leading(n, E1) /\ A1 = A /\ D1 = Trailing(D, n)
      BY <1>4, <1>2, <1>n, SendMoves DEF Leading, Trailing
    <2> HIDE DEF P, A, B, D, E, P1, A1, B1, D1, E1, n
    <2>3. Flow(P, A, B, D, Leading(n, E1)) = Flow(P, A, B, Trailing(D, n), E1)
      <3>1. P \in Rows /\ A \in Rows /\ B \in Rows /\ D \in Rows /\ E1 \in Rows /\ n \in Numbers
        BY <1>t, <1>u, <2>2
      <3> QED BY <3>1, FlowPosted
    <2> QED BY <1>3, <2>1, <2>2, <2>3
  <1>5. CASE RequestSend
    <2>1. P1 = P /\ B1 = B /\ D1 = D
      BY <1>5 DEF RequestSend, implRest
    <2> DEFINE n == accepted + 1
    <2>2. accepted' = n /\ n \in Numbers /\ E1 = Trailing(E, n) /\ A1 = A
      BY <1>5, RequestMoves DEF Trailing
    <2> HIDE DEF P, A, B, D, E, P1, A1, B1, D1, E1
    <2>3. Flow(P, A, B, D, E1) = Append(Flow(P, A, B, D, E), n) /\ Flow(P, A, B, D, E) \in Rows
      BY <1>t, <2>2, FlowAdded DEF Rows
    <2>4. Append(Flow(P, A, B, D, E), n) = Upto(n)
      <3> DEFINE F == Flow(P, A, B, D, E)
      <3>1. F \in Rows /\ F = Upto(accepted)
        BY <1>3, <2>3
      <3> HIDE DEF F
      <3>2. Append(F, accepted + 1) = Upto(accepted + 1)
        BY <1>t, <3>1, AddNext DEF Rows
      <3> QED BY <3>2 DEF F
    <2> QED BY <2>1, <2>2, <2>3, <2>4
  <1>6. CASE ~Send /\ ~RequestSend
    <2>1. E \in Seq(Numbers)
      BY <1>t DEF Rows
    <2> HIDE DEF E
    <2>2. Flow(P1, A1, B1, D1, E) = Flow(P, A, B, D, E) /\ E1 = Carried(dq, "send") /\ accepted' = accepted
      BY <1>2, <1>6, <2>1, FlowStep
    <2> QED BY <1>3, <2>2 DEF E
  <1> QED BY <1>4, <1>5, <1>6

\* What the io thread was given stays in order without the client, too.
LEMMA DetachedStep ==
    ASSUME TypeOK, TypeOK', DqInv, DqInv', FlightInv, DestroyInv, OrderInv, Pipeline, DetachedFlow,
           [Next]_vars
    PROVE  DetachedFlow'
  <1> DEFINE G(p, q, s, io, e) ==
               Flow(p, Carried(q, "impl_processed"), Kept(s, Datagrams), Posted(io), e)
  <1>1. /\ DetachedFlow <=>
             (~attached /\ client_impl =>
                \E e \in Seq(Numbers) : G(processed, dq, send_entries, ioq, e) = Upto(accepted))
        /\ DetachedFlow' <=>
             (~attached' /\ client_impl' =>
                \E e \in Seq(Numbers) : G(processed', dq', send_entries', ioq', e) = Upto(accepted'))
    BY Zenon DEF DetachedFlow, Flow, Upto, Posted, Carried, Kept
  <1>2. SUFFICES ASSUME ~attached', client_impl'
                 PROVE  \E e \in Seq(Numbers) : G(processed', dq', send_entries', ioq', e) = Upto(accepted')
    BY <1>1
  <1>3. client_impl /\ ~Joined
    <2>1. ~Joined
      BY <1>2 DEF Joined
    <2> QED BY <1>2, <2>1, OthersUnmoved
  <1>4. CASE Destroy
    <2>1. UNCHANGED <<processed, send_entries, ioq, accepted>>
      BY <1>4 DEF Destroy, implRest, worldVars, historyVars
    <2>2. dq' = Kept(dq, Calls(ImplFunctions)) /\ dq \in Seq(Everything) /\ attached
      BY <1>4 DEF Destroy, WithoutClientFunctions, DqInv
    <2>3. Carried(dq', "impl_processed") = Carried(dq, "impl_processed")
      BY <2>2, CarriedKept DEF ImplFunctions
    <2>4. Carried(dq, "send") \in Seq(Numbers)
      BY <2>2, DqCarried
    <2>5. G(processed, dq, send_entries, ioq, Carried(dq, "send")) = Upto(accepted)
      BY <1>3, <2>2, PipelineFlow
    <2> QED BY <2>1, <2>3, <2>4, <2>5
  <1>5. CASE ~Destroy
    <2>1. ~attached
      BY <1>2, <1>5, OthersUnmoved
    <2>2. ~RequestSend
      BY <2>1 DEF RequestSend
    <2>3. ~Send
      <3>1. ASSUME Runs("send") PROVE FALSE
        <4>1. ~joining /\ dq # <<>> /\ Head(dq).fn = "send"
          BY <3>1 DEF Runs
        <4>2. dq \in Seq(Calls(ImplFunctions)) => Head(dq) \in Calls(ImplFunctions)
          BY <4>1
        <4>3. dq \notin Seq(Calls(ImplFunctions))
          BY <4>1, <4>2, CallElements DEF ImplFunctions
        <4>4. Head(dq) = Fn("stop")
          BY <2>1, <4>1, <4>3 DEF DestroyInv
        <4> QED BY <4>1, <4>4, Elements
      <3> QED BY <3>1 DEF Send
    <2>4. PICK e \in Seq(Numbers) : G(processed, dq, send_entries, ioq, e) = Upto(accepted)
      BY <1>1, <1>3, <2>1
    <2>5. G(processed', dq', send_entries', ioq', e) = G(processed, dq, send_entries, ioq, e)
            /\ accepted' = accepted
      BY <1>3, <1>5, <2>2, <2>3, FlowStep
    <2> HIDE DEF G
    <2> QED BY <2>4, <2>5
  <1> QED BY <1>4, <1>5

\* The datagrams once client_impl is gone: their callbacks called, enqueued, to come.
Line(p, q, e) == (p \o q) \o e

\* A callback is enqueued, ...
LEMMA LineSent ==
    ASSUME NEW p \in Seq(Numbers), NEW q \in Seq(Numbers), NEW e \in Seq(Numbers), NEW n \in Numbers
    PROVE  Line(p, q, Leading(n, e)) = Line(p, Trailing(q, n), e)
  <1> DEFINE pq == p \o q
  <1>1. pq \in Seq(Numbers) /\ p \o Append(q, n) = Append(pq, n)
    BY MovesBack
  <1> HIDE DEF pq
  <1>2. Append(pq, n) \o e = pq \o (<<n>> \o e)
    BY <1>1, MovesBack
  <1> QED BY <1>1, <1>2 DEF Line, Leading, Trailing, pq

\* ... a callback is called, ...
LEMMA LineCalled ==
    ASSUME NEW p \in Seq(Numbers), NEW q \in Seq(Numbers), NEW e \in Seq(Numbers), NEW n \in Numbers
    PROVE  Line(p, Leading(n, q), e) = Line(Trailing(p, n), q, e)
  <1>1. Append(p, n) \o q = p \o (<<n>> \o q)
    BY MovesBack
  <1> QED BY <1>1 DEF Line, Leading, Trailing

\* ... and a datagram comes.
LEMMA LineAdded ==
    ASSUME NEW p \in Seq(Numbers), NEW q \in Seq(Numbers), NEW e \in Seq(Numbers), NEW n \in Numbers
    PROVE  Line(p, q, e) \in Seq(Numbers) /\ Line(p, q, Trailing(e, n)) = Append(Line(p, q, e), n)
  <1> DEFINE pq == p \o q
  <1>1. pq \in Seq(Numbers)
    OBVIOUS
  <1> HIDE DEF pq
  <1>2. pq \o e \in Seq(Numbers) /\ pq \o Append(e, n) = Append(pq \o e, n)
    BY <1>1, MovesBack
  <1> QED BY <1>2 DEF Line, Trailing, pq

\* Parts may be joined from either end.
LEMMA Regroup ==
    ASSUME NEW a \in Seq(Numbers), NEW b \in Seq(Numbers), NEW c \in Seq(Numbers)
    PROVE  (a \o b) \o c = a \o (b \o c) /\ b \o c \in Seq(Numbers)
  BY ConcatAssociative

\* w is x and then y.
Joins(w, x, y) == w = x \o y

\* Regroup, for parts with names.
LEMMA JoinsRegroup ==
    ASSUME NEW p \in Seq(Numbers), NEW a \in Seq(Numbers), NEW b \in Seq(Numbers),
           NEW pa, NEW ab, NEW w, Joins(pa, p, a), Joins(ab, a, b), Joins(w, pa, b)
    PROVE  Joins(w, p, ab) /\ ab \in Seq(Numbers)
  BY Regroup DEF Joins

\* What was given to client_impl is dropped with it; the rest is still in order.
LEMMA FlowDropped ==
    ASSUME NEW p \in Seq(Numbers), NEW a \in Seq(Numbers), NEW b \in Seq(Numbers), NEW d \in Seq(Numbers),
           NEW e \in Seq(Numbers), NEW m \in Nat, Flow(p, a, b, d, e) = Upto(m)
    PROVE  Increasing(Line(p, <<>>, e), m)
  <1> DEFINE ab == a \o b
             abd == ab \o d
             pa == p \o a
             pab == pa \o b
             pabd == pab \o d
  <1>1. Joins(pa, p, a) /\ Joins(ab, a, b) /\ Joins(pab, pa, b)
    BY DEF Joins
  <1>a. Joins(abd, ab, d) /\ Joins(pabd, pab, d)
    BY DEF Joins
  <1>2. pabd \o e = Upto(m)
    BY DEF Flow
  <1> HIDE DEF ab, abd, pa, pab, pabd
  <1>3. Joins(pab, p, ab) /\ ab \in Seq(Numbers)
    BY <1>1, JoinsRegroup, SMTT(30)
  <1>4. Joins(pabd, p, abd) /\ abd \in Seq(Numbers)
    BY <1>a, <1>3, JoinsRegroup
  <1>5. (p \o abd) \o e = Upto(m)
    BY <1>2, <1>4 DEF Joins
  <1>6. Increasing(p \o e, m)
    BY <1>4, <1>5, UptoParts
  <1>7. p \o <<>> = p
    OBVIOUS
  <1> QED BY <1>6, <1>7 DEF Line

\* The callbacks called come first.
LEMMA LineFirst ==
    ASSUME NEW p \in Seq(Numbers), NEW q \in Seq(Numbers), NEW e \in Seq(Numbers), NEW m,
           Increasing(Line(p, q, e), m)
    PROVE  \A i, j \in DOMAIN p : i < j => p[i] < p[j]
  <1> DEFINE qe == q \o e
  <1>1. qe \in Seq(Numbers)
    OBVIOUS
  <1>2. (p \o q) \o e = p \o qe
    BY Regroup
  <1> HIDE DEF qe
  <1>3. Increasing(p \o qe, m)
    BY <1>2 DEF Line
  <1> QED BY <1>1, <1>3, IncreasingFirst

\* While client_impl exists no callback is enqueued past it.
LEMMA NoneElsewhereStep ==
    ASSUME TypeOK, DqInv, DqInv', FlightInv, OrderInv, [Next]_vars, client_impl'
    PROVE  Carried(dq', "processed") = <<>>
  <1> DEFINE Q == Carried(dq, "processed")
             Q1 == Carried(dq', "processed")
  <1>1. client_impl /\ ~Joined
    <2>1. ~Joined
      BY DEF Joined
    <2> QED BY <2>1, OthersUnmoved
  <1>2. Q = <<>>
    BY <1>1 DEF OrderInv
  <1>3. CASE Send
    BY <1>1, <1>2, <1>3, SendMoves
  <1>4. CASE Callback
    <2>1. ASSUME Runs("processed") PROVE FALSE
      <3>1. Q = <<Head(dq).n>> \o Q1 /\ Head(dq).n \in 1..MaxSends
        BY <1>4, <2>1, CallbackMoves
      <3>2. Q1 \in Seq(Numbers)
        BY DqCarried DEF DqInv
      <3>a. Head(dq).n \in Numbers
        BY <3>1, ClientBounds DEF Numbers
      <3>3. \A n, s : n \in Numbers /\ s \in Seq(Numbers) => <<n>> \o s # <<>>
        OBVIOUS
      <3> QED BY <1>2, <3>1, <3>2, <3>a, <3>3
    <2>2. Runs("impl_processed")
      BY <1>4, <2>1, CallbackMoves
    <2>3. Q1 = Q
      BY <1>4, <2>2, CallbackMoves
    <2> QED BY <1>2, <2>3
  <1>5. CASE HandleSend
    BY <1>2, <1>5, HandleSendMoves
  <1>6. CASE RequestSend
    BY <1>2, <1>6, RequestMoves
  <1>7. CASE Destroy
    <2>1. dq' = Kept(dq, Calls(ImplFunctions)) /\ dq \in Seq(Everything)
      BY <1>7 DEF Destroy, WithoutClientFunctions, DqInv
    <2> QED BY <2>1, CarriedKept DEF ImplFunctions
  <1>8. CASE ~Moving
    BY <1>2, <1>8, DqUnmoved DEF NumberedNames
  <1> QED BY <1>1, <1>3, <1>4, <1>5, <1>6, <1>7, <1>8 DEF Moving

\* The sends go on in order without client_impl.
LEMMA OrderStep ==
    ASSUME TypeOK, TypeOK', DqInv, DqInv', FlightInv, JoinInv, GoneInv, Pipeline, OrderInv, [Next]_vars
    PROVE  OrderInv'
  <1> DEFINE P == processed
             Q == Carried(dq, "processed")
             E == Carried(dq, "send")
             P1 == processed'
             Q1 == Carried(dq', "processed")
             E1 == Carried(dq', "send")
             S == Seq(Numbers)
  <1>o. /\ OrderInv <=> /\ client_impl => Q = <<>>
                        /\ attached /\ ~client_impl => Increasing(Line(P, Q, E), accepted)
        /\ OrderInv' <=> /\ client_impl' => Q1 = <<>>
                         /\ attached' /\ ~client_impl' => Increasing(Line(P1, Q1, E1), accepted')
    BY Zenon DEF OrderInv, Line, Increasing, Carried, Kept
  <1>t. /\ P \in S /\ Q \in S /\ E \in S /\ accepted \in Nat
        /\ Carried(dq, "impl_processed") \in S /\ Kept(send_entries, Datagrams) \in S /\ Posted(ioq) \in S
    <2>1. /\ processed \in Seq(1..MaxSends) /\ dq \in Seq(Everything) /\ send_entries \in Seq(0..MaxSends)
          /\ ioq \in Seq(Calls(IoHandlers)) /\ accepted \in Nat
      BY ClientBounds DEF TypeOK, DqInv
    <2> QED BY <2>1, FlowTypes
  <1>u. P1 \in S /\ Q1 \in S /\ E1 \in S
    <2>1. /\ processed' \in Seq(1..MaxSends) /\ dq' \in Seq(Everything) /\ send_entries' \in Seq(0..MaxSends)
          /\ ioq' \in Seq(Calls(IoHandlers))
      BY DEF TypeOK, DqInv
    <2> QED BY <2>1, FlowTypes
  <1>n. \A n \in 1..MaxSends : n \in Numbers
    BY ClientBounds DEF Numbers
  <1>1. client_impl' => Q1 = <<>>
    BY NoneElsewhereStep
  <1>2. SUFFICES ASSUME attached', ~client_impl' PROVE Increasing(Line(P1, Q1, E1), accepted')
    BY <1>1, <1>o
  <1>3. ~Destroy /\ attached
    <2>1. ~Destroy
      BY <1>2 DEF Destroy
    <2> QED BY <1>2, <2>1, OthersUnmoved
  <1>4. CASE Joined
    <2>1. client_impl
      BY <1>4 DEF Joined, JoinInv
    <2>2. P1 = P /\ accepted' = accepted /\ dq' = Kept(dq, Calls(ClientFunctions))
      BY <1>4 DEF Joined, worldVars, historyVars, WithoutImplFunctions
    <2>3. Q = <<>>
      BY <1>o, <2>1
    <2>4. Q1 = Q /\ E1 = E
      <3>1. "processed" \in ClientFunctions /\ "send" \in ClientFunctions /\ dq \in Seq(Everything)
        BY DEF ClientFunctions, DqInv
      <3> QED BY <2>2, <3>1, CarriedKept
    <2>5. Flow(P, Carried(dq, "impl_processed"), Kept(send_entries, Datagrams), Posted(ioq), E)
            = Upto(accepted)
      BY <1>3, <2>1, PipelineFlow
    <2>6. Increasing(Line(P, <<>>, E), accepted)
      BY <1>t, <2>5, FlowDropped
    <2> QED BY <2>2, <2>3, <2>4, <2>6
  <1>5. SUFFICES ASSUME ~Joined PROVE Increasing(Line(P1, Q1, E1), accepted')
    BY <1>4
  <1>6. ~client_impl /\ Increasing(Line(P, Q, E), accepted)
    <2>1. ~client_impl
      BY <1>2, <1>5, OthersUnmoved
    <2> QED BY <1>3, <1>o, <2>1
  <1>7. CASE Send
    <2>1. P1 = P /\ accepted' = accepted
      BY <1>7 DEF Send, worldVars, historyVars
    <2>2. Head(dq).n \in Numbers /\ E = Leading(Head(dq).n, E1) /\ Q1 = Trailing(Q, Head(dq).n)
      BY <1>3, <1>6, <1>7, <1>n, SendMoves DEF Leading, Trailing
    <2> HIDE DEF P, Q, E, P1, Q1, E1
    <2>3. Line(P, Q, E) = Line(P, Q1, E1)
      BY <1>t, <1>u, <2>2, LineSent
    <2> QED BY <1>6, <2>1, <2>3
  <1>8. CASE Callback
    <2>1. accepted' = accepted
      BY <1>8 DEF Callback, Report
    <2>2. Head(dq).n \in Numbers /\ P1 = Trailing(P, Head(dq).n)
      BY <1>8, <1>n, CallbackMoves DEF Trailing
    <2>3. Runs("processed")
      <3>1. dq \in Seq(Calls(ClientFunctions))
        BY <1>6 DEF GoneInv
      <3>2. dq # <<>> => Head(dq).fn \notin ImplFunctions
        BY <3>1, ClientQueue
      <3>3. ~Runs("impl_processed")
        BY <3>2 DEF Runs, ImplFunctions
      <3> QED BY <1>8, <3>3, CallbackMoves
    <2>4. Q = Leading(Head(dq).n, Q1) /\ E1 = E
      BY <1>8, <2>3, CallbackMoves DEF Leading
    <2> HIDE DEF P, Q, E, P1, Q1, E1
    <2>5. Line(P, Q, E) = Line(P1, Q1, E)
      BY <1>t, <1>u, <2>2, <2>4, LineCalled
    <2> QED BY <1>6, <2>1, <2>4, <2>5
  <1>9. CASE HandleSend
    BY <1>6, <1>9 DEF HandleSend, IoRuns, GoneInv
  <1>10. CASE RequestSend
    <2>1. P1 = P
      BY <1>10 DEF RequestSend
    <2> DEFINE n == accepted + 1
    <2>2. accepted' = n /\ n \in Numbers /\ E1 = Trailing(E, n) /\ Q1 = Q
      BY <1>10, RequestMoves DEF Trailing
    <2> HIDE DEF P, Q, E, P1, Q1, E1
    <2> DEFINE L == Line(P, Q, E)
    <2>3. Line(P, Q, E1) = Append(L, n) /\ L \in S
      BY <1>t, <2>2, LineAdded
    <2>4. Increasing(L, accepted)
      BY <1>6
    <2> HIDE DEF L
    <2>5. Increasing(Append(L, accepted + 1), accepted + 1)
      BY <1>t, <2>3, <2>4, AddNext
    <2> QED BY <2>1, <2>2, <2>3, <2>5
  <1>11. CASE ~Send /\ ~Callback /\ ~HandleSend /\ ~RequestSend
    <2>1. Q1 = Q /\ E1 = E
      BY <1>3, <1>5, <1>11, DqUnmoved DEF NumberedNames, Moving
    <2>2. P1 = P /\ accepted' = accepted
      BY <1>11, OthersUnmoved
    <2> QED BY <1>6, <2>1, <2>2
  <1> QED BY <1>7, <1>8, <1>9, <1>10, <1>11

\* The callbacks come in order.
LEMMA CallbackStep ==
    ASSUME TypeOK', DqInv, DqInv', GoneInv, DestroyInv, Pipeline', DetachedFlow', OrderInv',
           ProcessedInOrder, [Next]_vars
    PROVE  ProcessedInOrder'
  <1> DEFINE P1 == processed'
             Q1 == Carried(dq', "processed")
             E1 == Carried(dq', "send")
             A1 == Carried(dq', "impl_processed")
             B1 == Kept(send_entries', Datagrams)
             D1 == Posted(ioq')
             S == Seq(Numbers)
  <1>u. P1 \in S /\ Q1 \in S /\ E1 \in S /\ A1 \in S /\ B1 \in S /\ D1 \in S /\ accepted' \in Nat
    <2>1. /\ processed' \in Seq(1..MaxSends) /\ dq' \in Seq(Everything) /\ send_entries' \in Seq(0..MaxSends)
          /\ ioq' \in Seq(Calls(IoHandlers)) /\ accepted' \in Nat
      BY ClientBounds DEF TypeOK, DqInv
    <2> QED BY <2>1, FlowTypes
  <1>s. (\A i, j \in DOMAIN P1 : i < j => P1[i] < P1[j]) => ProcessedInOrder'
    BY DEF ProcessedInOrder
  <1>1. CASE attached' /\ client_impl'
    <2>1. Flow(P1, A1, B1, D1, E1) = Upto(accepted')
      BY <1>1, PipelineFlow
    <2> HIDE DEF P1, Q1, A1, B1, D1, E1
    <2>2. Increasing(Line(P1, <<>>, E1), accepted')
      BY <1>u, <2>1, FlowDropped
    <2>3. <<>> \in S
      OBVIOUS
    <2> QED BY <1>s, <1>u, <2>2, <2>3, LineFirst
  <1>2. CASE attached' /\ ~client_impl'
    <2>1. Increasing(Line(P1, Q1, E1), accepted')
      BY <1>2, Zenon DEF OrderInv, Line, Increasing, Carried, Kept
    <2> HIDE DEF P1, Q1, A1, B1, D1, E1
    <2> QED BY <1>s, <1>u, <2>1, LineFirst
  <1>3. CASE ~attached' /\ client_impl'
    <2>1. PICK e \in S : Flow(P1, A1, B1, D1, e) = Upto(accepted')
      BY <1>3, Zenon DEF DetachedFlow, Flow, Upto, Posted, Carried, Kept
    <2> HIDE DEF P1, Q1, A1, B1, D1, E1
    <2>2. Increasing(Line(P1, <<>>, e), accepted')
      BY <1>u, <2>1, FlowDropped
    <2>3. <<>> \in S
      OBVIOUS
    <2> QED BY <1>s, <1>u, <2>2, <2>3, LineFirst
  <1>4. CASE ~attached' /\ ~client_impl'
    <2>1. ~Callback
      <3> SUFFICES ASSUME Callback PROVE FALSE
        OBVIOUS
      <3>1. ~attached /\ ~client_impl
        BY <1>4 DEF Callback, Report, modeVars, implRest
      <3>2. \E f \in {"processed", "impl_processed"} : ~joining /\ dq # <<>> /\ Head(dq).fn = f
        BY DEF Callback, Runs
      <3>3. dq \notin Seq(Calls(ImplFunctions))
        BY <3>1, <3>2, ClientQueue DEF GoneInv
      <3>4. Head(dq) = Fn("stop")
        BY <3>1, <3>2, <3>3 DEF DestroyInv
      <3> QED BY <3>2, <3>4, Elements
    <2>2. processed' = processed
      BY <2>1, OthersUnmoved
    <2> QED BY <2>2 DEF ProcessedInOrder
  <1> QED BY <1>1, <1>2, <1>3, <1>4

-------------------------------------------------------------------------------
(* Theorems *)

\* The inductive invariant holds in every reachable state.
LEMMA InvariantHolds == Spec => []ClientInv
  <1>1. Init => ClientInv
    <2> SUFFICES ASSUME Init PROVE ClientInv OBVIOUS
    <2> DEFINE c == Fn("connect")
    <2>c. c \in Everything /\ c.fn = "connect" /\ "connect" \notin NumberedNames
      BY Elements, SomeNames
    <2>d. dq = <<c>> /\ dq = Append(<<>>, c) /\ <<>> \in Seq(Everything)
      BY DEF Init
    <2>1. DqInv
      BY <2>c, <2>d DEF DqInv
    <2>2. TypeOK
      <3>1. /\ attached \in BOOLEAN /\ detaching \in BOOLEAN
            /\ reconnect_interval \in BOOLEAN /\ joining \in BOOLEAN
            /\ ticking \in BOOLEAN /\ client_impl \in BOOLEAN /\ socket \in BOOLEAN
            /\ socket_ready \in BOOLEAN /\ checking \in BOOLEAN /\ server \in BOOLEAN
        BY Zenon DEF Init
      <3>2. dq \in Seq(Calls(ImplFunctions \union ClientFunctions))
        BY <2>1, Elements, SeqMonotonic DEF DqInv, Names
      <3>3. accepted \in 0..MaxSends /\ events \in 0..MaxEvents /\ delayed \in Nat
        BY ClientBounds DEF Init
      <3>4. /\ ioq \in Seq(Calls(IoHandlers)) /\ send_entries \in Seq(0..MaxSends)
            /\ processed \in Seq(1..MaxSends)
        BY DEF Init
      <3>5. /\ peer \in {"none", "live", "dead"} /\ file \in {"absent", "ours", "stale"}
            /\ check_client \in {"none", "connecting", "done"} /\ reported \in {"connected", "closed"}
        BY DEF Init
      <3> QED BY <3>1, <3>2, <3>3, <3>4, <3>5 DEF TypeOK
    <2>3. JoinInv /\ GoneInv /\ DestroyInv /\ DetachedFlow
      BY DEF Init, JoinInv, GoneInv, DestroyInv, DetachedFlow
    <2>4. FlightInv
      <3>1. DOMAIN ioq = {}
        BY DEF Init
      <3> QED BY <3>1 DEF FlightInv, OneResult, NoResult
    <2>5. \A f \in NumberedNames : Carried(dq, f) = <<>>
      <3>1. Carried(<<>>, "send") = <<>> /\ \A f : Carried(<<>>, f) = <<>>
        BY KeptEmpty, CarriedNumbers
      <3>2. \A f \in NumberedNames : Carried(Append(<<>>, c), f) = Carried(<<>>, f)
        BY <2>c, <2>d, DqAppended
      <3> QED BY <2>d, <3>1, <3>2
    <2>6. HappenedInv
      <3> DEFINE r == Fn("closed")
      <3>1. r \in Reports /\ Fn(reported) = r
        BY ReportNames DEF Init
      <3>2. c \notin Reports \union Reported
        BY <2>c, ReportNames
      <3>3. Kept(<<>>, Reports) = <<>> /\ Kept(<<>>, Reported) = <<>>
        BY KeptEmpty
      <3>4. Happened(r, Append(<<>>, c)) = Happened(r, <<>>)
        BY <2>c, <2>d, <3>1, <3>2, QuietFunction
      <3>5. Happened(r, <<>>) = <<r>>
        <4>1. Happened(r, <<>>) = (<<r>> \o <<>>) \o <<>>
          BY <3>3 DEF Happened
        <4> HIDE DEF r
        <4> QED BY <4>1
      <3> HIDE DEF r
      <3>6. Len(<<r>>) = 1 /\ \A i \in 1..1 : ~(i > 1)
        OBVIOUS
      <3>7. Alternates(<<r>>, FALSE)
        BY <3>6 DEF Alternates
      <3>8. (client_impl /\ socket_ready) = FALSE
        BY DEF Init
      <3> QED BY <2>d, <3>1, <3>4, <3>5, <3>7, <3>8 DEF HappenedInv
    <2>7. Pipeline
      <3>1. Carried(dq, "impl_processed") = <<>> /\ Carried(dq, "send") = <<>>
        BY <2>5 DEF NumberedNames
      <3>2. Kept(send_entries, Datagrams) = <<>> /\ Posted(ioq) = <<>> /\ processed = <<>> /\ accepted = 0
        BY KeptEmpty, CarriedNumbers DEF Init, Posted
      <3>3. Flow(<<>>, <<>>, <<>>, <<>>, <<>>) = <<>>
        BY DEF Flow
      <3>4. Upto(0) = <<>>
        BY DEF Upto
      <3> QED BY <3>1, <3>2, <3>3, <3>4, PipelineFlow
    <2>8. OrderInv
      <3>1. Carried(dq, "processed") = <<>> /\ client_impl = TRUE
        BY <2>5 DEF NumberedNames, Init
      <3> QED BY <3>1 DEF OrderInv
    <2>9. ProcessedInOrder
      <3>1. DOMAIN processed = {}
        BY DEF Init
      <3> QED BY <3>1 DEF ProcessedInOrder
    <2> QED BY <2>1, <2>2, <2>3, <2>4, <2>6, <2>7, <2>8, <2>9 DEF ClientInv
  <1>2. ClientInv /\ [Next]_vars => ClientInv'
    <2> SUFFICES ASSUME ClientInv, [Next]_vars PROVE ClientInv'
      OBVIOUS
    <2>1. /\ TypeOK /\ DqInv /\ JoinInv /\ GoneInv /\ FlightInv /\ DestroyInv /\ HappenedInv
          /\ Pipeline /\ DetachedFlow /\ OrderInv /\ ProcessedInOrder
      BY DEF ClientInv
    <2>2. DqInv'
      BY <2>1, DqStep
    <2>3. TypeOK'
      BY <2>1, <2>2, TypeStep
    <2>4. JoinInv' /\ GoneInv' /\ FlightInv' /\ DestroyInv' /\ HappenedInv'
      BY <2>1, JoinStep, GoneStep, FlightStep, DestroyStep, HappenedStep
    <2>5. Pipeline' /\ DetachedFlow' /\ OrderInv'
      BY <2>1, <2>2, <2>3, PipelineStep, DetachedStep, OrderStep
    <2>6. ProcessedInOrder'
      BY <2>1, <2>2, <2>3, <2>5, CallbackStep
    <2> QED BY <2>2, <2>3, <2>4, <2>5, <2>6 DEF ClientInv
  <1> QED BY <1>1, <1>2, PTL DEF Spec

\* Every variable of the client keeps its type, whatever the bounds on sends,
\* events and delayed functions are.
THEOREM TypeCorrect == Spec => []TypeOK
  <1>1. ClientInv => TypeOK
    BY DEF ClientInv
  <1> QED BY <1>1, InvariantHolds, PTL

\* As long as the client is not stopped every datagram given to async_send is in
\* exactly one place between the caller and its callback, and all are in order,
\* over any number of lost and regained connections (client.hpp:224-241,
\* base_impl.hpp:269-274, 419-431).
THEOREM DatagramsStayInOrder == Spec => []Pipeline
  <1>1. ClientInv => Pipeline
    BY DEF ClientInv
  <1> QED BY <1>1, InvariantHolds, PTL

\* The `processed` callbacks come in the order of the async_send calls and at
\* most once each, through stop() and the destructor too (client.hpp:233-238,
\* base_impl.hpp:425-429).
THEOREM CallbacksInOrder == Spec => []ProcessedInOrder
  <1>1. ClientInv => ProcessedInOrder
    BY DEF ClientInv
  <1> QED BY <1>1, InvariantHolds, PTL

\* The user hears of closed only after the connected it belongs to, through
\* signals, queued reports, reconnects and stop() (base_impl.hpp:152-166,
\* client_impl.hpp:146-148).
THEOREM ReportsAlternate == Spec => []ClosedFollowsConnected
  <1>1. ClientInv => ClosedFollowsConnected
    <2> SUFFICES ASSUME ClientInv, Runs("closed") PROVE reported = "connected"
      BY DEF ClosedFollowsConnected
    <2>1. DqInv /\ DestroyInv /\ HappenedInv /\ TypeOK
      BY DEF ClientInv
    <2>2. ~joining /\ dq # <<>> /\ Head(dq) = Fn("closed") /\ dq \in Seq(Everything)
      BY <2>1, NextFunction, SomeNames DEF DqInv
    <2>3. Fn("closed").fn = "closed" /\ Fn("stop").fn = "stop"
      BY Elements
    <2>a. dq \notin Seq(Calls(ImplFunctions))
      <3>1. dq \in Seq(Calls(ImplFunctions)) => Head(dq) \in Calls(ImplFunctions)
        BY <2>2
      <3> QED BY <2>2, <2>3, <3>1, CallElements DEF ImplFunctions
    <2>4. attached
      BY <2>1, <2>2, <2>3, <2>a DEF DestroyInv
    <2> DEFINE up == client_impl /\ socket_ready
    <2>5. Alternates(Happened(Fn(reported), dq), up) /\ up \in BOOLEAN
      BY <2>1, <2>4 DEF HappenedInv
    <2>6. Fn(reported) \in Reports /\ Fn("closed") \in Reports /\ Fn("closed") \in Downs
      BY <2>1, ReportNames DEF TypeOK
    <2> HIDE DEF up
    <2>7. Fn(reported) \in Ups
      BY <2>2, <2>5, <2>6, ReportMade
    <2>8. reported # "closed"
      BY <2>6, <2>7, ReportNames
    <2> QED BY <2>1, <2>8 DEF TypeOK
  <1> QED BY <1>1, InvariantHolds, PTL

\* When the destructor's stop() has been run and join() has returned, nothing of
\* the client and its client_impl is left in the dispatcher (client.hpp:107-111).
THEOREM DestructorIsQuiet == Spec => []DestroyedIsQuiet
  <1>1. ClientInv => DestroyedIsQuiet
    <2> SUFFICES ASSUME ClientInv, ~attached, ~detaching, ~joining, \A i \in DOMAIN dq : dq[i].fn # "stop"
                 PROVE  ~client_impl /\ dq = <<>> /\ delayed = 0 /\ ~ticking
      BY DEF DestroyedIsQuiet
    <2>1. DestroyInv /\ dq \in Seq(Everything)
      BY DEF ClientInv, DqInv
    <2>2. dq # <<>> => 1 \in DOMAIN dq /\ Head(dq) = dq[1]
      BY <2>1
    <2>3. Fn("stop").fn = "stop"
      BY Elements
    <2> QED BY <2>1, <2>2, <2>3 DEF DestroyInv
  <1> QED BY <1>1, InvariantHolds, PTL
===============================================================================
