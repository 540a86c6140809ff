-------------------------- MODULE PeerManagerProofs ---------------------------
(***************************************************************************)
(* Theorems about PeerManager for all sets of peers and any number of      *)
(* datagrams.                                                              *)
(***************************************************************************)
EXTENDS PeerManager, QueueLemmas, TLAPS

-------------------------------------------------------------------------------
(* The inductive invariant *)

Datagrams == 1..MaxSends
Clears == Calls({"clear"}, Peers, {0})
Enqueued == Calls(Signals \union {"send"}, Peers, Datagrams) \union Clears
Sends(ps) == Calls({"send"}, ps, Datagrams)

\* The functions that may be queued with these entries: no signal of a client
\* that is not there.
Present(es) ==
    {f \in Enqueued : f.fn \in Signals => f.peer \in DOMAIN es /\ es[f.peer].client = f.n}

PresentInv == dq \in Seq(Present(entries))

\* Every client was made for a datagram that is no longer in the dispatcher.
CreatedInv == created + Len(Kept(dq, Sends(Peers))) <= accepted

\* The numbers s increase, none is above m.
Increasing(s, m) ==
    /\ \A i, j \in DOMAIN s : i < j => s[i] < s[j]
    /\ \A i \in DOMAIN s : s[i] <= m

QueueOf(es, p) == IF p \in DOMAIN es THEN es[p].queue ELSE <<>>
NumbersOf(q) == [i \in DOMAIN q |-> q[i].n]

\* What was handed to the clients of p, waits in its entry, waits in the dispatcher
OrderInv ==
    \A p \in Peers :
        Increasing(handed[p] \o (QueueOf(entries, p) \o NumbersOf(Kept(dq, Sends({p})))), accepted)

PeerInv == TypeOK /\ PresentInv /\ CreatedInv /\ NothingStranded /\ OrderInv

-------------------------------------------------------------------------------
(* Sets of functions *)

\* How the sets of functions lie in each other.
LEMMA FunctionSets ==
    /\ Enqueued \subseteq PeerFunctions /\ Clears \subseteq Enqueued
    /\ Sends(Peers) \subseteq Enqueued
    /\ \A p \in Peers : Sends({p}) \subseteq Sends(Peers)
    /\ \A f \in Enqueued : f.fn # "clear" => /\ f.fn \in Signals \union {"send"}
                                             /\ f.peer \in Peers /\ f.n \in Datagrams
    /\ \A f \in Clears : f.fn = "clear"
    /\ \A f \in Sends(Peers) : f.fn = "send"
    /\ \A es : Present(es) \subseteq Enqueued
  <1> USE PeerManagerAssumption
  <1>1. Datagrams \subseteq 0..MaxSends /\ 0 \in 0..MaxSends
    BY DEF Datagrams
  <1>3. Enqueued \subseteq PeerFunctions /\ Clears \subseteq Enqueued
    BY <1>1 DEF Enqueued, Clears, Calls, PeerFunctions
  <1>4. Sends(Peers) \subseteq Enqueued /\ \A p \in Peers : Sends({p}) \subseteq Sends(Peers)
    BY DEF Sends, Enqueued, Calls
  <1>5. \A f \in Enqueued : f.fn # "clear" => /\ f.fn \in Signals \union {"send"}
                                             /\ f.peer \in Peers /\ f.n \in Datagrams
    BY DEF Enqueued, Clears, Calls
  <1>6. (\A f \in Clears : f.fn = "clear") /\ (\A f \in Sends(Peers) : f.fn = "send")
    BY DEF Clears, Sends, Calls
  <1>7. \A es : Present(es) \subseteq Enqueued
    BY DEF Present
  <1> QED BY <1>3, <1>4, <1>5, <1>6, <1>7

\* A function that is run is one of a client that is there, unless it clears all.
LEMMA RunOf ==
    ASSUME PresentInv, NEW f \in Signals \union {"send"}, Runs(f)
    PROVE  /\ dq # <<>> /\ dq \in Seq(Present(entries)) /\ dq \in Seq(Enqueued)
           /\ Head(dq) \in Present(entries) /\ Head(dq) \in Enqueued /\ Head(dq).fn = f
           /\ Tail(dq) \in Seq(Present(entries)) /\ Tail(dq) \in Seq(Enqueued)
           /\ Head(dq).peer \in Peers /\ Head(dq).n \in Datagrams
           /\ f \in Signals => /\ Head(dq).peer \in DOMAIN entries
                               /\ entries[Head(dq).peer].client = Head(dq).n
  <1> DEFINE P == Present(entries)
  <1>1. f # "clear"
    BY DEF Signals
  <1>2. dq # <<>> /\ Head(dq).fn = f /\ dq \in Seq(P)
    BY DEF PresentInv, Runs
  <1>p. P \subseteq Enqueued
    BY FunctionSets
  <1> HIDE DEF P
  <1>3. Head(dq) \in P /\ Tail(dq) \in Seq(P)
    BY <1>2
  <1>4. dq \in Seq(Enqueued) /\ Head(dq) \in Enqueued /\ Tail(dq) \in Seq(Enqueued)
    BY <1>p, <1>2, <1>3
  <1>5. Head(dq).peer \in Peers /\ Head(dq).n \in Datagrams
    BY <1>1, <1>2, <1>4, FunctionSets
  <1>6. f \in Signals => Head(dq).peer \in DOMAIN entries /\ entries[Head(dq).peer].client = Head(dq).n
    BY <1>2, <1>3 DEF P, Present
  <1> QED BY <1>2, <1>3, <1>4, <1>5, <1>6 DEF P

\* The queue as a whole.
LEMMA WholeQueue ==
    ASSUME PresentInv
    PROVE  dq \in Seq(Enqueued)
  <1> DEFINE P == Present(entries)
  <1>1. P \subseteq Enqueued /\ dq \in Seq(P)
    BY FunctionSets DEF PresentInv
  <1> HIDE DEF P
  <1> QED BY <1>1

-------------------------------------------------------------------------------
(* Entries *)

\* An entry with another queue is the same otherwise.
LEMMA QueueReplaced ==
    ASSUME NEW e \in Entries, NEW x \in Seq(Datagrams)
    PROVE  LET u == [e EXCEPT !.queue = x]
           IN  /\ u \in Entries /\ u.client = e.client /\ u.connected = e.connected
               /\ u.verified = e.verified /\ u.queue = x
  <1>1. x \in Seq(1..MaxSends)
    BY DEF Datagrams
  <1> QED BY <1>1 DEF Entries

\* What flush() makes of an entry.
LEMMA FlushEntry ==
    ASSUME NEW e \in Entries
    PROVE  /\ Flush(e) \in Entries /\ Flush(e).client = e.client
           /\ Flush(e).connected = e.connected /\ Flush(e).verified = e.verified
           /\ Flush(e).queue = IF e.connected THEN <<>> ELSE e.queue
  <1>q. e.queue \in Seq(Datagrams) /\ <<>> \in Seq(Datagrams)
    BY DEF Entries, Datagrams
  <1>1. CASE e.connected
    BY <1>q, <1>1, QueueReplaced DEF Flush
  <1>2. CASE ~e.connected
    BY <1>2 DEF Flush
  <1> QED BY <1>1, <1>2

\* What async_send() makes of an entry.
LEMMA EntrySteps ==
    ASSUME NEW e \in Entries, NEW n \in Datagrams
    PROVE  /\ WithDatagram(e, n) \in Entries /\ WithDatagram(e, n).client = e.client
           /\ WithDatagram(e, n).connected = e.connected
           /\ WithDatagram(e, n).verified = e.verified
           /\ WithDatagram(e, n).queue =
                IF e.connected THEN IF e.verified THEN <<>> ELSE <<n>> ELSE Append(e.queue, n)
  <1>q. e.queue \in Seq(Datagrams) /\ <<>> \in Seq(Datagrams)
    BY DEF Entries, Datagrams
  <1>1. /\ Flush(e) \in Entries /\ Flush(e).client = e.client
        /\ Flush(e).connected = e.connected /\ Flush(e).verified = e.verified
        /\ Flush(e).queue = IF e.connected THEN <<>> ELSE e.queue
    BY FlushEntry
  <1> DEFINE g == Flush(e)
             w == [g EXCEPT !.queue = Append(@, n)]
  <1>g. g \in Entries /\ g.queue \in Seq(Datagrams)
    BY <1>1, <1>q
  <1> HIDE DEF g
  <1>2. w \in Entries /\ w.client = g.client /\ w.connected = g.connected /\ w.verified = g.verified
        /\ w.queue = Append(g.queue, n)
    <2>1. Append(g.queue, n) \in Seq(Datagrams)
      BY <1>g
    <2>2. w = [g EXCEPT !.queue = Append(g.queue, n)]
      OBVIOUS
    <2> QED BY <1>g, <2>1, <2>2, QueueReplaced
  <1>3. Append(<<>>, n) = <<n>>
    OBVIOUS
  <1> HIDE DEF w
  <1>4. CASE e.connected /\ e.verified
    BY <1>1, <1>4 DEF WithDatagram
  <1>5. CASE ~(e.connected /\ e.verified)
    <2>1. WithDatagram(e, n) = w
      BY <1>5 DEF WithDatagram, w, g
    <2> QED BY <1>1, <1>2, <1>3, <1>5, <2>1 DEF g
  <1> QED BY <1>4, <1>5

\* What flush() hands over or drops.
LEMMA FlushTypes ==
    ASSUME NEW e \in Entries
    PROVE  Flushed(e) \in Seq(Datagrams) /\ FlushDrops(e) \subseteq Datagrams
  <1>1. e.queue \in Seq(Datagrams) /\ <<>> \in Seq(Datagrams)
    BY DEF Entries, Datagrams
  <1>2. Range(e.queue) \subseteq Datagrams
    BY <1>1, RangeOfSeq
  <1> QED BY <1>1, <1>2 DEF Flushed, FlushDrops

\* set_connected and set_verified of the slot of connected.
LEMMA ConnectedEntry ==
    ASSUME NEW e \in Entries, NEW v \in BOOLEAN
    PROVE  LET c == [e EXCEPT !.connected = TRUE, !.verified = v]
           IN  /\ c \in Entries /\ c.client = e.client /\ c.connected = TRUE /\ c.verified = v
               /\ c.queue = e.queue
  BY DEF Entries

-------------------------------------------------------------------------------
(* Increasing numbers *)

\* The numbers of a queue of functions.
LEMMA Numbers ==
    ASSUME NEW p, NEW q \in Seq(Sends(p)), NEW e \in Sends(p)
    PROVE  /\ NumbersOf(q) \in Seq(Datagrams)
           /\ NumbersOf(Append(q, e)) = Append(NumbersOf(q), e.n)
           /\ NumbersOf(<<e>> \o q) = <<e.n>> \o NumbersOf(q)
           /\ NumbersOf(<<>>) = <<>>
           /\ e.n \in Datagrams
  <1>1. \A f \in Sends(p) : f.n \in Datagrams
    BY DEF Sends, Calls
  <1>2. DOMAIN q = 1..Len(q) /\ Len(q) \in Nat /\ \A i \in 1..Len(q) : q[i] \in Sends(p)
    OBVIOUS
  <1>3. NumbersOf(q) \in Seq(Datagrams) /\ Len(NumbersOf(q)) = Len(q) /\ DOMAIN NumbersOf(q) = 1..Len(q)
        /\ \A i \in 1..Len(q) : NumbersOf(q)[i] = q[i].n
    BY <1>1, <1>2 DEF NumbersOf
  <1>4. NumbersOf(Append(q, e)) = Append(NumbersOf(q), e.n)
    <2> DEFINE r == Append(q, e)
               N == NumbersOf(q)
    <2>1. DOMAIN r = 1..(Len(q) + 1) /\ r[Len(q) + 1] = e /\ \A i \in 1..Len(q) : r[i] = q[i]
      OBVIOUS
    <2> HIDE DEF r, N
    <2>2. NumbersOf(r) = [i \in 1..(Len(q) + 1) |-> r[i].n]
      BY <2>1 DEF NumbersOf
    <2>3. Append(N, e.n) = [i \in 1..(Len(q) + 1) |-> IF i = Len(q) + 1 THEN e.n ELSE N[i]]
      BY <1>1, <1>3 DEF N
    <2>4. \A i \in 1..(Len(q) + 1) : r[i].n = IF i = Len(q) + 1 THEN e.n ELSE N[i]
      <3>1. \A i \in 1..(Len(q) + 1) : i = Len(q) + 1 \/ i \in 1..Len(q)
        BY <1>2
      <3> QED BY <1>3, <2>1, <3>1 DEF N
    <2> QED BY <2>2, <2>3, <2>4 DEF r, N
  <1>5. NumbersOf(<<e>> \o q) = <<e.n>> \o NumbersOf(q)
    <2> DEFINE r == <<e>> \o q
               N == NumbersOf(q)
               t == <<e.n>> \o N
    <2>1. DOMAIN r = 1..(Len(q) + 1) /\ r[1] = e /\ \A i \in 1..Len(q) : r[i + 1] = q[i]
      OBVIOUS
    <2>a. N \in Seq(Datagrams) /\ Len(N) = Len(q)
      BY <1>3
    <2> HIDE DEF r, N
    <2>2. t \in Seq(Datagrams) /\ DOMAIN t = 1..(Len(q) + 1) /\ t[1] = e.n
          /\ \A i \in 1..Len(q) : t[i + 1] = N[i]
      BY <1>1, <1>2, <2>a
    <2>3. NumbersOf(r) = [i \in 1..(Len(q) + 1) |-> r[i].n]
      BY <2>1 DEF NumbersOf
    <2> HIDE DEF t
    <2>4. \A i \in 1..(Len(q) + 1) : r[i].n = t[i]
      <3> TAKE i \in 1..(Len(q) + 1)
      <3>1. CASE i = 1
        BY <2>1, <2>2, <3>1
      <3>2. CASE i # 1
        <4>1. i - 1 \in 1..Len(q) /\ (i - 1) + 1 = i
          BY <1>2, <3>2
        <4>2. r[(i - 1) + 1] = q[i - 1] /\ t[(i - 1) + 1] = N[i - 1]
          BY <2>1, <2>2, <4>1
        <4>3. N[i - 1] = q[i - 1].n
          BY <1>3, <4>1 DEF N
        <4> QED BY <4>1, <4>2, <4>3
      <3> QED BY <3>1, <3>2
    <2>5. t = [i \in 1..(Len(q) + 1) |-> t[i]]
      BY <2>2
    <2> QED BY <2>3, <2>4, <2>5 DEF r, t, N
  <1>6. NumbersOf(<<>>) = <<>>
    BY DEF NumbersOf
  <1> QED BY <1>1, <1>3, <1>4, <1>5, <1>6

\* Leaving out numbers in the middle, or at the end, leaves increasing numbers.
LEMMA DropMiddle ==
    ASSUME NEW H \in Seq(Datagrams), NEW Q \in Seq(Datagrams), NEW N \in Seq(Datagrams), NEW m \in Nat,
           Increasing(H \o (Q \o N), m)
    PROVE  /\ Increasing(H \o (<<>> \o N), m)
           /\ Increasing(H \o (Q \o <<>>), m)
           /\ Increasing(H \o (<<>> \o <<>>), m)
  <1> DEFINE s == H \o (Q \o N)
             a == Len(H)
             b == Len(Q)
             c == Len(N)
             d == H \o N
  <1>1. a \in Nat /\ b \in Nat /\ c \in Nat /\ Len(s) = (a + b) + c /\ Len(d) = a + c
        /\ DOMAIN s = 1..((a + b) + c) /\ DOMAIN d = 1..(a + c)
    OBVIOUS
  <1>2. /\ \A i \in 1..a : s[i] = H[i] /\ d[i] = H[i]
        /\ \A i \in 1..c : s[(a + b) + i] = N[i] /\ d[a + i] = N[i]
    OBVIOUS
  <1>3. \A i \in 1..((a + b) + c) : s[i] \in Datagrams
    <2>1. s \in Seq(Datagrams)
      OBVIOUS
    <2> QED BY <1>1, <2>1
  <1>4. /\ \A i, j \in 1..((a + b) + c) : i < j => s[i] < s[j]
        /\ \A i \in 1..((a + b) + c) : s[i] <= m
    BY <1>1 DEF Increasing
  <1>e. H \o (<<>> \o N) = d /\ H \o (<<>> \o <<>>) = H /\ H \o (Q \o <<>>) = H \o Q
    OBVIOUS
  <1> DEFINE g(i) == IF i <= a THEN i ELSE i + b
  <1> HIDE DEF s, d, a, b, c
  <1>5. \A i \in 1..(a + c) : g(i) \in 1..((a + b) + c) /\ d[i] = s[g(i)]
    <2> TAKE i \in 1..(a + c)
    <2>1. CASE i <= a
      BY <1>1, <1>2, <2>1
    <2>2. CASE i > a
      <3>1. i - a \in 1..c /\ a + (i - a) = i /\ (a + b) + (i - a) = i + b
        BY <1>1, <2>2
      <3>2. d[a + (i - a)] = N[i - a] /\ s[(a + b) + (i - a)] = N[i - a]
        BY <1>2, <3>1
      <3> QED BY <1>1, <2>2, <3>1, <3>2
    <2> QED BY <1>1, <2>1, <2>2
  <1>6. \A i, j \in 1..(a + c) : i < j => g(i) < g(j)
    BY <1>1
  <1>7. Increasing(d, m)
    <2> HIDE DEF g
    <2> QED BY <1>1, <1>4, <1>5, <1>6 DEF Increasing
  <1> DEFINE h == H \o Q
  <1>8. DOMAIN h = 1..(a + b) /\ \A i \in 1..(a + b) : h[i] = s[i]
    BY DEF s, a, b
  <1>9. DOMAIN H = 1..a /\ \A i \in 1..a : H[i] = s[i]
    BY <1>2 DEF a
  <1>10. 1..(a + b) \subseteq 1..((a + b) + c) /\ 1..a \subseteq 1..((a + b) + c)
    BY <1>1
  <1> HIDE DEF h
  <1>11. Increasing(h, m)
    BY <1>4, <1>8, <1>10 DEF Increasing
  <1>12. Increasing(H, m)
    BY <1>4, <1>9, <1>10 DEF Increasing
  <1> QED BY <1>7, <1>11, <1>12, <1>e DEF h

\* A larger number may be added.
LEMMA AddLarger ==
    ASSUME NEW s \in Seq(Datagrams), NEW m \in Nat, m + 1 \in Datagrams, Increasing(s, m)
    PROVE  Increasing(Append(s, m + 1), m + 1) /\ Increasing(s, m + 1)
  <1> DEFINE t == Append(s, m + 1)
             c == Len(s)
  <1>1. /\ c \in Nat /\ DOMAIN s = 1..c /\ DOMAIN t = 1..(c + 1) /\ t[c + 1] = m + 1
        /\ \A i \in 1..c : t[i] = s[i] /\ s[i] \in Datagrams
    OBVIOUS
  <1>2. \A i \in 1..c : s[i] <= m /\ s[i] \in Nat
    BY <1>1, PeerManagerAssumption, SMTT(30) DEF Increasing, Datagrams
  <1>3. \A i, j \in 1..c : i < j => s[i] < s[j]
    BY <1>1 DEF Increasing
  <1> HIDE DEF t, c
  <1>4. \A i \in 1..(c + 1) : i \in 1..c \/ i = c + 1
    BY <1>1
  <1>5. \A i \in 1..c : s[i] <= m + 1 /\ s[i] < m + 1
    BY <1>2
  <1>6. \A i, j \in 1..(c + 1) : i < j => i \in 1..c
    BY <1>1
  <1>7. \A i, j \in 1..(c + 1) : i < j => t[i] < t[j]
    BY <1>1, <1>3, <1>4, <1>5, <1>6
  <1>8. \A i \in 1..(c + 1) : t[i] <= m + 1
    BY <1>1, <1>4, <1>5
  <1>9. Increasing(t, m + 1)
    BY <1>1, <1>7, <1>8 DEF Increasing
  <1>10. Increasing(s, m + 1)
    BY <1>1, <1>3, <1>5 DEF Increasing
  <1> QED BY <1>9, <1>10 DEF t

-------------------------------------------------------------------------------
(* The actions *)

\* The function of async_send finds an entry or makes one.
LEMMA SendFacts ==
    ASSUME TypeOK, PresentInv, CreatedInv, Send
    PROVE  \E p \in Peers, n \in Datagrams, e \in Entries :
             /\ p = Head(dq).peer /\ n = Head(dq).n /\ Runs("send") /\ Head(dq) \in Sends({p})
             /\ e = IF p \in DOMAIN entries THEN entries[p] ELSE NewEntry
             /\ p \notin DOMAIN entries => created + 1 \in Datagrams
             /\ entries' = [q \in DOMAIN entries \union {p} |->
                              IF q = p THEN WithDatagram(e, n) ELSE entries[q]]
             /\ created' = IF p \in DOMAIN entries THEN created ELSE created + 1
             /\ handed' = [handed EXCEPT ![p] = @ \o Flushed(e)
                               \o (IF e.connected /\ e.verified THEN <<n>> ELSE <<>>)]
             /\ discarded' = discarded \union FlushDrops(e)
             /\ dq' = Tail(dq)
             /\ UNCHANGED <<modeVars, shared_secrets, accepted>>
  <1> DEFINE p == Head(dq).peer
             n == Head(dq).n
             e == IF p \in DOMAIN entries THEN entries[p] ELSE NewEntry
  <1>1. Runs("send") /\ dq # <<>>
    BY DEF Send, Runs
  <1>2. Head(dq) \in Enqueued /\ Head(dq).fn = "send" /\ dq \in Seq(Enqueued) /\ Tail(dq) \in Seq(Enqueued)
        /\ p \in Peers /\ n \in Datagrams
    BY <1>1, RunOf
  <1>3. Head(dq) \in Sends({p}) /\ Head(dq) \in Sends(Peers)
    BY <1>2 DEF Enqueued, Clears, Sends, Calls
  <1>4. created + 1 \in Datagrams
    <2> DEFINE K == Kept(Tail(dq), Sends(Peers))
    <2>1. Kept(dq, Sends(Peers)) = <<Head(dq)>> \o K
      BY <1>1, <1>2, <1>3, KeptHead
    <2>2. K \in Seq(Enqueued)
      BY <1>2, KeptType
    <2> HIDE DEF K
    <2>3. Len(<<Head(dq)>> \o K) >= 1 /\ Len(<<Head(dq)>> \o K) \in Nat
      BY <1>2, <2>2
    <2>4. created \in 0..MaxSends /\ accepted \in 0..MaxSends /\ MaxSends \in Nat
      BY PeerManagerAssumption DEF TypeOK
    <2> QED BY <2>1, <2>3, <2>4 DEF CreatedInv, Datagrams
  <1>5. e \in Entries
    <2>1. NewEntry \in Entries
      BY <1>4 DEF NewEntry, Entries, Datagrams
    <2> QED BY <2>1 DEF TypeOK
  <1>6. /\ entries' = [q \in DOMAIN entries \union {p} |->
                         IF q = p THEN WithDatagram(e, n) ELSE entries[q]]
        /\ created' = IF p \in DOMAIN entries THEN created ELSE created + 1
        /\ handed' = [handed EXCEPT ![p] = @ \o Flushed(e)
                          \o (IF e.connected /\ e.verified THEN <<n>> ELSE <<>>)]
        /\ discarded' = discarded \union FlushDrops(e)
        /\ dq' = Tail(dq)
        /\ UNCHANGED <<modeVars, shared_secrets, accepted>>
    BY DEF Send
  <1>7. e = IF p \in DOMAIN entries THEN entries[p] ELSE NewEntry
    OBVIOUS
  <1> HIDE DEF p, n, e
  <1>8. p \in Peers /\ n \in Datagrams /\ e \in Entries
    BY <1>2, <1>5 DEF p, n
  <1> USE <1>8
  <1> WITNESS p \in Peers, n \in Datagrams, e \in Entries
  <1> QED BY <1>1, <1>3, <1>4, <1>6, <1>7 DEF p, n

\* The slot of connected finds the entry of the client that connected.
LEMMA ConnectedFacts ==
    ASSUME TypeOK, PresentInv, Connected
    PROVE  \E p \in DOMAIN entries, c \in Entries :
             /\ p = Head(dq).peer /\ p \in Peers /\ Runs("connected")
             /\ c.client = entries[p].client /\ c.connected /\ c.queue = entries[p].queue
             /\ entries' = [entries EXCEPT ![p] = Flush(c)]
             /\ handed' = [handed EXCEPT ![p] = @ \o Flushed(c)]
             /\ discarded' = discarded \union FlushDrops(c)
             /\ dq' = Tail(dq)
             /\ UNCHANGED <<modeVars, shared_secrets, created, accepted>>
  <1> DEFINE p == Head(dq).peer
             c(v) == [entries[p] EXCEPT !.connected = TRUE, !.verified = v]
  <1>1. Runs("connected") /\ "connected" \in Signals
    BY DEF Connected, Signals
  <1>2. p \in DOMAIN entries /\ p \in Peers
    BY <1>1, RunOf
  <1>3. entries[p] \in Entries
    BY <1>2 DEF TypeOK
  <1>4. PICK v \in BOOLEAN :
             /\ entries' = [entries EXCEPT ![p] = Flush(c(v))]
             /\ handed' = [handed EXCEPT ![p] = @ \o Flushed(c(v))]
             /\ discarded' = discarded \union FlushDrops(c(v))
    BY DEF Connected
  <1>5. c(v) \in Entries /\ c(v).client = entries[p].client /\ c(v).connected
        /\ c(v).queue = entries[p].queue
    BY <1>3, ConnectedEntry
  <1>6. dq' = Tail(dq) /\ UNCHANGED <<modeVars, shared_secrets, created, accepted>>
    BY DEF Connected
  <1>7. p = Head(dq).peer
    OBVIOUS
  <1> HIDE DEF c, p
  <1> USE <1>2, <1>5
  <1> WITNESS p \in DOMAIN entries, c(v) \in Entries
  <1> QED BY <1>1, <1>2, <1>4, <1>5, <1>6, <1>7

\* The slots of connect_failed and closed find the entry of the client that ended.
LEMMA EndedFacts ==
    ASSUME TypeOK, PresentInv, Ended
    PROVE  \E p \in DOMAIN entries, f \in Signals :
             /\ p = Head(dq).peer /\ p \in Peers /\ Runs(f)
             /\ entries' = [q \in DOMAIN entries \ {p} |-> entries[q]]
             /\ dq' = WithoutClientFunctions(Tail(dq), {p})
             /\ shared_secrets' = shared_secrets \ {p}
             /\ discarded' = discarded \union Range(entries[p].queue)
             /\ UNCHANGED <<modeVars, created, accepted, handed>>
  <1> DEFINE p == Head(dq).peer
  <1>1. PICK f \in Signals : Runs(f)
    BY DEF Ended, Signals
  <1>2. p \in DOMAIN entries /\ p \in Peers
    BY <1>1, RunOf
  <1>3. /\ entries' = [q \in DOMAIN entries \ {p} |-> entries[q]]
        /\ dq' = WithoutClientFunctions(Tail(dq), {p})
        /\ shared_secrets' = shared_secrets \ {p}
        /\ discarded' = discarded \union Range(entries[p].queue)
        /\ UNCHANGED <<modeVars, created, accepted, handed>>
    BY DEF Ended, EraseSharedSecret
  <1>4. p = Head(dq).peer
    OBVIOUS
  <1> HIDE DEF p
  <1> USE <1>2
  <1> WITNESS p \in DOMAIN entries, f \in Signals
  <1> QED BY <1>1, <1>2, <1>3, <1>4

ClientStep ==
    \/ Connecting
    \/ \E p \in DOMAIN entries : ClientCloses(p) \/ ClientErrs(p)

\* A client signals: its entry stays the same but for the phase.
LEMMA ClientFacts ==
    ASSUME TypeOK, ClientStep
    PROVE  \E p \in DOMAIN entries, f \in Signals, g \in Entries :
             /\ g.client = entries[p].client /\ g.connected = entries[p].connected
             /\ g.verified = entries[p].verified /\ g.queue = entries[p].queue
             /\ entries' = [entries EXCEPT ![p] = g]
             /\ dq' = Append(dq, Function(f, p, entries[p].client))
             /\ Function(f, p, entries[p].client) \in Present(entries)
             /\ UNCHANGED <<modeVars, shared_secrets, created, accepted, handed, discarded>>
  <1>1. PICK p \in DOMAIN entries : ClientConnects(p) \/ ClientConnectFails(p) \/ ClientCloses(p)
                                     \/ ClientErrs(p)
    BY DEF ClientStep, Connecting
  <1>2. entries[p] \in Entries /\ p \in Peers
    BY DEF TypeOK
  <1>3. PICK f \in Signals, ph \in {"starting", "up", "down"} : Signal(p, f, ph)
    <2>1. entries[p].phase \in {"starting", "up", "down"}
      BY <1>2 DEF Entries
    <2> QED BY <1>1, <2>1 DEF ClientConnects, ClientConnectFails, ClientCloses, ClientErrs, Signals
  <1> DEFINE g == [entries[p] EXCEPT !.phase = ph]
  <1>4. g \in Entries /\ g.client = entries[p].client /\ g.connected = entries[p].connected
        /\ g.verified = entries[p].verified /\ g.queue = entries[p].queue
    BY <1>2 DEF Entries
  <1>5. entries' = [entries EXCEPT ![p] = g]
    BY <1>3 DEF Signal
  <1>6. Function(f, p, entries[p].client) \in Present(entries)
    <2>1. entries[p].client \in Datagrams
      BY <1>2 DEF Entries, Datagrams
    <2> QED BY <1>2, <2>1 DEF Function, Present, Enqueued, Calls
  <1> HIDE DEF g
  <1> USE <1>4
  <1> WITNESS p \in DOMAIN entries, f \in Signals, g \in Entries
  <1> QED BY <1>3, <1>4, <1>5, <1>6 DEF Signal

\* The datagrams in the dispatcher's queue are touched by Send, Request and Destroy
\* only.
LEMMA DatagramsKept ==
    ASSUME NEW S, S \subseteq Sends(Peers), NEW q \in Seq(Enqueued)
    PROVE  /\ \A f \in Enqueued : f.fn # "send" => Kept(Append(q, f), S) = Kept(q, S)
           /\ q # <<>> /\ Head(q).fn # "send" => Kept(Tail(q), S) = Kept(q, S)
           /\ \A ps : Kept(WithoutClientFunctions(q, ps), S) = Kept(q, S)
           /\ Kept(Kept(q, Calls(Signals, Peers, 0..MaxSends)), S) = <<>>
           /\ \A f \in Clears : Kept(<<f>> \o q, S) = Kept(q, S)
  <1> DEFINE X == Enqueued
  <1>s. \A f \in S : f.fn = "send" /\ f \in PeerFunctions
    BY FunctionSets
  <1>g. "send" \notin Signals
    BY DEF Signals
  <1>1. ASSUME NEW f \in Enqueued, f.fn # "send" PROVE Kept(Append(q, f), S) = Kept(q, S)
    <2>1. f \in X /\ f \notin S
      BY <1>1, <1>s
    <2> QED BY <2>1, KeptAppend
  <1>2. ASSUME q # <<>>, Head(q).fn # "send" PROVE Kept(Tail(q), S) = Kept(q, S)
    <2>1. Head(q) \notin S
      BY <1>2, <1>s
    <2> QED BY <1>2, <2>1, KeptHead
  <1>3. ASSUME NEW ps PROVE Kept(WithoutClientFunctions(q, ps), S) = Kept(q, S)
    <2> DEFINE D == PeerFunctions \ ClientFunctions(ps)
    <2>1. D \intersect S = S
      <3>1. \A f \in ClientFunctions(ps) : f.fn \in Signals
        BY DEF ClientFunctions, Calls
      <3> QED BY <3>1, <1>s, <1>g
    <2> HIDE DEF D
    <2>2. Kept(Kept(q, D), S) = Kept(q, S)
      BY <2>1, KeptKept
    <2> QED BY <2>2 DEF D, WithoutClientFunctions
  <1>4. Kept(Kept(q, Calls(Signals, Peers, 0..MaxSends)), S) = <<>>
    <2> DEFINE C == Calls(Signals, Peers, 0..MaxSends)
    <2>1. C \intersect S = {}
      <3>1. \A e \in C : e.fn \in Signals
        BY DEF Calls
      <3> QED BY <3>1, <1>s, <1>g
    <2> HIDE DEF C
    <2>2. Kept(Kept(q, C), S) = Kept(q, {})
      BY <2>1, KeptKept
    <2>3. Enqueued \intersect {} = {}
      OBVIOUS
    <2> QED BY <2>2, <2>3, KeptNoneOrAll DEF C
  <1>5. ASSUME NEW f \in Clears PROVE Kept(<<f>> \o q, S) = Kept(q, S)
    <2> DEFINE r == <<f>> \o q
    <2>1. f \in X /\ f \notin S
      BY <1>s, FunctionSets
    <2>2. r \in Seq(X) /\ r # <<>> /\ Head(r) = f /\ Tail(r) = q
      BY <2>1
    <2> HIDE DEF r
    <2>3. Kept(r, S) = Kept(q, S)
      BY <2>1, <2>2, KeptHead
    <2> QED BY <2>3 DEF r
  <1> QED BY <1>1, <1>2, <1>3, <1>4, <1>5

\* The destructor's function is a function of the dispatcher.
LEMMA ClearFunction ==
    ASSUME EnqueueClear
    PROVE  \E c \in Clears : dq' = <<c>> \o dq
  <1> DEFINE p == CHOOSE q \in Peers : TRUE
             c == Function("clear", p, 0)
  <1>1. p \in Peers
    BY PeerManagerAssumption
  <1>2. dq' = <<c>> \o dq
    BY DEF EnqueueClear
  <1> HIDE DEF p
  <1>3. c \in Clears
    BY <1>1 DEF Function, Clears, Calls
  <1> QED BY <1>2, <1>3

-------------------------------------------------------------------------------
(* The steps *)

\* A step keeps the types of all variables.
LEMMA TypeStep ==
    ASSUME TypeOK, PresentInv, CreatedInv, [Next]_vars
    PROVE  TypeOK'
  <1> USE PeerManagerAssumption
  <1>d. Datagrams = 1..MaxSends
    BY DEF Datagrams
  <1>q. dq # <<>> => Tail(dq) \in Seq(PeerFunctions)
    BY DEF TypeOK
  <1>a. \A f \in PeerFunctions : Append(dq, f) \in Seq(PeerFunctions)
    BY DEF TypeOK
  <1>1. CASE Send
    <2>1. PICK p \in Peers, n \in Datagrams, e \in Entries :
             /\ Runs("send")
             /\ p \notin DOMAIN entries => created + 1 \in Datagrams
             /\ entries' = [q \in DOMAIN entries \union {p} |->
                              IF q = p THEN WithDatagram(e, n) ELSE entries[q]]
             /\ created' = IF p \in DOMAIN entries THEN created ELSE created + 1
             /\ handed' = [handed EXCEPT ![p] = @ \o Flushed(e)
                               \o (IF e.connected /\ e.verified THEN <<n>> ELSE <<>>)]
             /\ discarded' = discarded \union FlushDrops(e)
             /\ dq' = Tail(dq)
             /\ UNCHANGED <<modeVars, shared_secrets, accepted>>
      BY <1>1, SendFacts, ZenonT(60)
    <2>2. dq' \in Seq(PeerFunctions)
      BY <1>q, <2>1 DEF Runs
    <2>3. WithDatagram(e, n) \in Entries
      BY EntrySteps
    <2>4. DOMAIN entries' \subseteq Peers /\ \A q \in DOMAIN entries' : entries'[q] \in Entries
      BY <2>1, <2>3 DEF TypeOK
    <2>5. created' \in 0..MaxSends
      BY <2>1, <1>d DEF TypeOK
    <2>6. handed' \in [Peers -> Seq(1..MaxSends)]
      <3> DEFINE x == IF e.connected /\ e.verified THEN <<n>> ELSE <<>>
      <3>0. <<n>> \in Seq(Datagrams) /\ <<>> \in Seq(Datagrams)
        OBVIOUS
      <3>1. x \in Seq(Datagrams) /\ Flushed(e) \in Seq(Datagrams) /\ handed[p] \in Seq(Datagrams)
        BY <1>d, <3>0, FlushTypes DEF TypeOK
      <3> HIDE DEF x
      <3>2. handed[p] \o Flushed(e) \o x \in Seq(Datagrams)
        BY <3>1
      <3> QED BY <1>d, <2>1, <3>2 DEF TypeOK, x
    <2>7. discarded' \subseteq 1..MaxSends
      BY <1>d, <2>1, FlushTypes DEF TypeOK
    <2> QED BY <2>1, <2>2, <2>4, <2>5, <2>6, <2>7 DEF TypeOK, modeVars
  <1>2. CASE Connected
    <2>1. PICK p \in DOMAIN entries, c \in Entries :
             /\ p \in Peers /\ Runs("connected")
             /\ entries' = [entries EXCEPT ![p] = Flush(c)]
             /\ handed' = [handed EXCEPT ![p] = @ \o Flushed(c)]
             /\ discarded' = discarded \union FlushDrops(c)
             /\ dq' = Tail(dq)
             /\ UNCHANGED <<modeVars, shared_secrets, created, accepted>>
      BY <1>2, ConnectedFacts
    <2>2. dq' \in Seq(PeerFunctions)
      BY <1>q, <2>1 DEF Runs
    <2>3. Flush(c) \in Entries
      BY FlushEntry
    <2>4. DOMAIN entries' \subseteq Peers /\ \A q \in DOMAIN entries' : entries'[q] \in Entries
      BY <2>1, <2>3 DEF TypeOK
    <2>6. handed' \in [Peers -> Seq(1..MaxSends)]
      <3>1. Flushed(c) \in Seq(Datagrams) /\ handed[p] \in Seq(Datagrams)
        BY <1>d, <2>1, FlushTypes DEF TypeOK
      <3>2. handed[p] \o Flushed(c) \in Seq(Datagrams)
        BY <3>1
      <3> QED BY <1>d, <2>1, <3>2 DEF TypeOK
    <2>7. discarded' \subseteq 1..MaxSends
      BY <1>d, <2>1, FlushTypes DEF TypeOK
    <2> QED BY <2>1, <2>2, <2>4, <2>6, <2>7 DEF TypeOK, modeVars
  <1>3. CASE Ended
    <2>1. PICK p \in DOMAIN entries, f \in Signals :
             /\ Runs(f)
             /\ entries' = [q \in DOMAIN entries \ {p} |-> entries[q]]
             /\ dq' = WithoutClientFunctions(Tail(dq), {p})
             /\ shared_secrets' = shared_secrets \ {p}
             /\ discarded' = discarded \union Range(entries[p].queue)
             /\ UNCHANGED <<modeVars, created, accepted, handed>>
      BY <1>3, EndedFacts
    <2>2. dq' \in Seq(PeerFunctions)
      <3>1. Tail(dq) \in Seq(PeerFunctions)
        BY <1>q, <2>1 DEF Runs
      <3> QED BY <2>1, <3>1, KeptType DEF WithoutClientFunctions
    <2>3. Range(entries[p].queue) \subseteq 1..MaxSends
      <3>1. entries[p].queue \in Seq(1..MaxSends)
        BY DEF TypeOK, Entries
      <3> QED BY <3>1, RangeOfSeq
    <2> QED BY <2>1, <2>2, <2>3 DEF TypeOK, modeVars
  <1>4. CASE ErrorOccurred
    BY <1>4, <1>q DEF ErrorOccurred, Runs, TypeOK, modeVars
  <1>5. CASE Clear
    <2>1. Tail(dq) \in Seq(PeerFunctions)
      BY <1>5, <1>q DEF Clear, Runs
    <2>2. dq' \in Seq(PeerFunctions)
      BY <1>5, <2>1, KeptType DEF Clear, WithoutClientFunctions
    <2> QED BY <1>5, <2>2 DEF Clear, TypeOK, modeVars
  <1>6. CASE ClientStep
    <2>1. PICK p \in DOMAIN entries, f \in Signals, g \in Entries :
             /\ entries' = [entries EXCEPT ![p] = g]
             /\ dq' = Append(dq, Function(f, p, entries[p].client))
             /\ Function(f, p, entries[p].client) \in Present(entries)
             /\ UNCHANGED <<modeVars, shared_secrets, created, accepted, handed, discarded>>
      BY <1>6, ClientFacts
    <2>2. dq' \in Seq(PeerFunctions)
      BY <1>a, <2>1, FunctionSets
    <2> QED BY <2>1, <2>2 DEF TypeOK, modeVars
  <1>7. ASSUME NEW p \in Peers, Request(p) PROVE TypeOK'
    <2>1. accepted' \in 0..MaxSends
      BY <1>7 DEF Request, TypeOK
    <2>2. Function("send", p, accepted') \in PeerFunctions
      BY <2>1 DEF Function, PeerFunctions, Calls
    <2> QED BY <1>7, <1>a, <2>1, <2>2 DEF Request, TypeOK, modeVars
  <1>8. ASSUME NEW p \in Peers, InsertSharedSecret(p) PROVE TypeOK'
    BY <1>8 DEF InsertSharedSecret, TypeOK, modeVars
  <1>9. CASE Destroy
    <2>1. Kept(dq, Calls(Signals, Peers, 0..MaxSends)) \in Seq(PeerFunctions)
      BY KeptType DEF TypeOK
    <2> QED BY <1>9, <2>1 DEF Destroy, TypeOK
  <1>10. CASE EnqueueClear
    <2>1. PICK c \in Clears : dq' = <<c>> \o dq
      BY <1>10, ClearFunction
    <2>2. c \in PeerFunctions /\ dq \in Seq(PeerFunctions)
      BY FunctionSets DEF TypeOK
    <2>3. dq' \in Seq(PeerFunctions)
      BY <2>1, <2>2
    <2> QED BY <1>10, <2>3 DEF EnqueueClear, TypeOK
  <1>11. CASE UNCHANGED vars
    BY <1>11 DEF vars, modeVars, TypeOK
  <1> QED BY <1>1, <1>2, <1>3, <1>4, <1>5, <1>6, <1>7, <1>8, <1>9, <1>10, <1>11
       DEF Next, Dispatcher, ClientStep, User

\* The same clients, or more of them: what was present still is.
LEMMA PresentGrows ==
    ASSUME NEW es, NEW fs, DOMAIN es \subseteq DOMAIN fs,
           \A p \in DOMAIN es : fs[p].client = es[p].client
    PROVE  /\ Present(es) \subseteq Present(fs)
           /\ \A q \in Seq(Present(es)) : q \in Seq(Present(fs))
  <1>1. Present(es) \subseteq Present(fs)
    BY DEF Present
  <1> DEFINE A == Present(es)
             B == Present(fs)
  <1> HIDE DEF A, B
  <1>2. A \subseteq B => \A q \in Seq(A) : q \in Seq(B)
    OBVIOUS
  <1> QED BY <1>1, <1>2 DEF A, B

\* The signals of the clients of ps are among the functions ~client erases.
LEMMA OfClient ==
    ASSUME NEW g \in Present(entries), g.fn \in Signals,
           NEW ps, g.peer \in ps
    PROVE  g \in ClientFunctions(ps)
  <1>1. g \in Enqueued /\ entries[g.peer].client = g.n
    BY DEF Present
  <1>2. g.fn # "clear"
    BY DEF Signals
  <1>3. g \in Calls(Signals, {g.peer}, {entries[g.peer].client})
    BY <1>1, <1>2 DEF Enqueued, Clears, Calls
  <1> QED BY <1>3 DEF ClientFunctions

\* No step leaves a signal of an absent client in the queue.
LEMMA PresentStep ==
    ASSUME TypeOK, PresentInv, CreatedInv, [Next]_vars
    PROVE  PresentInv'
  <1>p. PresentInv' <=> dq' \in Seq(Present(entries'))
    BY DEF PresentInv
  <1>a. \A f \in Present(entries) : Append(dq, f) \in Seq(Present(entries))
    <2> DEFINE P == Present(entries)
    <2>1. dq \in Seq(P)
      BY DEF PresentInv
    <2> HIDE DEF P
    <2>2. \A f \in P : Append(dq, f) \in Seq(P)
      BY <2>1
    <2> QED BY <2>2 DEF P
  <1>s. {"connected", "error_occurred"} \subseteq Signals
    BY DEF Signals
  <1>1. CASE Send
    <2>1. PICK p \in Peers, n \in Datagrams, e \in Entries :
             /\ Runs("send")
             /\ e = IF p \in DOMAIN entries THEN entries[p] ELSE NewEntry
             /\ entries' = [q \in DOMAIN entries \union {p} |->
                              IF q = p THEN WithDatagram(e, n) ELSE entries[q]]
             /\ dq' = Tail(dq)
      BY <1>1, SendFacts, ZenonT(60)
    <2>2. WithDatagram(e, n).client = e.client
      BY EntrySteps
    <2>3. DOMAIN entries \subseteq DOMAIN entries'
          /\ \A q \in DOMAIN entries : entries'[q].client = entries[q].client
      BY <2>1, <2>2
    <2>4. Tail(dq) \in Seq(Present(entries))
      BY <2>1, RunOf
    <2>5. Tail(dq) \in Seq(Present(entries'))
      BY <2>3, <2>4, PresentGrows
    <2>6. dq' \in Seq(Present(entries'))
      BY <2>1, <2>5
    <2> QED BY <1>p, <2>6
  <1>2. CASE Connected
    <2>1. PICK p \in DOMAIN entries, c \in Entries :
             /\ Runs("connected") /\ c.client = entries[p].client
             /\ entries' = [entries EXCEPT ![p] = Flush(c)] /\ dq' = Tail(dq)
      BY <1>2, ConnectedFacts
    <2>2. Flush(c).client = c.client
      BY FlushEntry
    <2>3. DOMAIN entries \subseteq DOMAIN entries'
          /\ \A q \in DOMAIN entries : entries'[q].client = entries[q].client
      BY <2>1, <2>2
    <2>4. Tail(dq) \in Seq(Present(entries))
      BY <1>s, <2>1, RunOf
    <2>5. dq' \in Seq(Present(entries'))
      BY <2>1, <2>3, <2>4, PresentGrows
    <2> QED BY <1>p, <2>5
  <1>3. CASE Ended
    <2>1. PICK p \in DOMAIN entries, f \in Signals :
             /\ p \in Peers /\ Runs(f)
             /\ entries' = [q \in DOMAIN entries \ {p} |-> entries[q]]
             /\ dq' = WithoutClientFunctions(Tail(dq), {p})
      BY <1>3, EndedFacts
    <2> DEFINE S == PeerFunctions \ ClientFunctions({p})
               P == Present(entries)
               N == Present(entries')
    <2>2. Tail(dq) \in Seq(P)
      BY <2>1, RunOf
    <2>3. P \intersect S \subseteq N
      <3> SUFFICES ASSUME NEW g \in P, g \in S PROVE g \in N
        OBVIOUS
      <3>1. g \in Enqueued /\ (g.fn \in Signals => g.peer \in DOMAIN entries /\ entries[g.peer].client = g.n)
        BY DEF Present
      <3>2. g.fn \in Signals => g.peer # p
        BY OfClient
      <3>3. g.fn \in Signals => g.peer \in DOMAIN entries' /\ entries'[g.peer].client = g.n
        BY <2>1, <3>1, <3>2
      <3> QED BY <3>1, <3>3 DEF Present
    <2>4. dq' = Kept(Tail(dq), S)
      BY <2>1 DEF WithoutClientFunctions
    <2> HIDE DEF S, P, N
    <2>5. dq' \in Seq(P \intersect S)
      BY <2>2, <2>4, KeptType
    <2>6. dq' \in Seq(N)
      BY <2>3, <2>5
    <2> QED BY <1>p, <2>6 DEF N
  <1>4. CASE ErrorOccurred
    <2>1. Tail(dq) \in Seq(Present(entries))
      BY <1>4, <1>s, RunOf DEF ErrorOccurred
    <2> QED BY <1>4, <1>p, <2>1 DEF ErrorOccurred
  <1>5. CASE Clear
    <2> DEFINE S == PeerFunctions \ ClientFunctions(DOMAIN entries)
               P == Present(entries)
               N == Present(entries')
    <2>1. dq # <<>> /\ dq' = Kept(Tail(dq), S)
      BY <1>5 DEF Clear, Runs, WithoutClientFunctions
    <2>2. P \intersect S \subseteq N
      <3> SUFFICES ASSUME NEW g \in P, g \in S PROVE g \in N
        OBVIOUS
      <3>1. g \in Enqueued /\ (g.fn \in Signals => g.peer \in DOMAIN entries)
        BY DEF Present
      <3>2. g.fn \notin Signals
        BY <3>1, OfClient
      <3> QED BY <3>1, <3>2 DEF Present
    <2>3. dq \in Seq(P)
      BY DEF PresentInv
    <2> HIDE DEF S, P, N
    <2>4. Tail(dq) \in Seq(P)
      BY <2>1, <2>3
    <2>5. dq' \in Seq(P \intersect S)
      BY <2>1, <2>4, KeptType
    <2>6. dq' \in Seq(N)
      BY <2>2, <2>5
    <2> QED BY <1>p, <2>6 DEF N
  <1>6. CASE ClientStep
    <2>1. PICK p \in DOMAIN entries, f \in Signals, g \in Entries :
             /\ g.client = entries[p].client
             /\ entries' = [entries EXCEPT ![p] = g]
             /\ dq' = Append(dq, Function(f, p, entries[p].client))
             /\ Function(f, p, entries[p].client) \in Present(entries)
      BY <1>6, ClientFacts
    <2>2. DOMAIN entries \subseteq DOMAIN entries'
          /\ \A q \in DOMAIN entries : entries'[q].client = entries[q].client
      BY <2>1
    <2>3. \A q \in Seq(Present(entries)) : q \in Seq(Present(entries'))
      BY <2>2, PresentGrows
    <2>4. dq' \in Seq(Present(entries))
      BY <1>a, <2>1
    <2> QED BY <1>p, <2>3, <2>4
  <1>7. ASSUME NEW p \in Peers, Request(p) PROVE PresentInv'
    <2>1. accepted + 1 \in Datagrams /\ accepted' = accepted + 1
      BY <1>7, PeerManagerAssumption DEF Request, TypeOK, Datagrams
    <2>2. "send" \notin Signals
      BY DEF Signals
    <2>3. Function("send", p, accepted') \in Present(entries)
      BY <2>1, <2>2 DEF Function, Present, Enqueued, Calls
    <2>4. dq' = Append(dq, Function("send", p, accepted')) /\ entries' = entries
      BY <1>7 DEF Request
    <2> QED BY <1>a, <1>p, <2>3, <2>4
  <1>8. ASSUME NEW p \in Peers, InsertSharedSecret(p) PROVE PresentInv'
    BY <1>8 DEF InsertSharedSecret, PresentInv
  <1>9. CASE Destroy
    <2> DEFINE P == Present(entries)
               S == Calls(Signals, Peers, 0..MaxSends)
    <2>1. dq \in Seq(P) /\ dq' = Kept(dq, S) /\ entries' = entries
      BY <1>9 DEF Destroy, PresentInv
    <2> HIDE DEF P, S
    <2>2. dq' \in Seq(P)
      BY <2>1, KeptType
    <2> QED BY <1>p, <2>1, <2>2 DEF P
  <1>10. CASE EnqueueClear
    <2> DEFINE P == Present(entries)
    <2>1. PICK c \in Clears : dq' = <<c>> \o dq
      BY <1>10, ClearFunction
    <2>2. c \in P
      <3>1. "clear" \notin Signals
        BY DEF Signals
      <3> QED BY <3>1, FunctionSets DEF Present
    <2>3. dq \in Seq(P) /\ entries' = entries
      BY <1>10 DEF EnqueueClear, PresentInv
    <2> HIDE DEF P
    <2>4. dq' \in Seq(P)
      BY <2>1, <2>2, <2>3
    <2> QED BY <1>p, <2>3, <2>4 DEF P
  <1>11. CASE UNCHANGED vars
    BY <1>11 DEF vars, PresentInv
  <1> QED BY <1>1, <1>2, <1>3, <1>4, <1>5, <1>6, <1>7, <1>8, <1>9, <1>10, <1>11
       DEF Next, Dispatcher, ClientStep, User

\* Whoever comes first, connected or async_send, flush() leaves nothing behind.
LEMMA StrandedStep ==
    ASSUME TypeOK, PresentInv, CreatedInv, NothingStranded, [Next]_vars
    PROVE  NothingStranded'
  <1> DEFINE Ok(e) == e.connected => Len(e.queue) <= (IF e.verified THEN 0 ELSE 1)
  <1>o. \A p \in DOMAIN entries : Ok(entries[p])
    BY DEF NothingStranded
  <1>p. SUFFICES ASSUME TRUE PROVE \A p \in DOMAIN entries' : Ok(entries'[p])
    BY DEF NothingStranded
  <1>1. CASE Send
    <2>1. PICK p \in Peers, n \in Datagrams, e \in Entries :
             entries' = [q \in DOMAIN entries \union {p} |->
                              IF q = p THEN WithDatagram(e, n) ELSE entries[q]]
      BY <1>1, SendFacts, ZenonT(60)
    <2>2. Ok(WithDatagram(e, n))
      <3> DEFINE w == WithDatagram(e, n)
      <3>1. Len(<<>>) = 0 /\ Len(<<n>>) = 1
        OBVIOUS
      <3>2. w.connected = e.connected /\ w.verified = e.verified
            /\ (e.connected /\ e.verified => w.queue = <<>>)
            /\ (e.connected /\ ~e.verified => w.queue = <<n>>)
        BY EntrySteps
      <3> HIDE DEF w
      <3>3. e.connected /\ e.verified => Len(w.queue) = 0
        BY <3>1, <3>2
      <3>4. e.connected /\ ~e.verified => Len(w.queue) = 1
        BY <3>1, <3>2
      <3>5. 0 <= 0 /\ 1 <= 1
        OBVIOUS
      <3>6. CASE e.verified
        <4>1. (IF w.verified THEN 0 ELSE 1) = 0
          BY <3>2, <3>6
        <4> QED BY <3>2, <3>3, <3>5, <3>6, <4>1 DEF w
      <3>7. CASE ~e.verified
        <4>1. (IF w.verified THEN 0 ELSE 1) = 1
          BY <3>2, <3>7
        <4> QED BY <3>2, <3>4, <3>5, <3>7, <4>1 DEF w
      <3> QED BY <3>6, <3>7
    <2> HIDE DEF Ok
    <2> QED BY <1>o, <2>1, <2>2
  <1>2. CASE Connected
    <2>1. PICK p \in DOMAIN entries, c \in Entries :
             c.connected /\ entries' = [entries EXCEPT ![p] = Flush(c)]
      BY <1>2, ConnectedFacts
    <2>2. Ok(Flush(c))
      <3>1. Len(<<>>) = 0
        OBVIOUS
      <3> QED BY <2>1, <3>1, FlushEntry
    <2> HIDE DEF Ok
    <2> QED BY <1>o, <2>1, <2>2
  <1>3. CASE Ended
    <2>1. PICK p \in DOMAIN entries : entries' = [q \in DOMAIN entries \ {p} |-> entries[q]]
      BY <1>3, EndedFacts
    <2> HIDE DEF Ok
    <2> QED BY <1>o, <2>1
  <1>4. CASE ClientStep
    <2>1. PICK p \in DOMAIN entries, f \in Signals, g \in Entries :
             /\ g.connected = entries[p].connected
             /\ g.verified = entries[p].verified /\ g.queue = entries[p].queue
             /\ entries' = [entries EXCEPT ![p] = g]
      BY <1>4, ClientFacts
    <2>2. Ok(entries[p]) => Ok(g)
      BY <2>1
    <2> HIDE DEF Ok
    <2> QED BY <1>o, <2>1, <2>2
  <1>5. CASE Clear
    BY <1>5 DEF Clear
  <1>6. CASE UNCHANGED entries
    BY <1>6, <1>o
  <1> QED BY <1>1, <1>2, <1>3, <1>4, <1>5, <1>6
       DEF Next, Dispatcher, ClientStep, User, ErrorOccurred, Request, InsertSharedSecret, Destroy,
           EnqueueClear, vars

\* A client is made for the first datagram only.
LEMMA CreatedStep ==
    ASSUME TypeOK, TypeOK', PresentInv, CreatedInv, [Next]_vars
    PROVE  CreatedInv'
  <1> DEFINE S == Sends(Peers)
             K(q) == Kept(q, S)
  <1>t. created \in Nat /\ accepted \in Nat /\ created' \in Nat /\ accepted' \in Nat
    BY PeerManagerAssumption DEF TypeOK
  <1>x. dq \in Seq(Enqueued) /\ \A q \in Seq(Enqueued) : Len(K(q)) \in Nat
    <2>1. \A q \in Seq(Enqueued) : Kept(q, S) \in Seq(Enqueued)
      BY KeptType
    <2> QED BY <2>1, WholeQueue
  <1>c. created + Len(K(dq)) <= accepted
    BY DEF CreatedInv
  <1>p. created' + Len(K(dq')) <= accepted' => CreatedInv'
    BY DEF CreatedInv
  <1>k. S \subseteq Sends(Peers)
    OBVIOUS
  <1>q. ASSUME K(dq') = K(dq), UNCHANGED <<created, accepted>> PROVE CreatedInv'
    BY <1>q, <1>c, <1>p
  <1>g. "send" \notin Signals
    BY DEF Signals
  <1>1. CASE Send
    <2>1. PICK p \in Peers :
             /\ Runs("send") /\ Head(dq) \in Sends({p})
             /\ created' = IF p \in DOMAIN entries THEN created ELSE created + 1
             /\ dq' = Tail(dq) /\ accepted' = accepted
      BY <1>1, SendFacts
    <2>2. dq # <<>> /\ dq \in Seq(Enqueued) /\ Tail(dq) \in Seq(Enqueued) /\ Head(dq) \in S
      BY <2>1, RunOf, FunctionSets
    <2> DEFINE k == K(Tail(dq))
    <2>3. K(dq) = <<Head(dq)>> \o k
      BY <2>2, KeptHead
    <2>4. k \in Seq(Enqueued) /\ Head(dq) \in Enqueued
      BY <2>2, KeptType, FunctionSets
    <2> HIDE DEF k
    <2>5. Len(<<Head(dq)>> \o k) = Len(k) + 1 /\ Len(k) \in Nat
      BY <2>4
    <2>6. created' <= created + 1
      BY <1>t, <2>1
    <2>7. created' + Len(k) <= accepted'
      BY <1>t, <1>c, <2>1, <2>3, <2>5, <2>6
    <2> QED BY <1>p, <2>1, <2>7 DEF k
  <1>2. CASE Connected \/ ErrorOccurred
    <2>1. dq # <<>> /\ Head(dq).fn # "send" /\ dq' = Tail(dq) /\ UNCHANGED <<created, accepted>>
      BY <1>2 DEF Connected, ErrorOccurred, Runs
    <2>2. K(Tail(dq)) = K(dq)
      BY <1>x, <1>k, <2>1, DatagramsKept
    <2> QED BY <1>q, <2>1, <2>2
  <1>3. CASE Ended \/ Clear
    <2>1. PICK ps : dq' = WithoutClientFunctions(Tail(dq), ps)
      BY <1>3 DEF Ended, Clear
    <2>2. dq # <<>> /\ Head(dq).fn # "send" /\ UNCHANGED <<created, accepted>>
      BY <1>3 DEF Ended, Clear, Runs
    <2>3. Tail(dq) \in Seq(Enqueued)
      BY <1>x, <2>2
    <2>4. K(dq') = K(Tail(dq))
      BY <1>k, <2>1, <2>3, DatagramsKept
    <2>5. K(Tail(dq)) = K(dq)
      BY <1>x, <1>k, <2>2, DatagramsKept
    <2> QED BY <1>q, <2>2, <2>4, <2>5
  <1>4. CASE ClientStep
    <2>1. PICK p \in DOMAIN entries, f \in Signals :
             /\ dq' = Append(dq, Function(f, p, entries[p].client))
             /\ Function(f, p, entries[p].client) \in Present(entries)
             /\ UNCHANGED <<created, accepted>>
      BY <1>4, ClientFacts
    <2> DEFINE h == Function(f, p, entries[p].client)
    <2>2. h \in Enqueued /\ h.fn # "send"
      BY <1>g, <2>1, FunctionSets DEF Function
    <2> HIDE DEF h
    <2>3. K(Append(dq, h)) = K(dq)
      BY <1>x, <1>k, <2>2, DatagramsKept
    <2> QED BY <1>q, <2>1, <2>3 DEF h
  <1>5. ASSUME NEW p \in Peers, Request(p) PROVE CreatedInv'
    <2> DEFINE h == Function("send", p, accepted')
               k == K(dq)
    <2>1. accepted + 1 \in Datagrams /\ accepted' = accepted + 1 /\ created' = created
          /\ dq' = Append(dq, h)
      BY <1>5, PeerManagerAssumption DEF Request, TypeOK, Datagrams
    <2>2. h \in S
      BY <2>1 DEF Function, Sends, Calls
    <2>a. h \in Enqueued
      BY <2>2, FunctionSets
    <2>b. k \in Seq(Enqueued)
      BY <1>x, KeptType
    <2> HIDE DEF h
    <2>3. K(Append(dq, h)) = Append(k, h)
      BY <1>x, <2>2, <2>a, KeptAppend
    <2> HIDE DEF k
    <2>4. Len(Append(k, h)) = Len(k) + 1 /\ Len(k) \in Nat
      BY <2>a, <2>b
    <2>5. created' + Len(Append(k, h)) <= accepted'
      BY <1>t, <1>c, <2>1, <2>4 DEF k
    <2> QED BY <1>p, <2>1, <2>3, <2>5
  <1>6. CASE Destroy
    <2>1. dq' = Kept(dq, Calls(Signals, Peers, 0..MaxSends))
      BY <1>6 DEF Destroy
    <2>2. K(dq') = <<>> /\ Len(<<>>) = 0
      BY <1>x, <1>k, <2>1, DatagramsKept
    <2>3. created' + 0 <= accepted'
      BY <1>6, <1>t, <1>c, <1>x DEF Destroy
    <2> QED BY <1>p, <2>2, <2>3
  <1>7. CASE EnqueueClear
    <2>1. PICK c \in Clears : dq' = <<c>> \o dq
      BY <1>7, ClearFunction
    <2>2. K(<<c>> \o dq) = K(dq)
      BY <1>x, <1>k, DatagramsKept
    <2> QED BY <1>7, <1>q, <2>1, <2>2 DEF EnqueueClear
  <1>8. CASE UNCHANGED <<dq, created, accepted>>
    BY <1>8, <1>q
  <1> QED BY <1>1, <1>2, <1>3, <1>4, <1>5, <1>6, <1>7, <1>8
       DEF Next, Dispatcher, ClientStep, User, InsertSharedSecret, vars

-------------------------------------------------------------------------------
(* The order of datagrams *)

\* The datagrams for p in a queue, and their numbers.
LEMMA NumbersType ==
    ASSUME NEW p \in Peers, NEW q \in Seq(Enqueued)
    PROVE  /\ Kept(q, Sends({p})) \in Seq(Sends({p}))
           /\ NumbersOf(Kept(q, Sends({p}))) \in Seq(Datagrams)
           /\ NumbersOf(<<>>) = <<>>
  <1> DEFINE k == Kept(q, Sends({p}))
  <1>1. Sends({p}) \subseteq Enqueued
    BY FunctionSets
  <1>2. k \in Seq((Enqueued) \intersect Sends({p}))
    BY KeptType
  <1>3. (Enqueued) \intersect Sends({p}) = Sends({p})
    BY <1>1
  <1>4. k \in Seq(Sends({p}))
    BY <1>2, <1>3
  <1> HIDE DEF k
  <1>5. \A f \in Sends({p}) : f.n \in Datagrams
    BY DEF Sends, Calls
  <1>6. NumbersOf(k) \in Seq(Datagrams)
    <2>1. DOMAIN k = 1..Len(k) /\ Len(k) \in Nat /\ \A i \in 1..Len(k) : k[i] \in Sends({p})
      BY <1>4
    <2>2. NumbersOf(k) = [i \in 1..Len(k) |-> k[i].n]
      BY <2>1 DEF NumbersOf
    <2>3. \A i \in 1..Len(k) : k[i].n \in Datagrams
      BY <1>5, <2>1
    <2> QED BY <2>1, <2>2, <2>3
  <1>7. NumbersOf(<<>>) = <<>>
    BY DEF NumbersOf
  <1> QED BY <1>4, <1>6, <1>7 DEF k

\* A datagram is handed over behind those that were queued, ...
LEMMA RegroupSent ==
    ASSUME NEW H \in Seq(Datagrams), NEW Q \in Seq(Datagrams), NEW N \in Seq(Datagrams),
           NEW n \in Datagrams
    PROVE  ((H \o Q) \o <<n>>) \o (<<>> \o N) = H \o (Q \o (<<n>> \o N))
  BY SMTT(30)

\* ... queued alone, ...
LEMMA RegroupAlone ==
    ASSUME NEW H \in Seq(Datagrams), NEW N \in Seq(Datagrams), NEW n \in Datagrams
    PROVE  ((H \o <<>>) \o <<>>) \o (<<n>> \o N) = H \o (<<>> \o (<<n>> \o N))
  OBVIOUS

\* ... or queued behind the others.
LEMMA RegroupQueued ==
    ASSUME NEW H \in Seq(Datagrams), NEW Q \in Seq(Datagrams), NEW N \in Seq(Datagrams),
           NEW n \in Datagrams
    PROVE  ((H \o <<>>) \o <<>>) \o (Append(Q, n) \o N) = H \o (Q \o (<<n>> \o N))
  <1>1. (H \o <<>>) \o <<>> = H
    OBVIOUS
  <1>2. Append(Q, n) \o N = Q \o (<<n>> \o N)
    OBVIOUS
  <1> QED BY <1>1, <1>2

\* A datagram given to async_send comes last.
LEMMA RegroupAppended ==
    ASSUME NEW H \in Seq(Datagrams), NEW Q \in Seq(Datagrams), NEW N \in Seq(Datagrams),
           NEW n \in Datagrams
    PROVE  H \o (Q \o Append(N, n)) = Append(H \o (Q \o N), n)
  BY SMTT(30)

\* flush() hands over, or drops, what is queued.
LEMMA RegroupFlush ==
    ASSUME NEW H \in Seq(Datagrams), NEW Q \in Seq(Datagrams), NEW N \in Seq(Datagrams)
    PROVE  /\ (H \o Q) \o (<<>> \o N) = H \o (Q \o N)
           /\ (H \o <<>>) \o (<<>> \o N) = H \o (<<>> \o N)
  OBVIOUS

\* No step hands datagrams over in another order.
LEMMA OrderStep ==
    ASSUME TypeOK, PresentInv, CreatedInv, OrderInv, [Next]_vars
    PROVE  OrderInv'
  <1> DEFINE K(q, p) == Kept(q, Sends({p}))
             O(p, h, es, q, m) == Increasing(h[p] \o (QueueOf(es, p) \o NumbersOf(K(q, p))), m)
  <1>p. (\A p \in Peers : O(p, handed', entries', dq', accepted')) => OrderInv'
    BY DEF OrderInv
  <1> SUFFICES ASSUME NEW p \in Peers PROVE O(p, handed', entries', dq', accepted')
    BY <1>p
  <1> DEFINE H == handed[p]
             Q == QueueOf(entries, p)
             N == NumbersOf(K(dq, p))
             m == accepted
  <1>o. Increasing(H \o (Q \o N), m)
    BY DEF OrderInv
  <1>x. dq \in Seq(Enqueued)
    BY WholeQueue
  <1>t. H \in Seq(Datagrams) /\ Q \in Seq(Datagrams) /\ N \in Seq(Datagrams) /\ m \in Nat
    <2>1. H \in Seq(Datagrams) /\ m \in Nat
      BY PeerManagerAssumption DEF TypeOK, Datagrams
    <2>2. p \in DOMAIN entries => entries[p].queue \in Seq(Datagrams)
      BY DEF TypeOK, Entries, Datagrams
    <2>3. <<>> \in Seq(Datagrams)
      OBVIOUS
    <2> QED BY <1>x, <2>1, <2>2, <2>3, NumbersType DEF QueueOf
  <1>k. Sends({p}) \subseteq Sends(Peers)
    BY FunctionSets
  <1>d. /\ Increasing(H \o (<<>> \o N), m)
        /\ Increasing(H \o (Q \o <<>>), m)
        /\ Increasing(H \o (<<>> \o <<>>), m)
    <2> HIDE DEF H, Q, N, m
    <2> QED BY <1>o, <1>t, DropMiddle
  <1>g. "send" \notin Signals
    BY DEF Signals
  <1>h. dq # <<>> /\ Head(dq).fn # "send" => K(Tail(dq), p) = K(dq, p)
    BY <1>x, <1>k, DatagramsKept
  <1>1. CASE Send
    <2>1. PICK r \in Peers, n \in Datagrams, e \in Entries :
             /\ r = Head(dq).peer /\ n = Head(dq).n /\ Runs("send") /\ Head(dq) \in Sends({r})
             /\ e = IF r \in DOMAIN entries THEN entries[r] ELSE NewEntry
             /\ entries' = [q \in DOMAIN entries \union {r} |->
                              IF q = r THEN WithDatagram(e, n) ELSE entries[q]]
             /\ handed' = [handed EXCEPT ![r] = @ \o Flushed(e)
                               \o (IF e.connected /\ e.verified THEN <<n>> ELSE <<>>)]
             /\ dq' = Tail(dq)
             /\ accepted' = accepted
      BY <1>1, SendFacts, ZenonT(60)
    <2>2. dq # <<>> /\ Tail(dq) \in Seq(Enqueued)
      BY <1>x, <2>1 DEF Runs
    <2>3. CASE p # r
      <3>1. Head(dq) \notin Sends({p})
        BY <2>1, <2>3 DEF Sends, Calls
      <3>2. K(Tail(dq), p) = K(dq, p)
        BY <1>x, <2>2, <3>1, KeptHead
      <3>3. QueueOf(entries', p) = Q
        BY <2>1, <2>3 DEF QueueOf
      <3>4. handed'[p] = H
        BY <2>1, <2>3 DEF TypeOK
      <3> QED BY <1>o, <2>1, <3>2, <3>3, <3>4
    <2>4. CASE p = r
      <3> DEFINE k == K(Tail(dq), p)
                 M == NumbersOf(k)
      <3>1. K(dq, p) = <<Head(dq)>> \o k
        BY <1>x, <2>1, <2>2, <2>4, KeptHead
      <3>2. k \in Seq(Sends({p})) /\ M \in Seq(Datagrams)
        BY <2>2, NumbersType
      <3> HIDE DEF k
      <3>3. N = <<n>> \o M
        <4>1. Head(dq) \in Sends({p}) /\ Head(dq).n = n
          BY <2>1, <2>4
        <4>2. NumbersOf(<<Head(dq)>> \o k) = <<Head(dq).n>> \o M
          BY <3>2, <4>1, Numbers
        <4> QED BY <3>1, <4>1, <4>2
      <3> HIDE DEF M
      <3>4. e.queue = Q
        BY <2>1, <2>4 DEF QueueOf, NewEntry
      <3>5. QueueOf(entries', p) = WithDatagram(e, n).queue
        BY <2>1, <2>4 DEF QueueOf
      <3> DEFINE x == IF e.connected /\ e.verified THEN <<n>> ELSE <<>>
      <3>6. handed'[p] = (H \o Flushed(e)) \o x
        BY <2>1, <2>4 DEF TypeOK
      <3>7. NumbersOf(K(dq', p)) = M
        BY <2>1 DEF M, k
      <3> HIDE DEF H, Q, N, m
      <3>8. Increasing(H \o (Q \o (<<n>> \o M)), m)
        BY <1>o, <3>3
      <3>9. SUFFICES Increasing(((H \o Flushed(e)) \o x) \o (WithDatagram(e, n).queue \o M), m)
        BY <2>1, <3>5, <3>6, <3>7 DEF m
      <3>10. CASE e.connected /\ e.verified
        <4>1. Flushed(e) = Q /\ x = <<n>> /\ WithDatagram(e, n).queue = <<>>
          BY <3>4, <3>10, EntrySteps DEF Flushed
        <4>2. ((H \o Q) \o <<n>>) \o (<<>> \o M) = H \o (Q \o (<<n>> \o M))
          BY <1>t, <3>2, RegroupSent, ZenonT(60)
        <4> QED BY <3>8, <4>1, <4>2
      <3>11. CASE e.connected /\ ~e.verified
        <4>1. Flushed(e) = <<>> /\ x = <<>> /\ WithDatagram(e, n).queue = <<n>>
          BY <3>11, EntrySteps DEF Flushed
        <4>2. ((H \o <<>>) \o <<>>) \o (<<n>> \o M) = H \o (<<>> \o (<<n>> \o M))
          BY <1>t, <3>2, RegroupAlone
        <4>3. Increasing(H \o (<<>> \o N), m) /\ N = <<n>> \o M
          BY <1>d, <3>3
        <4> QED BY <4>1, <4>2, <4>3
      <3>12. CASE ~e.connected
        <4>1. Flushed(e) = <<>> /\ x = <<>> /\ WithDatagram(e, n).queue = Append(Q, n)
          BY <3>4, <3>12, EntrySteps DEF Flushed
        <4>2. ((H \o <<>>) \o <<>>) \o (Append(Q, n) \o M) = H \o (Q \o (<<n>> \o M))
          BY <1>t, <3>2, RegroupQueued, ZenonT(60)
        <4> QED BY <3>8, <4>1, <4>2
      <3> QED BY <3>10, <3>11, <3>12
    <2> QED BY <2>3, <2>4
  <1>2. CASE Connected
    <2>1. PICK r \in DOMAIN entries, c \in Entries :
             /\ r \in Peers /\ Runs("connected")
             /\ c.connected /\ c.queue = entries[r].queue
             /\ entries' = [entries EXCEPT ![r] = Flush(c)]
             /\ handed' = [handed EXCEPT ![r] = @ \o Flushed(c)]
             /\ dq' = Tail(dq)
             /\ accepted' = accepted
      BY <1>2, ConnectedFacts
    <2>2. K(dq', p) = K(dq, p)
      BY <1>h, <2>1 DEF Runs
    <2>3. CASE p # r
      <3>1. QueueOf(entries', p) = Q
        BY <2>1, <2>3 DEF QueueOf
      <3>2. handed'[p] = H
        BY <2>1, <2>3 DEF TypeOK
      <3> QED BY <1>o, <2>1, <2>2, <3>1, <3>2
    <2>4. CASE p = r
      <3>1. QueueOf(entries', p) = <<>>
        BY <2>1, <2>4, FlushEntry DEF QueueOf
      <3>2. handed'[p] = H \o Flushed(c)
        BY <2>1, <2>4 DEF TypeOK
      <3>3. Flushed(c) = Q \/ Flushed(c) = <<>>
        BY <2>1, <2>4 DEF Flushed, QueueOf
      <3>4. SUFFICES Increasing((H \o Flushed(c)) \o (<<>> \o N), m)
        BY <2>1, <2>2, <3>1, <3>2
      <3> HIDE DEF H, Q, N, m
      <3>5. (H \o Q) \o (<<>> \o N) = H \o (Q \o N) /\ (H \o <<>>) \o (<<>> \o N) = H \o (<<>> \o N)
        BY <1>t, RegroupFlush
      <3> QED BY <1>o, <1>d, <3>3, <3>5
    <2> QED BY <2>3, <2>4
  <1>3. CASE Ended
    <2>1. PICK r \in DOMAIN entries, f \in Signals :
             /\ Runs(f)
             /\ entries' = [q \in DOMAIN entries \ {r} |-> entries[q]]
             /\ dq' = WithoutClientFunctions(Tail(dq), {r})
             /\ UNCHANGED <<accepted, handed>>
      BY <1>3, EndedFacts
    <2>2. dq # <<>> /\ Head(dq).fn # "send" /\ Tail(dq) \in Seq(Enqueued)
      BY <1>x, <1>g, <2>1 DEF Runs
    <2>3. K(dq', p) = K(dq, p)
      <3>1. K(WithoutClientFunctions(Tail(dq), {r}), p) = K(Tail(dq), p)
        BY <1>k, <2>2, DatagramsKept
      <3> QED BY <1>h, <2>1, <2>2, <3>1
    <2>4. QueueOf(entries', p) = IF p = r THEN <<>> ELSE Q
      BY <2>1 DEF QueueOf
    <2> QED BY <1>o, <1>d, <2>1, <2>3, <2>4
  <1>4. CASE ErrorOccurred
    <2>1. K(dq', p) = K(dq, p)
      BY <1>4, <1>h DEF ErrorOccurred, Runs
    <2> QED BY <1>4, <1>o, <2>1 DEF ErrorOccurred
  <1>5. CASE Clear
    <2>1. dq # <<>> /\ Head(dq).fn # "send" /\ dq' = WithoutClientFunctions(Tail(dq), DOMAIN entries)
      BY <1>5 DEF Clear, Runs
    <2>2. Tail(dq) \in Seq(Enqueued)
      BY <1>x, <2>1
    <2>3. K(dq', p) = K(dq, p)
      <3>1. K(WithoutClientFunctions(Tail(dq), DOMAIN entries), p) = K(Tail(dq), p)
        BY <1>k, <2>2, DatagramsKept
      <3> QED BY <1>h, <2>1, <3>1
    <2>4. QueueOf(entries', p) = <<>> /\ UNCHANGED <<accepted, handed>>
      BY <1>5 DEF Clear, QueueOf
    <2> QED BY <1>d, <2>3, <2>4
  <1>6. CASE ClientStep
    <2>1. PICK r \in DOMAIN entries, f \in Signals, e \in Entries :
             /\ e.queue = entries[r].queue
             /\ entries' = [entries EXCEPT ![r] = e]
             /\ dq' = Append(dq, Function(f, r, entries[r].client))
             /\ Function(f, r, entries[r].client) \in Present(entries)
             /\ UNCHANGED <<accepted, handed>>
      BY <1>6, ClientFacts
    <2> DEFINE h == Function(f, r, entries[r].client)
    <2>2. h \in Enqueued /\ h.fn # "send"
      BY <1>g, <2>1, FunctionSets DEF Function
    <2> HIDE DEF h
    <2>3. K(Append(dq, h), p) = K(dq, p)
      BY <1>x, <1>k, <2>2, DatagramsKept
    <2>4. QueueOf(entries', p) = Q
      BY <2>1 DEF QueueOf
    <2> QED BY <1>o, <2>1, <2>3, <2>4 DEF h
  <1>7. ASSUME NEW r \in Peers, Request(r) PROVE O(p, handed', entries', dq', accepted')
    <2> DEFINE h == Function("send", r, accepted')
    <2>1. m + 1 \in Datagrams /\ accepted' = m + 1 /\ UNCHANGED <<handed, entries>>
          /\ dq' = Append(dq, h)
      BY <1>7, PeerManagerAssumption DEF Request, TypeOK, Datagrams
    <2>2. h \in Sends({r}) /\ h.n = m + 1 /\ h.peer = r
      BY <2>1 DEF Function, Sends, Calls
    <2>3. h \in Enqueued
      BY <2>2, FunctionSets
    <2>s. H \o (Q \o N) \in Seq(Datagrams)
      <3> HIDE DEF H, Q, N
      <3> QED BY <1>t
    <2>4. Increasing(Append(H \o (Q \o N), m + 1), m + 1) /\ Increasing(H \o (Q \o N), m + 1)
      <3> DEFINE s == H \o (Q \o N)
      <3> HIDE DEF s, m
      <3>1. s \in Seq(Datagrams) /\ Increasing(s, m)
        BY <1>o, <2>s DEF s
      <3>2. Increasing(Append(s, m + 1), m + 1) /\ Increasing(s, m + 1)
        BY <1>t, <2>1, <3>1, AddLarger
      <3> QED BY <3>2 DEF s
    <2> HIDE DEF h
    <2>5. CASE p = r
      <3>1. K(Append(dq, h), p) = Append(K(dq, p), h)
        BY <1>x, <2>2, <2>3, <2>5, KeptAppend
      <3>2. NumbersOf(Append(K(dq, p), h)) = Append(N, m + 1)
        <4> DEFINE k == K(dq, p)
        <4>1. k \in Seq(Sends({p})) /\ h \in Sends({p})
          BY <1>x, <2>2, <2>5, NumbersType
        <4> HIDE DEF k
        <4>2. NumbersOf(Append(k, h)) = Append(NumbersOf(k), h.n)
          BY <4>1, Numbers
        <4> QED BY <2>2, <4>2 DEF k
      <3>3. H \o (Q \o Append(N, m + 1)) = Append(H \o (Q \o N), m + 1)
        <4> DEFINE n == m + 1
        <4>1. n \in Datagrams
          BY <2>1
        <4> HIDE DEF H, Q, N, m, n
        <4>2. H \o (Q \o Append(N, n)) = Append(H \o (Q \o N), n)
          BY <1>t, <4>1, RegroupAppended
        <4> QED BY <4>2 DEF n
      <3> QED BY <2>1, <2>4, <3>1, <3>2, <3>3
    <2>6. CASE p # r
      <3>1. h \notin Sends({p})
        BY <2>2, <2>6 DEF Sends, Calls
      <3>2. K(Append(dq, h), p) = K(dq, p)
        BY <1>x, <2>3, <3>1, KeptAppend
      <3> QED BY <2>1, <2>4, <3>2
    <2> QED BY <2>5, <2>6
  <1>8. CASE Destroy
    <2>1. dq' = Kept(dq, Calls(Signals, Peers, 0..MaxSends)) /\ UNCHANGED <<handed, entries, accepted>>
      BY <1>8 DEF Destroy
    <2>2. K(dq', p) = <<>>
      BY <1>x, <1>k, <2>1, DatagramsKept
    <2>3. NumbersOf(K(dq', p)) = <<>>
      BY <1>x, <2>2, NumbersType
    <2> QED BY <1>d, <2>1, <2>3
  <1>9. CASE EnqueueClear
    <2>1. PICK c \in Clears : dq' = <<c>> \o dq
      BY <1>9, ClearFunction
    <2>2. K(<<c>> \o dq, p) = K(dq, p)
      BY <1>x, <1>k, DatagramsKept
    <2> QED BY <1>9, <1>o, <2>1, <2>2 DEF EnqueueClear
  <1>10. CASE UNCHANGED <<dq, entries, handed, accepted>>
    BY <1>10, <1>o
  <1> QED BY <1>1, <1>2, <1>3, <1>4, <1>5, <1>6, <1>7, <1>8, <1>9, <1>10
       DEF Next, Dispatcher, ClientStep, User, InsertSharedSecret, vars

-------------------------------------------------------------------------------
(* The theorems *)

\* The invariant is inductive.
LEMMA InvariantHolds == Spec => []PeerInv
  <1>1. Init => PeerInv
    <2> SUFFICES ASSUME Init PROVE PeerInv OBVIOUS
    <2> USE PeerManagerAssumption
    <2>1. TypeOK
      <3>1. <<>> \in Seq(PeerFunctions) /\ <<>> \in Seq(1..MaxSends)
        OBVIOUS
      <3>2. attached \in BOOLEAN /\ detaching \in BOOLEAN
        BY DEF Init
      <3> QED BY <3>1, <3>2 DEF Init, TypeOK
    <2>2. PresentInv
      BY DEF Init, PresentInv
    <2>3. CreatedInv
      <3>1. Kept(dq, Sends(Peers)) = <<>> /\ Len(<<>>) = 0
        BY KeptEmpty DEF Init
      <3> QED BY <3>1 DEF Init, CreatedInv
    <2>4. NothingStranded
      BY DEF Init, NothingStranded
    <2>5. OrderInv
      <3> SUFFICES ASSUME NEW p \in Peers
                   PROVE  Increasing(handed[p] \o (QueueOf(entries, p)
                                       \o NumbersOf(Kept(dq, Sends({p})))), accepted)
        BY DEF OrderInv
      <3>1. Kept(dq, Sends({p})) = <<>> /\ NumbersOf(<<>>) = <<>>
        BY KeptEmpty DEF Init, NumbersOf
      <3>2. handed[p] = <<>> /\ QueueOf(entries, p) = <<>>
        BY DEF Init, QueueOf
      <3>3. <<>> \o (<<>> \o <<>>) = <<>> /\ DOMAIN <<>> = {}
        OBVIOUS
      <3> QED BY <3>1, <3>2, <3>3 DEF Increasing
    <2> QED BY <2>1, <2>2, <2>3, <2>4, <2>5 DEF PeerInv
  <1>2. PeerInv /\ [Next]_vars => PeerInv'
    BY TypeStep, PresentStep, CreatedStep, StrandedStep, OrderStep DEF PeerInv
  <1> QED BY <1>1, <1>2, PTL DEF Spec

\* Every variable of the peer manager keeps its type; that no client has a number
\* above MaxSends says that a client is made for a datagram only.
THEOREM TypeCorrect == Spec => []TypeOK
  <1>1. PeerInv => TypeOK
    BY DEF PeerInv
  <1> QED BY <1>1, InvariantHolds, PTL

\* A signal that the dispatcher delivers, also one behind the destructor's
\* function, belongs to the client of the present
\* entry of its path, for any number of paths and clients (peer_manager.hpp:107-111,
\* 133-150).
THEOREM SignalsBelong == Spec => []SignalsOfPresent
  <1>1. PeerInv => SignalsOfPresent
    <2> SUFFICES ASSUME PeerInv, NEW i \in DOMAIN dq, dq[i].fn \in Signals
                 PROVE  dq[i].peer \in DOMAIN entries /\ entries[dq[i].peer].client = dq[i].n
      BY DEF SignalsOfPresent
    <2> DEFINE P == Present(entries)
    <2>1. dq \in Seq(P)
      BY DEF PeerInv, PresentInv
    <2> HIDE DEF P
    <2>2. dq[i] \in P
      BY <2>1
    <2> QED BY <2>2 DEF P, Present
  <1> QED BY <1>1, InvariantHolds, PTL

\* With a connection made nothing is stranded in an entry (peer_manager.hpp:61-85,
\* 124-131).
THEOREM NothingLeftBehind == Spec => []NothingStranded
  <1>1. PeerInv => NothingStranded
    BY DEF PeerInv
  <1> QED BY <1>1, InvariantHolds, PTL

\* The clients of a path are handed its datagrams in the order of async_send, none
\* twice, for any number of paths, datagrams and connections
\* (peer_manager.hpp:61-85, 115-163).
THEOREM HandedInOrder == Spec => []PeerOrder
  <1>1. PeerInv => PeerOrder
    <2> SUFFICES ASSUME PeerInv, NEW p \in Peers
                 PROVE  LET s == handed[p] \o Waiting(p)
                        IN  \A i, j \in DOMAIN s : i < j => s[i] < s[j]
      BY DEF PeerOrder
    <2>1. Waiting(p) = QueueOf(entries, p) \o NumbersOf(Kept(dq, Sends({p})))
      BY DEF Waiting, QueueOf, NumbersOf, Sends, Datagrams
    <2>2. Increasing(handed[p] \o Waiting(p), accepted)
      BY <2>1 DEF PeerInv, OrderInv
    <2> QED BY <2>2 DEF Increasing
  <1> QED BY <1>1, InvariantHolds, PTL
===============================================================================
