----------------------------- MODULE PeerManager -----------------------------
(***************************************************************************)
(* pqrs::local_datagram::extra::peer_manager: one client per peer, made by *)
(* the first async_send to the peer's path and destroyed when it is closed *)
(* or cannot connect.  Datagrams wait in the entry until the connection is *)
(* made and the peer verified.                                             *)
(*                                                                         *)
(* The clients are external here (module Client has them): without a       *)
(* reconnect interval a client connects once or fails, is closed at most   *)
(* once, and may report an error at any time after it connected, also      *)
(* behind its closed (an aborted send).  Destroying a client detaches it:  *)
(* its functions are erased.                                               *)
(***************************************************************************)
EXTENDS Integers, Sequences, Functions, Queues

CONSTANTS
    Peers,      \* paths of peer sockets
    MaxSends    \* bound: calls of async_send

ASSUME PeerManagerAssumption == Peers # {} /\ MaxSends \in Nat

VARIABLES
    attached,        \* peer_manager is attached to the dispatcher
    detaching,       \* ~peer_manager has detached it and not yet enqueued its
                     \* function
    dq,              \* functions of the dispatcher that are due, in order
    entries,         \* entries_, by peer
    shared_secrets,  \* peers with a secret in shared_secrets_
    created,         \* history: number of clients ever made
    accepted,        \* history: number of datagrams given to async_send
    handed,          \* history: datagrams handed to the clients of a peer
    discarded        \* history: datagrams dropped with an entry or by flush()

modeVars == <<attached, detaching>>
vars == <<modeVars, dq, entries, shared_secrets, created, accepted, handed, discarded>>

\* A function of the dispatcher: async_send's carries a datagram, a signal of a
\* client the client.
Function(f, p, n) == [fn |-> f, peer |-> p, n |-> n]
Signals == {"connected", "connect_failed", "closed", "error_occurred"}
Calls(fs, ps, ns) == [fn : fs, peer : ps, n : ns]
PeerFunctions == Calls(Signals \union {"send", "clear"}, Peers, 0..MaxSends)

\* The client of an entry is "starting", "up", or "down".
Entries == [client : 1..MaxSends, phase : {"starting", "up", "down"},
            connected : BOOLEAN, verified : BOOLEAN, queue : Seq(1..MaxSends)]

\* Mutant: async_start() is not called.
NewEntryNotStarted == [client |-> created + 1, phase |-> "down", connected |-> FALSE,
                       verified |-> FALSE, queue |-> <<>>]

NewEntry == [client |-> created + 1, phase |-> "starting", connected |-> FALSE,
             verified |-> FALSE, queue |-> <<>>]

Runs(f) == dq # <<>> /\ Head(dq).fn = f

-------------------------------------------------------------------------------
(* entry *)

\* Mutant: the queue is not cleared.
FlushWithoutClear(e) == e

\* flush(): the entry afterwards ...
Flush(e) == IF e.connected THEN [e EXCEPT !.queue = <<>>] ELSE e

\* ... what it hands to the client ...
Flushed(e) == IF e.connected /\ e.verified THEN e.queue ELSE <<>>

\* ... and what it drops.
FlushDrops(e) == IF e.connected /\ ~e.verified THEN Range(e.queue) ELSE {}

\* async_send(v): the entry after flush() and, unless v was handed to the client,
\* with v queued
WithDatagram(e, n) ==
    IF e.connected /\ e.verified THEN Flush(e)
    ELSE [Flush(e) EXCEPT !.queue = Append(@, n)]

-------------------------------------------------------------------------------
(* The dispatcher *)

\* Mutant: the functions of the destroyed client stay.
WithClientFunctions(q, ps) == q

\* The functions of the clients of peers ps.
ClientFunctions(ps) == UNION {Calls(Signals, {p}, {entries[p].client}) : p \in ps}

\* ~client: detach() erases the functions of each of these clients.
WithoutClientFunctions(q, ps) == Kept(q, PeerFunctions \ ClientFunctions(ps))

\* The function of async_send: try_emplace, the first time with the client's
\* slots and async_start(), then entry::async_send.  The temporary entry that
\* try_emplace does not insert has no effect.
Send ==
    /\ Runs("send")
    /\ LET p == Head(dq).peer
           n == Head(dq).n
           e == IF p \in DOMAIN entries THEN entries[p] ELSE NewEntry
       IN  /\ entries' = [q \in DOMAIN entries \union {p} |->
                            IF q = p THEN WithDatagram(e, n) ELSE entries[q]]
           /\ created' = IF p \in DOMAIN entries THEN created ELSE created + 1
           /\ handed' = [handed EXCEPT ![p] = @ \o Flushed(e)
                             \o (IF e.connected /\ e.verified THEN <<n>> ELSE <<>>)]
           /\ discarded' = discarded \union FlushDrops(e)
    /\ dq' = Tail(dq)
    /\ UNCHANGED <<modeVars, shared_secrets, accepted>>

\* Mutant: flush() before set_connected(), where it does nothing.
ConnectedFlushesFirst ==
    /\ Runs("connected")
    /\ LET p == Head(dq).peer
       IN  \E verified \in BOOLEAN :
               /\ entries' = [entries EXCEPT ![p].connected = TRUE, ![p].verified = verified]
               /\ UNCHANGED <<handed, discarded>>
    /\ dq' = Tail(dq)
    /\ UNCHANGED <<modeVars, shared_secrets, created, accepted>>

\* The slot of connected: verify_peer_ decides, then flush().
Connected ==
    /\ Runs("connected")
    /\ LET p == Head(dq).peer
       IN  \E verified \in BOOLEAN :
               LET e == [entries[p] EXCEPT !.connected = TRUE, !.verified = verified]
               IN  /\ entries' = [entries EXCEPT ![p] = Flush(e)]
                   /\ handed' = [handed EXCEPT ![p] = @ \o Flushed(e)]
                   /\ discarded' = discarded \union FlushDrops(e)
    /\ dq' = Tail(dq)
    /\ UNCHANGED <<modeVars, shared_secrets, created, accepted>>

EraseSharedSecret(p) == shared_secrets' = shared_secrets \ {p}

\* Mutant: the client is destroyed and its entry stays in entries_.
EndedKeepsEntry ==
    /\ Runs("connect_failed") \/ Runs("closed")
    /\ LET p == Head(dq).peer
       IN  /\ entries' = [entries EXCEPT ![p].client = 0]
           /\ dq' = WithoutClientFunctions(Tail(dq), {p})
           /\ EraseSharedSecret(p)
    /\ UNCHANGED <<modeVars, created, accepted, handed, discarded>>

\* The slots of connect_failed and closed: the entry is erased with its client
\* and its queue, and the secret; then the end is reported.
Ended ==
    /\ Runs("connect_failed") \/ Runs("closed")
    /\ LET p == Head(dq).peer
       IN  /\ entries' = [q \in DOMAIN entries \ {p} |-> entries[q]]
           /\ dq' = WithoutClientFunctions(Tail(dq), {p})
           /\ EraseSharedSecret(p)
           /\ discarded' = discarded \union Range(entries[p].queue)
    /\ UNCHANGED <<modeVars, created, accepted, handed>>

\* error_occurred is passed on.
ErrorOccurred ==
    /\ Runs("error_occurred") /\ dq' = Tail(dq)
    /\ UNCHANGED <<modeVars, entries, shared_secrets, created, accepted, handed, discarded>>

\* The destructor's function: entries_.clear() destroys every client.
Clear ==
    /\ Runs("clear")
    /\ entries' = [p \in {} |-> 0]
    /\ dq' = WithoutClientFunctions(Tail(dq), DOMAIN entries)
    /\ UNCHANGED <<modeVars, shared_secrets, created, accepted, handed, discarded>>

-------------------------------------------------------------------------------
(* The clients *)

Signal(p, f, phase) ==
    /\ entries' = [entries EXCEPT ![p].phase = phase]
    /\ dq' = Append(dq, Function(f, p, entries[p].client))
    /\ UNCHANGED <<modeVars, shared_secrets, created, accepted, handed, discarded>>

ClientConnects(p) == entries[p].phase = "starting" /\ Signal(p, "connected", "up")

ClientConnectFails(p) == entries[p].phase = "starting" /\ Signal(p, "connect_failed", "down")

ClientCloses(p) == entries[p].phase = "up" /\ Signal(p, "closed", "down")

\* Bound: one such function is queued at a time.
ClientErrs(p) ==
    /\ entries[p].connected
    /\ \A i \in DOMAIN dq : ~(dq[i].fn = "error_occurred" /\ dq[i].peer = p)
    /\ Signal(p, "error_occurred", entries[p].phase)

-------------------------------------------------------------------------------
(* The user *)

\* async_send
Request(p) ==
    /\ attached
    /\ accepted < MaxSends
    /\ accepted' = accepted + 1
    /\ dq' = Append(dq, Function("send", p, accepted'))
    /\ UNCHANGED <<modeVars, entries, shared_secrets, created, handed, discarded>>

\* insert_shared_secret, in the caller's thread
InsertSharedSecret(p) ==
    /\ attached
    /\ shared_secrets' = shared_secrets \union {p}
    /\ UNCHANGED <<modeVars, dq, entries, created, accepted, handed, discarded>>

\* ~peer_manager: detach(object_id) erases the functions of async_send.
Destroy ==
    /\ attached
    /\ attached' = FALSE
    /\ detaching' = TRUE
    /\ dq' = Kept(dq, Calls(Signals, Peers, 0..MaxSends))
    /\ UNCHANGED <<entries, shared_secrets, created, accepted, handed, discarded>>

\* ~peer_manager goes on: the clearing is put before the functions of the clients.
EnqueueClear ==
    /\ detaching
    /\ detaching' = FALSE
    /\ LET p == CHOOSE q \in Peers : TRUE
       IN  dq' = <<Function("clear", p, 0)>> \o dq
    /\ UNCHANGED <<attached, entries, shared_secrets, created, accepted, handed, discarded>>

-------------------------------------------------------------------------------

Init ==
    /\ attached = TRUE /\ detaching = FALSE
    /\ dq = <<>>
    /\ entries = [p \in {} |-> 0]
    /\ shared_secrets = {}
    /\ created = 0 /\ accepted = 0
    /\ handed = [p \in Peers |-> <<>>]
    /\ discarded = {}

Dispatcher == Send \/ Connected \/ Ended \/ ErrorOccurred \/ Clear

Connecting == \E p \in DOMAIN entries : ClientConnects(p) \/ ClientConnectFails(p)

User == (\E p \in Peers : Request(p) \/ InsertSharedSecret(p)) \/ Destroy \/ EnqueueClear

Next ==
    \/ Dispatcher
    \/ Connecting
    \/ \E p \in DOMAIN entries : ClientCloses(p) \/ ClientErrs(p)
    \/ User

Spec == Init /\ [][Next]_vars

\* The dispatcher goes on, and a client that was started connects or fails.
LiveSpec == Spec /\ WF_vars(Dispatcher) /\ WF_vars(Connecting)

-------------------------------------------------------------------------------
(* Properties *)

\* Every variable has its type.
TypeOK ==
    /\ attached \in BOOLEAN /\ detaching \in BOOLEAN
    /\ dq \in Seq(PeerFunctions)
    /\ DOMAIN entries \subseteq Peers
    /\ \A p \in DOMAIN entries : entries[p] \in Entries
    /\ shared_secrets \subseteq Peers
    /\ created \in 0..MaxSends /\ accepted \in 0..MaxSends
    /\ handed \in [Peers -> Seq(1..MaxSends)]
    /\ discarded \subseteq 1..MaxSends

\* What is still on its way to peer p: queued in its entry, then in the dispatcher
Waiting(p) ==
    LET mine == Kept(dq, Calls({"send"}, {p}, 1..MaxSends))
    IN  (IF p \in DOMAIN entries THEN entries[p].queue ELSE <<>>)
          \o [i \in DOMAIN mine |-> mine[i].n]

\* The clients of a peer are handed its datagrams in the order of async_send and
\* none twice, over all connections, although some wait in the entry and others
\* arrive when it is connected (peer_manager.hpp:61-85, 115-163).
PeerOrder ==
    \A p \in Peers :
        LET s == handed[p] \o Waiting(p)
        IN  \A i, j \in DOMAIN s : i < j => s[i] < s[j]

\* With a connection made, a verified peer has nothing left waiting in its entry
\* and an unverified one at most the newest datagram, whichever of connected and
\* async_send ran first (peer_manager.hpp:61-85, 124-131).
NothingStranded ==
    \A p \in DOMAIN entries :
        entries[p].connected => Len(entries[p].queue) <= (IF entries[p].verified THEN 0 ELSE 1)

\* A signal that is delivered comes from the client of the present entry: that of
\* an earlier client of the path would erase the new entry and its secret, and
\* one that entries_.clear() left behind would use what is being destroyed
\* (peer_manager.hpp:107-111, 133-150).
SignalsOfPresent ==
    \A i \in DOMAIN dq :
        dq[i].fn \in Signals
          => dq[i].peer \in DOMAIN entries /\ entries[dq[i].peer].client = dq[i].n

\* Datagram n waits for a peer that was not verified.
Refused(n) ==
    \E p \in DOMAIN entries :
        entries[p].connected /\ ~entries[p].verified /\ n \in Range(entries[p].queue)

\* Every datagram accepted is eventually handed to a client or given up, with the
\* end of its connection or for want of verification; none waits for a
\* connection that nobody is making (peer_manager.hpp:121-161).
EventuallyDecided ==
    \A n \in 1..MaxSends :
        (accepted >= n) ~> \/ \E p \in Peers : n \in Range(handed[p])
                           \/ n \in discarded
                           \/ Refused(n)
                           \/ ~attached
===============================================================================
