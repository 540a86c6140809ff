------------------------------ MODULE SendQueue ------------------------------
(***************************************************************************)
(* What the sender of a local_datagram client or server promises about the *)
(* entries handed to async_send (the deque send_entries_ that base_impl    *)
(* shares with client.hpp and server.hpp), with no socket, timer or        *)
(* handler in sight: an entry is put at the back, the entry at the front   *)
(* is transmitted as one datagram or dropped with an error, and nothing    *)
(* else ever happens to it.  Entries carry increasing numbers.             *)
(*                                                                         *)
(* BaseImpl implements this specification.                                 *)
(***************************************************************************)
EXTENDS Naturals, Sequences

VARIABLES
    last,       \* number of the newest entry
    pending,    \* entries still to be transmitted, oldest first
    wire,       \* datagrams handed to the kernel, in order
    dropped     \* entries given up

vars == <<last, pending, wire, dropped>>

Init ==
    /\ last = 0
    /\ pending = <<>>
    /\ wire = <<>>
    /\ dropped = {}

Put ==
    /\ last' > last
    /\ pending' = Append(pending, last')
    /\ UNCHANGED <<wire, dropped>>

Transmit ==
    /\ pending # <<>>
    /\ wire' = Append(wire, Head(pending))
    /\ pending' = Tail(pending)
    /\ UNCHANGED <<last, dropped>>

Drop ==
    /\ pending # <<>>
    /\ dropped' = dropped \union {Head(pending)}
    /\ pending' = Tail(pending)
    /\ UNCHANGED <<last, wire>>

Next == Put \/ Transmit \/ Drop

Spec == Init /\ [][Next]_vars
==============================================================================
