-------------------------------- MODULE Queues --------------------------------
(***************************************************************************)
(* What the dispatcher does to its queue when an object is detached.  A    *)
(* recursive function takes the place of SelectSeq, of which the provers   *)
(* know nothing.                                                           *)
(***************************************************************************)
EXTENDS Integers, Sequences

\* The elements of queue q that are in S, in the order of q.
Kept(q, S) ==
    LET F[i \in 0..Len(q)] ==
          IF i = 0 THEN <<>>
          ELSE IF q[i] \in S THEN Append(F[i - 1], q[i]) ELSE F[i - 1]
    IN  F[Len(q)]
===============================================================================
