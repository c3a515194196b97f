----------------------------- MODULE BoundedFifo -----------------------------
(***************************************************************************)
(* What the users of a Queue<T> rely on: a first-in first-out queue of at   *)
(* most Capacity items.  It promises nothing about which items a put may    *)
(* refuse, only that what it accepted is handed out once and in order.      *)
(***************************************************************************)
EXTENDS Integers, Sequences

CONSTANTS Item, Capacity

VARIABLE pending

FifoInit == pending = << >>

Put(x) == /\ Len(pending) < Capacity
          /\ pending' = Append(pending, x)

Take == /\ pending # << >>
        /\ pending' = Tail(pending)

FifoNext == (\E x \in Item : Put(x)) \/ Take

FifoSpec == FifoInit /\ [][FifoNext]_pending
=============================================================================
