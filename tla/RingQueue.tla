------------------------------ MODULE RingQueue ------------------------------
(***************************************************************************)
(* The class Queue<T> of lib/utils/queue.h, one method call at a time.      *)
(*                                                                         *)
(* A queue of capacity MAX lives in a ring of MAX + 1 slots.  Its members   *)
(* are one record; each method is an operator from the record before the    *)
(* call to the record after it.  How two threads interleave INSIDE a        *)
(* method is the subject of SharedQueue.                                    *)
(***************************************************************************)
EXTENDS Integers, Sequences

CONSTANTS Item,    \* what the queue holds: the Block or Train pointers
          NoItem   \* the null pointer, and the content of an unwritten slot

\* Every value a queue of capacity max can have.
QueueOf(max) == [MAX : {max},
                 Data : [0..max -> Item \cup {NoItem}],
                 Beginning : 0..max,
                 End : 0..max,
                 Items : 0..max,
                 semaphore : 0..max]

NewQueue(max) == [MAX |-> max,
                  Data |-> [i \in 0..max |-> NoItem],
                  Beginning |-> 0,
                  End |-> 0,
                  Items |-> 0,
                  semaphore |-> 0]

\* An index that ran past the last slot continues at slot 0.
Wrap(q, i) == IF i > q.MAX THEN i - (q.MAX + 1) ELSE i

Full(q) == q.Items >= q.MAX

-----------------------------------------------------------------------------
(* The methods.                                                            *)

\* Mutant: the post is forgotten.
InsertNoPost(q, x) == [q EXCEPT !.Data = [@ EXCEPT ![q.End] = x],
                                !.End = Wrap(q, q.End + 1),
                                !.Items = @ + 1]

Insert(q, x) == [q EXCEPT !.Data = [@ EXCEPT ![q.End] = x],
                          !.End = Wrap(q, q.End + 1),
                          !.Items = @ + 1,
                          !.semaphore = @ + 1]

\* Mutant: the scan stops before the last item.
ScannedButLast(q) == {(q.Beginning + i) % q.MAX : i \in 0..q.Items - 2}

\* The slots AddOnce compares with its argument: MAX is the capacity, one
\* less than the number of slots of the ring.
Scanned(q) == {(q.Beginning + i) % q.MAX : i \in 0..q.Items - 1}

Refuses(q, x) == \/ Full(q)
                 \/ x = NoItem
                 \/ \E s \in Scanned(q) : q.Data[s] = x

AddOnce(q, x) == IF Refuses(q, x) THEN q ELSE Insert(q, x)

\* What Acquire returns, and what it leaves behind.
Acquired(q) == IF q.Items <= 0 THEN NoItem ELSE q.Data[q.Beginning]

\* Mutant: the first item stays in front.
AcquireLast(q) == IF q.Items <= 0 THEN q
                  ELSE [q EXCEPT !.End = IF @ = 0 THEN q.MAX ELSE @ - 1,
                                 !.Items = @ - 1]

Acquire(q) == IF q.Items <= 0 THEN q
              ELSE [q EXCEPT !.Beginning = Wrap(q, @ + 1),
                             !.Items = @ - 1]

\* Get returns at once when Items is 0; otherwise it takes a token of the
\* semaphore, for which it has to wait when there is none.
GetBlocks(q) == q.Items > 0 /\ q.semaphore = 0
GotBy(q) == Acquired(q)
Get(q) == IF q.Items <= 0 THEN q
          ELSE [Acquire(q) EXCEPT !.semaphore = @ - 1]

-----------------------------------------------------------------------------
(* What the ring means.                                                    *)

\* The slots from Beginning on, in the order in which they will be taken.
Slot(q, i) == Wrap(q, q.Beginning + i - 1)
Contents(q) == [i \in 1..q.Items |-> q.Data[Slot(q, i)]]

Holds(q, x) == \E i \in 1..q.Items : q.Data[Slot(q, i)] = x

\* The occupied slots run past the last slot of the ring.
Wraps(q) == q.Beginning + q.Items > q.MAX

\* The members agree with each other.
RingInv(q) == /\ q.End = Wrap(q, q.Beginning + q.Items)
              /\ q.semaphore = q.Items
              /\ \A i \in 1..q.Items : q.Data[Slot(q, i)] \in Item
=============================================================================
