-------------------------- MODULE AlgorQueueProofs --------------------------
(***************************************************************************)
(* Proofs about AlgorQueue: the rings of both queues stay consistent, and   *)
(* queue implements a first-in first-out queue.                             *)
(***************************************************************************)
EXTENDS AlgorQueue, SequenceTheorems, TLAPS

-----------------------------------------------------------------------------
(* Lemmas about the methods of Queue<T>.                                   *)

\* A new queue has its type, is consistent, and is empty.
LEMMA NewQueueOK ==
  ASSUME NEW max \in Nat \ {0}
  PROVE  /\ NewQueue(max) \in QueueOf(max)
         /\ RingInv(NewQueue(max))
         /\ Contents(NewQueue(max)) = << >>
  BY DEF NewQueue, QueueOf, RingInv, Wrap, Slot, Contents

\* Counting n + 1 slots from b round a ring of m + 1 slots, the last of them is
\* not one of the others as long as n < m.
LEMMA NextSlot ==
  ASSUME NEW m \in Nat, NEW b \in 0..m, NEW n \in 0..m, n < m, NEW i \in 1..n + 1
  PROVE  (i = n + 1) <=>
           (IF b + i - 1 > m THEN b + i - 1 - (m + 1) ELSE b + i - 1)
             = (IF b + n > m THEN b + n - (m + 1) ELSE b + n)
  OBVIOUS

\* Insert keeps a queue that is not full consistent, and appends to what it
\* holds.
LEMMA InsertOK ==
  ASSUME NEW max \in Nat \ {0}, NEW q \in QueueOf(max), RingInv(q),
         NEW x \in Block, ~Full(q)
  PROVE  /\ Insert(q, x) \in QueueOf(max)
         /\ RingInv(Insert(q, x))
         /\ Contents(Insert(q, x)) = Append(Contents(q), x)
  <1> DEFINE r == Insert(q, x)
  <1>1. /\ q.MAX = max /\ q.Beginning \in 0..max /\ q.End \in 0..max
        /\ q.Items \in 0..max /\ q.semaphore = q.Items /\ q.Items < max
        /\ q.Data \in [0..max -> Block \cup {NoBlock}]
        /\ q.End = Wrap(q, q.Beginning + q.Items)
    BY DEF QueueOf, RingInv, Full
  <1>2. /\ r.MAX = max /\ r.Data = [q.Data EXCEPT ![q.End] = x]
        /\ r.Beginning = q.Beginning /\ r.End = Wrap(q, q.End + 1)
        /\ r.Items = q.Items + 1 /\ r.semaphore = q.semaphore + 1
    BY DEF Insert, QueueOf
  <1>3. r \in QueueOf(max)
    <2>1. Wrap(q, q.End + 1) \in 0..max
      BY <1>1 DEF Wrap
    <2>2. [q.Data EXCEPT ![q.End] = x] \in [0..max -> Block \cup {NoBlock}]
      BY <1>1
    <2>3. q.Items + 1 \in 0..max
      BY <1>1
    <2> QED BY <1>1, <2>1, <2>2, <2>3 DEF QueueOf, Insert
  <1> HIDE DEF r
  <1>4. ASSUME NEW i \in 1..q.Items + 1
        PROVE  /\ Slot(r, i) = Slot(q, i) /\ Slot(q, i) \in 0..max
               /\ (i = q.Items + 1) <=> (Slot(q, i) = q.End)
    <2>1. Slot(r, i) = Slot(q, i)
      BY <1>1, <1>2 DEF Slot, Wrap
    <2>2. Slot(q, i) = IF q.Beginning + i - 1 > max
                       THEN q.Beginning + i - 1 - (max + 1) ELSE q.Beginning + i - 1
      BY <1>1 DEF Slot, Wrap
    <2>3. q.End = IF q.Beginning + q.Items > max
                  THEN q.Beginning + q.Items - (max + 1) ELSE q.Beginning + q.Items
      BY <1>1 DEF Wrap
    <2>4. Slot(q, i) \in 0..max
      BY <1>1, <2>2
    <2>5. (i = q.Items + 1) <=> (Slot(q, i) = q.End)
      <3>1. (i = q.Items + 1) <=>
              (IF q.Beginning + i - 1 > max
               THEN q.Beginning + i - 1 - (max + 1) ELSE q.Beginning + i - 1)
                = (IF q.Beginning + q.Items > max
                   THEN q.Beginning + q.Items - (max + 1) ELSE q.Beginning + q.Items)
        BY <1>1, NextSlot
      <3> QED BY <2>2, <2>3, <3>1
    <2> QED BY <2>1, <2>4, <2>5
  <1>5. \A i \in 1..q.Items : r.Data[Slot(r, i)] = q.Data[Slot(q, i)]
    BY <1>1, <1>2, <1>4
  <1>6. r.Data[Slot(r, q.Items + 1)] = x
    <2>1. q.Items + 1 \in 1..q.Items + 1
      BY <1>1
    <2>2. Slot(r, q.Items + 1) = q.End
      BY <1>4, <2>1
    <2> QED BY <1>1, <1>2, <2>2
  <1>7. RingInv(r)
    <2>1. r.End = Wrap(r, r.Beginning + r.Items)
      BY <1>1, <1>2 DEF Wrap
    <2>2. \A i \in 1..q.Items : r.Data[Slot(r, i)] \in Block
      BY <1>5 DEF RingInv
    <2>3. \A i \in 1..r.Items : i \in 1..q.Items \/ i = q.Items + 1
      BY <1>1, <1>2
    <2> QED BY <1>1, <1>2, <1>6, <2>1, <2>2, <2>3 DEF RingInv
  <1>8. Contents(r) = Append(Contents(q), x)
    <2>1. Contents(q) \in [1..q.Items -> Block]
      BY DEF RingInv, Contents
    <2>2. Contents(q) \in Seq(Block) /\ Len(Contents(q)) = q.Items
      BY <1>1, <2>1
    <2>3. Contents(r) \in [1..q.Items + 1 -> Block]
      BY <1>2, <1>7 DEF RingInv, Contents
    <2>4. Contents(r) \in Seq(Block) /\ Len(Contents(r)) = q.Items + 1
      BY <1>1, <2>3
    <2>5. \A i \in 1..q.Items + 1 :
             Contents(r)[i] = IF i = q.Items + 1 THEN x ELSE Contents(q)[i]
      BY <1>1, <1>2, <1>5, <1>6 DEF Contents
    <2>6. /\ Append(Contents(q), x) \in Seq(Block)
          /\ Len(Append(Contents(q), x)) = q.Items + 1
          /\ \A i \in 1..q.Items + 1 : Append(Contents(q), x)[i]
                 = IF i = q.Items + 1 THEN x ELSE Contents(q)[i]
      BY <1>1, <2>2, AppendProperties
    <2> QED BY <2>4, <2>5, <2>6, SeqEqual
  <1> QED BY <1>3, <1>7, <1>8 DEF r

\* AddOnce either leaves the queue alone or appends its argument.
LEMMA AddOnceOK ==
  ASSUME NEW max \in Nat \ {0}, NEW q \in QueueOf(max), RingInv(q),
         NEW x \in Block \cup {NoBlock}
  PROVE  /\ AddOnce(q, x) \in QueueOf(max)
         /\ RingInv(AddOnce(q, x))
         /\ \/ AddOnce(q, x) = q
            \/ /\ ~Full(q) /\ x \in Block
               /\ Contents(AddOnce(q, x)) = Append(Contents(q), x)
  <1>1. CASE Refuses(q, x)
    BY <1>1 DEF AddOnce
  <1>2. CASE ~Refuses(q, x)
    <2>1. ~Full(q) /\ x \in Block /\ AddOnce(q, x) = Insert(q, x)
      BY <1>2 DEF Refuses, AddOnce
    <2> QED BY <2>1, InsertOK
  <1> QED BY <1>1, <1>2

\* AddOnce compares its argument with the blocks in the queue, and with all of
\* them, as long as the occupied slots do not run past the end of the ring: then
\* the slots it looks at, counted modulo MAX, are those that the queue uses,
\* counted modulo MAX + 1.
LEMMA AddOnceSees ==
  ASSUME NEW max \in Nat \ {0}, NEW q \in QueueOf(max), NEW x \in Block,
         ~Wraps(q), ~Full(q)
  PROVE  AddOnce(q, x) = IF Holds(q, x) THEN q ELSE Insert(q, x)
  <1>1. /\ q.MAX = max /\ q.Beginning \in 0..max /\ q.Items \in 0..max
        /\ q.Beginning + q.Items <= max
    BY DEF QueueOf, Wraps
  <1>2. ASSUME NEW i \in 0..q.Items - 1
        PROVE  /\ (q.Beginning + i) % q.MAX = q.Beginning + i
               /\ Slot(q, i + 1) = q.Beginning + i /\ i + 1 \in 1..q.Items
    <2>1. q.Beginning + i \in 0..max - 1
      BY <1>1
    <2>2. (q.Beginning + i) % max = q.Beginning + i
      BY <2>1
    <2>3. Slot(q, i + 1) = q.Beginning + i
      BY <1>1 DEF Slot, Wrap
    <2> QED BY <1>1, <2>2, <2>3
  <1>3. ASSUME NEW i \in 1..q.Items
        PROVE  i - 1 \in 0..q.Items - 1 /\ (i - 1) + 1 = i
    BY <1>1
  <1>4. (\E s \in Scanned(q) : q.Data[s] = x) <=> Holds(q, x)
    <2>1. ASSUME NEW s \in Scanned(q), q.Data[s] = x PROVE Holds(q, x)
      <3>1. PICK i \in 0..q.Items - 1 : s = (q.Beginning + i) % q.MAX
        BY DEF Scanned
      <3> QED BY <1>2, <2>1, <3>1 DEF Holds
    <2>2. ASSUME NEW i \in 1..q.Items, q.Data[Slot(q, i)] = x
          PROVE  \E s \in Scanned(q) : q.Data[s] = x
      <3>1. Slot(q, i) \in Scanned(q)
        BY <1>2, <1>3 DEF Scanned
      <3> QED BY <2>2, <3>1
    <2> QED BY <2>1, <2>2 DEF Holds
  <1> QED BY <1>4, NoBlockAssumption DEF AddOnce, Refuses

\* Get keeps a queue consistent and takes the first block, if there is one.
LEMMA GetOK ==
  ASSUME NEW max \in Nat \ {0}, NEW q \in QueueOf(max), RingInv(q)
  PROVE  /\ Get(q) \in QueueOf(max)
         /\ RingInv(Get(q))
         /\ GotBy(q) \in Block \cup {NoBlock}
         /\ \/ Get(q) = q
            \/ /\ Contents(q) # << >>
               /\ Contents(Get(q)) = Tail(Contents(q))
  <1> DEFINE r == Get(q)
  <1>1. /\ q.MAX = max /\ q.Beginning \in 0..max /\ q.End \in 0..max
        /\ q.Items \in 0..max /\ q.semaphore = q.Items
        /\ q.Data \in [0..max -> Block \cup {NoBlock}]
        /\ q.End = Wrap(q, q.Beginning + q.Items)
    BY DEF QueueOf, RingInv
  <1>2. GotBy(q) \in Block \cup {NoBlock}
    BY <1>1 DEF GotBy, Acquired
  <1>3. CASE q.Items <= 0
    BY <1>2, <1>3 DEF Get
  <1>4. CASE q.Items > 0
    <2>1. /\ r.MAX = max /\ r.Data = q.Data
          /\ r.Beginning = Wrap(q, q.Beginning + 1) /\ r.End = q.End
          /\ r.Items = q.Items - 1 /\ r.semaphore = q.semaphore - 1
      BY <1>1, <1>4 DEF Get, Acquire, QueueOf, Wrap
    <2>2. r \in QueueOf(max)
      <3>1. Wrap(q, q.Beginning + 1) \in 0..max /\ q.Items - 1 \in 0..max
        BY <1>1, <1>4 DEF Wrap
      <3>2. Acquire(q) = [q EXCEPT !.Beginning = Wrap(q, q.Beginning + 1),
                                   !.Items = q.Items - 1]
        BY <1>1, <1>4 DEF Acquire
      <3>3. Acquire(q) \in QueueOf(max) /\ Acquire(q).semaphore = q.semaphore
        BY <1>1, <1>4, <3>1, <3>2 DEF QueueOf
      <3>4. r = [Acquire(q) EXCEPT !.semaphore = q.semaphore - 1]
        BY <1>1, <1>4, <3>3 DEF Get
      <3>5. q.semaphore - 1 \in 0..max
        BY <1>1, <1>4
      <3> QED BY <3>3, <3>4, <3>5 DEF QueueOf
    <2> HIDE DEF r
    <2>3. \A i \in 1..q.Items - 1 : Slot(r, i) = Slot(q, i + 1)
      BY <1>1, <1>4, <2>1 DEF Slot, Wrap
    <2>4. RingInv(r)
      <3>1. r.End = Wrap(r, r.Beginning + r.Items)
        BY <1>1, <1>4, <2>1 DEF Wrap
      <3>2. \A i \in 1..r.Items : r.Data[Slot(r, i)] \in Block
        BY <1>1, <1>4, <2>1, <2>3 DEF RingInv
      <3> QED BY <1>1, <2>1, <3>1, <3>2 DEF RingInv
    <2>5. Contents(q) \in [1..q.Items -> Block]
      BY DEF RingInv, Contents
    <2>6. Contents(q) \in Seq(Block) /\ Len(Contents(q)) = q.Items
      BY <1>1, <2>5
    <2>7. Contents(q) # << >>
      BY <1>1, <1>4, <2>6
    <2>8. Contents(r) \in [1..q.Items - 1 -> Block]
      BY <2>1, <2>4 DEF RingInv, Contents
    <2>9. Contents(r) \in Seq(Block) /\ Len(Contents(r)) = q.Items - 1
      BY <1>1, <1>4, <2>8
    <2>10. \A i \in 1..q.Items - 1 : Contents(r)[i] = Contents(q)[i + 1]
      BY <1>1, <1>4, <2>1, <2>3 DEF Contents
    <2>11. /\ Tail(Contents(q)) \in Seq(Block)
           /\ Len(Tail(Contents(q))) = q.Items - 1
           /\ \A i \in 1..q.Items - 1 : Tail(Contents(q))[i] = Contents(q)[i + 1]
      BY <1>1, <1>4, <2>6, <2>7, HeadTailProperties
    <2>12. Contents(r) = Tail(Contents(q))
      BY <2>9, <2>10, <2>11, SeqEqual
    <2> QED BY <1>2, <2>2, <2>4, <2>7, <2>12 DEF r
  <1> QED BY <1>1, <1>3, <1>4

-----------------------------------------------------------------------------
(* The inductive invariant: the types of the members alone are not          *)
(* inductive, since Get takes a token of the semaphore whenever Items says  *)
(* that there is a block, and Insert may only count up to MAX because End   *)
(* and Items agree.                                                         *)

Inv == TypeOK /\ RingsConsistent

LEMMA InitInv == Init => Inv
  <1> SUFFICES ASSUME Init PROVE Inv
    OBVIOUS
  <1>1. Idle \in Job
    BY DEF Idle, Job
  <1> QED BY <1>1, SizeAssumption, NewQueueOK DEF Init, Inv, TypeOK, RingsConsistent

\* What a step does to the two queues: an AddOnce, a Get, or nothing.
LEMMA StepOfQueues ==
  ASSUME Inv, Next
  PROVE  /\ \/ queue' = queue
            \/ queue' = Get(queue)
            \/ \E x \in Block \cup {NoBlock} : queue' = AddOnce(queue, x)
         /\ \/ tempQueue' = tempQueue
            \/ tempQueue' = Get(tempQueue)
            \/ \E x \in Block \cup {NoBlock} : tempQueue' = AddOnce(tempQueue, x)
         /\ job' \in [Caller -> Job]
  <1>1. /\ queue \in QueueOf(QueueSize) /\ RingInv(queue)
        /\ tempQueue \in QueueOf(TempSize) /\ RingInv(tempQueue)
        /\ job \in [Caller -> Job]
    BY DEF Inv, TypeOK, RingsConsistent
  <1>2. Idle \in Job
    BY DEF Idle, Job
  <1>3. ASSUME NEW c \in Caller, CallPut(c)
        PROVE  queue' = queue /\ tempQueue' = tempQueue /\ job' \in [Caller -> Job]
    <2>1. PICK B \in Block, call \in {"put", "puttemp"} :
             Start(c, call, <<B>>) \/ Start(c, call, <<B>> \o Around[B])
      BY <1>3 DEF CallPut
    <2>2. <<B>> \in Seq(Block) /\ <<B>> \o Around[B] \in Seq(Block)
      BY AroundAssumption, ConcatProperties
    <2>3. \A list \in Seq(Block) :
             [call |-> call, list |-> list, B |-> NoBlock] \in Job
      BY DEF Job
    <2> QED BY <1>1, <1>3, <2>1, <2>2, <2>3 DEF Start, CallPut
  <1>4. ASSUME NEW c \in Caller, PutStep(c) \/ PuttempStep(c)
        PROVE  Head(job[c].list) \in Block /\ job' \in [Caller -> Job]
    <2>1. job[c].list \in Seq(Block) /\ job[c].list # << >>
      BY <1>1, <1>4 DEF PutStep, PuttempStep, Job
    <2>2. Head(job[c].list) \in Block /\ Tail(job[c].list) \in Seq(Block)
      BY <2>1, HeadTailProperties
    <2>3. Proceed(c)
      BY <1>4 DEF PutStep, PuttempStep
    <2>4. [job[c] EXCEPT !.list = Tail(job[c].list)] \in Job
      BY <1>1, <1>4, <2>2 DEF PutStep, PuttempStep, Job
    <2> QED BY <1>1, <1>2, <2>2, <2>3, <2>4 DEF Proceed
  <1>5. ASSUME NEW c \in Caller, CallCpytmp(c)
        PROVE  queue' = queue /\ tempQueue' = tempQueue /\ job' \in [Caller -> Job]
    BY <1>1, <1>5 DEF CallCpytmp, Start, Job
  <1>6. ASSUME NEW c \in Caller, CpytmpTest(c)
        PROVE  queue' = queue /\ tempQueue' = tempQueue /\ job' \in [Caller -> Job]
    <2>1. [call |-> "get", list |-> << >>, B |-> NoBlock] \in Job
      BY DEF Job
    <2> QED BY <1>1, <1>2, <1>6, <2>1 DEF CpytmpTest, Start
  <1>7. ASSUME NEW c \in Caller, CpytmpGet(c)
        PROVE  /\ queue' = queue /\ tempQueue' = Get(tempQueue)
               /\ job' \in [Caller -> Job]
    <2>1. GotBy(tempQueue) \in Block \cup {NoBlock}
      BY <1>1, SizeAssumption, GetOK
    <2> QED BY <1>1, <1>7, <2>1 DEF CpytmpGet, Job
  <1>8. ASSUME NEW c \in Caller, CpytmpAdd(c)
        PROVE  job[c].B \in Block \cup {NoBlock} /\ job' \in [Caller -> Job]
    BY <1>1, <1>8 DEF CpytmpAdd, Start, Job
  <1>9. CASE GetBlock
    BY <1>1, <1>9 DEF GetBlock
  <1>10. CASE \E c \in Caller : PutStep(c)
    BY <1>4, <1>10 DEF PutStep
  <1>11. CASE \E c \in Caller : PuttempStep(c)
    BY <1>4, <1>11 DEF PuttempStep
  <1>12. CASE \E c \in Caller : CpytmpAdd(c)
    BY <1>8, <1>12 DEF CpytmpAdd
  <1> QED BY <1>3, <1>5, <1>6, <1>7, <1>9, <1>10, <1>11, <1>12 DEF Next

LEMMA NextInv == Inv /\ [Next]_vars => Inv'
  <1> SUFFICES ASSUME Inv, [Next]_vars PROVE Inv'
    OBVIOUS
  <1>1. /\ queue \in QueueOf(QueueSize) /\ RingInv(queue)
        /\ tempQueue \in QueueOf(TempSize) /\ RingInv(tempQueue)
    BY DEF Inv, TypeOK, RingsConsistent
  <1>2. CASE Next
    <2>1. queue' \in QueueOf(QueueSize) /\ RingInv(queue')
      BY <1>1, <1>2, StepOfQueues, AddOnceOK, GetOK, SizeAssumption
    <2>2. tempQueue' \in QueueOf(TempSize) /\ RingInv(tempQueue')
      BY <1>1, <1>2, StepOfQueues, AddOnceOK, GetOK, SizeAssumption
    <2>3. job' \in [Caller -> Job]
      BY <1>2, StepOfQueues
    <2>4. RingInv(queue)' /\ RingInv(tempQueue)'
      BY <2>1, <2>2 DEF RingInv, Wrap, Slot
    <2> QED BY <2>1, <2>2, <2>3, <2>4 DEF Inv, TypeOK, RingsConsistent
  <1>3. CASE UNCHANGED vars
    BY <1>3 DEF Inv, TypeOK, RingsConsistent, vars, RingInv, Slot, Wrap
  <1> QED BY <1>2, <1>3

-----------------------------------------------------------------------------
(* The theorems.                                                           *)

\* Every member of both queues and every caller's job keeps its type.
THEOREM TypeCorrect == Spec => []TypeOK
  <1>1. Inv => TypeOK
    BY DEF Inv
  <1> QED BY <1>1, InitInv, NextInv, PTL DEF Spec

\* However many callers put and move blocks, and however often a put is
\* refused, Beginning, End, Items and the semaphore of each queue agree.
THEOREM Consistent == Spec => []RingsConsistent
  <1>1. Inv => RingsConsistent
    BY DEF Inv
  <1> QED BY <1>1, InitInv, NextInv, PTL DEF Spec

\* The ring implements a first-in first-out queue of QueueSize blocks: every
\* accepted block is handed to the algorithm thread once, in order.
THEOREM ImplementsFifo == Spec => QueueIsFifo
  <1>1. Init => Fifo!FifoInit
    BY SizeAssumption, NewQueueOK DEF Init, Fifo!FifoInit
  <1>2. Inv /\ [Next]_vars => [Fifo!FifoNext]_(Contents(queue))
    <2> SUFFICES ASSUME Inv, [Next]_vars
                 PROVE  [Fifo!FifoNext]_(Contents(queue))
      OBVIOUS
    <2>1. queue \in QueueOf(QueueSize) /\ RingInv(queue)
      BY DEF Inv, TypeOK, RingsConsistent
    <2>2. Contents(queue)' = Contents(queue')
      BY DEF Contents, Slot, Wrap
    <2>3. CASE UNCHANGED vars
      BY <2>2, <2>3 DEF vars
    <2>4. CASE Next /\ queue' = queue
      BY <2>2, <2>4
    <2>5. CASE Next /\ queue' = Get(queue)
      BY <2>1, <2>2, <2>5, GetOK, SizeAssumption DEF Fifo!FifoNext, Fifo!Take
    <2>6. ASSUME NEW x \in Block \cup {NoBlock}, queue' = AddOnce(queue, x)
          PROVE  [Fifo!FifoNext]_(Contents(queue))
      <3>1. CASE queue' = queue
        BY <2>2, <3>1
      <3>2. CASE /\ ~Full(queue) /\ x \in Block
                 /\ Contents(queue') = Append(Contents(queue), x)
        <4>1. Len(Contents(queue)) < QueueSize
          <5>1. Contents(queue) \in [1..queue.Items -> Block]
            BY <2>1 DEF RingInv, Contents
          <5>2. queue.Items \in Nat /\ queue.Items < QueueSize
            BY <2>1, <3>2, SizeAssumption DEF QueueOf, Full
          <5> QED BY <5>1, <5>2
        <4> QED BY <2>2, <3>2, <4>1 DEF Fifo!FifoNext, Fifo!Put
      <3> QED BY <2>1, <2>6, <3>1, <3>2, AddOnceOK, SizeAssumption
    <2> QED BY <2>3, <2>4, <2>5, <2>6, StepOfQueues
  <1> QED BY <1>1, <1>2, InitInv, NextInv, PTL DEF Spec, QueueIsFifo, Fifo!FifoSpec

\* A block waits in queue at most once, and no new one is refused, as long as
\* the occupied slots do not run past the end of the ring, whichever callers put
\* it or move it over.
THEOREM AcceptedOnce == Spec => OnceBeforeWrap
  <1> DEFINE Once ==
        \A c \in Caller, x \in Block :
          PutsInQueue(c, x) /\ ~Wraps(queue) /\ ~Full(queue)
          => queue' = IF Holds(queue, x) THEN queue ELSE Insert(queue, x)
  <1>1. Inv => Once
    <2> SUFFICES ASSUME Inv, NEW c \in Caller, NEW x \in Block,
                        PutsInQueue(c, x), ~Wraps(queue), ~Full(queue)
                 PROVE  queue' = IF Holds(queue, x) THEN queue ELSE Insert(queue, x)
      OBVIOUS
    <2>1. queue' = AddOnce(queue, x)
      BY DEF PutsInQueue, PutStep, CpytmpAdd
    <2>2. queue \in QueueOf(QueueSize)
      BY DEF Inv, TypeOK
    <2> QED BY <2>1, <2>2, AddOnceSees, SizeAssumption
  <1>2. Inv /\ [Next]_vars => [Once]_vars
    BY <1>1
  <1> QED BY <1>2, InitInv, NextInv, PTL DEF Spec, OnceBeforeWrap
=============================================================================
