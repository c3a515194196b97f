----------------------------- MODULE AlgorQueue -----------------------------
(***************************************************************************)
(* The work queues of the algorithm (lib/algorithm/queue.h and              *)
(* src/algorithm/queue.cpp).                                                *)
(*                                                                         *)
(* The UART, websocket and scheduler threads put blocks that need to be     *)
(* processed into queue; code that changes several blocks first collects    *)
(* them in tempQueue and then moves them over with cpytmp.  The algorithm   *)
(* thread takes them from queue.  Every method of a Queue<T> is one step    *)
(* here, and the loops of AlgorQueue that call several of them (put and     *)
(* puttemp of a blockAlgorithm, cpytmp) are several steps, between which    *)
(* the other threads run.                                                   *)
(***************************************************************************)
EXTENDS Integers, Sequences

CONSTANTS Block,       \* the blocks of the layout
          NoBlock,     \* the null pointer
          Caller,      \* the threads that put blocks
          Around,      \* Around[B]: the blocks next to B that its AlgorSearch found
          QueueSize,   \* capacity of queue      (500 in the program)
          TempSize     \* capacity of tempQueue  (25 in the program)

ASSUME SizeAssumption == QueueSize \in Nat \ {0} /\ TempSize \in Nat \ {0}
ASSUME AroundAssumption == Around \in [Block -> Seq(Block)]
ASSUME NoBlockAssumption == NoBlock \notin Block

VARIABLES queue,       \* Queue<Block *>(500)
          tempQueue,   \* Queue<Block *>(25)
          job          \* what each caller is doing

vars == <<queue, tempQueue, job>>

INSTANCE RingQueue WITH Item <- Block, NoItem <- NoBlock

Job == [call : {"idle", "put", "puttemp", "test", "get", "add"},
        list : Seq(Block),            \* what is left to put
        B : Block \cup {NoBlock}]     \* what cpytmp took out of tempQueue

Idle == [call |-> "idle", list |-> << >>, B |-> NoBlock]

Init == /\ queue = NewQueue(QueueSize)
        /\ tempQueue = NewQueue(TempSize)
        /\ job = [c \in Caller |-> Idle]

-----------------------------------------------------------------------------
(* put and puttemp of one block, and of a block with the blocks around it. *)

Start(c, call, list) == job' = [job EXCEPT ![c] = [call |-> call, list |-> list, B |-> NoBlock]]

\* The caller has the next element of its list to put, or is done.
Proceed(c) == LET rest == Tail(job[c].list) IN
                 IF rest = << >> THEN job' = [job EXCEPT ![c] = Idle]
                                 ELSE job' = [job EXCEPT ![c].list = rest]

CallPut(c) == /\ job[c] = Idle
              /\ \E B \in Block, call \in {"put", "puttemp"} :
                    \/ Start(c, call, <<B>>)
                    \/ Start(c, call, <<B>> \o Around[B])
              /\ UNCHANGED <<queue, tempQueue>>

PutStep(c) == /\ job[c].call = "put" /\ job[c].list # << >>
              /\ queue' = AddOnce(queue, Head(job[c].list))
              /\ Proceed(c)
              /\ UNCHANGED tempQueue

PuttempStep(c) == /\ job[c].call = "puttemp" /\ job[c].list # << >>
                  /\ tempQueue' = AddOnce(tempQueue, Head(job[c].list))
                  /\ Proceed(c)
                  /\ UNCHANGED queue

-----------------------------------------------------------------------------
(* cpytmp: while(tempQueue->getItems() > 0) queue->AddOnce(tempQueue->Get()) *)

CallCpytmp(c) == /\ job[c] = Idle
                 /\ Start(c, "test", << >>)
                 /\ UNCHANGED <<queue, tempQueue>>

CpytmpTest(c) == /\ job[c].call = "test"
                 /\ IF tempQueue.Items > 0 THEN Start(c, "get", << >>)
                                           ELSE job' = [job EXCEPT ![c] = Idle]
                 /\ UNCHANGED <<queue, tempQueue>>

CpytmpGet(c) == /\ job[c].call = "get"
                /\ ~GetBlocks(tempQueue)
                /\ job' = [job EXCEPT ![c] = [call |-> "add", list |-> << >>,
                                              B |-> GotBy(tempQueue)]]
                /\ tempQueue' = Get(tempQueue)
                /\ UNCHANGED queue

CpytmpAdd(c) == /\ job[c].call = "add"
                /\ queue' = AddOnce(queue, job[c].B)
                /\ Start(c, "test", << >>)
                /\ UNCHANGED tempQueue

-----------------------------------------------------------------------------
(* The algorithm thread: getWait and get differ only in that getWait waits *)
(* for a block, at most 15 seconds.                                        *)

GetBlock == /\ ~GetBlocks(queue)
            /\ queue' = Get(queue)
            /\ UNCHANGED <<tempQueue, job>>

Next == \/ \E c \in Caller : \/ CallPut(c) \/ PutStep(c) \/ PuttempStep(c)
                             \/ CallCpytmp(c) \/ CpytmpTest(c)
                             \/ CpytmpGet(c) \/ CpytmpAdd(c)
        \/ GetBlock

Spec == Init /\ [][Next]_vars

-----------------------------------------------------------------------------
(* Properties.                                                             *)

\* The members of both queues and every caller's job have their types.
TypeOK == /\ queue \in QueueOf(QueueSize)
          /\ tempQueue \in QueueOf(TempSize)
          /\ job \in [Caller -> Job]

\* In both rings Beginning, End, Items and the semaphore always tell the same
\* number of blocks, through any number of laps and refused puts: no Get waits
\* on the semaphore of a queue that has blocks, and none finds a token without
\* a block (lib/utils/queue.h, Insert, Get and Acquire).
RingsConsistent == RingInv(queue) /\ RingInv(tempQueue)

\* queue hands out the accepted blocks once and in the order of their puts,
\* although callers put and move blocks over at the same time.
Fifo == INSTANCE BoundedFifo WITH Item <- Block, Capacity <- QueueSize,
                                  pending <- Contents(queue)
QueueIsFifo == Fifo!FifoSpec

\* The caller runs queue.AddOnce(x).
PutsInQueue(c, x) == \/ PutStep(c) /\ x = Head(job[c].list)
                     \/ CpytmpAdd(c) /\ x = job[c].B

\* As long as the occupied slots do not run past the end of the ring, AddOnce
\* refuses exactly the blocks that are in the queue already (lib/utils/queue.h,
\* AddOnce), so no change of a block waits in the queue twice or not at all.
OnceBeforeWrap ==
  [][\A c \in Caller, x \in Block :
       PutsInQueue(c, x) /\ ~Wraps(queue) /\ ~Full(queue)
       => queue' = IF Holds(queue, x) THEN queue ELSE Insert(queue, x)]_vars

\* cpytmp "Copies temp to queue" (lib/algorithm/queue.h): a block cpytmp took
\* out of tempQueue is in queue afterwards.
CpytmpCopies ==
  [][\A c \in Caller, x \in Block :
       CpytmpAdd(c) /\ x = job[c].B => Holds(queue', x)]_vars
=============================================================================
