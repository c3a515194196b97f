----------------------------- MODULE SharedQueue -----------------------------
(***************************************************************************)
(* Queue<T> of lib/utils/queue.h, shared by threads that run at the same    *)
(* time.                                                                   *)
(*                                                                         *)
(* AddOnce holds the mutex, but Get and waitGet do not: the consumer changes *)
(* Items while a producer does.  ++Items and --Items are a load and a store *)
(* in the build (the Makefile compiles without optimisation and Items is    *)
(* not atomic), so each is two steps here and an update can be lost.  The   *)
(* semaphore is the only thing the two sides agree on.                      *)
(***************************************************************************)
EXTENDS Integers, FiniteSets

CONSTANTS Item,       \* the blocks that are put
          Producer,   \* the threads that call AddOnce
          Consumer,   \* the threads that call Get or waitGet
          Nobody,     \* no thread
          NoItem,     \* the content of a slot that was never written
          MAX,        \* the capacity of the queue
          MaxPuts     \* bound: items put in a behaviour

ASSUME MaxAssumption == MAX \in Nat \ {0} /\ MaxPuts \in Nat
ASSUME ThreadAssumption == /\ Producer \cap Consumer = {}
                           /\ Nobody \notin Producer \cup Consumer
                           /\ IsFiniteSet(Consumer)

Slots == 0..MAX

VARIABLES Data, Beginning, End, Items, semaphore,   \* the members of the queue
          mutex,      \* the thread that holds the mutex, or Nobody
          pc,         \* where each thread is
          arg,        \* the argument of a producer's AddOnce
          reg,        \* the value a thread loaded, or its loop counter
          inserted,   \* history: items written into the ring
          taken       \* history: items read from the ring

members == <<Data, Beginning, End, Items, semaphore>>
vars == <<members, mutex, pc, arg, reg, inserted, taken>>

Thread == Producer \cup Consumer

\* Where a thread can be: in AddOnce and Insert, or in Get, waitGet and Acquire.
Label == {"idle", "full?", "scan", "write", "load++", "store++", "post",
          "wait", "timedwait", "empty?", "read", "bump", "load--", "store--", "wrap"}

Init == /\ Data = [s \in Slots |-> NoItem]
        /\ Beginning = 0 /\ End = 0 /\ Items = 0 /\ semaphore = 0
        /\ mutex = Nobody
        /\ pc = [t \in Thread |-> "idle"]
        /\ arg = [p \in Producer |-> NoItem]
        /\ reg = [t \in Thread |-> 0]
        /\ inserted = 0 /\ taken = 0

Goto(t, l) == pc' = [pc EXCEPT ![t] = l]
Move(t, from, to) == pc[t] = from /\ Goto(t, to)
Load(t, v) == reg' = [reg EXCEPT ![t] = v]
Wrap(i) == IF i > MAX THEN i - (MAX + 1) ELSE i

-----------------------------------------------------------------------------
(* AddOnce and Insert.                                                     *)

Lock(p, x) == /\ inserted < MaxPuts
              /\ Move(p, "idle", "full?")
              /\ mutex = Nobody
              /\ mutex' = p
              /\ arg' = [arg EXCEPT ![p] = x]
              /\ UNCHANGED <<members, reg, inserted, taken>>

\* The lock_guard releases the mutex when AddOnce returns.
Return(p) == mutex' = Nobody /\ Goto(p, "idle")

TestFull(p) == /\ pc[p] = "full?"
               /\ IF Items >= MAX THEN Return(p) /\ UNCHANGED reg
                  ELSE Goto(p, "scan") /\ Load(p, 0) /\ UNCHANGED mutex
               /\ UNCHANGED <<members, arg, inserted, taken>>

\* One round of the loop that looks for a duplicate; reg counts the rounds.
Scan(p) == /\ pc[p] = "scan"
           /\ \/ /\ reg[p] >= Items
                 /\ Goto(p, "write")
                 /\ UNCHANGED <<mutex, reg>>
              \/ /\ reg[p] < Items
                 /\ Data[(Beginning + reg[p]) % MAX] = arg[p]
                 /\ Return(p)
                 /\ UNCHANGED reg
              \/ /\ reg[p] < Items
                 /\ Data[(Beginning + reg[p]) % MAX] # arg[p]
                 /\ Load(p, reg[p] + 1)
                 /\ UNCHANGED <<mutex, pc>>
           /\ UNCHANGED <<members, arg, inserted, taken>>

Write(p) == /\ Move(p, "write", "load++")
            /\ Data' = [Data EXCEPT ![End] = arg[p]]
            /\ End' = End + 1
            /\ inserted' = inserted + 1
            /\ UNCHANGED <<Beginning, Items, semaphore, mutex, arg, reg, taken>>

LoadToIncrement(p) == /\ Move(p, "load++", "store++")
                      /\ Load(p, Items)
                      /\ UNCHANGED <<members, mutex, arg, inserted, taken>>

Increment(p) == /\ Move(p, "store++", "post")
                /\ Items' = reg[p] + 1
                /\ UNCHANGED <<Data, Beginning, End, semaphore, mutex, arg, reg,
                               inserted, taken>>

Post(p) == /\ pc[p] = "post"
           /\ End' = Wrap(End)
           /\ semaphore' = semaphore + 1
           /\ Return(p)
           /\ UNCHANGED <<Data, Beginning, Items, arg, reg, inserted, taken>>

-----------------------------------------------------------------------------
(* Get, waitGet and Acquire.                                               *)

CallGet(c) == /\ pc[c] = "idle"
              /\ IF Items <= 0 THEN UNCHANGED pc ELSE Goto(c, "wait")
              /\ UNCHANGED <<members, mutex, arg, reg, inserted, taken>>

CallWaitGet(c) == /\ Move(c, "idle", "timedwait")
                  /\ UNCHANGED <<members, mutex, arg, reg, inserted, taken>>

\* Mutant: waitGet goes on when the wait ran out of time.
TakeNoToken(c) == /\ pc[c] \in {"wait", "timedwait"}
                  /\ semaphore' = IF semaphore > 0 THEN semaphore - 1 ELSE 0
                  /\ Goto(c, "empty?")
                  /\ UNCHANGED <<Data, Beginning, End, Items, mutex, arg, reg,
                                 inserted, taken>>

TakeToken(c) == /\ pc[c] \in {"wait", "timedwait"}
                /\ semaphore > 0
                /\ semaphore' = semaphore - 1
                /\ Goto(c, "empty?")
                /\ UNCHANGED <<Data, Beginning, End, Items, mutex, arg, reg,
                               inserted, taken>>

TimeOut(c) == /\ Move(c, "timedwait", "idle")
              /\ semaphore = 0
              /\ UNCHANGED <<members, mutex, arg, reg, inserted, taken>>

\* Acquire returns 0 when Items is 0: the token is gone.
TestEmpty(c) == /\ pc[c] = "empty?"
                /\ Goto(c, IF Items <= 0 THEN "idle" ELSE "read")
                /\ UNCHANGED <<members, mutex, arg, reg, inserted, taken>>

\* Data[Beginning++]
LoadBeginning(c) == /\ Move(c, "read", "bump")
                    /\ Load(c, Beginning)
                    /\ UNCHANGED <<members, mutex, arg, inserted, taken>>

Read(c) == /\ Move(c, "bump", "load--")
           /\ Beginning' = reg[c] + 1
           /\ taken' = taken + 1
           /\ UNCHANGED <<Data, End, Items, semaphore, mutex, arg, reg, inserted>>

LoadToDecrement(c) == /\ Move(c, "load--", "store--")
                      /\ Load(c, Items)
                      /\ UNCHANGED <<members, mutex, arg, inserted, taken>>

Decrement(c) == /\ Move(c, "store--", "wrap")
                /\ Items' = reg[c] - 1
                /\ UNCHANGED <<Data, Beginning, End, semaphore, mutex, arg, reg,
                               inserted, taken>>

\* Mutant: Beginning is wrapped as in a ring of MAX slots.
WrapBeginningEarly(c) == /\ Move(c, "wrap", "idle")
                         /\ Beginning' = IF Beginning >= MAX THEN 0 ELSE Beginning
                         /\ UNCHANGED <<Data, End, Items, semaphore, mutex, arg, reg,
                                        inserted, taken>>
WrapBeginning(c) == /\ Move(c, "wrap", "idle")
                    /\ Beginning' = Wrap(Beginning)
                    /\ UNCHANGED <<Data, End, Items, semaphore, mutex, arg, reg,
                                   inserted, taken>>

-----------------------------------------------------------------------------

Put(p) == \/ \E x \in Item : Lock(p, x)
          \/ TestFull(p) \/ Scan(p) \/ Write(p)
          \/ LoadToIncrement(p) \/ Increment(p) \/ Post(p)

Acquire(c) == \/ TestEmpty(c) \/ LoadBeginning(c) \/ Read(c)
              \/ LoadToDecrement(c) \/ Decrement(c) \/ WrapBeginning(c)

Take(c) == CallGet(c) \/ CallWaitGet(c) \/ TakeToken(c) \/ TimeOut(c) \/ Acquire(c)

Next == (\E p \in Producer : Put(p)) \/ (\E c \in Consumer : Take(c))

Spec == Init /\ [][Next]_vars

-----------------------------------------------------------------------------
(* Properties.                                                             *)

\* The members have their types; Beginning and End are at most one past the last
\* slot, between the increment and the wrap (Insert and Acquire).
TypeOK == /\ Data \in [Slots -> Item \cup {NoItem}]
          /\ Beginning \in 0..MAX + 1
          /\ End \in 0..MAX + 1
          /\ Items \in Int
          /\ semaphore \in Nat
          /\ mutex \in Producer \cup {Nobody}
          /\ pc \in [Thread -> Label]
          /\ arg \in [Producer -> Item \cup {NoItem}]
          /\ reg \in [Thread -> Int]
          /\ inserted \in Nat /\ taken \in Nat

\* A consumer that holds a token it has not used yet.
Holding == {c \in Consumer : pc[c] \in {"empty?", "read", "bump"}}

\* Whatever happens to Items, the consumers never read more items than the
\* producers wrote: a read needs a token, and Insert posts one only after it
\* wrote the item (lib/utils/queue.h, Insert and Get).
NeverAhead == taken + Cardinality(Holding) + semaphore <= inserted

\* The consumer reads the slot the producers wrote at its turn: Beginning is
\* the number of items taken, counted round the ring.
InTurn == \A c \in Consumer : pc[c] = "bump" => reg[c] = taken % (MAX + 1)

\* "CHECK(AlQueue.queue->getItems() == 0); CHECK(AlQueue.get() == 0);"
\* (test/src/algorithm.cpp): get on an empty queue returns instead of waiting.
GetReturns == \A c \in Consumer :
                 pc[c] = "wait" /\ (\A t \in Thread \ {c} : pc[t] = "idle")
                 => semaphore > 0
=============================================================================
