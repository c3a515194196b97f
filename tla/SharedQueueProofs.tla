-------------------------- MODULE SharedQueueProofs --------------------------
(***************************************************************************)
(* The semaphore keeps the consumers behind the producers whatever the      *)
(* unsynchronised updates of Items do: a proof of NeverAhead for any        *)
(* numbers of producers and consumers, any capacity and any item.  A single *)
(* consumer reads the slots in turn: a proof of InTurn.                     *)
(***************************************************************************)
EXTENDS SharedQueue, FiniteSetTheorems, TLAPS

\* Where a producer holds the mutex, and where it has written an item for
\* which it has not posted a token yet.
Locked == {"full?", "scan", "write", "load++", "store++", "post"}
Unposted == {"load++", "store++", "post"}
Owed == IF mutex # Nobody /\ pc[mutex] \in Unposted THEN 1 ELSE 0

\* The part of the types the argument needs.
Types == /\ mutex \in Producer \cup {Nobody}
         /\ pc \in [Thread -> Label]
         /\ semaphore \in Nat /\ inserted \in Nat /\ taken \in Nat

\* A thread is inside AddOnce exactly when it holds the mutex, and a consumer
\* never is.
OneInside == /\ \A p \in Producer : pc[p] \in Locked => mutex = p
             /\ mutex # Nobody => pc[mutex] \in Locked
             /\ \A c \in Consumer : pc[c] \notin Locked

\* Every item written pays for one token: posted, in a consumer's hand, used
\* for a read, or still owed by the producer that wrote it.
Paid == taken + Cardinality(Holding) + semaphore + Owed <= inserted

Inv == Types /\ OneInside /\ Paid

\* The consumers that hold a token are finitely many.
LEMMA HoldingFinite == IsFiniteSet(Holding) /\ Cardinality(Holding) \in Nat
  <1>1. IsFiniteSet(Consumer) /\ Holding \subseteq Consumer
    BY ThreadAssumption DEF Holding
  <1> QED BY <1>1, FS_Subset, FS_CardinalityType

LEMMA InitInv == Init => Inv
  <1> SUFFICES ASSUME Init PROVE Inv
    OBVIOUS
  <1>1. Holding = {}
    BY DEF Init, Holding, Thread
  <1>2. Cardinality(Holding) = 0
    BY <1>1, FS_EmptySet
  <1>3. Types /\ OneInside
    BY ThreadAssumption DEF Init, Types, Label, OneInside, Locked, Thread
  <1> QED BY <1>2, <1>3 DEF Init, Inv, Paid, Owed

\* A step of a producer leaves the consumers where they are.
LEMMA PutKeepsHolding ==
  ASSUME Inv, NEW p \in Producer, Put(p)
  PROVE  Holding' = Holding /\ taken' = taken
  <1>1. \A c \in Consumer : pc'[c] = pc[c]
    BY ThreadAssumption DEF Inv, Types, Thread, Put, Lock, TestFull, Scan, Write,
       LoadToIncrement, Increment, Post, Return, Move, Goto
  <1>2. taken' = taken
    BY DEF Put, Lock, TestFull, Scan, Write, LoadToIncrement, Increment, Post
  <1> QED BY <1>1, <1>2 DEF Holding

\* A step of a producer preserves the invariant: Write raises both sides, Post
\* turns what is owed into a token.
LEMMA PutInv ==
  ASSUME Inv, NEW p \in Producer, Put(p)
  PROVE  Inv'
  <1>1. /\ Types /\ OneInside /\ Paid
        /\ p \in Thread /\ p # Nobody
    BY ThreadAssumption DEF Inv, Thread
  <1>2. Holding' = Holding /\ taken' = taken /\ Cardinality(Holding) \in Nat
    BY PutKeepsHolding, HoldingFinite
  <1>3. CASE \E x \in Item : Lock(p, x)
    <2>1. PICK x \in Item : Lock(p, x)
      BY <1>3
    <2>2. Types'
      BY <1>1, <2>1 DEF Types, Label, Lock, Move, Goto, members
    <2>3. OneInside'
      BY <1>1, <2>1, ThreadAssumption DEF Types, Label, OneInside, Locked, Lock, Move, Goto, Thread
    <2>4. Owed = 0 /\ Owed' = 0
      BY <1>1, <2>1 DEF Types, Label, Owed, Unposted, Lock, Move, Goto
    <2>5. UNCHANGED <<semaphore, inserted>>
      BY <2>1 DEF Lock, members
    <2> QED BY <1>1, <1>2, <2>2, <2>3, <2>4, <2>5 DEF Inv, Paid
  <1>4. ASSUME pc[p] \in {"full?", "scan"},
               \/ Return(p)
               \/ pc' = pc /\ mutex' = mutex
               \/ (\E l \in {"scan", "write"} : Goto(p, l)) /\ mutex' = mutex,
               UNCHANGED <<semaphore, inserted, taken>>
        PROVE  Inv'
    <2>1. mutex = p
      BY <1>1, <1>4 DEF OneInside, Locked
    <2>2. Types'
      BY <1>1, <1>4 DEF Types, Label, Return, Goto
    <2>3. OneInside'
      BY <1>1, <1>4, <2>1, ThreadAssumption
      DEF Types, Label, OneInside, Locked, Return, Goto, Thread
    <2>4. Owed = 0 /\ Owed' = 0
      BY <1>1, <1>4, <2>1 DEF Types, Label, Owed, Unposted, Return, Goto
    <2> QED BY <1>1, <1>2, <1>4, <2>2, <2>3, <2>4 DEF Inv, Paid
  <1>5. CASE TestFull(p)
    BY <1>4, <1>5 DEF TestFull, members
  <1>6. CASE Scan(p)
    BY <1>4, <1>6 DEF Scan, members
  <1>7. ASSUME pc[p] \in {"write", "load++", "store++"},
               \E l \in Unposted : Goto(p, l),
               UNCHANGED <<semaphore, mutex>>,
               inserted' = inserted + IF pc[p] = "write" THEN 1 ELSE 0
        PROVE  Inv'
    <2>1. mutex = p
      BY <1>1, <1>7 DEF OneInside, Locked
    <2>2. Types'
      BY <1>1, <1>2, <1>7 DEF Types, Label, Goto, Unposted
    <2>3. OneInside'
      BY <1>1, <1>7, <2>1, ThreadAssumption
      DEF Types, Label, OneInside, Locked, Unposted, Goto, Thread
    <2>4. Owed' = 1 /\ Owed = IF pc[p] = "write" THEN 0 ELSE 1
      BY <1>1, <1>7, <2>1 DEF Types, Label, Owed, Unposted, Goto
    <2> QED BY <1>1, <1>2, <1>7, <2>2, <2>3, <2>4 DEF Inv, Paid, Types
  <1>8. CASE Write(p)
    BY <1>7, <1>8 DEF Write, Move, Unposted
  <1>9. CASE LoadToIncrement(p)
    BY <1>1, <1>7, <1>9 DEF LoadToIncrement, Move, Unposted, members, Types, Label
  <1>10. CASE Increment(p)
    BY <1>1, <1>7, <1>10 DEF Increment, Move, Unposted, Types
  <1>11. CASE Post(p)
    <2>1. mutex = p
      BY <1>1, <1>11 DEF OneInside, Locked, Post
    <2>2. Types'
      BY <1>1, <1>11 DEF Types, Label, Post, Return, Goto
    <2>3. OneInside'
      BY <1>1, <1>11, <2>1, ThreadAssumption
      DEF Types, Label, OneInside, Locked, Post, Return, Goto, Thread
    <2>4. Owed = 1 /\ Owed' = 0
      BY <1>1, <1>11, <2>1 DEF Types, Label, Owed, Unposted, Post, Return, Goto
    <2>5. semaphore' = semaphore + 1 /\ inserted' = inserted
      BY <1>11 DEF Post
    <2> QED BY <1>1, <1>2, <2>2, <2>3, <2>4, <2>5 DEF Inv, Paid, Types
  <1> QED BY <1>3, <1>5, <1>6, <1>8, <1>9, <1>10, <1>11 DEF Put

\* A step of a consumer preserves the invariant: a token moves from the
\* semaphore to the consumer, and from there to the read or to nothing.
LEMMA TakeInv ==
  ASSUME Inv, NEW c \in Consumer, Take(c)
  PROVE  Inv'
  <1>1. /\ Types /\ OneInside /\ Paid
        /\ c \in Thread /\ c # mutex /\ c \notin Producer
    BY ThreadAssumption DEF Inv, Thread, Types, OneInside
  <1>2. IsFiniteSet(Holding) /\ Cardinality(Holding) \in Nat
    BY HoldingFinite
  <1> DEFINE Stays == {"idle", "wait", "timedwait", "load--", "store--", "wrap"}
             Holds == {"empty?", "read", "bump"}
  \* What every step of a consumer has in common.
  <1>3. /\ mutex' = mutex /\ inserted' = inserted
        /\ pc' = pc \/ \E l \in Stays \cup Holds : Goto(c, l)
    BY <1>1 DEF Take, Acquire, CallGet, CallWaitGet, TakeToken, TimeOut, TestEmpty,
       LoadBeginning, Read, LoadToDecrement, Decrement, WrapBeginning, Move, Goto,
       members, Types, Label
  <1>4. OneInside' /\ Owed' = Owed /\ pc' \in [Thread -> Label]
    <2>1. /\ \A t \in Thread \ {c} : pc'[t] = pc[t]
          /\ pc'[c] \notin Locked /\ pc' \in [Thread -> Label]
      BY <1>1, <1>3 DEF Types, Label, OneInside, Locked, Goto
    <2> QED BY <1>1, <1>3, <2>1 DEF Types, Label, OneInside, Owed, Thread
  <1>5. CASE TakeToken(c)
    <2>1. /\ semaphore' = semaphore - 1 /\ semaphore' \in Nat /\ taken' = taken
      BY <1>1, <1>5 DEF TakeToken, Types
    <2>2. c \notin Holding /\ Holding' = Holding \cup {c}
      BY <1>1, <1>5 DEF TakeToken, Goto, Holding, Types, Label
    <2>3. Cardinality(Holding') = Cardinality(Holding) + 1
      BY <1>2, <2>2, FS_AddElement
    <2> QED BY <1>1, <1>2, <1>3, <1>4, <2>1, <2>3 DEF Inv, Types, Paid, Owed
  <1>6. CASE Read(c)
    <2>1. semaphore' = semaphore /\ taken' = taken + 1
      BY <1>6 DEF Read
    <2>2. c \in Holding /\ Holding' = Holding \ {c}
      BY <1>1, <1>6 DEF Read, Move, Goto, Holding, Types, Label
    <2>3. Cardinality(Holding') = Cardinality(Holding) - 1
      BY <1>2, <2>2, FS_RemoveElement
    <2> QED BY <1>1, <1>2, <1>3, <1>4, <2>1, <2>3 DEF Inv, Types, Paid, Owed
  <1>7. CASE TestEmpty(c) /\ Items <= 0
    <2>1. semaphore' = semaphore /\ taken' = taken
      BY <1>7 DEF TestEmpty, members
    <2>2. c \in Holding /\ Holding' = Holding \ {c}
      BY <1>1, <1>7 DEF TestEmpty, Goto, Holding, Types, Label
    <2>3. Cardinality(Holding') = Cardinality(Holding) - 1
      BY <1>2, <2>2, FS_RemoveElement
    <2> QED BY <1>1, <1>2, <1>3, <1>4, <2>1, <2>3 DEF Inv, Types, Paid, Owed
  <1>8. ASSUME pc[c] \in Holds <=> pc'[c] \in Holds, UNCHANGED <<semaphore, taken>>
        PROVE  Inv'
    <2>1. \A d \in Consumer \ {c} : pc'[d] = pc[d]
      BY <1>1, <1>3 DEF Types, Goto, Thread
    <2>2. Holding' = Holding
      BY <1>8, <2>1 DEF Holding
    <2> QED BY <1>1, <1>2, <1>3, <1>4, <1>8, <2>2 DEF Inv, Types, Paid, Owed
  <1>9. CASE TestEmpty(c) /\ ~(Items <= 0)
    BY <1>1, <1>8, <1>9 DEF TestEmpty, Goto, Types, members
  <1>10. CASE CallGet(c)
    BY <1>1, <1>8, <1>10 DEF CallGet, Goto, Types, members
  <1>11. CASE CallWaitGet(c) \/ TimeOut(c)
    BY <1>1, <1>8, <1>11 DEF CallWaitGet, TimeOut, Move, Goto, Types, members
  <1>12. CASE LoadBeginning(c)
    BY <1>1, <1>8, <1>12 DEF LoadBeginning, Move, Goto, Types, members
  <1>13. CASE LoadToDecrement(c)
    BY <1>1, <1>8, <1>13 DEF LoadToDecrement, Move, Goto, Types, members
  <1>14. CASE Decrement(c) \/ WrapBeginning(c)
    BY <1>1, <1>8, <1>14 DEF Decrement, WrapBeginning, Move, Goto, Types
  <1> QED BY <1>5, <1>6, <1>7, <1>9, <1>10, <1>11, <1>12, <1>13, <1>14 DEF Take, Acquire

\* However the loads and stores of Items interleave, the consumers never read
\* more items than the producers wrote.
THEOREM ConsumersStayBehind == Spec => []NeverAhead
  <1>1. Inv => NeverAhead
    BY HoldingFinite DEF Inv, Types, Paid, Owed, NeverAhead
  <1>2. Inv /\ [Next]_vars => Inv'
    <2>1. Inv /\ UNCHANGED vars => Inv'
      BY DEF Inv, Types, OneInside, Paid, Owed, Holding, Label, vars, members
    <2> QED BY <2>1, PutInv, TakeInv DEF Next
  <1> QED BY <1>1, <1>2, InitInv, PTL DEF Spec

-----------------------------------------------------------------------------
(* The slot that is read *)

\* One more, counted round a ring of N slots
LEMMA RoundTheRing ==
  ASSUME NEW N \in Nat \ {0}, NEW k \in Nat
  PROVE  k % N \in 0 .. N - 1 /\ (k + 1) % N = IF k % N = N - 1 THEN 0 ELSE (k % N) + 1
  <1> DEFINE q == k \div N
             r == k % N
  <1>1. k = q * N + r /\ q \in Nat /\ r \in 0 .. N - 1
    OBVIOUS
  <1>2. ASSUME NEW a \in Nat, NEW b \in 0 .. N - 1 PROVE (a * N + b) % N = b
    OBVIOUS
  <1> HIDE DEF q, r
  <1>3. CASE r = N - 1
    <2>1. k + 1 = (q + 1) * N + 0 /\ 0 \in 0 .. N - 1 /\ q + 1 \in Nat
      BY <1>1, <1>3
    <2> QED BY <1>1, <1>2, <1>3, <2>1 DEF r
  <1>4. CASE r # N - 1
    <2>1. k + 1 = q * N + (r + 1) /\ r + 1 \in 0 .. N - 1
      BY <1>1, <1>4
    <2> QED BY <1>1, <1>2, <1>4, <2>1 DEF r
  <1> QED BY <1>1, <1>3, <1>4 DEF r

\* There is one thread that takes items: the algorithm's.
OneConsumer == \A c, d \in Consumer : c = d

\* A consumer has read an item and not wrapped Beginning yet.
Past(c) == pc[c] \in {"load--", "store--", "wrap"}

\* Beginning is the number of items taken, counted round the ring; between the read
\* and the wrap it is one past the slot of the last one.
Counted ==
  /\ taken \in Nat /\ Beginning \in 0 .. MAX + 1
  /\ \A c \in Consumer :
       /\ Past(c) => taken > 0 /\ Beginning = ((taken - 1) % (MAX + 1)) + 1
       /\ ~Past(c) => Beginning = taken % (MAX + 1)
       /\ pc[c] = "bump" => reg[c] = Beginning

Turns == /\ pc \in [Thread -> Label] /\ DOMAIN reg = Thread /\ Counted

\* Producers leave what the consumer counts alone.
LEMMA PutTurns ==
  ASSUME Turns, NEW p \in Producer, Put(p)
  PROVE  Turns'
  <1>1. p \in Thread /\ p \notin Consumer /\ Consumer \subseteq Thread
    BY ThreadAssumption DEF Thread
  <1>2. UNCHANGED <<Beginning, taken>> /\ pc' \in [Thread -> Label]
        /\ \A c \in Consumer : pc'[c] = pc[c]
    BY <1>1 DEF Turns, Label, Put, Lock, TestFull, Scan, Write, LoadToIncrement, Increment, Post,
       Return, Move, Goto, members
  <1>3. DOMAIN reg' = Thread /\ \A c \in Consumer : reg'[c] = reg[c]
    BY <1>1 DEF Turns, Put, Lock, TestFull, Scan, Write, LoadToIncrement, Increment, Post, Load
  <1> QED BY <1>1, <1>2, <1>3 DEF Turns, Counted, Past

LEMMA TakeTurns ==
  ASSUME OneConsumer, Turns, NEW c \in Consumer, Take(c)
  PROVE  Turns'
  <1>1. c \in Thread /\ Consumer = {c} /\ MAX + 1 \in Nat \ {0} /\ MAX \in Nat
    BY MaxAssumption DEF OneConsumer, Thread
  <1>2. pc' \in [Thread -> Label] /\ DOMAIN reg' = Thread
    BY <1>1 DEF Turns, Label, Take, Acquire, CallGet, CallWaitGet, TakeToken, TimeOut, TestEmpty,
       LoadBeginning, Read, LoadToDecrement, Decrement, WrapBeginning, Move, Goto, Load, members
  <1>3. taken \in Nat /\ taken % (MAX + 1) \in 0 .. MAX
    BY <1>1, RoundTheRing DEF Turns, Counted
  <1>4. CASE Read(c)
    <2>1. /\ Beginning = taken % (MAX + 1) /\ Beginning' = Beginning + 1
          /\ taken' = taken + 1 /\ Past(c)' /\ pc'[c] = "load--"
      BY <1>1, <1>4 DEF Read, Move, Goto, Turns, Counted, Past
    <2> QED BY <1>1, <1>2, <1>3, <2>1 DEF Turns, Counted
  <1>5. CASE WrapBeginning(c)
    <2>1. /\ taken - 1 \in Nat /\ Beginning = ((taken - 1) % (MAX + 1)) + 1
          /\ Beginning' = IF Beginning > MAX THEN Beginning - (MAX + 1) ELSE Beginning
          /\ taken' = taken /\ ~Past(c)' /\ pc'[c] = "idle"
      BY <1>1, <1>5 DEF WrapBeginning, Wrap, Move, Goto, Turns, Counted, Past
    <2> DEFINE N == MAX + 1
               k == taken - 1
               r == k % N
    <2>2. N \in Nat \ {0} /\ k \in Nat /\ k + 1 = taken /\ N - 1 = MAX
      BY <1>1, <1>3, <2>1
    <2>3. r \in 0 .. N - 1 /\ (k + 1) % N = IF r = N - 1 THEN 0 ELSE r + 1
      <3> HIDE DEF N, k
      <3> QED BY <2>2, RoundTheRing
    <2>4. r \in 0 .. MAX /\ taken % N = IF r = MAX THEN 0 ELSE r + 1
      <3> HIDE DEF r
      <3> QED BY <2>2, <2>3
    <2>5. Beginning = r + 1
      BY <2>1
    <2>6. Beginning' = taken % N
      <3> HIDE DEF r, k
      <3> QED BY <1>1, <2>1, <2>4, <2>5
    <2> QED BY <1>1, <1>2, <1>3, <2>1, <2>6 DEF Turns, Counted
  <1>6. CASE LoadBeginning(c)
    BY <1>1, <1>2, <1>6 DEF LoadBeginning, Move, Goto, Load, members, Turns, Counted, Past
  <1>7. CASE LoadToDecrement(c) \/ Decrement(c)
    BY <1>1, <1>2, <1>7 DEF LoadToDecrement, Decrement, Move, Goto, members, Turns, Counted, Past
  <1>8. CASE CallGet(c) \/ CallWaitGet(c) \/ TakeToken(c) \/ TimeOut(c) \/ TestEmpty(c)
    <2>1. UNCHANGED <<Beginning, taken, reg>>
      BY <1>8 DEF CallGet, CallWaitGet, TakeToken, TimeOut, TestEmpty, Move, members
    <2>2. \/ pc' = pc
          \/ /\ pc[c] \in {"idle", "wait", "timedwait", "empty?"}
             /\ pc'[c] \in {"idle", "wait", "timedwait", "empty?", "read"}
      BY <1>1, <1>8 DEF CallGet, CallWaitGet, TakeToken, TimeOut, TestEmpty, Move, Goto, Turns
    <2> QED BY <1>1, <1>2, <2>1, <2>2 DEF Turns, Counted, Past
  <1> QED BY <1>4, <1>5, <1>6, <1>7, <1>8 DEF Take, Acquire

\* The algorithm thread reads the slots in turn, whatever the producers do meanwhile
\* to Items, and however often it is refused.
THEOREM ReadsInTurn == ASSUME OneConsumer PROVE Spec => []InTurn
  <1>1. Init => Turns
    <2>1. 0 % (MAX + 1) = 0
      BY MaxAssumption
    <2> QED BY <2>1, MaxAssumption DEF Init, Turns, Counted, Past, Label, Thread
  <1>2. Turns /\ [Next]_vars => Turns'
    <2>1. Turns /\ UNCHANGED vars => Turns'
      BY DEF Turns, Counted, Past, vars, members
    <2> QED BY <2>1, PutTurns, TakeTurns DEF Next
  <1>3. Turns => InTurn
    BY DEF Turns, Counted, Past, InTurn
  <1> QED BY <1>1, <1>2, <1>3, PTL DEF Spec
=============================================================================
