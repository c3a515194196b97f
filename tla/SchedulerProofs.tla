--------------------------- MODULE SchedulerProofs ---------------------------
(***************************************************************************)
(* The scheduler for any number of users and any intervals: EventMutex     *)
(* keeps the loop of its thread within the vector of events; an event      *)
(* stays until its own thread removes it, as long as no two threads can be *)
(* removing events at once; and then an enabled event is never later than  *)
(* the interval of the continue event.                                     *)
(***************************************************************************)
EXTENDS Scheduler, SequenceTheorems, FiniteSetTheorems, TLAPS

-----------------------------------------------------------------------------
(* The vector of events *)

\* vector::erase, on a vector of different events
LEMMA Removed ==
  ASSUME NEW S, NEW s \in Seq(S), IsInjective(s), NEW i \in DOMAIN s
  PROVE  /\ RemoveAt(s, i) \in Seq(S) /\ IsInjective(RemoveAt(s, i))
         /\ ToSet(RemoveAt(s, i)) = ToSet(s) \ {s[i]}
  <1> DEFINE a == SubSeq(s, 1, i - 1)
             b == SubSeq(s, i + 1, Len(s))
             r == RemoveAt(s, i)
  <1>1. i \in 1 .. Len(s) /\ DOMAIN s = 1 .. Len(s) /\ Len(s) \in Nat
        /\ \A k \in 1 .. Len(s) : s[k] \in S
    BY LenProperties, ElementOfSeq
  <1>2. a \in Seq(S) /\ Len(a) = i - 1 /\ \A k \in 1 .. i - 1 : a[k] = s[k]
    BY <1>1, SubSeqProperties
  <1>3. b \in Seq(S) /\ Len(b) = Len(s) - i /\ \A k \in 1 .. Len(s) - i : b[k] = s[i + k]
    BY <1>1, SubSeqProperties
  <1> HIDE DEF a, b
  <1>4. /\ r \in Seq(S) /\ Len(r) = Len(s) - 1
        /\ \A k \in 1 .. Len(s) - 1 : r[k] = IF k < i THEN s[k] ELSE s[k + 1]
    <2>1. r = a \o b
      BY DEF RemoveAt, a, b
    <2> HIDE DEF r
    <2>2. /\ r \in Seq(S) /\ Len(r) = Len(a) + Len(b)
          /\ \A k \in 1 .. Len(a) + Len(b) : r[k] = IF k <= Len(a) THEN a[k] ELSE b[k - Len(a)]
      BY <1>2, <1>3, <2>1, ConcatProperties
    <2>3. Len(r) = Len(s) - 1
      BY <1>1, <1>2, <1>3, <2>2
    <2>4. ASSUME NEW k \in 1 .. Len(s) - 1 PROVE r[k] = IF k < i THEN s[k] ELSE s[k + 1]
      <3>1. k \in 1 .. Len(a) + Len(b) /\ (k <= Len(a) <=> k < i) /\ k \in Int /\ i \in Int
        BY <1>1, <1>2, <1>3
      <3>2. CASE k < i
        BY <1>2, <2>2, <3>1, <3>2, k \in 1 .. i - 1
      <3>3. CASE ~(k < i)
        <4>1. k - (i - 1) \in 1 .. Len(s) - i /\ i + (k - (i - 1)) = k + 1
          BY <1>1, <3>3
        <4> QED BY <1>2, <1>3, <2>2, <3>1, <3>3, <4>1
      <3> QED BY <3>2, <3>3
    <2> QED BY <2>2, <2>3, <2>4
  <1>5. DOMAIN r = 1 .. Len(s) - 1
    BY <1>4, LenProperties
  <1> HIDE DEF r
  <1>6. IsInjective(r)
    <2> SUFFICES ASSUME NEW j \in DOMAIN r, NEW k \in DOMAIN r, r[j] = r[k] PROVE j = k
      BY DEF IsInjective
    <2> DEFINE At(m) == IF m < i THEN m ELSE m + 1
    <2>1. At(j) \in DOMAIN s /\ At(k) \in DOMAIN s /\ s[At(j)] = s[At(k)]
      BY <1>1, <1>4, <1>5
    <2>2. At(j) = At(k)
      BY <2>1 DEF IsInjective
    <2> QED BY <1>1, <1>5, <2>2
  <1>7. ToSet(r) = ToSet(s) \ {s[i]}
    <2>1. ASSUME NEW k \in DOMAIN s, s[k] # s[i] PROVE s[k] \in ToSet(r)
      <3>1. CASE k < i
        BY <1>1, <1>4, <1>5, <3>1 DEF ToSet
      <3>2. CASE k > i
        BY <1>1, <1>4, <1>5, <3>2, k - 1 \in DOMAIN r, r[k - 1] = s[k] DEF ToSet
      <3> QED BY <1>1, <2>1, <3>1, <3>2
    <2>2. ASSUME NEW k \in DOMAIN r PROVE r[k] \in ToSet(s) \ {s[i]}
      BY <1>1, <1>4, <1>5 DEF ToSet, IsInjective
    <2> QED BY <2>1, <2>2 DEF ToSet
  <1> QED BY <1>4, <1>6, <1>7 DEF r

\* vector::push_back, of an event that is not in it
LEMMA Appended ==
  ASSUME NEW S, NEW s \in Seq(S), IsInjective(s), NEW e \in S, e \notin ToSet(s)
  PROVE  /\ Append(s, e) \in Seq(S) /\ IsInjective(Append(s, e))
         /\ ToSet(Append(s, e)) = ToSet(s) \cup {e}
         /\ \A i \in DOMAIN s : i \in DOMAIN Append(s, e) /\ Append(s, e)[i] = s[i]
  <1> DEFINE r == Append(s, e)
  <1>1. /\ r \in Seq(S) /\ Len(r) = Len(s) + 1 /\ r[Len(s) + 1] = e
        /\ \A i \in 1 .. Len(s) : r[i] = s[i]
        /\ DOMAIN s = 1 .. Len(s) /\ DOMAIN r = 1 .. Len(s) + 1 /\ Len(s) \in Nat
    BY AppendProperties, LenProperties
  <1> HIDE DEF r
  <1>2. \A i \in DOMAIN s : s[i] # e
    BY DEF ToSet
  <1>3. IsInjective(r)
    BY <1>1, <1>2 DEF IsInjective
  <1>4. ToSet(r) = ToSet(s) \cup {e}
    <2>1. ASSUME NEW i \in DOMAIN r PROVE r[i] \in ToSet(s) \cup {e}
      BY <1>1 DEF ToSet
    <2>2. ASSUME NEW i \in DOMAIN s PROVE s[i] \in ToSet(r)
      BY <1>1 DEF ToSet
    <2>3. e \in ToSet(r)
      BY <1>1, Len(s) + 1 \in DOMAIN r DEF ToSet
    <2> QED BY <2>1, <2>2, <2>3 DEF ToSet
  <1> QED BY <1>1, <1>3, <1>4 DEF r

\* Two vectors with different events, put one after the other
LEMMA Joined ==
  ASSUME NEW S, NEW s \in Seq(S), NEW t \in Seq(S), IsInjective(s), IsInjective(t),
         ToSet(s) \cap ToSet(t) = {}
  PROVE  s \o t \in Seq(S) /\ IsInjective(s \o t) /\ ToSet(s \o t) = ToSet(s) \cup ToSet(t)
  <1> DEFINE r == s \o t
  <1>1. /\ r \in Seq(S) /\ Len(r) = Len(s) + Len(t)
        /\ \A i \in 1 .. Len(s) + Len(t) : r[i] = IF i <= Len(s) THEN s[i] ELSE t[i - Len(s)]
        /\ DOMAIN s = 1 .. Len(s) /\ DOMAIN t = 1 .. Len(t) /\ DOMAIN r = 1 .. Len(s) + Len(t)
        /\ Len(s) \in Nat /\ Len(t) \in Nat
    BY ConcatProperties, LenProperties
  <1> HIDE DEF r
  <1>2. \A i \in DOMAIN s, j \in DOMAIN t : s[i] # t[j]
    BY DEF ToSet
  <1>3. IsInjective(r)
    <2> SUFFICES ASSUME NEW i \in DOMAIN r, NEW j \in DOMAIN r, r[i] = r[j] PROVE i = j
      BY DEF IsInjective
    <2>1. CASE i <= Len(s) /\ j <= Len(s)
      BY <1>1, <2>1 DEF IsInjective
    <2>2. CASE i > Len(s) /\ j > Len(s)
      <3>1. i - Len(s) \in DOMAIN t /\ j - Len(s) \in DOMAIN t /\ t[i - Len(s)] = t[j - Len(s)]
        BY <1>1, <2>2
      <3>2. i - Len(s) = j - Len(s)
        BY <3>1 DEF IsInjective
      <3> QED BY <1>1, <3>2
    <2>3. CASE i <= Len(s) /\ j > Len(s)
      BY <1>1, <1>2, <2>3, j - Len(s) \in DOMAIN t
    <2>4. CASE i > Len(s) /\ j <= Len(s)
      BY <1>1, <1>2, <2>4, i - Len(s) \in DOMAIN t
    <2> QED BY <1>1, <2>1, <2>2, <2>3, <2>4
  <1>4. ToSet(r) = ToSet(s) \cup ToSet(t)
    <2>1. ASSUME NEW i \in DOMAIN r PROVE r[i] \in ToSet(s) \cup ToSet(t)
      BY <1>1 DEF ToSet
    <2>2. ASSUME NEW i \in DOMAIN s PROVE s[i] \in ToSet(r)
      BY <1>1 DEF ToSet
    <2>3. ASSUME NEW i \in DOMAIN t PROVE t[i] \in ToSet(r)
      BY <1>1, Len(s) + i \in DOMAIN r, r[Len(s) + i] = t[i] DEF ToSet
    <2> QED BY <2>1, <2>2, <2>3 DEF ToSet
  <1> QED BY <1>1, <1>3, <1>4 DEF r

\* The events of a finite set, in some order
LEMMA InOrder ==
  ASSUME NEW S, IsFiniteSet(S)
  PROVE  SetToSeq(S) \in Seq(S) /\ IsInjective(SetToSeq(S)) /\ ToSet(SetToSeq(S)) = S
  <1> DEFINE n == Cardinality(S)
             P(f) == f \in [1 .. n -> S] /\ IsInjective(f)
             s == SetToSeq(S)
  <1>1. n \in Nat /\ ExistsBijection(1 .. n, S)
    BY FS_CardinalityType
  <1>2. \E f \in [1 .. n -> S] : IsInjective(f)
    BY <1>1 DEF ExistsBijection, Bijection, Injection
  <1>3. s \in [1 .. n -> S] /\ IsInjective(s)
    BY <1>2 DEF SetToSeq
  <1> HIDE DEF s
  <1>4. s \in Injection(1 .. n, S)
    BY <1>3 DEF Injection
  <1>5. IsFiniteSet(1 .. n) /\ Cardinality(1 .. n) = n
    BY <1>1, FS_Interval
  <1>6. s \in Surjection(1 .. n, S)
    BY <1>4, <1>5, FS_Injection
  <1>7. ToSet(s) = S
    BY <1>3, <1>6 DEF Surjection, ToSet
  <1>8. s \in Seq(S)
    BY <1>1, <1>3, SeqDef
  <1> QED BY <1>3, <1>7, <1>8 DEF s

\* The vector at the start: the continue event, that of the server, and those of
\* the users that do not add theirs.
LEMMA InitEvents ==
  ASSUME Init
  PROVE  /\ events \in Seq(Event) /\ IsInjective(events)
         /\ Continue \in ToSet(events) /\ \A u \in Owners : ~Present(u)
  <1> DEFINE owned == {Own[u] : u \in User \ Owners}
  <1>1. IsFiniteSet(Served) /\ Served \subseteq Event
    BY FS_EmptySet, FS_Singleton DEF Served, Event
  <1>2. IsFiniteSet(owned) /\ owned \subseteq Event
    <2>1. IsFiniteSet(User \ Owners)
      BY SchedulerAssumption, FS_Subset
    <2>2. [u \in User \ Owners |-> Own[u]] \in Surjection(User \ Owners, owned)
      BY DEF Surjection
    <2> QED BY <2>1, <2>2, FS_Surjection DEF Event
  <1>3. <<Continue>> \in Seq(Event) /\ IsInjective(<<Continue>>) /\ ToSet(<<Continue>>) = {Continue}
    BY DEF Event, IsInjective, ToSet
  <1> DEFINE s == SetToSeq(Served)
             o == SetToSeq(owned)
  <1>4. s \in Seq(Event) /\ IsInjective(s) /\ ToSet(s) = Served
    BY <1>1, InOrder, SeqMonotonic
  <1>5. o \in Seq(Event) /\ IsInjective(o) /\ ToSet(o) = owned
    BY <1>2, InOrder, SeqMonotonic
  <1>6. Continue \notin Served /\ owned \cap ({Continue} \cup Served) = {}
    BY SchedulerAssumption DEF Served
  <1> HIDE DEF s, o
  <1> DEFINE k == <<Continue>>
             c == k \o s
  <1>7. c \in Seq(Event) /\ IsInjective(c) /\ ToSet(c) = {Continue} \cup Served
    <2>1. k \in Seq(Event) /\ IsInjective(k) /\ ToSet(k) = {Continue}
      BY <1>3
    <2> HIDE DEF k
    <2>2. ToSet(k) \cap ToSet(s) = {}
      BY <1>4, <1>6, <2>1
    <2> QED BY <1>4, <2>1, <2>2, Joined
  <1> HIDE DEF c
  <1>8. c \o o \in Seq(Event) /\ IsInjective(c \o o)
        /\ ToSet(c \o o) = {Continue} \cup Served \cup owned
    BY <1>5, <1>6, <1>7, Joined
  <1>9. events = c \o o
    BY DEF Init, c, s, o
  <1>10. \A u \in Owners : Own[u] \notin {Continue} \cup Served \cup owned
    BY SchedulerAssumption DEF Served
  <1> QED BY <1>8, <1>9, <1>10 DEF Present

-----------------------------------------------------------------------------
(* EventMutex *)

\* The thread of the scheduler runs its loop inside EventMutex, and the main thread
\* has it while it joins that thread.
Locked ==
  /\ EventMutex = "scheduler" <=> thread.step \in {"look", "call"}
  /\ EventMutex = "main" <=> stop = "joining"

Safe == TypeOK /\ Locked

LEMMA Constants ==
  /\ Continue \in Event /\ \A u \in User : Own[u] \in Event /\ Own[u] # Continue
  /\ \A u, v \in User : Own[u] = Own[v] => u = v
  /\ \A e \in Event : Interval[e] \in Nat /\ Interval[e] > 0
  /\ Latest \in Nat /\ Latest = 1 + Interval[Continue]
  BY SchedulerAssumption DEF Event, Latest

\* The values a due time may be set to
LEMMA Times ==
  ASSUME NEW e \in Event
  PROVE  Interval[e] \in -Latest .. Interval[e] /\ -Latest \in -Latest .. Interval[e]
  BY Constants

LEMMA InitSafe == Init => Safe
  <1> SUFFICES ASSUME Init PROVE Safe
    OBVIOUS
  <1>1. \A e \in Event : Interval[e] \in -Latest .. Interval[e]
    BY Times
  <1>2. due \in [Event -> Int]
    BY Constants DEF Init
  <1>3. /\ thread \in [step : Step, at : Nat, wait : Int]
        /\ user \in [User -> [step : {"rest", "begun", "enabling", "adding", "removing"}, index : Nat]]
        /\ client \in [step : {"none", "reads", "wants", "throws", "ended"}, connected : BOOLEAN]
        /\ disabled \in [Event -> BOOLEAN]
        /\ stop = "no" /\ thread.step = "top" /\ EventMutex = NoOne /\ processMutex = NoOne
        /\ signalled = FALSE /\ \A e \in Event : due[e] = Interval[e]
    BY DEF Init, NoClient, Step
  <1> QED BY <1>1, <1>2, <1>3, InitEvents DEF Safe, TypeOK, Locked, NoOne

\* A step of the scheduler's thread
LEMMA ThreadSafe == ASSUME Safe, Thread PROVE Safe'
  <1> USE DEF Safe, Locked
  <1>1. CASE Top
    BY <1>1 DEF Top, Goto, TypeOK, Step
  <1>2. CASE Lock
    <2>1. Len(events) \in Nat
      BY LenProperties DEF TypeOK
    <2>2. thread' \in [step : Step, at : Nat, wait : Int] /\ thread'.step = "look" /\ thread'.at = 1
      BY <1>2 DEF Lock, TypeOK, Step
    <2>3. 1 \in 1 .. Len(events) + 1
      BY <2>1
    <2> QED BY <1>2, <2>2, <2>3 DEF Lock, TypeOK, NoOne
  <1>3. CASE Look
    <2> DEFINE e == events[thread.at]
    <2>1. Len(events) \in Nat /\ DOMAIN events = 1 .. Len(events) /\ thread.at \in DOMAIN events
          /\ e \in Event /\ thread.at + 1 \in 1 .. Len(events) + 1 /\ thread.at + 1 \in Nat
      BY <1>3, LenProperties, ElementOfSeq DEF Look, TypeOK
    <2>2. thread' \in [step : Step, at : Nat, wait : Int]
          /\ \/ thread'.step = "call" /\ thread'.at = thread.at
             \/ thread'.step = "look" /\ thread'.at = thread.at + 1
      BY <1>3, <2>1 DEF Look, Goto, TypeOK, Step
    <2>3. due' \in [Event -> Int] /\ \A f \in Event : due'[f] \in {due[f], Interval[f]}
      BY <1>3, <2>1, Constants DEF Look, TypeOK
    <2>4. ASSUME NEW f \in Event PROVE due'[f] \in -Latest .. Interval[f]
      <3>1. Interval[f] \in -Latest .. Interval[f] /\ due[f] \in -Latest .. Interval[f]
        BY Times DEF TypeOK
      <3> QED BY <2>3, <3>1
    <2>5. UNCHANGED <<events, disabled, EventMutex, processMutex, signalled, user, stop, client>>
          /\ thread.step = "look"
      BY <1>3 DEF Look
    <2> HIDE DEF e
    <2> QED BY <2>1, <2>2, <2>3, <2>4, <2>5 DEF TypeOK
  <1>4. CASE Call
    <2> DEFINE e == events[thread.at]
    <2>1. Len(events) \in Nat /\ DOMAIN events = 1 .. Len(events) /\ thread.at \in DOMAIN events
          /\ e \in Event /\ thread.at + 1 \in 1 .. Len(events) + 1 /\ thread.at + 1 \in Nat
      BY <1>4, LenProperties, ElementOfSeq DEF Call, TypeOK
    <2>2. thread' \in [step : Step, at : Nat, wait : Int]
          /\ thread'.step = "look" /\ thread'.at = thread.at + 1
      BY <1>4, <2>1 DEF Call, TypeOK, Step
    <2>3. due' \in [Event -> Int] /\ \A f \in Event : due'[f] \in {due[f], Interval[f]}
      BY <1>4, <2>1, Constants DEF Call, TypeOK
    <2>4. ASSUME NEW f \in Event PROVE due'[f] \in -Latest .. Interval[f]
      <3>1. Interval[f] \in -Latest .. Interval[f] /\ due[f] \in -Latest .. Interval[f]
        BY Times DEF TypeOK
      <3> QED BY <2>3, <3>1
    <2>5. disabled' \in [Event -> BOOLEAN]
      BY <1>4, <2>1 DEF Call, TypeOK
    <2>6. client' \in [step : {"none", "reads", "wants", "throws", "ended"}, connected : BOOLEAN]
      <3>1. client' = client \/ client' = NoClient
        BY <1>4 DEF Call, ClearUnusedSockets
      <3>2. NoClient \in [step : {"none", "reads", "wants", "throws", "ended"}, connected : BOOLEAN]
        BY DEF NoClient
      <3> QED BY <3>1, <3>2 DEF TypeOK
    <2>7. UNCHANGED <<events, EventMutex, processMutex, signalled, user, stop>>
          /\ thread.step = "call"
      BY <1>4 DEF Call
    <2> HIDE DEF e
    <2> QED BY <2>1, <2>2, <2>3, <2>4, <2>5, <2>6, <2>7 DEF TypeOK
  <1>5. CASE Plan
    <2>1. \A e \in Planned : due[e] \in Int
      BY DEF Planned, ToSet, TypeOK
    <2>2. thread' \in [step : Step, at : Nat, wait : Int] /\ thread'.step = "wait"
      <3>1. PICK w \in {1} \cup {due[e] : e \in Planned} :
              thread' = [thread EXCEPT !.step = "wait", !.wait = w]
        BY <1>5 DEF Plan
      <3>2. w \in Int
        BY <2>1
      <3> QED BY <3>1, <3>2 DEF TypeOK, Step
    <2> QED BY <1>5, <2>2 DEF Plan, TypeOK, NoOne
  <1>6. CASE Wait
    BY <1>6 DEF Wait, Goto, TypeOK, Step
  <1>7. CASE Wake
    BY <1>7 DEF Wake, Goto, TypeOK, Step
  <1> QED BY <1>1, <1>2, <1>3, <1>4, <1>5, <1>6, <1>7 DEF Thread

\* A step of a user
LEMMA UserSafe == ASSUME Safe, NEW u \in User, Begin(u) \/ Finish(u) PROVE Safe'
  <1> USE DEF Safe, Locked
  <1> DEFINE UserSteps == {"rest", "begun", "enabling", "adding", "removing"}
  <1>1. Own[u] \in Event /\ -Latest \in -Latest .. Interval[Own[u]]
        /\ Interval[Own[u]] \in -Latest .. Interval[Own[u]]
    BY Constants, Times
  <1>2. ASSUME NEW step \in UserSteps, GotoU(u, step)
        PROVE  user' \in [User -> [step : UserSteps, index : Nat]]
    BY <1>2 DEF GotoU, TypeOK
  <1>3. Release(u) => /\ user' \in [User -> [step : UserSteps, index : Nat]]
                      /\ processMutex' \in {processMutex, NoOne}
    BY <1>2 DEF Release
  <1>4. CASE Begin(u)
    BY <1>2, <1>4 DEF Begin, TypeOK
  <1>5. CASE Enable(u)
    BY <1>1, <1>2, <1>5 DEF Enable, TypeOK
  <1>6. CASE SetDue(u)
    BY <1>1, <1>3, <1>6 DEF SetDue, Signal, TypeOK
  <1>7. CASE Disable(u)
    BY <1>1, <1>3, <1>7 DEF Disable, Signal, TypeOK
  <1>8. CASE Add(u)
    <2>1. events' \in Seq(Event) /\ IsInjective(events')
      BY <1>1, <1>8, Appended DEF Add, TypeOK, Present
    <2>2. thread.step \notin {"look", "call"}
      BY <1>8 DEF Add, NoOne
    <2> QED BY <1>1, <1>2, <1>8, <2>1, <2>2 DEF Add, TypeOK
  <1>9. CASE Find(u)
    <2>1. DOMAIN events \subseteq Nat
      BY LenProperties DEF TypeOK
    <2>2. user' \in [User -> [step : UserSteps, index : Nat]]
      BY <1>9, <2>1 DEF Find, TypeOK
    <2> QED BY <1>9, <2>2 DEF Find, TypeOK
  <1>10. CASE Erase(u)
    <2>1. events' \in Seq(Event) /\ IsInjective(events')
      BY <1>10, Removed DEF Erase, TypeOK
    <2>2. thread.step \notin {"look", "call"}
      BY <1>10 DEF Erase, NoOne
    <2> QED BY <1>3, <1>10, <2>1, <2>2 DEF Erase, TypeOK
  <1>11. CASE Pass(u)
    BY <1>3, <1>11 DEF Pass, TypeOK
  <1> QED BY <1>4, <1>5, <1>6, <1>7, <1>8, <1>9, <1>10, <1>11 DEF Finish

\* Stopping, the passing of time, and the client
LEMMA OtherSafe ==
  ASSUME Safe, Tick \/ AskStop \/ Join \/ Connect \/ Ask \/ Throw \/ Disconnect \/ End
  PROVE  Safe'
  <1> USE DEF Safe, Locked
  <1>1. CASE Tick
    <2>1. due' \in [Event -> Int] /\ \A e \in Event : due'[e] \in -Latest .. Interval[e]
      <3>1. due' = [e \in Event |-> IF due[e] > -Latest THEN due[e] - 1 ELSE due[e]]
        BY <1>1 DEF Tick
      <3>2. ASSUME NEW e \in Event PROVE due'[e] \in Int /\ due'[e] \in -Latest .. Interval[e]
        <4>1. due[e] \in -Latest .. Interval[e] /\ Latest \in Nat /\ Interval[e] \in Nat
          BY Constants DEF TypeOK
        <4> QED BY <3>1, <4>1
      <3> QED BY <3>1, <3>2
    <2>2. thread' \in [step : Step, at : Nat, wait : Int] /\ thread'.step = "asleep"
      <3>1. thread.wait - 1 \in Int /\ thread' = [thread EXCEPT !.wait = thread.wait - 1]
        BY <1>1 DEF Tick, TypeOK
      <3> QED BY <1>1, <3>1 DEF Tick, TypeOK
    <2> QED BY <1>1, <2>1, <2>2 DEF Tick, TypeOK
  <1>2. CASE AskStop
    BY <1>2 DEF AskStop, TypeOK
  <1>3. CASE Join
    BY <1>3 DEF Join, Signal, TypeOK, NoOne
  <1>4. CASE Connect
    BY <1>4 DEF Connect, others, TypeOK
  <1>5. CASE Ask \/ Throw \/ Disconnect \/ End
    BY <1>5 DEF Ask, Throw, Disconnect, End, others, TypeOK
  <1> QED BY <1>1, <1>2, <1>3, <1>4, <1>5

LEMMA SafeInvariant == Spec => []Safe
  <1>1. Safe /\ [Next]_vars => Safe'
    <2>1. Safe /\ UNCHANGED vars => Safe'
      BY DEF Safe, TypeOK, Locked, vars
    <2> QED BY <2>1, ThreadSafe, UserSafe, OtherSafe DEF Next
  <1> QED BY <1>1, InitSafe, PTL DEF Spec

\* The loop of the scheduler stays within the vector of events, whose events are
\* all different, whatever the other threads add and remove.
THEOREM TypeCorrect == Spec => []TypeOK
  BY SafeInvariant, PTL DEF Safe

-----------------------------------------------------------------------------
(* processMutex and the removal of events *)

\* Who is inside processMutex
Inside ==
  /\ \A u \in Holders : user[u].step # "rest" <=> processMutex = u
  /\ client.step = "throws" <=> processMutex = "client"

LEMMA InitInside == Init => Inside
  <1>1. Holders \subseteq User /\ NoOne \notin Holders /\ NoOne # "client"
    BY SchedulerAssumption DEF NoOne
  <1> SUFFICES ASSUME Init PROVE Inside
    OBVIOUS
  <1>2. client.step = "none" /\ processMutex = NoOne /\ \A u \in User : user[u].step = "rest"
    BY DEF Init, NoClient
  <1> QED BY <1>1, <1>2 DEF Inside

LEMMA UserInside == ASSUME Safe, Inside, NEW u \in User, Begin(u) \/ Finish(u) PROVE Inside'
  <1>1. /\ u \notin {NoOne, "client"} /\ Holders \subseteq User /\ NoOne \notin Holders
        /\ "client" \notin Holders /\ NoOne # "client"
        /\ user \in [User -> [step : {"rest", "begun", "enabling", "adding", "removing"}, index : Nat]]
        /\ processMutex \in Holders \cup {NoOne, "client"} /\ client' = client
    BY SchedulerAssumption
    DEF Safe, TypeOK, NoOne, Begin, Finish, Enable, SetDue, Disable, Add, Find, Erase, Pass
  <1>2. CASE Begin(u)
    BY <1>1, <1>2 DEF Begin, GotoU, Inside
  <1>3. ASSUME user[u].step # "rest", Release(u) PROVE Inside'
    BY <1>1, <1>3 DEF Release, GotoU, Inside
  <1>4. ASSUME user[u].step # "rest", processMutex' = processMutex,
               user'[u].step # "rest", \A v \in User \ {u} : user'[v] = user[v]
        PROVE  Inside'
    BY <1>1, <1>4 DEF Inside
  <1>5. CASE Enable(u) \/ Add(u)
    BY <1>1, <1>4, <1>5 DEF Enable, Add, GotoU
  <1>6. CASE Find(u)
    BY <1>1, <1>4, <1>6 DEF Find
  <1>7. CASE SetDue(u) \/ Disable(u) \/ Erase(u) \/ Pass(u)
    BY <1>3, <1>7 DEF SetDue, Disable, Erase, Pass
  <1> QED BY <1>2, <1>5, <1>6, <1>7 DEF Finish

LEMMA OtherInside ==
  ASSUME Safe, Inside,
         Thread \/ Tick \/ AskStop \/ Join \/ Connect \/ Ask \/ Throw \/ Disconnect \/ End
  PROVE  Inside'
  <1>1. /\ NoOne \notin Holders /\ "client" \notin Holders /\ NoOne # "client" /\ user' = user
    BY SchedulerAssumption
    DEF NoOne, Thread, Top, Lock, Look, Call, Plan, Wait, Wake, Tick, AskStop, Join,
        Connect, Ask, Throw, Disconnect, End, others
  <1>2. CASE Throw
    BY <1>1, <1>2 DEF Throw, Inside, Safe, TypeOK
  <1>3. CASE Connect
    BY <1>1, <1>3 DEF Connect, Inside, others
  <1>4. CASE Ask \/ Disconnect \/ End
    BY <1>1, <1>4 DEF Ask, Disconnect, End, Inside, Safe, TypeOK, others
  <1>5. CASE Call
    <2>1. client'.step = "throws" <=> client.step = "throws"
      BY <1>5 DEF Call, ClearUnusedSockets, NoClient, Inside, Safe, TypeOK
    <2> QED BY <1>1, <1>5, <2>1 DEF Call, Inside
  <1>6. CASE Tick \/ AskStop \/ Join \/ Top \/ Lock \/ Look \/ Plan \/ Wait \/ Wake
    BY <1>1, <1>6 DEF Inside, Top, Lock, Look, Plan, Wait, Wake, Tick, AskStop, Join
  <1> QED BY <1>2, <1>3, <1>4, <1>5, <1>6 DEF Thread

\* At most one thread is inside processMutex, from the step that takes it to the one
\* that releases it: each holder between taking it and resting, and the client while
\* it throws a switch.
THEOREM ProcessMutexExcludes == Spec => []Inside
  <1>1. Safe /\ Inside /\ [Next]_vars => Inside'
    <2>1. Inside /\ UNCHANGED vars => Inside'
      BY DEF Inside, vars
    <2> QED BY <2>1, UserInside, OtherInside DEF Next
  <1> QED BY <1>1, InitInside, SafeInvariant, PTL DEF Spec

\* No two threads can be removing events at once: one thread alone does, or all do
\* so inside processMutex.
OneRemover == \A u, v \in Owners : u = v \/ {u, v} \subseteq Holders

\* The index that getEvent has found is still that of the event.
Found ==
  \A u \in User :
    user[u].step = "removing" =>
      u \in Owners /\ user[u].index \in DOMAIN events /\ events[user[u].index] = Own[u]

\* What a step does to the vector: nothing, or a new event at its end, or one event
\* erased; and to the users that are removing.
LEMMA Vector ==
  ASSUME Safe, Next \/ UNCHANGED vars
  PROVE  \/ UNCHANGED events
         \/ \E u \in User : Add(u)
         \/ \E u \in User : Erase(u)
  BY DEF Next, vars, Thread, Finish, Top, Lock, Look, Call, Plan, Wait, Wake, Tick, AskStop, Join,
     Connect, Ask, Throw, Disconnect, End, others, Begin, Enable, SetDue, Disable, Find, Pass

LEMMA Removing ==
  ASSUME Safe, Next \/ UNCHANGED vars, NEW u \in User, user'[u].step = "removing"
  PROVE  user'[u] = user[u] \/ Find(u)
  <1>0. user \in [User -> [step : {"rest", "begun", "enabling", "adding", "removing"}, index : Nat]]
    BY DEF Safe, TypeOK
  <1>1. ASSUME user' = user PROVE user'[u] = user[u]
    BY <1>1
  <1>2. ASSUME NEW v \in User, NEW step \in {"rest", "begun", "enabling", "adding"}, GotoU(v, step)
        PROVE  user'[u] = user[u]
    BY <1>0, <1>2 DEF GotoU
  <1>3. ASSUME NEW v \in User, Begin(v) \/ Finish(v) PROVE user'[u] = user[u] \/ Find(u)
    BY <1>0, <1>2, <1>3
    DEF Begin, Finish, Enable, SetDue, Disable, Add, Find, Erase, Pass, Release
  <1>4. CASE Thread \/ Tick \/ AskStop \/ Join \/ Connect \/ Ask \/ Throw \/ Disconnect \/ End
             \/ UNCHANGED vars
    <2>1. user' = user
      BY <1>4
      DEF vars, Thread, Top, Lock, Look, Call, Plan, Wait, Wake, Tick, AskStop, Join,
          Connect, Ask, Throw, Disconnect, End, others
    <2> QED BY <1>1, <2>1
  <1> QED BY <1>3, <1>4 DEF Next

LEMMA KeepsFound ==
  ASSUME OneRemover, Safe, Inside, Found, Next \/ UNCHANGED vars
  PROVE  Found'
  <1> SUFFICES ASSUME NEW u \in User, user'[u].step = "removing"
               PROVE  /\ u \in Owners /\ user'[u].index \in DOMAIN events'
                      /\ events'[user'[u].index] = Own[u]
    BY DEF Found
  <1>1. CASE Find(u)
    BY <1>1 DEF Find, Safe, TypeOK
  <1>2. CASE user'[u] = user[u]
    <2>1. u \in Owners /\ user[u].index \in DOMAIN events /\ events[user[u].index] = Own[u]
      BY <1>2 DEF Found
    <2>2. ASSUME NEW v \in User, Add(v) PROVE user[u].index \in DOMAIN events'
                                         /\ events'[user[u].index] = events[user[u].index]
      <3>1. Own[v] \in Event /\ Own[v] \notin ToSet(events) /\ events' = Append(events, Own[v])
        BY <2>2, Constants DEF Add, Present
      <3> QED BY <2>1, <3>1, Appended DEF Safe, TypeOK
    <2>3. ASSUME NEW v \in User, Erase(v) PROVE FALSE
      <3>1. CASE v = u
        BY <1>2, <2>3, <3>1 DEF Erase, Release, GotoU, Safe, TypeOK
      <3>2. CASE v # u
        <4>1. v \in Holders /\ u \in Holders
          BY <2>1, <2>3, <3>2 DEF Erase, Found, OneRemover
        <4> QED BY <1>2, <2>3, <3>2, <4>1 DEF Erase, Inside
      <3> QED BY <3>1, <3>2
    <2> QED BY <1>2, <2>1, <2>2, <2>3, Vector
  <1> QED BY <1>1, <1>2, Removing

\* When no two threads can be removing events at once, removeEvent removes the event
\* it is given: an event stays until its own thread removes it.
THEOREM EventsStay == ASSUME OneRemover PROVE Spec => OwnRemoved
  <1>1. Init => Found
    BY DEF Init, Found
  <1>2. Safe /\ Inside /\ Found /\ [Next]_vars => Found'
    BY KeepsFound
  <1>3. Safe /\ Found /\ [Next]_vars =>
          [\A e \in ToSet(events) \ ToSet(events') :
             \E u \in User : Own[u] = e /\ user[u].step = "removing" /\ user'[u].step = "rest"]_vars
    <2> SUFFICES ASSUME Safe, Found, Next, NEW e \in ToSet(events) \ ToSet(events')
                 PROVE  \E u \in User : /\ Own[u] = e /\ user[u].step = "removing"
                                        /\ user'[u].step = "rest"
      OBVIOUS
    <2>1. ASSUME NEW v \in User, Add(v) PROVE FALSE
      <3>1. Own[v] \in Event /\ Own[v] \notin ToSet(events) /\ events' = Append(events, Own[v])
        BY <2>1, Constants DEF Add, Present
      <3> QED BY <3>1, Appended DEF Safe, TypeOK
    <2>2. PICK u \in User : Erase(u)
      BY <2>1, Vector
    <2>3. user[u].step = "removing" /\ user'[u].step = "rest"
      BY <2>2 DEF Erase, Release, GotoU, Safe, TypeOK
    <2>4. user[u].index \in DOMAIN events /\ events[user[u].index] = Own[u]
      BY <2>3 DEF Found
    <2>5. ToSet(events') = ToSet(events) \ {Own[u]}
      BY <2>2, <2>4, Removed DEF Erase, Safe, TypeOK
    <2> QED BY <2>3, <2>5
  <1> QED BY <1>1, <1>2, <1>3, SafeInvariant, ProcessMutexExcludes, PTL DEF Spec, OwnRemoved

-----------------------------------------------------------------------------
(* How late an event can be *)

\* The continue event is always there and enabled, and the thread sleeps no longer
\* than until it is due.
Continues ==
  /\ Continue \in ToSet(events) /\ ~disabled[Continue] /\ due[Continue] >= 0
  /\ thread.step \in {"wait", "asleep"} => thread.wait <= due[Continue]

Enabled(u) == Present(u) /\ ~disabled[Own[u]] /\ user[u].step \notin {"enabling", "adding"}

\* An enabled event is late by less than the interval of the continue event; while
\* the thread sleeps, by less than what has passed of that interval; and one that
\* the loop has come past is not late at all.
InTime(u) ==
  Enabled(u) =>
    /\ due[Own[u]] > -Interval[Continue]
    /\ thread.step \in {"wait", "asleep"} => due[Own[u]] > due[Continue] - Interval[Continue]
    /\ thread.step \in {"look", "call"} =>
         \A i \in DOMAIN events : i < thread.at /\ events[i] = Own[u] => due[Own[u]] > 0

Timely == Continues /\ \A u \in User : InTime(u)

LEMMA InitTimely == Init => Timely
  <1> SUFFICES ASSUME Init PROVE Timely
    OBVIOUS
  <1>1. Continues
    <2>1. thread.step = "top" /\ due[Continue] = Interval[Continue] /\ ~disabled[Continue]
      BY Constants DEF Init
    <2> QED BY <2>1, InitEvents, Constants DEF Continues
  <1>2. ASSUME NEW u \in User PROVE ~Enabled(u)
    BY SchedulerAssumption, Constants DEF Init, Enabled
  <1> QED BY <1>1, <1>2 DEF Timely, InTime

\* The due times, as numbers
LEMMA Dues ==
  ASSUME Safe
  PROVE  /\ due \in [Event -> Int] /\ disabled \in [Event -> BOOLEAN]
         /\ due[Continue] <= Interval[Continue] /\ due[Continue] \in Int
         /\ Interval[Continue] \in Int /\ Interval[Continue] > 0
         /\ \A u \in User : due[Own[u]] \in Int /\ Interval[Own[u]] \in Int /\ Interval[Own[u]] > 0
  <1>1. due[Continue] \in -Latest .. Interval[Continue] /\ due \in [Event -> Int]
        /\ disabled \in [Event -> BOOLEAN]
    BY Constants DEF Safe, TypeOK
  <1> QED BY <1>1, Constants

\* A step that leaves the times of an event alone leaves it in time.
LEMMA Unmoved ==
  ASSUME NEW u \in User, InTime(u), Enabled(u)' => Enabled(u),
         due'[Own[u]] = due[Own[u]], due'[Continue] = due[Continue],
         thread' = thread \/ thread'.step \in {"top", "lock", "done"},
         events' = events \/ thread'.step \notin {"look", "call"}
  PROVE  InTime(u)'
  BY DEF InTime

LEMMA ThreadTimely ==
  ASSUME Safe, Timely, Thread
  PROVE  Timely'
  <1>1. /\ events' = events /\ user' = user /\ events \in Seq(Event) /\ IsInjective(events)
        /\ thread \in [step : Step, at : Nat, wait : Int]
        /\ DOMAIN events = 1 .. Len(events) /\ Len(events) \in Nat
    BY LenProperties
    DEF Safe, TypeOK, Thread, Top, Lock, Look, Call, Plan, Wait, Wake
  <1>2. CASE Top \/ Wake
    <2>1. thread'.step \in {"top", "lock", "done"} /\ disabled' = disabled /\ due' = due
      BY <1>1, <1>2 DEF Top, Wake, Goto
    <2>2. Continues'
      BY <1>1, <2>1 DEF Timely, Continues
    <2> QED BY <1>1, <2>1, <2>2, Unmoved DEF Timely, Enabled, Present
  <1>3. CASE Lock
    BY <1>1, <1>3 DEF Lock, Timely, Continues, InTime, Enabled, Present
  <1>4. CASE Wait
    <2>1. /\ thread.step = "wait" /\ thread'.step = "asleep" /\ thread'.wait = thread.wait
          /\ due' = due /\ disabled' = disabled
      BY <1>1, <1>4 DEF Wait, Goto
    <2> QED BY <1>1, <2>1 DEF Timely, Continues, InTime, Enabled, Present
  <1>5. CASE Look
    <2> DEFINE e == events[thread.at]
    <2>1. thread.at \in DOMAIN events /\ e \in Event /\ thread.step = "look"
      BY <1>1, <1>5, ElementOfSeq DEF Look, Safe, TypeOK
    <2>2. disabled' = disabled /\ Interval[Continue] >= 0
          /\ \/ thread'.step = "call" /\ thread'.at = thread.at /\ due' = due
             \/ /\ thread'.step = "look" /\ thread'.at = thread.at + 1
                /\ ~Passed(e) \/ disabled[e]
                /\ due' = IF Passed(e) THEN [due EXCEPT ![e] = Interval[e]] ELSE due
      BY <1>1, <1>5, Dues DEF Look, Goto
    <2>3. Continues'
      <3>1. due'[Continue] >= 0
        BY <2>1, <2>2, Dues, Constants DEF Timely, Continues
      <3> QED BY <1>1, <2>2, <3>1 DEF Timely, Continues
    <2>4. ASSUME NEW u \in User PROVE InTime(u)'
      <3> SUFFICES ASSUME Enabled(u) PROVE InTime(u)'
        BY <1>1, <2>2 DEF InTime, Enabled, Present
      <3>1. InTime(u) /\ ~disabled[Own[u]]
        BY DEF Timely, Enabled
      <3>2. due'[Own[u]] = due[Own[u]]
        BY <2>1, <2>2, <3>1, Constants, Dues
      <3>3. ASSUME thread'.step = "look",
                   NEW i \in DOMAIN events, i < thread.at + 1, events[i] = Own[u]
            PROVE  due[Own[u]] > 0
        <4>1. CASE i < thread.at
          BY <2>1, <3>1, <3>3, <4>1 DEF InTime
        <4>2. CASE i = thread.at
          BY <2>2, <3>1, <3>3, <4>2, Dues DEF Passed
        <4> QED BY <1>1, <3>3, <4>1, <4>2
      <3> QED BY <1>1, <2>1, <2>2, <3>1, <3>2, <3>3 DEF InTime
    <2> QED BY <2>3, <2>4 DEF Timely
  <1>6. CASE Call
    <2> DEFINE e == events[thread.at]
    <2>1. thread.at \in DOMAIN events /\ e \in Event /\ thread.step = "call"
      BY <1>1, <1>6, ElementOfSeq DEF Call, Safe, TypeOK
    <2>2. PICK d \in (IF e \in {Continue, Clear} THEN {FALSE} ELSE {disabled[e], TRUE}) :
            disabled' = [disabled EXCEPT ![e] = d]
      BY <1>6 DEF Call
    <2>3. due' = [due EXCEPT ![e] = Interval[e]]
          /\ thread'.step = "look" /\ thread'.at = thread.at + 1
      BY <1>1, <1>6 DEF Call
    <2>4. Continues'
      <3>1. due'[Continue] >= 0
        BY <2>1, <2>3, Dues, Constants DEF Timely, Continues
      <3>2. ~disabled'[Continue]
        <4>1. e = Continue => d = FALSE
          BY <2>2
        <4> QED BY <2>1, <2>2, <4>1, Dues, Constants DEF Timely, Continues
      <3> QED BY <1>1, <2>3, <3>1, <3>2 DEF Timely, Continues
    <2>5. ASSUME NEW u \in User PROVE InTime(u)'
      <3>1. Own[u] \in Event /\ Own[u] \notin {Continue, Clear}
        BY SchedulerAssumption, Constants
      <3>2. Enabled(u)' => Enabled(u)
        BY <1>1, <2>1, <2>2, <3>1, Dues DEF Enabled, Present
      <3> SUFFICES ASSUME Enabled(u) PROVE InTime(u)'
        BY <3>2 DEF InTime
      <3>3. InTime(u)
        BY DEF Timely
      <3>4. CASE Own[u] = e
        <4>1. due'[Own[u]] = Interval[Own[u]] /\ Interval[Own[u]] > 0 /\ Interval[Own[u]] \in Int
          BY <2>1, <2>3, <3>4, Dues
        <4> QED BY <2>3, <4>1, Dues DEF InTime
      <3>5. CASE Own[u] # e
        <4>1. due'[Own[u]] = due[Own[u]]
          BY <2>1, <2>3, <3>1, <3>5, Dues
        <4>2. ASSUME NEW i \in DOMAIN events, i < thread.at + 1, events[i] = Own[u]
              PROVE  i < thread.at
          BY <1>1, <3>5, <4>2
        <4> QED BY <1>1, <2>1, <2>3, <3>3, <4>1, <4>2 DEF InTime
      <3> QED BY <3>4, <3>5
    <2> QED BY <2>4, <2>5 DEF Timely
  <1>7. CASE Plan
    <2>1. Continue \in Planned /\ disabled' = disabled /\ due' = due
          /\ thread.step = "look" /\ thread.at > Len(events)
      BY <1>7 DEF Plan, Planned, Timely, Continues
    <2>2. PICK w \in {1} \cup {due[e] : e \in Planned} :
            Sleep(w) /\ thread' = [thread EXCEPT !.step = "wait", !.wait = w]
      BY <1>7 DEF Plan
    <2>3. w <= due[Continue] /\ thread'.step = "wait" /\ thread'.wait = w
      BY <1>1, <2>1, <2>2 DEF Sleep
    <2>4. Continues'
      BY <1>1, <2>1, <2>3 DEF Timely, Continues
    <2>5. ASSUME NEW u \in User PROVE InTime(u)'
      <3> SUFFICES ASSUME Enabled(u) PROVE InTime(u)'
        BY <1>1, <2>1 DEF InTime, Enabled, Present
      <3>1. PICK i \in DOMAIN events : events[i] = Own[u]
        BY DEF Enabled, Present, ToSet
      <3>2. i < thread.at
        BY <1>1, <2>1
      <3>3. InTime(u)
        BY DEF Timely
      <3>4. due[Own[u]] > 0
        BY <2>1, <3>1, <3>2, <3>3 DEF InTime
      <3> QED BY <2>1, <2>3, <3>4, Dues DEF InTime
    <2> QED BY <2>4, <2>5 DEF Timely
  <1> QED BY <1>2, <1>3, <1>4, <1>5, <1>6, <1>7 DEF Thread

\* A step of a user
LEMMA UserTimely ==
  ASSUME Safe, Found, Timely, NEW u \in User, Begin(u) \/ Finish(u)
  PROVE  Timely'
  <1>1. /\ thread' = thread
        /\ user \in [User -> [step : {"rest", "begun", "enabling", "adding", "removing"}, index : Nat]]
        /\ Own[u] \in Event /\ Own[u] # Continue /\ \A v \in User \ {u} : Own[v] # Own[u]
        /\ \A v \in User \ {u} : user'[v] = user[v]
    BY Constants DEF Safe, TypeOK, Begin, Finish, Enable, SetDue, Disable, Add, Find, Erase, Pass,
       Release, GotoU
  <1>2. /\ UNCHANGED due \/ \E t : due' = [due EXCEPT ![Own[u]] = t]
        /\ UNCHANGED disabled \/ \E d : disabled' = [disabled EXCEPT ![Own[u]] = d]
    BY DEF Begin, Finish, Enable, SetDue, Disable, Add, Find, Erase, Pass
  <1>3. /\ due'[Continue] = due[Continue] /\ disabled'[Continue] = disabled[Continue]
        /\ \A v \in User \ {u} : due'[Own[v]] = due[Own[v]] /\ disabled'[Own[v]] = disabled[Own[v]]
    BY <1>1, <1>2, Constants, Dues
  <1>4. events' = events \/ thread.step \notin {"look", "call"}
    BY DEF Safe, Locked, NoOne, Begin, Finish, Enable, SetDue, Disable, Add, Find, Erase, Pass
  \* The other events stay in the vector or out of it.
  <1>5. \A e \in Event \ {Own[u]} : e \in ToSet(events') <=> e \in ToSet(events)
    <2>1. CASE events' = events
      BY <2>1
    <2>2. CASE Add(u)
      BY <1>1, <2>2, Appended DEF Add, Present, Safe, TypeOK
    <2>3. CASE Erase(u)
      <3>1. user[u].index \in DOMAIN events /\ events[user[u].index] = Own[u]
        BY <2>3 DEF Erase, Found
      <3>2. ToSet(events') = ToSet(events) \ {Own[u]}
        BY <2>3, <3>1, Removed DEF Erase, Safe, TypeOK
      <3> QED BY <3>2
    <2> QED BY <2>1, <2>2, <2>3 DEF Begin, Finish, Enable, SetDue, Disable, Find, Pass
  <1>6. Continues'
    BY <1>1, <1>3, <1>5, Constants DEF Timely, Continues
  <1>7. ASSUME NEW v \in User, v # u PROVE InTime(v)'
    <2>1. Enabled(v)' => Enabled(v)
      BY <1>1, <1>3, <1>5, <1>7, Constants DEF Enabled, Present
    <2> QED BY <1>1, <1>3, <1>4, <1>7, <2>1, Unmoved DEF Timely
  <1>8. InTime(u)'
    <2>1. ASSUME Enabled(u)' => Enabled(u), due'[Own[u]] = due[Own[u]] PROVE InTime(u)'
      BY <1>1, <1>3, <1>4, <2>1, Unmoved DEF Timely
    <2>2. CASE Begin(u) \/ Find(u) \/ Pass(u)
      <3>1. user[u].step \in {"rest", "begun"} /\ UNCHANGED <<events, disabled, due>>
        BY <2>2 DEF Begin, Find, Pass
      <3> QED BY <2>1, <3>1 DEF Enabled, Present
    <2>3. CASE Enable(u) \/ Add(u)
      <3>1. user'[u].step \in {"enabling", "adding"}
        BY <1>1, <2>3 DEF Enable, Add, GotoU
      <3> QED BY <3>1 DEF InTime, Enabled
    <2>4. CASE Disable(u)
      <3>1. disabled'[Own[u]]
        BY <1>1, <2>4, Dues DEF Disable
      <3> QED BY <3>1 DEF InTime, Enabled
    <2>5. CASE SetDue(u)
      <3>1. due'[Own[u]] = Interval[Own[u]]
        BY <1>1, <2>5, Dues DEF SetDue
      <3> QED BY <1>3, <3>1, Dues DEF InTime
    <2>6. CASE Erase(u)
      <3>1. user[u].step = "removing" /\ UNCHANGED <<disabled, due>>
        BY <2>6 DEF Erase
      <3>2. user[u].index \in DOMAIN events /\ events[user[u].index] = Own[u]
        BY <3>1 DEF Found
      <3>3. ToSet(events') = ToSet(events) \ {Own[u]}
        BY <2>6, <3>2, Removed DEF Erase, Safe, TypeOK
      <3> QED BY <3>3 DEF InTime, Enabled, Present
    <2> QED BY <2>2, <2>3, <2>4, <2>5, <2>6 DEF Finish
  <1> QED BY <1>6, <1>7, <1>8 DEF Timely

\* The passing of time, stopping, and the client
LEMMA OtherTimely ==
  ASSUME Safe, Timely,
         Tick \/ AskStop \/ Join \/ Connect \/ Ask \/ Throw \/ Disconnect \/ End \/ UNCHANGED vars
  PROVE  Timely'
  <1>1. CASE Tick
    <2>1. /\ thread.step = "asleep" /\ thread.wait > 0 /\ thread'.step = "asleep"
          /\ thread.wait \in Int /\ thread'.wait = thread.wait - 1
          /\ UNCHANGED <<events, disabled, user>>
      BY <1>1 DEF Tick, Safe, TypeOK
    <2>2. due' = [e \in Event |-> IF due[e] > -Latest THEN due[e] - 1 ELSE due[e]]
      BY <1>1 DEF Tick
    <2>3. thread.wait <= due[Continue]
      BY <2>1 DEF Timely, Continues
    <2>4. due'[Continue] = due[Continue] - 1
      BY <2>1, <2>2, <2>3, Constants, Dues
    <2>5. Continues'
      BY <2>1, <2>3, <2>4, Dues DEF Timely, Continues
    <2>6. ASSUME NEW u \in User PROVE InTime(u)'
      <3> SUFFICES ASSUME Enabled(u) PROVE InTime(u)'
        BY <2>1 DEF InTime, Enabled, Present
      <3>1. due[Own[u]] > due[Continue] - Interval[Continue]
        BY <2>1 DEF Timely, InTime
      <3>2. due'[Own[u]] \in Int /\ due'[Own[u]] >= due[Own[u]] - 1
        BY <2>2, Constants, Dues
      <3>3. due'[Own[u]] > due'[Continue] - Interval[Continue]
        BY <2>4, <3>1, <3>2, Dues
      <3>4. due'[Continue] >= 0
        BY <2>5 DEF Continues
      <3>5. due'[Own[u]] > -Interval[Continue]
        BY <2>4, <3>2, <3>3, <3>4, Dues
      <3> QED BY <2>1, <3>3, <3>5 DEF InTime
    <2> QED BY <2>5, <2>6 DEF Timely
  <1>2. CASE ~Tick
    <2>1. UNCHANGED <<events, disabled, due, thread, user>>
      BY <1>2 DEF AskStop, Join, Connect, Ask, Throw, Disconnect, End, others, vars
    <2> QED BY <2>1 DEF Timely, Continues, InTime, Enabled, Present
  <1> QED BY <1>1, <1>2

\* Whatever signals the thread loses, an enabled event is never late by the interval
\* of the continue event, when no two threads can be removing events at once.
THEOREM LateAtMost == ASSUME OneRemover PROVE Spec => []LateByContinue
  <1>1. Init => Found
    BY DEF Init, Found
  <1>2. Safe /\ Inside /\ Found /\ [Next]_vars => Found'
    BY KeepsFound
  <1>3. Safe /\ Found /\ Timely /\ [Next]_vars => Timely'
    BY ThreadTimely, UserTimely, OtherTimely DEF Next
  <1>4. Timely => LateByContinue
    BY DEF Timely, InTime, Enabled, LateByContinue
  <1> QED BY <1>1, <1>2, <1>3, <1>4, InitTimely, SafeInvariant, ProcessMutexExcludes, PTL DEF Spec
=============================================================================
