------------------------------ MODULE Scheduler ------------------------------
(***************************************************************************)
(* The event scheduler (src/src/scheduler/scheduler.cpp): one thread that  *)
(* runs the functions of the events that are due and sleeps until the next *)
(* one is, and the threads that add, remove, enable and disable events.    *)
(*                                                                         *)
(* EventMutex guards the vector of events, not their fields, and the       *)
(* thread holds it while it runs the functions.  The function of the       *)
(* continue event, Train_ContinueCheck, takes processMutex, which the      *)
(* algorithm thread holds when it makes or removes a train and, with it,   *)
(* its event.  That of the websocket server's event, ClearUnusedSockets,   *)
(* joins the thread of a client that has lost its connection, which may be *)
(* about to throw a switch and wait for processMutex.                      *)
(*                                                                         *)
(* Times are whole ticks, relative to now.  A tick is long next to the     *)
(* steps of the scheduler's thread: it passes only while that thread       *)
(* sleeps.                                                                 *)
(***************************************************************************)
EXTENDS Integers, Sequences, SequencesExt

CONSTANTS
  User,       \* the threads that use events
  Own,        \* the event of each user, a function
  Continue,   \* the event Manager::initScheduler adds
  Interval,   \* the interval of each event, a function
  Owners,     \* the users that add and remove their event
  Holders,    \* the users that do so inside processMutex
  Stops,      \* whether the program is stopped
  Serves,     \* whether the websocket server is started, and clients come
  Clear       \* the event Server::init adds then

Served == IF Serves THEN {Clear} ELSE {}
Event == {Continue} \cup Served \cup {Own[u] : u \in User}

NoOne == "no one"

ASSUME SchedulerAssumption ==
  /\ IsFiniteSet(User) /\ User \cap {NoOne, "client"} = {}
  /\ Interval \in [Event -> Nat \ {0}]
  /\ Owners \subseteq User /\ Holders \subseteq User
  /\ Clear # Continue
  /\ \A u, v \in User : Own[u] \notin {Continue, Clear} /\ (Own[u] = Own[v] => u = v)

VARIABLES
  events,        \* the vector of events
  disabled,      \* SchedulerEvent::disabled
  due,           \* how long until next_interval
  EventMutex,    \* the thread that holds it
  processMutex,
  thread,        \* Scheduler::thread: its step, the index of its loop, its wait
  signalled,     \* whether the sleeping thread was signalled
  user,          \* the step of each user, and the index it has found
  stop,          \* how far Scheduler::stop is
  client         \* a client of the server: what its thread does, Client::connected

vars == <<events, disabled, due, EventMutex, processMutex, thread, signalled, user, stop, client>>

NoClient == [step |-> "none", connected |-> FALSE]

\* The latest that is told apart
Latest == 1 + Interval[Continue]

Init ==
  /\ events = <<Continue>> \o SetToSeq(Served) \o SetToSeq({Own[u] : u \in User \ Owners})
  /\ disabled = [e \in Event |-> e \notin {Continue, Clear}]
  /\ due = [e \in Event |-> Interval[e]]
  /\ EventMutex = NoOne /\ processMutex = NoOne
  /\ thread = [step |-> "top", at |-> 1, wait |-> 0]
  /\ signalled = FALSE
  /\ user = [u \in User |-> [step |-> "rest", index |-> 0]]
  /\ stop = "no"
  /\ client = NoClient

-----------------------------------------------------------------------------
(* Scheduler::thread *)

\* pthread_cond_signal only wakes a thread that waits.
Signal == signalled' = (signalled \/ thread.step = "asleep")

Goto(step) == thread' = [thread EXCEPT !.step = step]

Top ==
  /\ thread.step = "top"
  /\ Goto(IF stop = "no" THEN "lock" ELSE "done")
  /\ UNCHANGED <<events, disabled, due, EventMutex, processMutex, signalled, user, stop, client>>

Lock ==
  /\ thread.step = "lock" /\ EventMutex = NoOne
  /\ EventMutex' = "scheduler"
  /\ thread' = [thread EXCEPT !.step = "look", !.at = 1]
  /\ UNCHANGED <<events, disabled, due, processMutex, signalled, user, stop, client>>

Passed(e) == due[e] <= 0

\* The loop over the events: a disabled one that has passed is only updated.
Look ==
  /\ thread.step = "look" /\ thread.at <= Len(events)
  /\ LET e == events[thread.at]
     IN IF Passed(e) /\ ~disabled[e]
        THEN Goto("call") /\ UNCHANGED due
        ELSE /\ thread' = [thread EXCEPT !.at = @ + 1]
             /\ due' = IF Passed(e) THEN [due EXCEPT ![e] = Interval[e]] ELSE due
  /\ UNCHANGED <<events, disabled, EventMutex, processMutex, signalled, user, stop, client>>

\* ClearUnusedSockets: the thread of a client without connection is joined, and
\* the client deleted.
ClearUnusedSockets ==
  /\ ~client.connected => client.step \in {"none", "ended"}
  /\ client' = IF client.connected THEN client ELSE NoClient

\* The function, which may disable its own event, and updateEvent after it.
\* That of the continue event needs processMutex.
Call ==
  /\ thread.step = "call"
  /\ LET e == events[thread.at]
     IN /\ e = Continue => processMutex = NoOne
        /\ IF e = Clear THEN ClearUnusedSockets ELSE UNCHANGED client
        /\ \E d \in (IF e \in {Continue, Clear} THEN {FALSE} ELSE {disabled[e], TRUE}) :
             disabled' = [disabled EXCEPT ![e] = d]
        /\ due' = [due EXCEPT ![e] = Interval[e]]
  /\ thread' = [thread EXCEPT !.step = "look", !.at = @ + 1]
  /\ UNCHANGED <<events, EventMutex, processMutex, signalled, user, stop>>

\* The events the thread wakes up for
Planned == {e \in ToSet(events) : ~disabled[e]}

\* Mutant: the thread sleeps until the last event is due.
SleepLast(w) ==
  IF Planned = {} THEN w = 1
  ELSE \E e \in Planned : w = due[e] /\ \A f \in Planned : due[e] >= due[f]

\* How long the thread is to sleep: until the first event is due, or a second
Sleep(w) ==
  IF Planned = {} THEN w = 1
  ELSE \E e \in Planned : w = due[e] /\ \A f \in Planned : due[e] <= due[f]

Plan ==
  /\ thread.step = "look" /\ thread.at > Len(events)
  /\ \E w \in {1} \cup {due[e] : e \in Planned} :
       Sleep(w) /\ thread' = [thread EXCEPT !.step = "wait", !.wait = w]
  /\ EventMutex' = NoOne
  /\ UNCHANGED <<events, disabled, due, processMutex, signalled, user, stop, client>>

\* pthread_cond_timedwait
Wait ==
  /\ thread.step = "wait"
  /\ Goto("asleep")
  /\ signalled' = FALSE
  /\ UNCHANGED <<events, disabled, due, EventMutex, processMutex, user, stop, client>>

\* Mutant: only a signal wakes the thread.
WakeSignalled ==
  /\ thread.step = "asleep" /\ signalled
  /\ Goto("top")
  /\ signalled' = FALSE
  /\ UNCHANGED <<events, disabled, due, EventMutex, processMutex, user, stop, client>>

Wake ==
  /\ thread.step = "asleep" /\ (signalled \/ thread.wait <= 0)
  /\ Goto("top")
  /\ signalled' = FALSE
  /\ UNCHANGED <<events, disabled, due, EventMutex, processMutex, user, stop, client>>

-----------------------------------------------------------------------------
(* The other threads *)

GotoU(u, step) == user' = [user EXCEPT ![u].step = step]

\* A user begins, inside processMutex if it is a holder.
Begin(u) ==
  /\ user[u].step = "rest" /\ stop = "no"
  /\ u \in Holders => processMutex = NoOne
  /\ processMutex' = IF u \in Holders THEN u ELSE processMutex
  /\ GotoU(u, "begun")
  /\ UNCHANGED <<events, disabled, due, EventMutex, thread, signalled, stop, client>>

\* Processing of the block ends, and processMutex is released.
Release(u) ==
  /\ GotoU(u, "rest")
  /\ processMutex' = IF processMutex = u THEN NoOne ELSE processMutex

Present(u) == Own[u] \in ToSet(events)

\* enableEvent
Enable(u) ==
  /\ user[u].step = "begun" /\ Present(u)
  /\ disabled' = [disabled EXCEPT ![Own[u]] = FALSE]
  /\ GotoU(u, "enabling")
  /\ UNCHANGED <<events, due, EventMutex, processMutex, thread, signalled, stop, client>>

\* enableEvent and addEvent end by setting next_interval and a signal.
SetDue(u) ==
  /\ user[u].step \in {"enabling", "adding"}
  /\ due' = [due EXCEPT ![Own[u]] = Interval[Own[u]]]
  /\ Signal
  /\ Release(u)
  /\ UNCHANGED <<events, disabled, EventMutex, thread, stop, client>>

\* disableEvent
Disable(u) ==
  /\ user[u].step = "begun" /\ Present(u)
  /\ disabled' = [disabled EXCEPT ![Own[u]] = TRUE]
  /\ Signal
  /\ Release(u)
  /\ UNCHANGED <<events, due, EventMutex, thread, stop, client>>

\* addEvent: the event is new, disabled and its next_interval zero.
Add(u) ==
  /\ user[u].step = "begun" /\ u \in Owners /\ ~Present(u) /\ EventMutex = NoOne
  /\ events' = Append(events, Own[u])
  /\ disabled' = [disabled EXCEPT ![Own[u]] = TRUE]
  /\ due' = [due EXCEPT ![Own[u]] = -Latest]
  /\ GotoU(u, "adding")
  /\ UNCHANGED <<EventMutex, processMutex, thread, signalled, stop, client>>

\* removeEvent: getEvent finds the index without the mutex
Find(u) ==
  /\ user[u].step = "begun" /\ u \in Owners /\ Present(u)
  /\ \E i \in DOMAIN events :
       events[i] = Own[u] /\ user' = [user EXCEPT ![u] = [step |-> "removing", index |-> i]]
  /\ UNCHANGED <<events, disabled, due, EventMutex, processMutex, thread, signalled, stop, client>>

\* Mutant: the event before it is removed (an index off by one).
EraseBefore(u) ==
  /\ user[u].step = "removing" /\ EventMutex = NoOne
  /\ events' = IF user[u].index - 1 \in DOMAIN events
               THEN RemoveAt(events, user[u].index - 1) ELSE events
  /\ Release(u)
  /\ UNCHANGED <<disabled, due, EventMutex, thread, signalled, stop, client>>

\* removeEvent(index).  When two threads remove events at a time the index may be
\* past the end, where erase is undefined; here it then removes nothing.
Erase(u) ==
  /\ user[u].step = "removing" /\ EventMutex = NoOne
  /\ events' = IF user[u].index \in DOMAIN events THEN RemoveAt(events, user[u].index)
               ELSE events
  /\ Release(u)
  /\ UNCHANGED <<disabled, due, EventMutex, thread, signalled, stop, client>>

\* Nothing is to be done with the event after all.
Pass(u) ==
  /\ user[u].step = "begun"
  /\ Release(u)
  /\ UNCHANGED <<events, disabled, due, EventMutex, thread, signalled, stop, client>>

\* Scheduler::stop, in the main thread
AskStop ==
  /\ Stops /\ stop = "no"
  /\ stop' = "asked"
  /\ UNCHANGED <<events, disabled, due, EventMutex, processMutex, thread, signalled, user, client>>

\* It joins the thread while it holds EventMutex.
Join ==
  /\ \/ /\ stop = "asked" /\ EventMutex = NoOne
        /\ stop' = "joining" /\ EventMutex' = "main"
        /\ Signal
     \/ /\ stop = "joining" /\ thread.step = "done"
        /\ stop' = "ended" /\ EventMutex' = NoOne
        /\ UNCHANGED signalled
  /\ UNCHANGED <<events, disabled, due, processMutex, thread, user, client>>

\* Time passes while the thread sleeps.
Tick ==
  /\ thread.step = "asleep" /\ ~signalled /\ thread.wait > 0
  /\ due' = [e \in Event |-> IF due[e] > -Latest THEN due[e] - 1 ELSE due[e]]
  /\ thread' = [thread EXCEPT !.wait = @ - 1]
  /\ UNCHANGED <<events, disabled, EventMutex, processMutex, signalled, user, stop, client>>

-----------------------------------------------------------------------------
(* The thread of a client *)

others == <<events, disabled, due, EventMutex, thread, signalled, user, stop>>

\* A client connects, and its thread is created.
Connect ==
  /\ Serves /\ client.step = "none"
  /\ client' = [step |-> "reads", connected |-> TRUE]
  /\ UNCHANGED <<others, processMutex>>

\* Its thread gets a message that throws a switch (Parse).
Ask ==
  /\ client.step = "reads" /\ client.connected
  /\ client' = [client EXCEPT !.step = "wants"]
  /\ UNCHANGED <<others, processMutex>>

\* Switch::setState, under processMutex to its end
Throw ==
  /\ \/ /\ client.step = "wants" /\ processMutex = NoOne
        /\ processMutex' = "client"
        /\ client' = [client EXCEPT !.step = "throws"]
     \/ /\ client.step = "throws"
        /\ processMutex' = NoOne
        /\ client' = [client EXCEPT !.step = "reads"]
  /\ UNCHANGED others

\* Somebody's write to the client fails, or its own read: it is disconnected.
Disconnect ==
  /\ client.connected
  /\ client' = [client EXCEPT !.connected = FALSE]
  /\ UNCHANGED <<others, processMutex>>

\* Its thread ends when it comes to test connected again.
End ==
  /\ client.step = "reads" /\ ~client.connected
  /\ client' = [client EXCEPT !.step = "ended"]
  /\ UNCHANGED <<others, processMutex>>

-----------------------------------------------------------------------------
Thread == Top \/ Lock \/ Look \/ Call \/ Plan \/ Wait \/ Wake

Finish(u) == Enable(u) \/ SetDue(u) \/ Disable(u) \/ Add(u) \/ Find(u) \/ Erase(u) \/ Pass(u)

Next ==
  \/ Thread \/ Tick \/ AskStop \/ Join
  \/ Connect \/ Ask \/ Throw \/ Disconnect \/ End
  \/ \E u \in User : Begin(u) \/ Finish(u)

Spec == Init /\ [][Next]_vars

\* Threads take their steps, and get a mutex that is released again and again;
\* signals do not keep the thread awake for ever.
Fairness ==
  /\ SF_vars(Thread) /\ SF_vars(Tick) /\ SF_vars(Join)
  /\ SF_vars(Throw) /\ WF_vars(End)
  /\ \A u \in User : WF_vars(Finish(u))

FairSpec == Spec /\ Fairness

-----------------------------------------------------------------------------
(* Properties *)

Step == {"top", "lock", "look", "call", "wait", "asleep", "done"}

\* The loop stays within the events, which are all different.
TypeOK ==
  /\ events \in Seq(Event) /\ IsInjective(events)
  /\ disabled \in [Event -> BOOLEAN]
  /\ due \in [Event -> Int] /\ \A e \in Event : due[e] \in -Latest .. Interval[e]
  /\ EventMutex \in {NoOne, "scheduler", "main"} /\ processMutex \in Holders \cup {NoOne, "client"}
  /\ client \in [step : {"none", "reads", "wants", "throws", "ended"}, connected : BOOLEAN]
  /\ thread \in [step : Step, at : Nat, wait : Int] /\ signalled \in BOOLEAN
  /\ thread.step = "look" => thread.at \in 1 .. Len(events) + 1
  /\ thread.step = "call" => thread.at \in DOMAIN events
  /\ user \in [User -> [step : {"rest", "begun", "enabling", "adding", "removing"}, index : Nat]]
  /\ stop \in {"no", "asked", "joining", "ended"}

\* removeEvent removes the event it is given: an event stays until its own
\* thread removes it (train.h:125: "Event Scheduler for state changes and
\* accelerate/decelerate").
OwnRemoved ==
  [][\A e \in ToSet(events) \ ToSet(events') :
       \E u \in User : Own[u] = e /\ user[u].step = "removing" /\ user'[u].step = "rest"]_vars

\* A wakeup that comes just before the thread sleeps is lost, but an enabled
\* event is never later than the interval of the continue event, which no one
\* disables.
LateByContinue ==
  \A u \in User :
    Present(u) /\ ~disabled[Own[u]] /\ user[u].step = "rest" =>
      due[Own[u]] > -Interval[Continue]

\* An enabled event is called when it is due (speed.cpp: "Set stopped after 1.5
\* sec").
OnTime ==
  \A u \in User :
    Present(u) /\ ~disabled[Own[u]] /\ user[u].step = "rest" => due[Own[u]] >= 0

\* An event is not called before enableEvent has set when it is due.
NotEarly ==
  \A u \in User :
    user[u].step = "enabling" =>
      ~(thread.step = "call" /\ events[thread.at] = Own[u])

\* The trains are checked for ever, until the scheduler is stopped (manager.cpp:
\* "Do the train continue check every 2 seconds").
Checked ==
  \/ stop # "no"
  \/ thread.step = "look" /\ thread.at > 1 /\ due[Continue] = Interval[Continue]
ContinueRuns == []<>Checked

\* ClearUnusedSockets returns: the thread it joins ends (server.cpp:99: "Start
\* clear_clients").
JoinsEnd == (thread.step = "call" /\ events[thread.at] = Clear) ~> thread.step # "call"

\* A scheduler that is stopped ends (baan.cpp: "Stop all").
StopEnds == stop = "asked" ~> stop = "ended"
=============================================================================
