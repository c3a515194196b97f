----------------------------- MODULE Interlocking -----------------------------
(***************************************************************************)
(* The program at work on a layout with trains: the algorithm thread       *)
(* (BlockTick and TrainTick, algorithm/component.cpp), the scheduler       *)
(* thread (Train_ContinueCheck and the speed events), the clients that     *)
(* throw switches, and the trains, whose wheels the detection inputs       *)
(* report (IO.cpp).                                                        *)
(*                                                                         *)
(* The trains are real: a train is in one block or over the joint of two,  *)
(* and it is carried over every joint unless the brakes have stopped it.   *)
(* Trains have no route.  Path::reverse turns the program's idea of where  *)
(* a train faces; Engine::dir, which drives it, is left alone by the code. *)
(***************************************************************************)
EXTENDS TrainFollowing

CONSTANTS
  Braking,    \* braking distances a train may have when its block is processed
  StartAt,    \* StartAt[t]: the block train t stands in at the start
  StartDir,   \* StartDir[t]: the end it faces, NEXT or PREV of the blocks as laid
  MaxThrows,  \* bound: how often clients throw a switch
  Prompt,     \* whether the algorithm always empties its queues before a train
              \* moves on or another thread does anything
  Preempted   \* whether other threads run between the steps of Train::Continue
              \* and of a client's throw

VARIABLES
  w,      \* the world of the program
  pos,    \* pos[t]: the blocks train t really is in, in the order of the layout
  tick,   \* "blocks" while BlockTick runs, "trains" while TrainTick does
  sched,  \* where the scheduler thread is in Train_ContinueCheck, and for which train
  client, \* the switch and state of a Switch::setState a client is in
  throws  \* how often a client has thrown a switch

vars == <<w, pos, tick, sched, client, throws>>

LeavesPath(p, link) == ~(link.type = "R" /\ link.to \in PathBlocks(p))

\* The way out of a path's blocks leads through both of its ends: no path is a ring.
ASSUME InterlockingAssumption ==
  /\ \A t \in Train : StartAt[t] \in Block /\ StartDir[t] \in {NEXT, PREV}
  /\ \A p \in Path, end \in {"next", "prev"} :
       \E b \in PathBlocks(p) : LeavesPath(p, Link[<<b, end>>])

-----------------------------------------------------------------------------
(* The start: every train stands in one block, known, initialized and not   *)
(* yet driven (TRAIN_SPEED_IDLE), and the paths lie the way their train faces.*)

BlankBlock(b) ==
  LET here == {t \in Train : StartAt[t] = b}
      t == IF here = {} THEN None ELSE CHOOSE x \in here : TRUE
      p == PathOf[b]
      faces == {x \in Train : PathOf[StartAt[x]] = p /\ p # None}
  IN [dir |-> IF \E x \in faces \cup here : StartDir[x] = PREV THEN PREV ELSE NEXT,
      state |-> PROCEED, reverse |-> PROCEED, blocked |-> here # {}, train |-> t,
      expectedTrain |-> t, expectedDetectable |-> None, reservedBy |-> <<>>,
      switchWrong |-> FALSE, N |-> <<>>, P |-> <<>>, searched |-> FALSE,
      trainFollowingChecked |-> TRUE, switchChecked |-> TRUE, doneAll |-> FALSE,
      recalculate |-> FALSE]

PathEnd(p, end) == CHOOSE b \in PathBlocks(p) : LeavesPath(p, Link[<<b, end>>])

Blank ==
  LET turned(p) == \E b \in PathBlocks(p) : BlankBlock(b).dir = PREV
  IN [blk |-> [b \in Block |-> BlankBlock(b)],
      sw |-> [s \in Switch |-> 0],
      path |-> [p \in Path |->
                  [Entrance |-> PathEnd(p, IF turned(p) THEN "next" ELSE "prev"),
                   Exit |-> PathEnd(p, IF turned(p) THEN "prev" ELSE "next"),
                   reservedTrains |-> {},
                   trains |-> {t \in Train : PathOf[StartAt[t]] = p}]],
      trn |-> [t \in Train |-> [B |-> StartAt[t], blocks |-> <<StartAt[t]>>,
                                det |-> <<StartAt[t]>>, expectedSet |-> FALSE,
                                phase |-> "idle", brake |-> "none", signal |-> None,
                                reservedBlocks |-> {}]],
      parkedIn |-> {StationOf[StartAt[t]] : t \in Train} \ {None},
      q |-> <<>>, tq |-> <<>>, trainq |-> <<>>, fault |-> "none"]

\* InitProcess processes every block once, in some order.
StartStep(a) ==
  LET b == CHOOSE b \in a.left : TRUE
  IN IF a.left = {} THEN a ELSE [w |-> ProcessBlock(a.w, b, TRUE, 0), left |-> a.left \ {b}]

Started ==
  LET at[n \in 0..Cardinality(Block)] == IF n = 0 THEN [w |-> Blank, left |-> Block]
                                         ELSE StartStep(at[n - 1])
  IN at[Cardinality(Block)].w

AtRest == [step |-> "rest"]

Init ==
  /\ w = Started
  /\ pos = [t \in Train |-> <<StartAt[t]>>]
  /\ tick = "blocks"
  /\ sched = AtRest
  /\ client = AtRest
  /\ throws = 0

\* A null pointer followed ends the program.
Alive == w.fault = "none"

\* Whether a thread may begin something: the code does not stop it while
\* another one is between two steps.
Undisturbed == Alive /\ (~Preempted => sched = AtRest /\ client = AtRest)

CaughtUp == Prompt => w.q = <<>> /\ w.trainq = <<>>

-----------------------------------------------------------------------------
(* The algorithm thread *)

TickBlocks ==
  /\ Undisturbed /\ tick = "blocks" /\ w.q # <<>>
  /\ \E d \in Braking : w' = TickBlock([w EXCEPT !.q = Tail(@)], Head(w.q), d)
  /\ UNCHANGED <<pos, tick, sched, client, throws>>

EndBlocks ==
  /\ Undisturbed /\ tick = "blocks" /\ w.q = <<>> /\ w.trainq # <<>>
  /\ tick' = "trains"
  /\ UNCHANGED <<w, pos, sched, client, throws>>

TickTrains ==
  /\ Undisturbed /\ tick = "trains" /\ w.trainq # <<>>
  /\ \E go \in BOOLEAN :
       w' = TrainControl([w EXCEPT !.trainq = Tail(@)], Head(w.trainq), go)
  /\ tick' = IF w'.trainq = <<>> THEN "blocks" ELSE tick
  /\ UNCHANGED <<pos, sched, client, throws>>

-----------------------------------------------------------------------------
(* The trains, and what the detection reports of them *)

FrontOf(t) == IF StartDir[t] = NEXT THEN Last(pos[t]) ELSE Head(pos[t])

LinkAhead(t) == Link[<<FrontOf(t), IF StartDir[t] = NEXT THEN "next" ELSE "prev">>]

\* A detection input changed: setDetection, and the block is queued.
Detect(b, on) ==
  [w EXCEPT !.blk[b].blocked = on, !.blk[b].trainFollowingChecked = FALSE,
            !.blk[b].doneAll = FALSE, !.q = AddOnce(@, b)]

\* The algorithm keeps up with a train: what its last detection queued has
\* been processed before it reaches its next one.
Followed(t) == ToSet(pos[t]) \cap ToSet(w.q) = {} /\ t \notin ToSet(w.trainq)

\* The front of a train goes over into the next block, whichever way points
\* lie against it.
Enter(t) ==
  LET n == Beyond(w, LinkAhead(t))
  IN /\ Undisturbed /\ CaughtUp /\ Followed(t)
     /\ w.trn[t].phase = "driving" /\ w.trn[t].brake = "none"
     /\ Len(pos[t]) = 1 /\ n # None
     /\ pos' = [pos EXCEPT ![t] = IF StartDir[t] = NEXT THEN Append(@, n) ELSE <<n>> \o @]
     /\ w' = IF w.blk[n].blocked THEN w ELSE Detect(n, TRUE)
     /\ UNCHANGED <<tick, sched, client, throws>>

\* Its rear leaves the block behind.
Leave(t) ==
  LET rear == IF StartDir[t] = NEXT THEN Head(pos[t]) ELSE Last(pos[t])
  IN /\ Undisturbed /\ CaughtUp /\ Followed(t)
     /\ w.trn[t].phase = "driving" /\ Len(pos[t]) = 2
     /\ pos' = [pos EXCEPT ![t] = IF StartDir[t] = NEXT THEN Tail(@) ELSE Front(@)]
     /\ w' = IF \E o \in Train : rear \in ToSet(pos'[o]) THEN w ELSE Detect(rear, FALSE)
     /\ UNCHANGED <<tick, sched, client, throws>>

-----------------------------------------------------------------------------
(* The scheduler thread *)

\* train_speed_event_tick: the brakes have done their work before the end of
\* the block, unless the signal they were for has cleared by then.
Brakes(t) ==
  LET cleared == w.trn[t].brake = "signal" /\ w.blk[w.trn[t].signal].state # DANGER
  IN /\ Undisturbed /\ CaughtUp
     /\ w.trn[t].phase = "driving" /\ w.trn[t].brake # "none" /\ Len(pos[t]) = 1
     /\ w' = IF cleared THEN [w EXCEPT !.trn[t].brake = "none"] ELSE Stop(w, t)
     /\ UNCHANGED <<pos, tick, sched, client, throws>>

Way(t) == FindPath(w, t, NextLink(w, w.trn[t].B, NEXT), w.trn[t].B, w.trn[t].B, NEXT, TRUE)

\* Train::ContinueCheck, under the mutex
ContinueCheck(t) ==
  /\ Undisturbed /\ CaughtUp /\ sched = AtRest
  /\ Standing(w, t) /\ Way(t).f.possible
  /\ sched' = [step |-> "checked", train |-> t]
  /\ UNCHANGED <<w, pos, tick, client, throws>>

\* Train::Continue, without it: solve looks for the way again ...
ContinueFind ==
  /\ Alive /\ sched.step = "checked"
  /\ sched' = [step |-> "found", train |-> sched.train, way |-> Way(sched.train)]
  /\ UNCHANGED <<w, pos, tick, client, throws>>

\* The path a train leaves over a way it found right is reserved ahead of it.
ReserveAhead(r, t, b, n) ==
  IF r.changed \/ n = <<>> THEN r.w
  ELSE IF Type[n[1]] = "NOSTOP" THEN r.w
  ELSE Put(IF PathOf[b] = None THEN r.w ELSE PathReserveFrom(r.w, PathOf[b], t, b), b)

GoOn(v, t) == IF Standing(v, t) THEN Start(v, t) ELSE v

\* ... sets and reserves it, and Train_ContinueCheck starts the train.
Continue ==
  LET t == sched.train
      b == w.trn[t].B
  IN /\ Alive /\ sched.step = "found"
     /\ w' = GoOn(ReserveAhead(SolveWith(w, t, b, b, NextLink(w, b, NEXT), TRUE, sched.way),
                               t, b, w.blk[b].N), t)
     /\ sched' = AtRest
     /\ UNCHANGED <<pos, tick, client, throws>>

-----------------------------------------------------------------------------
(* A client throws a switch: tested before the mutex is taken, thrown after *)

ClientTests(s) ==
  /\ Undisturbed /\ CaughtUp /\ client = AtRest /\ throws < MaxThrows
  /\ MayThrow(w, s, 1 - w.sw[s])
  /\ client' = [step |-> "tested", sw |-> s, state |-> 1 - w.sw[s]]
  /\ throws' = throws + 1
  /\ UNCHANGED <<w, pos, tick, sched>>

ClientThrows ==
  /\ Alive /\ CaughtUp /\ client.step = "tested"
  /\ w' = Throw(w, client.sw, client.state)
  /\ client' = AtRest
  /\ UNCHANGED <<pos, tick, sched, throws>>

-----------------------------------------------------------------------------
Algorithm == TickBlocks \/ EndBlocks \/ TickTrains
Drive(t) == Enter(t) \/ Leave(t) \/ Brakes(t)

Next ==
  \/ TickBlocks \/ EndBlocks \/ TickTrains
  \/ \E t \in Train : Enter(t) \/ Leave(t) \/ Brakes(t) \/ ContinueCheck(t)
  \/ ContinueFind \/ Continue
  \/ \E s \in Switch : ClientTests(s)
  \/ ClientThrows

Spec == Init /\ [][Next]_vars

\* Fairness: the algorithm thread takes what is queued, a driving train gets
\* on, a check that was begun ends, and Train_ContinueCheck, which the
\* scheduler repeats for every train, comes at a time a train may go on if
\* such times keep coming.  Except for EndBlocks these are WF and SF with
\* ENABLED written out: each action can be taken wherever its guard holds.
CanTick == Alive /\ (w.q # <<>> \/ w.trainq # <<>>)

CanDrive(t) ==
  /\ Alive /\ CaughtUp /\ Followed(t) /\ w.trn[t].phase = "driving"
  /\ \/ w.trn[t].brake # "none"
     \/ Len(pos[t]) = 2
     \/ Beyond(w, LinkAhead(t)) # None

CanContinue(t) ==
  /\ Undisturbed /\ CaughtUp /\ sched = AtRest
  /\ Standing(w, t) /\ Way(t).f.possible

Fairness ==
  /\ WF_vars(EndBlocks)
  /\ []<>~CanTick \/ []<><<Algorithm>>_vars
  /\ []<>(~Alive \/ sched = AtRest) \/ []<><<ContinueFind \/ Continue>>_vars
  /\ \A t \in Train : []<>~CanDrive(t) \/ []<><<Drive(t)>>_vars
  /\ \A t \in Train : <>[]~CanContinue(t) \/ []<><<ContinueCheck(t)>>_vars

FairSpec == Spec /\ Fairness

-----------------------------------------------------------------------------
(* Properties *)

\* Every pointer is to an object it may name, no train is twice in its own list
\* of blocks (Train::blocks, TrainDetectable::B), and nothing is queued twice.
TypeOK ==
  /\ \A b \in Block :
       /\ {w.blk[b].state, w.blk[b].reverse} \subseteq RailAspect
       /\ w.blk[b].train \in Train \cup {None}
       /\ w.blk[b].expectedTrain \in Train \cup {None}
       /\ w.blk[b].expectedDetectable \in Train \cup {None}
       /\ ToSet(w.blk[b].N) \cup ToSet(w.blk[b].P) \subseteq Block
       /\ ToSet(w.blk[b].reservedBy) \subseteq Train
  /\ \A s \in Switch : w.sw[s] \in 0..1
  /\ \A p \in Path : {w.path[p].Entrance, w.path[p].Exit} \subseteq PathBlocks(p)
  /\ \A t \in Train :
       LET T == w.trn[t]
       IN /\ T.B \in Block /\ T.phase \in {"idle", "waiting", "driving"}
          /\ T.brake \in {"none", "signal", "end"} /\ T.reservedBlocks \subseteq Block
          /\ IsInjective(T.blocks) /\ IsInjective(T.det)
  /\ IsInjective(w.q) /\ IsInjective(w.trainq)
  /\ tick \in {"blocks", "trains"} /\ throws \in 0..MaxThrows

\* The algorithm has nothing left to do.
Quiet == Alive /\ w.q = <<>> /\ w.trainq = <<>>

\* Whatever the trains do, train_following and releaseBlock never follow a
\* null Block::train or the first of no blocks (core.cpp:836, general.cpp:96),
\* no train is made for a detection nobody expected, and no block is processed
\* over and over.
NeverLost == Alive

\* Two trains are never in one block: what aspects, reservations and points
\* are there for.
NoCollision ==
  \A t, o \in Train : t # o => ToSet(pos[t]) \cap ToSet(pos[o]) = {}

\* Block::reservedBy and Train::reservedBlocks say the same, so that
\* dereserveAll frees all that a train holds and nothing another one holds.
ReservationsAgree ==
  Alive =>
    \A b \in Block, t \in Train : IsReservedBy(w, b, t) <=> b \in w.trn[t].reservedBlocks

\* A train over a switch runs on its own reservation or none, never on one
\* another train holds.
NoIntrusion ==
  \A s \in Switch, t \in Train :
    Detection[s] \in ToSet(pos[t]) => w.blk[Detection[s]].reservedBy \in {<<>>, <<t>>}

\* Once the detections are processed, Train::B is the block the front of the
\* train is in (train.h: `Block * B; // FrontBlock`).
FrontKnown == Quiet => \A t \in Train : w.trn[t].B = FrontOf(t)

\* Once the detections are processed, Block::train names the train that is
\* there, and no block holds a train that has left it.
TrainsLocated ==
  Quiet => \A b \in Block, t \in Train : w.blk[b].train = t <=> b \in ToSet(pos[t])

\* A train that comes to a way the solver refused finds it closed: "Set block to
\* DANGER/CAUTION if switch cannot be aligned properly" (rail.h:150).
RefusedIsClosed ==
  Quiet => \A t \in Train :
    LET b == w.trn[t].B
        N == w.blk[b].N
    IN w.trn[t].phase = "driving" /\ N # <<>> => 
         (w.blk[N[1]].switchWrong => AspectAhead(w, b, N[1]) \in {BLOCKED, DANGER, CAUTION})

\* Path::reverse turns a path as a whole: its blocks all lie the same way, from
\* its Entrance to its Exit.
PathsAligned ==
  \A p \in Path :
    LET en == w.path[p].Entrance
        ex == w.path[p].Exit
    IN /\ \A b, c \in PathBlocks(p) : w.blk[b].dir = w.blk[c].dir
       /\ LeavesPath(p, NextLink(w, en, PREV)) /\ LeavesPath(p, NextLink(w, ex, NEXT))

\* No points move under a train.
PointsHeld ==
  [][\A s \in Switch :
       w'.sw[s] # w.sw[s] => \A t \in Train : Detection[s] \notin ToSet(pos[t])]_vars

\* The points of a reserved block are thrown by no client, and by the solver only
\* for the train that holds it (rail.h:133: "if reserved no switches can be
\* thrown").
ReservedPointsHeld ==
  [][\A s \in Switch :
       LET b == Detection[s]
       IN w'.sw[s] # w.sw[s] /\ Reserved(w, b) =>
            client' = client /\ ToSet(w'.blk[b].reservedBy) \subseteq ToSet(w.blk[b].reservedBy)]_vars

\* A train is started only with a way before it whose first block is free
\* (ContinueCheck: "FindPath will fail if: ... The next block is blocked").
StartsIntoClear ==
  [][\A t \in Train : Standing(w, t) /\ ~Standing(w', t) =>
       LET n == Beyond(w', NextLink(w', w'.trn[t].B, NEXT))
       IN n # None /\ ~w'.blk[n].blocked]_vars

\* The trains never all come to a stand for good.
NoGridlock == []<>(\E t \in Train : w.trn[t].phase = "driving")

\* A train that waits for its signal goes on, or the signal closes again
\* (Train_ContinueCheck: "Check if trains can accelerate when they are
\* stationary").
WaitingGoesOn ==
  \A t \in Train : []<>~(/\ w.trn[t].phase = "waiting"
                         /\ w.blk[w.trn[t].signal].state > DANGER)
=============================================================================
