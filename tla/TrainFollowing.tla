---------------------------- MODULE TrainFollowing ----------------------------
(***************************************************************************)
(* Where the program believes the trains are (train_following in           *)
(* src/src/algorithm/core.cpp, Train::move and release in rollingstock/    *)
(* train/general.cpp, traindetection.cpp), the look-ahead that calls the   *)
(* switch solver (Switch_Checker), processBlock, which runs them all under *)
(* the processMutex, and what train_control reads.                         *)
(*                                                                         *)
(* Every train is linked to one engine (assigned, initialized, a single    *)
(* detectable, no virtual length).  A null pointer the code would follow,  *)
(* a train object made for a detection nobody expected, and a block that   *)
(* is processed over and over are recorded in w.fault.                     *)
(***************************************************************************)
EXTENDS SwitchSolver

CONSTANT EngineLength    \* EngineLength[t]: DetectableLength of its detectable

\* Mutant: no block is told to expect the train.
SetExpectedNothing(w, t) == w

Covered(blocks) == FoldLeft(LAMBDA n, b : n + Length[b], 0, blocks)

\* TrainDetectable::setExpectedTrain
SetExpectedTrain(w, t) ==
  LET det == w.trn[t].det
      front == det[1]
      last == det[Len(det)]
      covered == Covered(det) - Length[last]
      w1 == IF Len(det) > 1 /\ covered > EngineLength[t]
            THEN [w EXCEPT !.blk[last].expectedTrain = None] ELSE w
      ahead == IF w.blk[front].N # <<>> THEN w.blk[front].N[1] ELSE NextBlock(w, front, NEXT)
      w2 == IF ahead = None THEN w1
            ELSE [w1 EXCEPT !.blk[ahead].expectedTrain = t, !.blk[ahead].expectedDetectable = t]
  IN IF w.trn[t].expectedSet \/ det = <<>> THEN w
     ELSE [w2 EXCEPT !.trn[t].expectedSet = TRUE]

\* TrainDetectable::resetExpectedTrain, which looks for the expecting block
\* over the switches whichever way they are set against the train.
ResetExpectedTrain(w, t) ==
  LET det == w.trn[t].det
      w1 == IF Len(det) > 1 THEN [w EXCEPT !.blk[Last(det)].expectedTrain = t] ELSE w
      ahead == Beyond(w, NextLink(w, det[1], NEXT))
      w2 == IF ahead = None \/ w1.blk[ahead].expectedTrain # t THEN w1
            ELSE [w1 EXCEPT !.blk[ahead].expectedTrain = None,
                            !.blk[ahead].expectedDetectable = None]
  IN IF ~w.trn[t].expectedSet THEN w ELSE [w2 EXCEPT !.trn[t].expectedSet = FALSE]

\* Train::setBlock
SetBlock(w, t, b) ==
  [w EXCEPT !.blk[b].train = t, !.trn[t].blocks = Append(@, b)]

\* Mutant: the train's own list of reservations is forgotten.
MoveIntoHeld(w, t, b) == PutTrain(Dereserve(SetBlock(w, t, b), b, t), t)

\* Train::move(b) of a block just detected
MoveInto(w, t, b) == PutTrain(DereserveBlocks(SetBlock(w, t, b), {b}, t), t)

\* Train::releaseBlock: a front block that is released is replaced by the
\* block the train has been in for longest.
ReleaseBlock(w, t, b) ==
  LET blocks == Without(w.trn[t].blocks, {b})
      w1 == [w EXCEPT !.blk[b].train = None, !.trn[t].blocks = blocks]
  IN IF w.trn[t].B # b THEN w1
     ELSE IF blocks = <<>> THEN Fault(w1, "null")
     ELSE [w1 EXCEPT !.trn[t].B = blocks[1]]

\* Mutant: the block is not released.
MoveOutOfUnreleased(w, t, b) ==
  LET det == w.trn[t].det
  IN IF Len(det) > 1 /\ b = det[Len(det)]
     THEN SetExpectedTrain([PutTrain(w, t) EXCEPT !.trn[t].det = Front(det)], t)
     ELSE PutTrain(w, t)

\* Train::move(b) of a block no longer detected
MoveOutOf(w, t, b) ==
  LET w1 == PutTrain(ReleaseBlock(w, t, b), t)
      det == w.trn[t].det
  IN IF Len(det) > 1 /\ b = det[Len(det)]
     THEN SetExpectedTrain([w1 EXCEPT !.trn[t].det = Front(det)], t) ELSE w1

\* Mutant: Train::B stays where it was.
StepForwardNoFront(w, t, b) ==
  MoveInto(SetExpectedTrain([w EXCEPT !.trn[t].det = <<b>> \o @, !.trn[t].expectedSet = FALSE,
                                      !.blk[b].expectedDetectable = None], t), t, b)

\* TrainDetectable::stepForward
StepForward(w, t, b) ==
  LET front == w.trn[t].det[1]
      w1 == [w EXCEPT !.trn[t].B = b, !.trn[t].det = <<b>> \o @,
                      !.trn[t].expectedSet = FALSE, !.blk[b].expectedDetectable = None]
  IN IF w.blk[front].N # <<>> /\ w.blk[front].N[1] = b
     THEN MoveInto(SetExpectedTrain(w1, t), t, b) ELSE w

AnalyzeTrains(w, p) ==
  IF p = None THEN w
  ELSE [w EXCEPT !.path[p].trains = {w.blk[b].train : b \in PathBlocks(p)} \ {None}]

\* The front of a train came into b: it enters the path at its entrance and
\* gives the path's reservation back at its exit.
FrontInPath(w, t, b) ==
  LET p == PathOf[b]
      w1 == IF w.path[p].Entrance = b THEN [w EXCEPT !.path[p].trains = @ \cup {t}] ELSE w
  IN IF p = None \/ w.trn[t].B # b THEN w
     ELSE IF w.path[p].Exit = b THEN TrainAtEnd(w1, p, t) ELSE w1

\* Its rear left b.
RearInPath(w, t, b) ==
  LET p == PathOf[b]
  IN IF p # None /\ w.path[p].Exit = b THEN [w EXCEPT !.path[p].trains = @ \ {t}]
     ELSE AnalyzeTrains(w, p)

-----------------------------------------------------------------------------
(* train_following *)

\* The block still holds a train but is no longer detected.
FollowOut(w, b) ==
  LET B == w.blk[b]
      lost == \/ /\ B.P # <<>> /\ B.N # <<>>
                 /\ ~w.blk[B.N[1]].blocked /\ ~w.blk[B.P[1]].blocked
              \/ B.train = B.expectedTrain
  IN IF lost THEN SetState(w, b, UNKNOWN)
     ELSE RearInPath(MoveOutOf(w, B.train, b), B.train, b)

\* The detectable that is expected has stepped forward, if it did.
Arrived(w, b) ==
  IF w.blk[b].train = None THEN Fault(w, "null") ELSE FrontInPath(w, w.blk[b].train, b)

\* The block ahead of b is to expect t.
ExpectAhead(w, t, b) ==
  IF w.blk[b].N = <<>> THEN w ELSE [w EXCEPT !.blk[w.blk[b].N[1]].expectedTrain = t]

\* The block is detected but holds no train: changed tells that a train moved
\* into it.
FollowIn(w, b) ==
  LET B == w.blk[b]
      t == B.expectedTrain
      holds(l) == l # <<>> /\ w.blk[l[1]].blocked /\ w.blk[l[1]].train # None
      copied(o) == IF Standing(w, o) THEN AnalyzeTrains(SetBlock(w, o, b), PathOf[b])
                   ELSE MoveInto(w, o, b)
  IN CASE B.expectedDetectable # None ->
            [w |-> Arrived(StepForward(w, B.expectedDetectable, b), b), changed |-> TRUE]
       [] B.expectedDetectable = None /\ t # None ->
            [w |-> ExpectAhead(FrontInPath([MoveInto(w, t, b) EXCEPT !.trn[t].B = b], t, b), t, b),
             changed |-> TRUE]
       [] OTHER ->
            CASE holds(B.P) -> [w |-> copied(w.blk[B.P[1]].train),
                                changed |-> ~Standing(w, w.blk[B.P[1]].train)]
              [] ~holds(B.P) /\ holds(B.N) ->
                   [w |-> AnalyzeTrains(MoveInto(w, w.blk[B.N[1]].train, b), PathOf[b]),
                    changed |-> TRUE]
              [] OTHER -> [w |-> Fault(w, "new train"), changed |-> FALSE]

\* A detected block whose state was UNKNOWN has its train again: the blocks
\* around it forget theirs.
Restore(w, b) ==
  LET stray(x) == ~w.blk[x].blocked /\ w.blk[x].state = UNKNOWN /\ w.blk[x].train # None
      along(list) == {x \in Block : \E i \in 1..Len(list) :
                                    list[i] = x /\ \A k \in 1..i : stray(list[k])}
      strays == along(w.blk[b].N) \cup along(w.blk[b].P)
  IN IF w.blk[b].state = UNKNOWN /\ w.blk[b].blocked /\ w.blk[b].train # None
     THEN [w EXCEPT !.blk = [x \in Block |->
             IF x \in strays THEN [WithAspect(w.blk[x], PROCEED) EXCEPT !.train = None]
             ELSE w.blk[x]]]
     ELSE w

\* A reservation ends where a train comes in, whoever it was for.
DereserveFirst(w, b) ==
  IF Reserved(w, b) THEN Dereserve(w, b, Head(w.blk[b].reservedBy)) ELSE w

RestoreUnchanged(r, b) ==
  IF r.changed \/ r.w.fault # "none" THEN r ELSE [r EXCEPT !.w = Restore(@, b)]

Following(w, b) ==
  LET B == w.blk[b]
  IN CASE B.train # None /\ ~B.blocked -> [w |-> FollowOut(w, b), changed |-> FALSE]
       [] B.train = None /\ B.blocked -> RestoreUnchanged(FollowIn(DereserveFirst(w, b), b), b)
       [] OTHER -> [w |-> Restore(w, b), changed |-> FALSE]

-----------------------------------------------------------------------------
(* processBlock *)

\* checkNextBlock: a block that is left has an occupied neighbour look at its
\* aspects again.  The block behind is queued on the test of the block ahead.
CheckNextBlock(w, b) ==
  LET B == w.blk[b]
      at(l) == l # <<>> /\ w.blk[l[1]].blocked
      again(x, put) == LET w1 == [w EXCEPT !.blk[x].doneAll = FALSE]
                       IN IF put THEN Put(w1, x) ELSE w1
  IN IF B.blocked \/ B.state # BLOCKED THEN w
     ELSE IF at(B.N) THEN again(B.N[1], TRUE)
     ELSE IF at(B.P) THEN again(B.P[1], B.N = <<>> \/ B.N[1] \notin ToSet(w.q))
     ELSE w

\* The solver's answer r is taken into the state a of the look-ahead.
Solved(a, r) == [a EXCEPT !.w = r.w, !.changed = r.changed]

\* A step of the look-ahead, in the world a.w and at the i-th block of the list: a.room
\* is the length left, a.seen tells that a block where a train may stop was passed
\* since it last asked, a.d is the direction in which the block is passed.
LookStep(a, x) ==
  LET w == a.w
      b == x.front
      here == IF a.i = 0 THEN b ELSE x.list[a.i]
      before == IF a.i <= 1 THEN b ELSE x.list[a.i - 1]
      stops == Type[here] # "NOSTOP"
      d == IF a.i > 0 /\ w.blk[before].dir # w.blk[here].dir THEN 1 - a.d ELSE a.d
      link == NextLink(w, here, d)
      ask == (a.seen \/ stops) /\ \/ a.i > 0 /\ link.type = "S"
                                  \/ link.type = "s"
                                  \/ link.type = "R" /\ Type[link.to] = "NOSTOP"
      far == \/ a.changed \/ a.i > 4 \/ a.i > Len(x.list)
             \/ a.room < (IF stops THEN Length[here] ELSE 0)
             \/ w.blk[here].blocked /\ here # b
      next == [a EXCEPT !.i = @ + 1, !.room = @ - Length[here], !.d = d,
                        !.seen = (@ \/ stops) /\ ~ask]
  IN CASE far -> [a EXCEPT !.i = 5]
       [] ~far /\ ask -> Solved(next, Solve(w, x.train, b, here, link, FALSE))
       [] OTHER -> next

\* Switch_Checker: from the front of a moving train look ahead over at most
\* five blocks and the braking distance, and solve what stands in the way.
Look(w, t, b, room) ==
  LET x == [train |-> t, front |-> b, list |-> w.blk[b].N]
      at[n \in 0..5] == IF n = 0 THEN [w |-> w, changed |-> FALSE, i |-> 0, room |-> room,
                                       seen |-> Type[b] # "NOSTOP", d |-> NEXT]
                        ELSE LookStep(at[n - 1], x)
  IN at[5]

SwitchChecker(w, b, braking) ==
  LET t == w.blk[b].train
  IN IF ~w.blk[b].blocked THEN [w |-> w, changed |-> FALSE]
     ELSE IF t = None THEN [w |-> Fault(w, "null"), changed |-> FALSE]
     ELSE IF Standing(w, t) \/ w.trn[t].B # b THEN [w |-> w, changed |-> FALSE]
     ELSE Look(w, t, b, braking + Length[b])

\* The steps of processBlock, each done unless its flag says it was: the lists,
Search(w, b) == IF w.blk[b].searched THEN w ELSE AlgorSearch(w, b)

\* the trains, which may have moved and then look for their way again,
Moved(r, b) ==
  [CheckNextBlock([r.w EXCEPT !.blk[b].switchChecked = @ /\ ~r.changed], b)
     EXCEPT !.blk[b].trainFollowingChecked = TRUE]

Follow(w, b) == IF w.blk[b].trainFollowingChecked THEN w ELSE Moved(Following(w, b), b)

\* the switches,
Check(w, b, braking) ==
  IF w.blk[b].switchChecked THEN [w |-> w, changed |-> FALSE] ELSE SwitchChecker(w, b, braking)

\* and the aspects, unless the way was changed.
Finish(r, b) ==
  IF r.changed \/ r.w.fault # "none" THEN r.w
  ELSE [RailState(r.w, b) EXCEPT !.blk[b].switchChecked = TRUE, !.blk[b].doneAll = TRUE]

ProcessBlock(w, b, force, braking) ==
  LET w1 == CheckNextBlock(Search([w EXCEPT !.blk[b].doneAll = FALSE], b), b)
  IN IF w.blk[b].doneAll /\ ~force THEN w ELSE Finish(Check(Follow(w1, b), b, braking), b)

\* BlockTick processes a block again for as long as that asks for it.
Recalculates(w, b) == w.blk[b].recalculate /\ w.fault = "none"

ProcessAgain(w, x) ==
  IF Recalculates(w, x.block)
  THEN ProcessBlock([w EXCEPT !.blk[x.block].recalculate = FALSE], x.block, FALSE, x.braking)
  ELSE w

\* Bound: how often it may before that counts as never ending
ReprocessBound == 4

NoneLeft(w, b) == IF Recalculates(w, b) THEN Fault(w, "reprocessed") ELSE w

Reprocess(w, b, braking) ==
  LET x == [block |-> b, braking |-> braking]
      at[n \in 0..ReprocessBound] == IF n = 0 THEN w ELSE ProcessAgain(at[n - 1], x)
  IN NoneLeft(at[ReprocessBound], b)

\* One turn of BlockTick's loop
TickBlock(w, b, braking) ==
  Reprocess(ProcessBlock(w, b, FALSE, braking), b, braking)

-----------------------------------------------------------------------------
(* What train_control makes of the block ahead.  A train is driven into it   *)
(* (brake "none"), is braked for the signal before it (brake "signal": it    *)
(* comes to wait, and brakes no longer once that signal clears), or is       *)
(* braked for another reason (brake "end": it comes to park).  Blocks        *)
(* further ahead only change how fast it goes.                               *)

\* The aspect of n, the first block ahead of b, towards a train that leaves b
AspectAhead(w, b, n) ==
  IF w.blk[b].dir = w.blk[n].dir THEN w.blk[n].state ELSE w.blk[n].reverse

\* The stations of the blocks train t is in (setStationStopped)
StationsOf(w, t) == {StationOf[b] : b \in ToSet(w.trn[t].blocks)} \ {None}

\* setStopped(false) of changeSpeed
Start(w, t) ==
  LET w1 == [w EXCEPT !.trn[t].phase = "driving", !.trn[t].brake = "none"]
  IN IF w.trn[t].phase # "idle" THEN w1
     ELSE [SetExpectedTrain(w1, t) EXCEPT !.parkedIn = @ \ StationsOf(w, t)]

\* Brake points slow a moving train only: one that stands is at its target.
BrakeFor(w, t, brake, signal) ==
  IF Standing(w, t) THEN w
  ELSE [w EXCEPT !.trn[t].brake = brake, !.trn[t].signal = signal]

\* The brake point of an occupied block is filled in but never compared, so
\* nothing is asked of a train that is right behind one.  Whether the speeds
\* and lengths let a standing train start, or a train that brakes to a stand
\* brake to a lower speed instead, is left open (go).
TrainControl(w, t, go) ==
  LET b == w.trn[t].B
      N == w.blk[b].N
      aspect == AspectAhead(w, b, N[1])
  IN CASE N = <<>> -> BrakeFor(w, t, "end", None)
       [] N # <<>> /\ w.blk[N[1]].blocked -> w
       [] N # <<>> /\ ~w.blk[N[1]].blocked /\ aspect = DANGER ->
            IF w.blk[N[1]].state < PROCEED THEN BrakeFor(w, t, "signal", N[1])
            ELSE BrakeFor(w, t, "end", None)
       [] OTHER ->
            CASE go /\ Standing(w, t) -> Start(w, t)
              [] go /\ ~Standing(w, t) /\ aspect < PROCEED -> BrakeFor(w, t, "none", None)
              [] OTHER -> w

\* The brakes have brought the train to a stand (_setSpeed(0) in
\* train_speed_event_tick, setStopped): it waits for the signal, or is parked
\* and gives up what it expects and has reserved.
Stop(w, t) ==
  LET w1 == DereserveAll(ResetExpectedTrain([w EXCEPT !.trn[t].phase = "idle"], t), t)
      b == w.trn[t].B
  IN IF w.trn[t].brake = "signal" THEN [w EXCEPT !.trn[t].phase = "waiting"]
     ELSE Put([w1 EXCEPT !.blk[b].doneAll = FALSE,
                         !.parkedIn = @ \cup StationsOf(w, t)], b)
=============================================================================
