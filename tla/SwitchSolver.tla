----------------------------- MODULE SwitchSolver -----------------------------
(***************************************************************************)
(* Paths (src/src/path.cpp), Switch::setState (switchboard/switch.cpp) and *)
(* the search that finds a train its way over the switches, throws them    *)
(* and reserves what it found (switchboard/switchsolver.cpp).  Trains have *)
(* no route here, so every switch offers both of its branches; polarity    *)
(* groups and MSSwitches are left out.                                     *)
(***************************************************************************)
EXTENDS RailState

PathBlocks(p) == {b \in Block : PathOf[b] = p}

PathReserved(w, p) == w.path[p].reservedTrains # {}

\* Path::reserve ends by giving the block beyond its exit its aspects.
RefreshBeyondExit(w, p) ==
  LET n == w.blk[w.path[p].Exit].N
  IN IF n = <<>> THEN w ELSE RailState(w, n[1])

\* Train::reserveBlock and dereserveBlock of the blocks of S, which keep
\* Train::reservedBlocks
ReserveBlocks(w, S, t) ==
  [w EXCEPT !.blk = [b \in Block |-> IF b \in S THEN ReservedFor(w.blk[b], t) ELSE w.blk[b]],
            !.trn[t].reservedBlocks = @ \cup S]

DereserveBlocks(w, S, t) ==
  [w EXCEPT !.blk = [b \in Block |-> IF b \in S THEN FreedOf(w.blk[b], {t}) ELSE w.blk[b]],
            !.trn[t].reservedBlocks = @ \ S]

\* Train::dereserveAll
DereserveAll(w, t) == DereserveBlocks(w, w.trn[t].reservedBlocks, t)

\* Path::reserve(T)
PathReserve(w, p, t) ==
  RefreshBeyondExit(ReserveBlocks([w EXCEPT !.path[p].reservedTrains = @ \cup {t}],
                                  PathBlocks(p), t), p)

AheadStep(a, x) ==
  LET N == x.world.blk[a.last].N
  IN IF N = <<>> \/ PathOf[N[1]] # x.path THEN a
     ELSE [last |-> N[1], seen |-> a.seen \cup {N[1]}]

\* The blocks of path p ahead of b on the cached lists.
AheadInPath(w, p, b) ==
  LET x == [world |-> w, path |-> p]
      at[n \in 0..Cardinality(Block)] == IF n = 0 THEN [last |-> b, seen |-> {}] ELSE AheadStep(at[n - 1], x)
  IN at[Cardinality(Block)].seen

\* Path::reserve(T, B)
PathReserveFrom(w, p, t, b) ==
  RefreshBeyondExit(ReserveBlocks([w EXCEPT !.path[p].reservedTrains = @ \cup {t}],
                                  AheadInPath(w, p, b), t), p)

TrainAtEnd(w, p, t) == [w EXCEPT !.path[p].reservedTrains = @ \ {t}]

PathDereserve(w, p, t) == DereserveBlocks(TrainAtEnd(w, p, t), PathBlocks(p), t)

-----------------------------------------------------------------------------
(* Reversing a path, and with it the trains standing in it *)

\* Train::stopped
Standing(w, t) == w.trn[t].phase # "driving"

\* Block::reverse of the blocks of path p, and Path::dereserve for the trains in it
BlocksReversed(w, p) ==
  [b \in Block |-> IF b \in PathBlocks(p) THEN FreedOf(Reversed(w.blk[b]), w.path[p].trains)
                   ELSE w.blk[b]]

\* Train::reverseFromPath and reverseBlocks of a train in path p: it looks the
\* other way.  Its NOSTOP blocks are turned twice, which leaves them as they were.
FacingBack(T, p) ==
  [T EXCEPT !.det = Reverse(@), !.B = Last(T.det), !.reservedBlocks = @ \ PathBlocks(p)]

\* Mutant: the blocks are turned, but not what the path calls its ends.
PathReverseBlocks(w, p) == [w EXCEPT !.blk = BlocksReversed(w, p)]

\* Path::reverse: refused without notice while a train in the path moves.
PathReverse(w, p) ==
  LET P == w.path[p]
  IN IF \E t \in P.trains : ~Standing(w, t) THEN w
     ELSE [w EXCEPT !.blk = BlocksReversed(w, p),
                    !.trn = [t \in Train |-> IF t \in P.trains THEN FacingBack(w.trn[t], p)
                                             ELSE w.trn[t]],
                    !.path[p].reservedTrains = @ \ P.trains,
                    !.path[p].Entrance = P.Exit, !.path[p].Exit = P.Entrance]

-----------------------------------------------------------------------------
(* Throwing a switch *)

\* Algorithm::Set_Changed: forget what b's neighbours know.
SetChanged(w, b) ==
  LET around == ToSet(w.blk[b].P) \cup ToSet(w.blk[b].N)
      forgotten(B) == IF B.blocked THEN Cleared(B) ELSE WithAspect(Cleared(B), PROCEED)
  IN [w EXCEPT !.blk = [x \in Block |-> CASE x = b -> WithAspect(w.blk[x], PROCEED)
                                          [] x # b /\ x \in around -> forgotten(w.blk[x])
                                          [] OTHER -> w.blk[x]]]

\* Mutant: the lists of the block are not searched again.
ThrowUnsearched(w, s, state) ==
  CpyTmp(PutTempAll([SetChanged(w, Detection[s]) EXCEPT !.sw[s] = state], Detection[s]))

\* Switch::setState after its checks: what it does under the mutex, and the
\* queueing of everything near the switch.
Throw(w, s, state) ==
  LET b == Detection[s]
      w1 == PutTempAll(SetChanged(w, b), b)
      w2 == SetChanged(AlgorSearch([w1 EXCEPT !.sw[s] = state], b), b)
  IN CpyTmp(PutTempAll(w2, b))

\* Mutants: without the test of blocked, or of reserved
MayThrowOccupied(w, s, state) == ~Reserved(w, Detection[s]) /\ state # w.sw[s]
MayThrowReserved(w, s, state) == ~w.blk[Detection[s]].blocked /\ state # w.sw[s]

\* What Switch::setState tests before it takes the mutex
MayThrow(w, s, state) ==
  LET b == Detection[s]
  IN ~w.blk[b].blocked /\ ~Reserved(w, b) /\ state # w.sw[s]

SwitchSetState(w, s, state) == IF MayThrow(w, s, state) THEN Throw(w, s, state) ELSE w

-----------------------------------------------------------------------------
(* findPath *)

\* struct find, and struct switchFind for every switch
NotFound == [possible |-> FALSE, alreadyCorrect |-> FALSE]
Found == [possible |-> TRUE, alreadyCorrect |-> TRUE]

\* Mutant: only an occupied switch is taken.
SwitchTakenOccupied(w, s, t) == w.blk[Detection[s]].blocked

\* A switch whose detection block another train has reserved, or that is
\* occupied, is not there to be used by t.
SwitchTaken(w, s, t) ==
  LET b == Detection[s]
  IN w.blk[b].blocked \/ (Reserved(w, b) /\ ~IsReservedBy(w, b, t))

OtherPort(b, from) == IF Link[<<b, "next">>].to = from THEN "prev" ELSE "next"

\* A block of a station in which a train is parked
TrainParkedAt(w, b) == Type[b] = "STATION" /\ StationOf[b] \in w.parkedIn

\* Mutant: FL_CONTINUEDANGER is not looked at.
FindAtStopAnyAspect(w, t, b, d, cont) ==
  IF IsReservedBy(w, b, t) \/ ~Reserved(w, b) THEN Found ELSE NotFound

\* findPath at a stopping block reached in direction d: with the flag
\* FL_CONTINUEDANGER (cont) its aspect must be better than DANGER.
FindAtStop(w, t, b, d, cont) ==
  LET p == PathOf[b]
      danger == cont /\ (IF d = NEXT THEN w.blk[b].state ELSE w.blk[b].reverse) <= DANGER
      free == IF IsReservedBy(w, b, t)
              THEN w.path[p].Entrance = b \/ w.path[p].Exit # b
              ELSE ~Reserved(w, b)
  IN IF free /\ ~danger THEN Found ELSE NotFound

\* Mutant: either end of the path counts as the wrong one.
WrongPathUse(w, b) == PathOf[b] # None /\ PathReserved(w, PathOf[b])

\* The exit of a path that is reserved: the path is used the other way.
WrongPathDirection(w, b) ==
  /\ PathOf[b] # None
  /\ b # w.path[PathOf[b]].Entrance
  /\ b = w.path[PathOf[b]].Exit
  /\ PathReserved(w, PathOf[b])

\* findPath: the result for the link, with the entries it leaves in the array
\* switches (a function on the switches it visited).
FindPath(w, t, link, from, prevB, d, cont) ==
  LET none == [f |-> NotFound, sw |-> <<>>]
      \* switch s entered at the end with its points ...
      split(s, r) ==
        [f |-> [possible |-> r[0].f.possible \/ r[1].f.possible,
                alreadyCorrect |-> r[w.sw[s]].f.alreadyCorrect],
         sw |-> (s :> [j \in 0..1 |-> [possible |-> r[j].f.possible,
                                       alreadyCorrect |-> r[j].f.possible /\ w.sw[s] = j]])
                @@ r[1].sw @@ r[0].sw]
      \* ... and at one of the others
      merge(s, r, aligned) ==
        LET state == IF aligned THEN w.sw[s] ELSE 1 - w.sw[s]
        IN [f |-> [r.f EXCEPT !.alreadyCorrect = @ /\ aligned],
            sw |-> (s :> [j \in 0..1 |-> IF j = state THEN [possible |-> r.f.possible,
                                                            alreadyCorrect |-> aligned]
                                         ELSE NotFound])
                   @@ r.sw]
      find[l \in Links, f \in Rails, p \in Block, e \in {NEXT, PREV}] ==
        LET x == l.to
            turned == IF w.blk[p].dir = w.blk[x].dir THEN e ELSE 1 - e
        IN CASE l.type = "E" -> none
             [] l.type \in {"S", "s"} /\ SwitchTaken(w, x, t) -> none
             [] l.type = "S" /\ ~SwitchTaken(w, x, t) ->
                  split(x, [j \in 0..1 |->
                              find[Link[<<x, IF j = 0 THEN "str" ELSE "div">>], x, p, e]])
             [] l.type = "s" /\ ~SwitchTaken(w, x, t) ->
                  merge(x, find[Link[<<x, "app">>], x, p, e], Approachable(w, x, f))
             [] l.type = "R" ->
                  CASE TrainParkedAt(w, x) \/ WrongPathDirection(w, x) -> none
                    [] ~(TrainParkedAt(w, x) \/ WrongPathDirection(w, x)) /\ Type[x] # "NOSTOP" ->
                         [none EXCEPT !.f = FindAtStop(w, t, x, turned, cont)]
                    [] OTHER -> find[Link[<<x, OtherPort(x, f)>>], x, x, turned]
  IN find[link, from, prevB, d]

-----------------------------------------------------------------------------
(* setPath, setWrong, dereservePath, reservePath *)

\* The state setPath gives switch s: one that is already correct, else the
\* first that is possible.
Chosen(f) ==
  IF f[0].alreadyCorrect THEN 0 ELSE IF f[1].alreadyCorrect THEN 1
  ELSE IF f[0].possible THEN 0 ELSE IF f[1].possible THEN 1 ELSE 2

\* setPath, dereservePath and reservePath follow the links from rail to rail.  A
\* walk a is the world w so far, the link before it and the rail it comes from.
Ended == [type |-> "E", to |-> None]

AtSwitch(a) == a.link.type \in {"S", "s"}
AtStop(a) == a.link.type = "R" /\ Type[a.link.to] # "NOSTOP"
AtNoStop(a) == a.link.type = "R" /\ Type[a.link.to] = "NOSTOP"

\* The way out of a block, entered from the rail from
Across(a) == Link[<<a.link.to, OtherPort(a.link.to, a.from)>>]

\* setPath goes no further: the switch is taken or findPath found no way over
\* it, a train is parked in the block, or its path is reserved the other way.
Barred(a, t, found) ==
  LET x == a.link.to
  IN \/ AtSwitch(a) /\ (SwitchTaken(a.w, x, t) \/ x \notin DOMAIN found \/ Chosen(found[x]) = 2)
     \/ a.link.type = "R" /\ \/ TrainParkedAt(a.w, x)
                             \/ /\ PathOf[x] # None /\ x # a.w.path[PathOf[x]].Entrance
                                /\ PathReserved(a.w, PathOf[x])

\* The switch is thrown to the branch findPath chose.  That it refuses to be
\* thrown is not noticed.
SetAtSwitch(a, found) ==
  LET s == a.link.to
      j == Chosen(found[s])
      port == IF a.link.type = "s" THEN "app" ELSE IF j = 0 THEN "str" ELSE "div"
  IN [w |-> SwitchSetState(a.w, s, j), link |-> Link[<<s, port>>], from |-> s, ok |-> TRUE]

SetAtStop(a, cont) ==
  [a EXCEPT !.link = Ended, !.ok = @ \/ ~(cont /\ a.w.blk[a.link.to].state <= DANGER)]

\* One step of setPath
SetStep(a, x) ==
  LET on == ~Barred(a, x.train, x.found)
  IN CASE ~on -> [a EXCEPT !.link = Ended]
       [] on /\ AtSwitch(a) -> SetAtSwitch(a, x.found)
       [] on /\ AtStop(a) -> SetAtStop(a, x.cont)
       [] on /\ AtNoStop(a) -> [a EXCEPT !.link = Across(a), !.from = a.link.to]
       [] OTHER -> a

\* setPath: the world with the switches set, and whether the first step
\* succeeded: what happens beyond a switch does not change the answer.
SetPath(w, t, link, from, found, cont) ==
  LET x == [train |-> t, found |-> found, cont |-> cont]
      at[n \in 0..Steps] == IF n = 0 THEN [w |-> w, link |-> link, from |-> from, ok |-> FALSE]
                            ELSE SetStep(at[n - 1], x)
  IN at[Steps]

WrongStep(a, w) == IF a.link.type = "S" THEN a ELSE ReachStep(a, w)

WrongAt(link) == IF link.type = "S" THEN Detection[link.to] ELSE BlockAt(link)

\* setWrong: the block of the switch that cannot be set right, or the block no way
\* leads into, is shown as a danger.
WrongBlock(w, link, from) ==
  LET at[n \in 0..SwitchSteps] == IF n = 0 THEN [link |-> link, from |-> from]
                                  ELSE WrongStep(at[n - 1], w)
  IN WrongAt(at[SwitchSteps].link)

SetWrong(w, link, from) ==
  LET b == WrongBlock(w, link, from)
  IN IF b = None THEN w ELSE RailState([w EXCEPT !.blk[b].switchWrong = TRUE], b)

\* dereservePath at the block that detects a switch, and where it ends
FreeOver(w, b, t) ==
  [(IF IsReservedBy(w, b, t) THEN DereserveBlocks(w, {b}, t) ELSE w)
     EXCEPT !.blk[b].switchWrong = FALSE]

FreeEnd(w, b, t) == IF IsReservedBy(w, b, t) THEN PathDereserve(w, PathOf[b], t) ELSE w

\* One step of dereservePath
DereserveStep(a, t) ==
  LET x == a.link.to
      b == Detection[x]
  IN CASE AtSwitch(a) /\ (IsReservedBy(a.w, b, t) \/ ~Reserved(a.w, b)) ->
            [w |-> FreeOver(a.w, b, t), link |-> Onward(a.w, a.link), from |-> x]
       [] AtNoStop(a) -> [a EXCEPT !.link = Across(a), !.from = x]
       [] AtStop(a) -> [a EXCEPT !.w = FreeEnd(@, x, t), !.link = Ended]
       [] OTHER -> a

DereservePath(w, t, link, from) ==
  LET at[n \in 0..Steps] == IF n = 0 THEN [w |-> w, link |-> link, from |-> from]
                            ELSE DereserveStep(at[n - 1], t)
  IN at[Steps].w

\* Blocks on the way are turned to the direction of the train.
Turn(w, b, prevB) ==
  IF w.blk[b].dir = w.blk[prevB].dir THEN w ELSE [w EXCEPT !.blk[b] = Reversed(@)]

\* reservePath at the block the way ends in: its path is reserved, and turned
\* first if the way leads to its exit.
ReserveEnd(w, b, t) ==
  LET p == PathOf[b]
      facing == w.path[p].Entrance = b \/ w.path[p].Exit # b
  IN IF Reserved(w, b) THEN w ELSE PathReserve(IF facing THEN w ELSE PathReverse(w, p), p, t)

\* reservePath at the block that detects a switch
ReserveOver(w, b, t) ==
  [(IF IsReservedBy(w, b, t) THEN w ELSE ReserveBlocks(w, {b}, t))
     EXCEPT !.blk[b].switchWrong = FALSE]

\* One step of reservePath; the last block it passed is a.last.
ReserveStep(a, t) ==
  LET x == a.link.to
      b == Detection[x]
  IN CASE AtSwitch(a) ->
            [w |-> ReserveOver(Turn(a.w, b, a.last), b, t),
             link |-> Onward(a.w, a.link), from |-> x, last |-> b]
       [] AtNoStop(a) ->
            [w |-> Turn(a.w, x, a.last), link |-> Across(a), from |-> x, last |-> x]
       [] AtStop(a) -> [a EXCEPT !.w = ReserveEnd(@, x, t), !.link = Ended]
       [] OTHER -> a

ReservePath(w, t, link, tB) ==
  LET at[n \in 0..Steps] == IF n = 0 THEN [w |-> w, link |-> link, from |-> tB, last |-> tB]
                            ELSE ReserveStep(at[n - 1], t)
  IN at[Steps].w

-----------------------------------------------------------------------------
\* A way that is set is reserved; otherwise it is shown that there is none.
ReserveOrRefuse(set, t, tB, link) ==
  IF set.ok THEN ReservePath(set.w, t, link, tB) ELSE SetWrong(set.w, link, tB)

\* A block whose way was set is processed again.
ProcessedAgain(set, b) ==
  IF set.ok THEN [set EXCEPT !.w.blk[b].recalculate = TRUE] ELSE set

\* solve once findPath has given r: the world after it and whether it changed
\* the path.  B is the block to look at again, tB the block whose link is solved.
SolveWith(w, t, B, tB, link, cont, r) ==
  LET change == r.f.possible /\ ~r.f.alreadyCorrect
      free == DereservePath(w, t, link, tB)
  IN [w |-> ReserveOrRefuse(IF change
                            THEN ProcessedAgain(SetPath(free, t, link, tB, r.sw, cont), B)
                            ELSE [w |-> w, ok |-> r.f.possible], t, tB, link),
      changed |-> change]

Solve(w, t, B, tB, link, cont) ==
  SolveWith(w, t, B, tB, link, cont, FindPath(w, t, link, tB, tB, NEXT, cont))
=============================================================================
