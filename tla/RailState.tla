------------------------------ MODULE RailState ------------------------------
(***************************************************************************)
(* Algorithm::rail_state (src/src/algorithm/core.cpp): the aspects a block *)
(* gives itself and the blocks behind it, computed from its cached lists.  *)
(* With no polarity groups, ApplyRailState moves to the next group of      *)
(* aspects at every group boundary.  Yards (which give RESTRICTED behind   *)
(* them) and switch feedback are left out.                                 *)
(***************************************************************************)
EXTENDS Rail

\* ApplyRailState at the i-th block of the list x.list of block x.front: it gets
\* the aspect of its group, a.j.  a.dir tells which of the two aspects is meant,
\* turning over wherever the orientation of the blocks does.
ApplyStep(a, i, x) ==
  LET w == a.w
      b == x.list[i]
      before == IF i = 1 THEN x.front ELSE x.list[i - 1]
      dir == a.dir # (w.blk[before].dir # w.blk[b].dir)
      next == a.j <= 3 /\ i - 1 >= x.groups[a.j]
      station == /\ next /\ Type[b] = "STATION" /\ Type[x.front] = "STATION"
                 /\ StationOf[b] # StationOf[before]
      aspects == IF station THEN <<a.aspects[1], RESTRICTED, CAUTION>> ELSE a.aspects
      j == IF next THEN a.j + 1 ELSE a.j
      aspect == IF j > 3 THEN PROCEED ELSE aspects[j]
  IN CASE a.done -> a
       [] ~a.done /\ w.blk[b].blocked -> [a EXCEPT !.done = TRUE, !.dir = dir]
       [] OTHER -> [w |-> IF dir THEN SetReversedState(w, b, aspect) ELSE SetState(w, b, aspect),
                    dir |-> dir, j |-> j, aspects |-> aspects, done |-> FALSE]

\* ApplyRailState: walk list away from b up to the first occupied block.
ApplyRailState(w, b, list, aspects, groups, j, dir) ==
  LET x == [front |-> b, list |-> list, groups |-> groups]
      at[i \in 0..Len(list)] ==
        IF i = 0 THEN [w |-> w, dir |-> dir, j |-> j, aspects |-> aspects, done |-> FALSE]
        ELSE ApplyStep(at[i - 1], i, x)
  IN at[Len(list)].w

\* The blocks of list before its first block that is not NOSTOP.
NoStopRun(list) ==
  LET stops == {i \in 1..Len(list) : Type[list[i]] # "NOSTOP"}
  IN IF stops = {} THEN Len(list) ELSE (CHOOSE i \in stops : \A k \in stops : i <= k) - 1

\* The danger a NOSTOP block passes on ends with the NOSTOP blocks behind it:
\* the first group is cut to those, and the others move up with it.
CutGroups(list, groups) ==
  LET run == NoStopRun(list)
  IN IF run \in {0, Len(list)} THEN groups
     ELSE [k \in 1..3 |-> groups[k] - (groups[1] - run)]

\* The aspects block b shows along list, beginning with those of group j.  With
\* short the first group ends with the NOSTOP blocks behind b.
Showing(w, list, aspects) ==
  [w |-> w, list |-> list, aspects |-> aspects, j |-> 1, short |-> FALSE]

\* A NOSTOP block passes the danger before it on.  The search for a block that is
\* not NOSTOP runs off a list of NOSTOP blocks.
PassOn(w, list) ==
  [w |-> IF NoStopRun(list) = Len(list) THEN Fault(w, "null") ELSE w,
   list |-> list, aspects |-> <<DANGER, CAUTION, PROCEED>>,
   j |-> IF NoStopRun(list) = 0 THEN 2 ELSE 1, short |-> TRUE]

\* The aspect of b towards a train that comes from behind
Forward(w, b) ==
  LET B == w.blk[b]
      guards == /\ Type[b] = "NOSTOP" /\ B.P # <<>>
                /\ B.N = <<>> \/ Type[B.N[1]] # "NOSTOP"
                /\ GetNextState(w, b) = DANGER \/ B.switchWrong
  IN CASE B.blocked -> Showing(SetReversedState(SetState(w, b, BLOCKED), b, BLOCKED), B.P,
                            <<DANGER, CAUTION, PROCEED>>)
       [] ~B.blocked /\ guards -> PassOn(SetState(w, b, DANGER), B.P)
       [] ~B.blocked /\ ~guards /\ B.N = <<>> ->
            Showing(SetState(w, b, CAUTION), B.P, <<CAUTION, PROCEED, PROCEED>>)
       [] OTHER -> Showing(w, B.P, <<PROCEED, PROCEED, PROCEED>>)

\* Its aspect towards a train that comes the other way
Backward(w, b) ==
  LET B == w.blk[b]
      guards == /\ Type[b] = "NOSTOP" /\ B.N # <<>> /\ B.P # <<>>
                /\ Type[B.P[1]] # "NOSTOP" /\ GetPrevState(w, b) = DANGER
      aspect == IF Reserved(w, b) THEN DANGER ELSE PROCEED
  IN IF guards THEN PassOn(SetReversedState(w, b, DANGER), B.N)
     ELSE Showing(IF B.blocked THEN w ELSE SetReversedState(w, b, aspect), B.N,
               <<PROCEED, PROCEED, PROCEED>>)

\* What b shows is applied unless it is PROCEED.
Spread(shown, b, reversed) ==
  LET groups == SetDepths(b, shown.list)
  IN IF shown.aspects[1] = PROCEED THEN shown.w
     ELSE ApplyRailState(shown.w, b, shown.list, shown.aspects,
                         IF shown.short THEN CutGroups(shown.list, groups) ELSE groups,
                         shown.j, reversed)

SpreadBoth(fwd, rev, b) ==
  Spread([rev EXCEPT !.w = Spread([fwd EXCEPT !.w = rev.w], b, FALSE)], b, TRUE)

\* A block that was left shows DANGER until its aspects are known.
Unblock(w, b) ==
  IF ~w.blk[b].blocked /\ w.blk[b].state = BLOCKED THEN SetState(w, b, DANGER) ELSE w

RailState(w, b) ==
  LET fwd == Forward(Unblock(w, b), b)
  IN SpreadBoth(fwd, Backward(fwd.w, b), b)
=============================================================================
