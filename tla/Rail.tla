-------------------------------- MODULE Rail --------------------------------
(***************************************************************************)
(* The blocks and switches of a layout (src/src/switchboard/rail.cpp,      *)
(* switch.cpp, links.cpp): which block follows which over the switches as  *)
(* they lie, the neighbour lists every block caches, its two aspects and   *)
(* its reservations.                                                       *)
(*                                                                         *)
(* A C++ method that changes objects is an operator from a world w to the  *)
(* world after it.  The world is a record:                                 *)
(*   w.blk[b]   the Block object                                           *)
(*   w.sw[s]    Switch::state, 0 straight or 1 diverging                   *)
(*   w.path[p]  the Path object          w.trn[t]  the Train object        *)
(*   w.q, w.tq, w.trainq  the queues of AlQueue (first element first)      *)
(*                                                                         *)
(* Blocks are laid head to tail (cmpPolarity is always true) and the       *)
(* layout has neither polarity groups, turntables nor MSSwitches.          *)
(* w.fault names the first thing that stops the program, or is "none".     *)
(***************************************************************************)
EXTENDS Integers, Sequences, FiniteSets, SequencesExt

CONSTANTS
  Block, Switch, Path, Train,
  None,          \* the null pointer
  Type,          \* Type[b]: "MAIN", "STATION" or "NOSTOP"
  Length,        \* Length[b], in the unit of SearchLength
  SearchLength,  \* 600 cm in Block::AlgorSearch
  GroupLength,   \* ALGORLENGTH, 100 cm
  StationOf,     \* StationOf[b]: the station b belongs to, or None
  PathOf,        \* PathOf[b]: the path b belongs to, or None
  Link,          \* Link[<<x, port>>]: what lies at a port of block or switch x
  Detection      \* Detection[s]: the block that detects a train on switch s

\* What lies at the ends of a block and at the ports of a switch: a block ("R"), a
\* switch entered at the end with its points ("S") or at one of its others ("s"),
\* or nothing ("E").  A block detects the trains on a switch, and a block where a
\* train may stop has a path, which findPath and reservePath follow unasked.
Ports == (Block \X {"next", "prev"}) \cup (Switch \X {"app", "str", "div"})

ASSUME RailAssumption ==
  /\ IsFiniteSet(Block) /\ IsFiniteSet(Switch)
  /\ DOMAIN Link = Ports
  /\ \A x \in Ports : /\ Link[x].type \in {"R", "S", "s", "E"}
                      /\ Link[x].type = "R" => Link[x].to \in Block
                      /\ Link[x].type \in {"S", "s"} => Link[x].to \in Switch
  /\ Detection \in [Switch -> Block]
  /\ None \notin Path
  /\ \A b \in Block : /\ PathOf[b] \in Path \cup {None}
                      /\ Type[b] # "NOSTOP" => PathOf[b] # None

Rails == Block \cup Switch
Links == {Link[x] : x \in Ports}

\* Bounds: a walk of the switch solver ends at the first block that is not NOSTOP,
\* and passes no rail before it more than twice.  One from a block to the next one
\* passes no switch more than once, or twice if points set against the train do not
\* end it.
Steps == 2 * Cardinality({x \in Rails : x \in Block => Type[x] = "NOSTOP"}) + 1
SwitchSteps == Cardinality(Switch)

NEXT == 0
PREV == 1

Fault(w, f) == [w EXCEPT !.fault = f]

\* enum Rail_states
BLOCKED == 0
DANGER == 1
RESTRICTED == 2
CAUTION == 3
PROCEED == 4
RESERVED == 5
UNKNOWN == 7

RailAspect == {BLOCKED, DANGER, RESTRICTED, CAUTION, PROCEED, RESERVED, UNKNOWN}

-----------------------------------------------------------------------------
(* Links *)

\* The end of b that lies in direction d of its present orientation.
End(w, b, d) == IF w.blk[b].dir = d THEN "next" ELSE "prev"

NextLink(w, b, d) == Link[<<b, End(w, b, d)>>]

\* The port of switch s its points are set to, seen from the approach side.
SetPort(w, s) == IF w.sw[s] = 0 THEN "str" ELSE "div"

\* Switch::approachable with FL_SWITCH_CARE: the points are set towards from.
Approachable(w, s, from) == Link[<<s, SetPort(w, s)>>].to = from

\* The way out of a switch as its points lie, entered over the link
Onward(w, link) ==
  Link[<<link.to, IF link.type = "S" THEN SetPort(w, link.to) ELSE "app">>]

ReachStep(a, w) ==
  IF a.link.type = "S" \/ (a.link.type = "s" /\ Approachable(w, a.link.to, a.from))
  THEN [link |-> Onward(w, a.link), from |-> a.link.to] ELSE a

BlockAt(link) == IF link.type = "R" THEN link.to ELSE None

\* _NextList_NextIteration: the block a link leads to over the switches, or
\* None at the end of the track or at points set against the train.
Reach(w, link, from) ==
  LET at[n \in 0..SwitchSteps] == IF n = 0 THEN [link |-> link, from |-> from]
                                  ELSE ReachStep(at[n - 1], w)
  IN BlockAt(at[SwitchSteps].link)

BeyondStep(link, w) == IF link.type \in {"S", "s"} THEN Onward(w, link) ELSE link

\* The block a link leads to whichever way points are set against the train
Beyond(w, link) ==
  LET at[n \in 0..2 * SwitchSteps] == IF n = 0 THEN link ELSE BeyondStep(at[n - 1], w)
  IN BlockAt(at[2 * SwitchSteps])

\* One more block n on a list; a.room is the length left.
Longer(a, n) ==
  IF a.room < 0 \/ n = None THEN a
  ELSE [list |-> Append(a.list, n), room |-> a.room - Length[n]]

ListStep(a, x) ==
  LET b == IF a.list = <<>> THEN x.block ELSE Last(a.list)
  IN Longer(a, Reach(x.world, Link[<<b, x.end>>], b))

\* Block::_NextList: at most count blocks beyond block b through its end e
NextList(w, b, e, room, count) ==
  LET x == [world |-> w, block |-> b, end |-> e]
      at[n \in 0..count] == IF n = 0 THEN [list |-> <<>>, room |-> room] ELSE ListStep(at[n - 1], x)
  IN at[count].list

\* Block::Next_Block(d | FL_SWITCH_CARE, 1)
NextBlock(w, b, d) == Reach(w, NextLink(w, b, d), b)

-----------------------------------------------------------------------------
(* The cached neighbour lists *)

\* Block::AlgorClear of a Block object
Cleared(B) == [B EXCEPT !.N = <<>>, !.P = <<>>, !.searched = FALSE, !.doneAll = FALSE]

AlgorSearch(w, b) ==
  [w EXCEPT !.blk[b] =
     [Cleared(@) EXCEPT !.N = NextList(w, b, End(w, b, NEXT), SearchLength, 10),
                        !.P = NextList(w, b, End(w, b, PREV), SearchLength, 10),
                        !.searched = TRUE]]

\* Block::AlgorSetDepths: the indices where the first, second and third group
\* of blocks on a list end.
SetDepths(b, list) ==
  LET boundary(i) ==
        \/ StationOf[b] = None \/ StationOf[list[i]] = None
        \/ StationOf[list[i-1]] # None /\ StationOf[list[i]] # StationOf[list[i-1]]
        \/ Type[list[i-1]] = "NOSTOP"
      step(a, i) ==
        IF i > 1 /\ a.len >= GroupLength /\ Len(a.g) < 3 /\ Type[list[i]] # "NOSTOP" /\ boundary(i)
        THEN [g |-> Append(a.g, i - 1), len |-> Length[list[i]]]
        ELSE [a EXCEPT !.len = @ + Length[list[i]]]
      all == <<Len(list), Len(list), Len(list)>>
  IN SubSeq(FoldLeft(step, [g |-> <<>>, len |-> 0], [i \in 1..Len(list) |-> i]).g \o all, 1, 3)

-----------------------------------------------------------------------------
(* Aspects and reservations *)

Reserved(w, b) == w.blk[b].reservedBy # <<>>

IsReservedBy(w, b, t) == t \in ToSet(w.blk[b].reservedBy)

\* Block::setState(state) of a Block object: a reserved block shows RESERVED for PROCEED.
WithAspect(B, a) ==
  [B EXCEPT !.state = IF a = PROCEED /\ B.reservedBy # <<>> THEN RESERVED ELSE a]

SetState(w, b, a) == [w EXCEPT !.blk[b] = WithAspect(@, a)]

SetReversedState(w, b, a) == [w EXCEPT !.blk[b].reverse = a]

GetNextState(w, b) ==
  LET n == w.blk[b].N
  IN IF n = <<>> THEN DANGER
     ELSE IF w.blk[b].dir = w.blk[n[1]].dir THEN w.blk[n[1]].state
     ELSE w.blk[n[1]].reverse

GetPrevState(w, b) ==
  LET p == w.blk[b].P
  IN IF p = <<>> THEN DANGER
     ELSE IF w.blk[b].dir = w.blk[p[1]].dir THEN w.blk[p[1]].reverse
     ELSE w.blk[p[1]].state

\* Block::reserve.  reservedBy is only searched, tested for emptiness and read
\* at its head, so a second entry of the same train is left out.
ReservedFor(B, t) ==
  LET held == [B EXCEPT !.reservedBy = IF t \in ToSet(@) THEN @ ELSE Append(@, t)]
  IN IF B.blocked THEN held
     ELSE [held EXCEPT !.state = IF @ >= PROCEED THEN RESERVED ELSE @, !.reverse = DANGER]

\* A list without the trains of T
Without(list, T) ==
  LET left[i \in 0..Len(list)] ==
        IF i = 0 THEN <<>> ELSE IF list[i] \in T THEN left[i - 1] ELSE Append(left[i - 1], list[i])
  IN left[Len(list)]

\* Block::dereserve for each train of T
FreedOf(B, T) ==
  LET freed == [B EXCEPT !.reservedBy = Without(@, T)]
  IN IF T = {} \/ freed.reservedBy # <<>> \/ B.blocked THEN freed
     ELSE [freed EXCEPT !.state = PROCEED, !.reverse = PROCEED]

Dereserve(w, b, t) == [w EXCEPT !.blk[b] = FreedOf(@, {t})]

\* Block::reverse: the other end becomes the one ahead.
Reversed(B) ==
  [B EXCEPT !.dir = 1 - @, !.state = B.reverse, !.reverse = B.state, !.N = B.P, !.P = B.N]

-----------------------------------------------------------------------------
(* The queues of AlQueue, as the FIFOs AlgorQueue.tla specifies *)

AddOnce(s, x) == IF x \in ToSet(s) THEN s ELSE Append(s, x)

Put(w, b) == [w EXCEPT !.q = AddOnce(@, b)]
PutTrain(w, t) == [w EXCEPT !.trainq = AddOnce(@, t)]

AddAll(s, list) ==
  LET added[i \in 0..Len(list)] == IF i = 0 THEN s ELSE AddOnce(added[i - 1], list[i])
  IN added[Len(list)]

\* puttemp(ABs): the block and everything on its lists.
PutTempAll(w, b) == [w EXCEPT !.tq = AddAll(@, <<b>> \o w.blk[b].P \o w.blk[b].N)]

CpyTmp(w) == [w EXCEPT !.q = AddAll(@, w.tq), !.tq = <<>>]
=============================================================================
