------------------------------- MODULE Layouts -------------------------------
(***************************************************************************)
(* Layouts for TLC.  Three modules in a row: unit 1 ends in a double track,*)
(* and unit 2 lies the other way round, so that the tracks meet crosswise; *)
(* unit 2 has a signal at its other end, where unit 3 begins with a switch.*)
(***************************************************************************)
EXTENDS Integers, TLC

C11 == <<1, 1>>
C21 == <<2, 1>>
C22 == <<2, 2>>
C31 == <<3, 1>>

MCUnit == {1, 2, 3}
MCOrder == <<C11, C21, C22, C31>>
MCPorts == [c \in {C11, C21, C22, C31} |-> 2]
At(c, p, r, s) == <<c, p>> :> [rail |-> r, side |-> s]
MCEnd ==
  At(C11, 1, "1.0", "next") @@ At(C11, 2, "1.1", "prev") @@
  At(C21, 1, "2.0", "next") @@ At(C21, 2, "2.1", "prev") @@
  At(C22, 1, "2.2", "next") @@ At(C22, 2, "2.3", "prev") @@
  At(C31, 1, "3.S", "str") @@ At(C31, 2, "3.0", "prev")
\* The same, but unit 3 begins with the points of its switch.
PointsEnd == At(C31, 1, "3.S", "app") @@ MCEnd
MCRail == {"1.0", "1.1", "2.0", "2.1", "2.2", "2.3", "3.S", "3.0"}
MCDetection == [r \in MCRail |-> r]
MCSignalled == {<<C22, 1>>, <<C31, 2>>}
MCLaid == C11 :> <<C21, TRUE>> @@ C21 :> <<C11, TRUE>> @@ C22 :> <<C31, FALSE>> @@ C31 :> <<C22, FALSE>>

\* The same with three ports at each connector: the middle ones of units 1 and 2, which
\* lie crosswise, face each other.
MiddlePorts == [c \in {C11, C21, C22, C31} |-> 3]
MiddleRail == {C11, C21, C22, C31} \X (1..3)
MiddleEnd == [e \in MiddleRail |-> [rail |-> e, side |-> "next"]]
MiddleDetection == [r \in MiddleRail |-> r]

-----------------------------------------------------------------------------
(* A ring: two turning loops, 1 and 4, and two straight modules, 2 and 3,   *)
(* between them, which lie the other way round.  And a corner module at the *)
(* end of a straight one.                                                   *)

Loop == <<[x |-> 0, y |-> 0, r |-> 2], [x |-> 0, y |-> 10, r |-> 2]>>
Siding == <<[x |-> 0, y |-> 0, r |-> 2], [x |-> 20, y |-> 0, r |-> 0]>>
\* An anchor at a right angle, as a corner module has.
Corner == <<[x |-> 15, y |-> 10, r |-> 1]>>

RingModule == 1..4
RingAnchors == <<Loop, Siding, Siding, Loop>>
Meets(a, b) == a :> b @@ b :> a
RingLaid ==
  Meets(<<1, 1>>, <<2, 1>>) @@ Meets(<<2, 2>>, <<4, 2>>) @@
  Meets(<<4, 1>>, <<3, 1>>) @@ Meets(<<3, 2>>, <<1, 2>>)

CornerModule == 1..2
CornerAnchors == <<<<Siding[1]>>, Corner>>
CornerLaid == Meets(<<1, 1>>, <<2, 1>>)
=============================================================================
