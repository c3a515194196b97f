-------------------------- MODULE InterlockingProofs --------------------------
(***************************************************************************)
(* Proofs about Interlocking, for every layout and any number of trains,   *)
(* switches and clients: points do not move under trains (PointsHeld) nor  *)
(* in blocks that others have reserved (ReservedPointsHeld), paths are     *)
(* turned as a whole (PathsAligned), and a train knows of all it holds.    *)
(*                                                                         *)
(* Every call of the program is one of three kinds of changes of the       *)
(* world: it Keeps all that matters for the points, or it Follows trains,  *)
(* which takes and leaves blocks but throws nothing, or it Steers one      *)
(* train, which throws points and turns paths that nobody is on and no     *)
(* other train holds.  A step of a thread is a chain of those.  What a loop*)
(* of the program does to the world is shown by induction over its turns   *)
(* (Loops): a lemma says what one turn keeps, and Kept that the loop keeps *)
(* it.  Named Good, it is for each loop the claim it is proved with.       *)
(***************************************************************************)
EXTENDS Interlocking, TLAPS, FiniteSetTheorems

\* A pointer to one of S, or the null pointer
Maybe(S) == S \cup {None}

\* What the proofs need to know of the type of a Block, Path and Train object, and of the world
BlockTyped(B) ==
  /\ {"dir", "blocked", "train", "expectedTrain", "expectedDetectable", "reservedBy", "N", "P",
      "trainFollowingChecked"} \subseteq DOMAIN B
  /\ B.dir \in {NEXT, PREV}
  /\ {B.train, B.expectedTrain, B.expectedDetectable} \subseteq Maybe(Train)
  /\ B.reservedBy \in Seq(Train)
  /\ B.N \in Seq(Block) /\ B.P \in Seq(Block)

PathTyped(p, P) ==
  /\ {"Entrance", "Exit"} \subseteq DOMAIN P
  /\ {P.Entrance, P.Exit} \subseteq PathBlocks(p)

TrainTyped(T) ==
  /\ {"B", "blocks", "det", "reservedBlocks"} \subseteq DOMAIN T
  /\ T.B \in Block /\ T.blocks \in Seq(Block)
  /\ T.det \in Seq(Block) /\ T.det # <<>>
  /\ T.reservedBlocks \subseteq Block

Typed(v) ==
  /\ {"blk", "sw", "path", "trn", "q", "tq", "trainq"} \subseteq DOMAIN v
  /\ DOMAIN v.blk = Block /\ DOMAIN v.sw = Switch /\ DOMAIN v.path = Path /\ DOMAIN v.trn = Train
  /\ \A b \in Block : BlockTyped(v.blk[b])
  /\ \A p \in Path : PathTyped(p, v.path[p])
  /\ \A t \in Train : TrainTyped(v.trn[t])
  /\ v.q \in Seq(Block) /\ v.tq \in Seq(Block) /\ v.trainq \in Seq(Train)

\* Aspects, lists and expectations may differ, what the safety of the points rests on may not.
SameBlock(B, C) ==
  /\ C.dir = B.dir /\ C.blocked = B.blocked /\ C.train = B.train /\ C.reservedBy = B.reservedBy
  /\ C.trainFollowingChecked = B.trainFollowingChecked

\* The points lie the same, and blocks, paths and reservations are the same but for that.
Alike(v, u) ==
  /\ u.sw = v.sw
  /\ \A b \in Block : SameBlock(v.blk[b], u.blk[b])
  /\ \A p \in Path : u.path[p].Entrance = v.path[p].Entrance /\ u.path[p].Exit = v.path[p].Exit
  /\ \A t \in Train : u.trn[t].reservedBlocks = v.trn[t].reservedBlocks

\* u comes of v by a call that changes only aspects, lists, expectations or queues.
Keeps(v, u) == Typed(u) /\ Alike(v, u)

\* No change at all is such a call.
LEMMA KeepsItself == \A v : Typed(v) => Keeps(v, v)
BY DEF Keeps, Alike, SameBlock

\* One such call after another is one.
LEMMA KeepsChain ==
  ASSUME NEW v, NEW u, NEW x, Keeps(v, u), Keeps(u, x)
  PROVE  Keeps(v, x)
BY DEF Keeps, Alike, SameBlock

\* So is a call that writes the Block objects with no more than that changed,
LEMMA BlocksPut ==
  ASSUME NEW v, Typed(v), NEW F, DOMAIN F = Block,
         \A b \in Block : BlockTyped(F[b]) /\ SameBlock(v.blk[b], F[b])
  PROVE  Keeps(v, [v EXCEPT !.blk = F])
BY DEF Keeps, Alike, Typed

\* or one of them.
LEMMA BlockPut ==
  ASSUME NEW v, Typed(v), NEW b, NEW B, b \in Block => BlockTyped(B) /\ SameBlock(v.blk[b], B)
  PROVE  Keeps(v, [v EXCEPT !.blk[b] = B])
BY DEF Keeps, Alike, Typed, SameBlock

-----------------------------------------------------------------------------
(* Rail *)

\* An object with another aspect is typed and otherwise the same.
LEMMA WithAspectSame ==
  \A B, a : BlockTyped(B) => BlockTyped(WithAspect(B, a)) /\ SameBlock(B, WithAspect(B, a))
BY DEF SameBlock, WithAspect, BlockTyped

\* So is one whose lists are cleared.
LEMMA ClearedSame ==
  \A B : BlockTyped(B) => BlockTyped(Cleared(B)) /\ SameBlock(B, Cleared(B))
BY DEF SameBlock, Cleared, BlockTyped

\* Block::setState changes no more than the aspect of a block.
LEMMA SetStateKeeps ==
  ASSUME NEW v, NEW b, NEW a, Typed(v)
  PROVE  Keeps(v, SetState(v, b, a))
<1>1. b \in Block => BlockTyped(v.blk[b]) BY DEF Typed
<1>2. Keeps(v, [v EXCEPT !.blk[b] = WithAspect(v.blk[b], a)]) BY <1>1, WithAspectSame, BlockPut
<1> QED BY <1>2 DEF SetState

\* Block::setReversedState changes no more than its other aspect.
LEMMA SetReversedStateKeeps ==
  ASSUME NEW v, NEW b, NEW a, Typed(v)
  PROVE  Keeps(v, SetReversedState(v, b, a))
<1> DEFINE B == [v.blk[b] EXCEPT !.reverse = a]
<1>1. b \in Block => BlockTyped(B) /\ SameBlock(v.blk[b], B)
  BY DEF Typed, BlockTyped, SameBlock
<1>2. SetReversedState(v, b, a) = [v EXCEPT !.blk[b] = B] BY DEF SetReversedState
<1> HIDE DEF B
<1> QED BY <1>1, <1>2, BlockPut

\* A fault changes nothing else.
LEMMA FaultKeeps ==
  ASSUME NEW v, NEW f, Typed(v)
  PROVE  Keeps(v, Fault(v, f))
BY DEF Fault, Keeps, Alike, Typed, SameBlock

\* The queues may be written.
LEMMA QueuesKeep ==
  ASSUME NEW v, Typed(v), NEW a \in Seq(Block), NEW c \in Seq(Block), NEW d \in Seq(Train)
  PROVE  /\ Keeps(v, [v EXCEPT !.q = a])
         /\ Keeps(v, [v EXCEPT !.tq = c])
         /\ Keeps(v, [v EXCEPT !.q = a, !.tq = c])
         /\ Keeps(v, [v EXCEPT !.trainq = d])
BY DEF Keeps, Alike, Typed, SameBlock

\* A list, one longer
LEMMA Appended ==
  ASSUME NEW S, NEW s \in Seq(S), NEW x
  PROVE  /\ x \in S => Append(s, x) \in Seq(S)
         /\ ToSet(Append(s, x)) = ToSet(s) \cup {x}
         /\ Len(Append(s, x)) = Len(s) + 1
<1>1. x \in S => Append(s, x) \in Seq(S) OBVIOUS
<1>2. Append(s, x) \in Seq(S \cup {x}) /\ Len(Append(s, x)) = Len(s) + 1 /\ Len(s) \in Nat
  OBVIOUS
<1>3. \A i \in 1..Len(s) + 1 : Append(s, x)[i] = IF i <= Len(s) THEN s[i] ELSE x
  OBVIOUS
<1>4. DOMAIN Append(s, x) = 1..Len(s) + 1 /\ DOMAIN s = 1..Len(s) BY <1>2
<1>5. Append(s, x)[Len(s) + 1] = x /\ \A i \in 1..Len(s) : Append(s, x)[i] = s[i] BY <1>2, <1>3
<1> QED BY <1>1, <1>2, <1>3, <1>4, <1>5 DEF ToSet

\* Queue::AddOnce puts a block or train to its like.
LEMMA AddOnceTyped ==
  ASSUME NEW S, NEW s \in Seq(S), NEW x \in S
  PROVE  AddOnce(s, x) \in Seq(S)
BY Appended DEF AddOnce

AddTurn(a, i, x) == AddOnce(a, x.list[i])
AddGood(a, i, x) == a \in Seq(x.set)
AddLoop == INSTANCE Loops WITH Step <- AddTurn, Good <- AddGood

\* puttemp and cpytmp put blocks to blocks.
LEMMA AddAllTyped ==
  ASSUME NEW S, NEW s \in Seq(S), NEW list \in Seq(S)
  PROVE  AddAll(s, list) \in Seq(S)
<1> DEFINE x == [list |-> list, set |-> S]
<1>1. AddGood(s, 0, x) BY DEF AddGood
<1>2. \A a : \A i \in 1..Len(list) : AddGood(a, i - 1, x) => AddGood(AddTurn(a, i, x), i, x)
  BY AddOnceTyped DEF AddGood, AddTurn
<1>3. Len(list) \in Nat OBVIOUS
<1>4. AddAll(s, list) = AddLoop!At(s, x, Len(list)) BY DEF AddAll, AddLoop!At, AddTurn
<1> HIDE DEF x
<1>5. AddGood(AddLoop!At(s, x, Len(list)), Len(list), x) BY <1>1, <1>2, <1>3, AddLoop!Kept
<1> QED BY <1>4, <1>5 DEF AddGood, x

WithoutTurn(a, i, x) == IF x.list[i] \in x.set THEN a ELSE Append(a, x.list[i])
WithoutGood(a, i, x) == a \in Seq(ToSet(x.list)) /\ ToSet(a) = {x.list[k] : k \in 1..i} \ x.set
WithoutLoop == INSTANCE Loops WITH Step <- WithoutTurn, Good <- WithoutGood

\* Block::dereserve of a set of trains leaves the others.
LEMMA WithoutSet ==
  ASSUME NEW S, NEW list \in Seq(S), NEW T
  PROVE  Without(list, T) \in Seq(S) /\ ToSet(Without(list, T)) = ToSet(list) \ T
<1> DEFINE x == [list |-> list, set |-> T]
<1>0. Len(list) \in Nat /\ DOMAIN list = 1..Len(list) OBVIOUS
<1>1. WithoutGood(<<>>, 0, x) BY DEF WithoutGood, ToSet
<1>2. ASSUME NEW a, NEW i \in 1..Len(list), WithoutGood(a, i - 1, x)
      PROVE  WithoutGood(WithoutTurn(a, i, x), i, x)
  <2>1. list[i] \in ToSet(list) BY <1>0 DEF ToSet
  <2>2. 1..i = 1..(i - 1) \cup {i} OBVIOUS
  <2>3. {list[k] : k \in 1..i} = {list[k] : k \in 1..(i - 1)} \cup {list[i]} BY <2>2
  <2>4. a \in Seq(ToSet(list)) /\ ToSet(a) = {list[k] : k \in 1..(i - 1)} \ T
    BY <1>2 DEF WithoutGood
  <2>5. CASE list[i] \in T
    BY <2>3, <2>4, <2>5 DEF WithoutGood, WithoutTurn
  <2>6. CASE list[i] \notin T
    <3>1. Append(a, list[i]) \in Seq(ToSet(list)) /\ ToSet(Append(a, list[i])) = ToSet(a) \cup {list[i]}
      BY <2>1, <2>4, Appended
    <3> QED BY <2>3, <2>4, <2>6, <3>1 DEF WithoutGood, WithoutTurn
  <2> QED BY <2>5, <2>6
<1>4. Without(list, T) = WithoutLoop!At(<<>>, x, Len(list))
  BY DEF Without, WithoutLoop!At, WithoutTurn
<1>5. x.list = list /\ x.set = T OBVIOUS
<1> HIDE DEF x
<1>6. WithoutGood(WithoutLoop!At(<<>>, x, Len(list)), Len(list), x)
  BY <1>0, <1>1, <1>2, WithoutLoop!Kept
<1>7. Without(list, T) \in Seq(ToSet(list)) /\ ToSet(Without(list, T)) = {list[k] : k \in 1..Len(list)} \ T
  BY <1>4, <1>5, <1>6 DEF WithoutGood
<1>8. ToSet(list) = {list[k] : k \in 1..Len(list)} /\ ToSet(list) \subseteq S BY <1>0 DEF ToSet
<1> QED BY <1>7, <1>8

\* What lies at a port is a block, a switch or nothing.
LEMMA LinksTyped ==
  \A l \in Links : /\ l.type = "R" => l.to \in Block
                   /\ l.type \in {"S", "s"} => l.to \in Switch
BY RailAssumption DEF Links

ReachTurn(a, n, x) == ReachStep(a, x)
ReachGood(a, n, x) == a.link \in Links
ReachLoop == INSTANCE Loops WITH Step <- ReachTurn, Good <- ReachGood

\* A walk over the switches ends at a block or at none.
LEMMA ReachTyped ==
  ASSUME NEW v, NEW link \in Links, NEW from
  PROVE  Reach(v, link, from) \in Maybe(Block)
<1> DEFINE a0 == [link |-> link, from |-> from]
<1>1. ReachGood(a0, 0, v) BY DEF ReachGood
<1>2. ASSUME NEW a, ReachGood(a, 0, v) PROVE ReachGood(ReachStep(a, v), 0, v)
  <2>1. ASSUME a.link.type \in {"S", "s"} PROVE Onward(v, a.link) \in Links
    <3>1. a.link.to \in Switch BY <1>2, <2>1, LinksTyped DEF ReachGood
    <3>2. <<a.link.to, IF a.link.type = "S" THEN SetPort(v, a.link.to) ELSE "app">> \in Ports
      BY <3>1 DEF Ports, SetPort
    <3> QED BY <3>2 DEF Onward, Links
  <2> QED BY <1>2, <2>1 DEF ReachGood, ReachStep
<1>3. SwitchSteps \in Nat BY RailAssumption, FS_CardinalityType DEF SwitchSteps
<1>4. Reach(v, link, from) = BlockAt(ReachLoop!At(a0, v, SwitchSteps).link)
  BY DEF Reach, ReachLoop!At, ReachTurn
<1> HIDE DEF a0
<1>5. ReachGood(ReachLoop!At(a0, v, SwitchSteps), SwitchSteps, v)
  BY <1>1, <1>2, <1>3, ReachLoop!Kept DEF ReachTurn, ReachGood
<1> QED BY <1>4, <1>5, LinksTyped DEF BlockAt, ReachGood, Maybe

ListTurn(a, n, x) == ListStep(a, x)
ListGood(a, n, x) == a.list \in Seq(Block)
ListLoop == INSTANCE Loops WITH Step <- ListTurn, Good <- ListGood

\* _NextList collects blocks.
LEMMA NextListTyped ==
  ASSUME NEW v, NEW b \in Block, NEW e \in {"next", "prev"}, NEW room, NEW count \in Nat
  PROVE  NextList(v, b, e, room, count) \in Seq(Block)
<1> DEFINE x == [world |-> v, block |-> b, end |-> e]
           a0 == [list |-> <<>>, room |-> room]
<1>1. ListGood(a0, 0, x) BY DEF ListGood
<1>2. ASSUME NEW a, ListGood(a, 0, x) PROVE ListGood(ListStep(a, x), 0, x)
  <2> DEFINE c == IF a.list = <<>> THEN x.block ELSE Last(a.list)
             n == Reach(x.world, Link[<<c, x.end>>], c)
  <2>1. c \in Block
    BY <1>2 DEF ListGood, Last
  <2>2. Link[<<c, x.end>>] \in Links BY <2>1 DEF Links, Ports
  <2>3. n \in Maybe(Block) BY <2>2, ReachTyped
  <2>4. ListStep(a, x) = Longer(a, n) BY DEF ListStep
  <2> HIDE DEF n, x
  <2>5. n = None \/ n \in Block BY <2>3 DEF Maybe
  <2>6. n \in Block => Append(a.list, n) \in Seq(Block) BY <1>2, Appended DEF ListGood
  <2> QED BY <1>2, <2>4, <2>5, <2>6 DEF ListGood, Longer
<1>3. NextList(v, b, e, room, count) = ListLoop!At(a0, x, count).list
  BY DEF NextList, ListLoop!At, ListTurn
<1> HIDE DEF a0, x
<1>4. ListGood(ListLoop!At(a0, x, count), count, x)
  BY <1>1, <1>2, ListLoop!Kept DEF ListTurn, ListGood
<1> QED BY <1>3, <1>4 DEF ListGood

\* AlgorSearch writes nothing but the cached lists.
LEMMA AlgorSearchKeeps ==
  ASSUME NEW v, NEW b, Typed(v)
  PROVE  Keeps(v, AlgorSearch(v, b))
<1> DEFINE n == NextList(v, b, End(v, b, NEXT), SearchLength, 10)
           p == NextList(v, b, End(v, b, PREV), SearchLength, 10)
           B == [Cleared(v.blk[b]) EXCEPT !.N = n, !.P = p, !.searched = TRUE]
<1>1. AlgorSearch(v, b) = [v EXCEPT !.blk[b] = B] BY DEF AlgorSearch
<1>2. ASSUME b \in Block PROVE BlockTyped(B) /\ SameBlock(v.blk[b], B)
  <2>1. n \in Seq(Block) /\ p \in Seq(Block) BY <1>2, NextListTyped DEF End
  <2>2. BlockTyped(Cleared(v.blk[b])) /\ SameBlock(v.blk[b], Cleared(v.blk[b]))
    BY <1>2, ClearedSame DEF Typed
  <2> HIDE DEF n, p
  <2> QED BY <2>1, <2>2 DEF BlockTyped, SameBlock
<1> HIDE DEF B
<1> QED BY <1>1, <1>2, BlockPut

\* put, puttemp and cpytmp write nothing but the queues.
LEMMA PutsKeep ==
  ASSUME NEW v, Typed(v)
  PROVE  /\ \A b \in Block : Keeps(v, Put(v, b)) /\ Keeps(v, PutTempAll(v, b))
         /\ \A t \in Train : Keeps(v, PutTrain(v, t))
         /\ Keeps(v, CpyTmp(v))
<1>1. v.q \in Seq(Block) /\ v.tq \in Seq(Block) /\ v.trainq \in Seq(Train) /\ <<>> \in Seq(Block)
  BY DEF Typed
<1>2. ASSUME NEW b \in Block PROVE Keeps(v, Put(v, b)) /\ Keeps(v, PutTempAll(v, b))
  <2>1. <<b>> \o v.blk[b].P \o v.blk[b].N \in Seq(Block) BY DEF Typed, BlockTyped
  <2>2. AddOnce(v.q, b) \in Seq(Block) BY <1>1, AddOnceTyped
  <2>3. AddAll(v.tq, <<b>> \o v.blk[b].P \o v.blk[b].N) \in Seq(Block) BY <1>1, <2>1, AddAllTyped
  <2> QED BY <1>1, <2>2, <2>3, QueuesKeep DEF Put, PutTempAll
<1>3. ASSUME NEW t \in Train PROVE Keeps(v, PutTrain(v, t))
  BY <1>1, AddOnceTyped, QueuesKeep DEF PutTrain
<1>4. Keeps(v, CpyTmp(v))
  BY <1>1, AddAllTyped, QueuesKeep DEF CpyTmp
<1> QED BY <1>2, <1>3, <1>4

-----------------------------------------------------------------------------
(* RailState *)

\* Set_Changed writes nothing but the lists of a block and of those on them.
LEMMA SetChangedKeeps ==
  ASSUME NEW v, NEW b, Typed(v)
  PROVE  Keeps(v, SetChanged(v, b))
<1> DEFINE around == ToSet(v.blk[b].P) \cup ToSet(v.blk[b].N)
           forgotten(B) == IF B.blocked THEN Cleared(B) ELSE WithAspect(Cleared(B), PROCEED)
           F == [x \in Block |-> CASE x = b -> WithAspect(v.blk[x], PROCEED)
                                   [] x # b /\ x \in around -> forgotten(v.blk[x])
                                   [] OTHER -> v.blk[x]]
<1>1. SetChanged(v, b) = [v EXCEPT !.blk = F] BY DEF SetChanged
<1>2. DOMAIN F = Block OBVIOUS
<1>3. ASSUME NEW x \in Block PROVE BlockTyped(F[x]) /\ SameBlock(v.blk[x], F[x])
  <2>1. F[x] \in {v.blk[x], WithAspect(v.blk[x], PROCEED), Cleared(v.blk[x]),
                  WithAspect(Cleared(v.blk[x]), PROCEED)}
    OBVIOUS
  <2>2. BlockTyped(v.blk[x]) /\ SameBlock(v.blk[x], v.blk[x]) BY DEF Typed, SameBlock
  <2>3. /\ BlockTyped(WithAspect(v.blk[x], PROCEED)) /\ SameBlock(v.blk[x], WithAspect(v.blk[x], PROCEED))
        /\ BlockTyped(Cleared(v.blk[x])) /\ SameBlock(v.blk[x], Cleared(v.blk[x]))
    BY <2>2, WithAspectSame, ClearedSame
  <2>4. /\ BlockTyped(WithAspect(Cleared(v.blk[x]), PROCEED))
        /\ SameBlock(Cleared(v.blk[x]), WithAspect(Cleared(v.blk[x]), PROCEED))
    BY <2>3, WithAspectSame
  <2>5. SameBlock(v.blk[x], WithAspect(Cleared(v.blk[x]), PROCEED)) BY <2>3, <2>4 DEF SameBlock
  <2> HIDE DEF F
  <2> QED BY <2>1, <2>2, <2>3, <2>4, <2>5
<1> HIDE DEF F
<1> QED BY <1>1, <1>2, <1>3, BlocksPut

ApplyTurn(a, i, y) == ApplyStep(a, i, y.list)
ApplyGood(a, i, y) == "w" \in DOMAIN a /\ Keeps(y.world, a.w)
ApplyLoop == INSTANCE Loops WITH Step <- ApplyTurn, Good <- ApplyGood

\* ApplyRailState changes nothing but aspects, whatever list it is given.
LEMMA ApplyKeeps ==
  ASSUME NEW v, Typed(v), NEW b, NEW list \in Seq(Block), NEW aspects, NEW groups, NEW j, NEW dir
  PROVE  Keeps(v, ApplyRailState(v, b, list, aspects, groups, j, dir))
<1> DEFINE x == [front |-> b, list |-> list, groups |-> groups]
           y == [list |-> x, world |-> v]
           a0 == [w |-> v, dir |-> dir, j |-> j, aspects |-> aspects, done |-> FALSE]
<1>1. ApplyGood(a0, 0, y) BY KeepsItself DEF ApplyGood
<1>2. ASSUME NEW a, NEW i, ApplyGood(a, 0, y) PROVE ApplyGood(ApplyStep(a, i, x), 0, y)
  <2>1. "w" \in DOMAIN a /\ Keeps(v, a.w) /\ Typed(a.w) BY <1>2 DEF ApplyGood, Keeps
  <2>2. \A c, e : Keeps(v, SetState(a.w, c, e)) /\ Keeps(v, SetReversedState(a.w, c, e))
    BY <2>1, SetStateKeeps, SetReversedStateKeeps, KeepsChain
  <2>3. \/ ApplyStep(a, i, x) = a
        \/ \E d : ApplyStep(a, i, x) = [a EXCEPT !.done = TRUE, !.dir = d]
        \/ \E d, k, s, c, e : ApplyStep(a, i, x) = 
              [w |-> IF d THEN SetReversedState(a.w, c, e) ELSE SetState(a.w, c, e),
               dir |-> d, j |-> k, aspects |-> s, done |-> FALSE]
    BY DEF ApplyStep
  <2>4. ASSUME NEW d PROVE LET e == [a EXCEPT !.done = TRUE, !.dir = d] IN "w" \in DOMAIN e /\ e.w = a.w
    BY <2>1
  <2>5. ASSUME NEW d, NEW k, NEW s, NEW c, NEW e
        PROVE  LET f == [w |-> IF d THEN SetReversedState(a.w, c, e) ELSE SetState(a.w, c, e),
                         dir |-> d, j |-> k, aspects |-> s, done |-> FALSE]
               IN "w" \in DOMAIN f /\ Keeps(v, f.w)
    BY <2>2
  <2>6. "w" \in DOMAIN ApplyStep(a, i, x) /\ Keeps(v, ApplyStep(a, i, x).w)
    <3>1. CASE ApplyStep(a, i, x) = a BY <2>1, <3>1
    <3>2. ASSUME NEW d, ApplyStep(a, i, x) = [a EXCEPT !.done = TRUE, !.dir = d]
          PROVE  "w" \in DOMAIN ApplyStep(a, i, x) /\ Keeps(v, ApplyStep(a, i, x).w)
      BY <2>1, <2>4, <3>2
    <3>3. ASSUME NEW d, NEW k, NEW s, NEW c, NEW e,
                 ApplyStep(a, i, x) = 
                   [w |-> IF d THEN SetReversedState(a.w, c, e) ELSE SetState(a.w, c, e),
                    dir |-> d, j |-> k, aspects |-> s, done |-> FALSE]
          PROVE  "w" \in DOMAIN ApplyStep(a, i, x) /\ Keeps(v, ApplyStep(a, i, x).w)
      BY <2>5, <3>3, Zenon
    <3> QED BY <2>3, <3>1, <3>2, <3>3, Zenon
  <2> QED BY <2>6 DEF ApplyGood
<1>3. Len(list) \in Nat OBVIOUS
<1>4. ApplyRailState(v, b, list, aspects, groups, j, dir) = ApplyLoop!At(a0, y, Len(list)).w
  BY DEF ApplyRailState, ApplyLoop!At, ApplyTurn
<1>5. \A a, i : ApplyTurn(a, i, y) = ApplyStep(a, i, x) BY DEF ApplyTurn
<1>6. y.world = v OBVIOUS
<1> HIDE DEF x, y, a0
<1>7. ApplyGood(ApplyLoop!At(a0, y, Len(list)), Len(list), y)
  BY <1>1, <1>2, <1>3, <1>5, ApplyLoop!Kept DEF ApplyGood
<1> QED BY <1>4, <1>6, <1>7 DEF ApplyGood

\* What is to be spread in world v
Shown(v, s) == {"w", "list"} \subseteq DOMAIN s /\ Keeps(v, s.w) /\ s.list \in Seq(Block)

\* What is to be spread is typed, whatever the aspects.
LEMMA ShowingShown ==
  ASSUME NEW v, NEW u, Keeps(v, u), NEW list \in Seq(Block), NEW aspects
  PROVE  Shown(v, Showing(u, list, aspects)) /\ Shown(v, PassOn(u, list))
<1>1. Keeps(v, Fault(u, "null")) BY FaultKeeps, KeepsChain DEF Keeps
<1> QED BY <1>1 DEF Shown, Showing, PassOn

\* The aspect of a block that was left is all that changes.
LEMMA UnblockKeeps ==
  ASSUME NEW v, Typed(v), NEW b PROVE Keeps(v, Unblock(v, b))
BY SetStateKeeps, KeepsItself DEF Unblock

\* The first half of rail_state sets the aspect of a block and finds what to spread,
LEMMA ForwardShown ==
  ASSUME NEW v, Typed(v), NEW b \in Block PROVE Shown(v, Forward(v, b))
<1>1. v.blk[b].P \in Seq(Block) BY DEF Typed, BlockTyped
<1>2. \A a, c : Keeps(v, SetState(v, b, a)) /\ Keeps(v, SetReversedState(SetState(v, b, a), b, c))
  BY SetStateKeeps, SetReversedStateKeeps, KeepsChain DEF Keeps
<1>3. Keeps(v, v) BY KeepsItself
<1> QED BY <1>1, <1>2, <1>3, ShowingShown DEF Forward

\* and so does the second, for the other way.
LEMMA BackwardShown ==
  ASSUME NEW v, Typed(v), NEW b \in Block PROVE Shown(v, Backward(v, b))
<1>1. v.blk[b].N \in Seq(Block) BY DEF Typed, BlockTyped
<1>2. \A a : Keeps(v, SetReversedState(v, b, a)) BY SetReversedStateKeeps
<1>3. Keeps(v, v) BY KeepsItself
<1> QED BY <1>1, <1>2, <1>3, ShowingShown DEF Backward

\* Spreading changes nothing but aspects.
LEMMA SpreadKeeps ==
  ASSUME NEW v, NEW s, Shown(v, s), NEW b, NEW r PROVE Keeps(v, Spread(s, b, r))
<1>1. Keeps(v, s.w) /\ Typed(s.w) /\ s.list \in Seq(Block) BY DEF Shown, Keeps
<1>2. \A a, g, j, d : Keeps(s.w, ApplyRailState(s.w, b, s.list, a, g, j, d))
  BY <1>1, ApplyKeeps
<1>3. \A a, g, j, d : Keeps(v, ApplyRailState(s.w, b, s.list, a, g, j, d))
  BY <1>1, <1>2, KeepsChain
<1> QED BY <1>1, <1>3 DEF Spread

\* Algorithm::rail_state changes nothing but aspects.
LEMMA RailStateKeeps ==
  ASSUME NEW v, Typed(v), NEW b \in Block PROVE Keeps(v, RailState(v, b))
<1> DEFINE u == Unblock(v, b)
           fwd == Forward(u, b)
           rev == Backward(fwd.w, b)
           once == Spread([fwd EXCEPT !.w = rev.w], b, FALSE)
<1>1. Keeps(v, u) BY UnblockKeeps
<1>2. Shown(u, fwd) BY <1>1, ForwardShown DEF Keeps
<1>3. Shown(fwd.w, rev) BY <1>2, BackwardShown DEF Shown, Keeps
<1>4. RailState(v, b) = Spread([rev EXCEPT !.w = once], b, TRUE)
  BY DEF RailState, SpreadBoth
<1> HIDE DEF fwd, rev, u
<1>5. Shown(v, [fwd EXCEPT !.w = rev.w])
  BY <1>1, <1>2, <1>3, KeepsChain DEF Shown
<1>6. Keeps(v, once) BY <1>5, SpreadKeeps
<1> HIDE DEF once
<1>7. Shown(v, [rev EXCEPT !.w = once]) BY <1>3, <1>6 DEF Shown
<1> QED BY <1>4, <1>7, SpreadKeeps

-----------------------------------------------------------------------------
(* What the switch solver may do for train t *)

\* The trains a block is reserved for
Holders(v, b) == ToSet(v.blk[b].reservedBy)

\* What a train has reserved it knows of (Train::reservedBlocks), so that dereserveAll frees it.
Recorded(v) == \A b \in Block, t \in Train : t \in Holders(v, b) => b \in v.trn[t].reservedBlocks

\* The statement of PathsAligned, of one path in world v
PathAligned(v, p) ==
  /\ \A b, c \in PathBlocks(p) : v.blk[b].dir = v.blk[c].dir
  /\ LeavesPath(p, NextLink(v, v.path[p].Entrance, PREV))
  /\ LeavesPath(p, NextLink(v, v.path[p].Exit, NEXT))

Aligned(v) == \A p \in Path : PathAligned(v, p)

\* A block where no train may stop is alone in its path (Path::find takes blocks until the next
\* block where one may, path.cpp:183), and the detection blocks of switches are such blocks.
PathsApart ==
  /\ \A s \in Switch : Type[Detection[s]] = "NOSTOP"
  /\ \A b, c \in Block : Type[b] = "NOSTOP" /\ PathOf[b] = PathOf[c] /\ PathOf[b] # None => b = c

\* No block is occupied or left, and no train moves.
Stands(v, u) ==
  \A b \in Block : /\ u.blk[b].blocked = v.blk[b].blocked /\ u.blk[b].train = v.blk[b].train
                   /\ u.blk[b].trainFollowingChecked = v.blk[b].trainFollowingChecked

\* The points it throws are under no train and held by no other one, the
\* reservations of a switch are its own.
SteersAt(v, u, t, s) ==
  LET b == Detection[s]
  IN /\ u.sw[s] # v.sw[s] => ~v.blk[b].blocked
     /\ PathsApart => /\ Holders(u, b) \ {t} = Holders(v, b) \ {t}
                      /\ u.sw[s] # v.sw[s] => Holders(v, b) \subseteq {t}

\* u comes of v by what the switch solver does for train t.
Steers(v, u, t) ==
  /\ Typed(u)
  /\ Stands(v, u)
  /\ \A s \in Switch : SteersAt(v, u, t, s)
  /\ Recorded(v) => Recorded(u)
  /\ PathsApart /\ Aligned(v) => Aligned(u)

\* A block detects the trains on a switch.
LEMMA DetectionBlock == \A s \in Switch : Detection[s] \in Block
BY RailAssumption

\* Paths stay aligned if blocks, links and the ends of paths stay.
LEMMA KeepsAligned ==
  ASSUME NEW v, NEW u, Alike(v, u), Typed(v), Aligned(v)
  PROVE  Aligned(u)
<1> SUFFICES ASSUME NEW p \in Path PROVE PathAligned(u, p) BY DEF Aligned
<1>1. PathAligned(v, p) BY DEF Aligned
<1>2. \A b \in PathBlocks(p) : u.blk[b].dir = v.blk[b].dir
  BY DEF PathBlocks, Alike, SameBlock
<1>3. /\ u.path[p].Entrance = v.path[p].Entrance /\ u.path[p].Exit = v.path[p].Exit
      /\ v.path[p].Entrance \in PathBlocks(p) /\ v.path[p].Exit \in PathBlocks(p)
  BY DEF Alike, Typed, PathTyped
<1>4. \A b \in PathBlocks(p), d \in {NEXT, PREV} : NextLink(u, b, d) = NextLink(v, b, d)
  BY <1>2 DEF NextLink, End
<1> QED BY <1>1, <1>2, <1>3, <1>4 DEF PathAligned

\* What changes only aspects, lists and queues is such a change.
LEMMA KeepsSteers ==
  ASSUME NEW v, NEW u, NEW t, Typed(v), Keeps(v, u)
  PROVE  Steers(v, u, t)
<1>1. Typed(u) /\ Alike(v, u) BY DEF Keeps
<1>2. \A s \in Switch : SteersAt(v, u, t, s)
  BY <1>1, DetectionBlock DEF SteersAt, Alike, SameBlock, Holders
<1>3. Recorded(v) => Recorded(u)
  BY <1>1 DEF Recorded, Alike, SameBlock, Holders
<1>4. Aligned(v) => Aligned(u) BY <1>1, KeepsAligned
<1>5. Stands(v, u) BY <1>1 DEF Stands, Alike, SameBlock
<1> QED BY <1>1, <1>2, <1>3, <1>4, <1>5 DEF Steers

\* One such change after another is one: nobody else gets into a reservation on the way.
LEMMA SteersChain ==
  ASSUME NEW v, NEW u, NEW x, NEW t, Steers(v, u, t), Steers(u, x, t)
  PROVE  Steers(v, x, t)
<1>1. ASSUME NEW s \in Switch PROVE SteersAt(v, x, t, s)
  <2>1. SteersAt(v, u, t, s) /\ SteersAt(u, x, t, s) BY DEF Steers
  <2>2. u.blk[Detection[s]].blocked = v.blk[Detection[s]].blocked
    BY DetectionBlock DEF Steers, Stands
  <2> QED BY <2>1, <2>2 DEF SteersAt
<1> QED BY <1>1 DEF Steers, Stands

\* So is one with aspects, lists and queues changed after it.
LEMMA SteersKeeps ==
  ASSUME NEW v, NEW u, NEW x, NEW t, Steers(v, u, t), Keeps(u, x)
  PROVE  Steers(v, x, t)
<1>1. Typed(u) BY DEF Steers
<1> QED BY <1>1, KeepsSteers, SteersChain

\* A Path object is written with its ends as they were.
LEMMA PathPut ==
  ASSUME NEW v, Typed(v), NEW p, NEW P,
         p \in Path => /\ PathTyped(p, P) /\ P.Entrance = v.path[p].Entrance
                       /\ P.Exit = v.path[p].Exit
  PROVE  Keeps(v, [v EXCEPT !.path[p] = P])
BY DEF Keeps, Alike, Typed, SameBlock

\* A Train object is written with its reservations as they were.
LEMMA TrainPut ==
  ASSUME NEW v, Typed(v), NEW t, NEW T,
         t \in Train => TrainTyped(T) /\ T.reservedBlocks = v.trn[t].reservedBlocks
  PROVE  Keeps(v, [v EXCEPT !.trn[t] = T])
BY DEF Keeps, Alike, Typed, SameBlock

-----------------------------------------------------------------------------
(* Throwing *)

\* Switch::setState, once it throws: the points lie the other way, and lists and queues follow.
LEMMA ThrowKeeps ==
  ASSUME NEW v, Typed(v), NEW s \in Switch, NEW j
  PROVE  Keeps([v EXCEPT !.sw[s] = j], Throw(v, s, j))
<1> DEFINE b == Detection[s]
           v1 == PutTempAll(SetChanged(v, b), b)
           v2 == [v1 EXCEPT !.sw[s] = j]
           v3 == SetChanged(AlgorSearch(v2, b), b)
<1>1. b \in Block BY DetectionBlock
<1>2. Keeps(v, v1)
  <2>1. Keeps(v, SetChanged(v, b)) /\ Typed(SetChanged(v, b)) BY SetChangedKeeps DEF Keeps
  <2>2. Keeps(SetChanged(v, b), v1) BY <1>1, <2>1, PutsKeep
  <2> QED BY <2>1, <2>2, KeepsChain
<1>3. Keeps([v EXCEPT !.sw[s] = j], v2)
  <2> HIDE DEF v1
  <2>1. v2.blk = v1.blk /\ v2.path = v1.path /\ v2.trn = v1.trn /\ v2.sw = [v1.sw EXCEPT ![s] = j]
    BY <1>2 DEF Keeps, Typed
  <2>2. Typed(v2) BY <1>2 DEF Keeps, Typed
  <2>3. LET v0 == [v EXCEPT !.sw[s] = j]
        IN v0.blk = v.blk /\ v0.path = v.path /\ v0.trn = v.trn /\ v0.sw = [v.sw EXCEPT ![s] = j]
    BY DEF Typed
  <2> QED BY <1>2, <2>1, <2>2, <2>3 DEF Keeps, Alike
<1>4. Keeps(v2, v3)
  BY <1>3, SetChangedKeeps, AlgorSearchKeeps, KeepsChain DEF Keeps
<1>5. Keeps(v3, CpyTmp(PutTempAll(v3, b)))
  BY <1>1, <1>4, PutsKeep, KeepsChain DEF Keeps
<1>6. Throw(v, s, j) = CpyTmp(PutTempAll(v3, b)) BY DEF Throw
<1> HIDE DEF v1, v2, v3
<1> QED BY <1>3, <1>4, <1>5, <1>6, KeepsChain

\* It throws no points under a train or in a reserved block.
LEMMA SwitchSetStateSteers ==
  ASSUME NEW v, Typed(v), NEW s \in Switch, NEW j, NEW t
  PROVE  Steers(v, SwitchSetState(v, s, j), t)
<1>1. CASE MayThrow(v, s, j)
  <2> DEFINE u == [v EXCEPT !.sw[s] = j]
  <2>1. u.blk = v.blk /\ u.path = v.path /\ u.trn = v.trn /\ u.sw = [v.sw EXCEPT ![s] = j]
    BY DEF Typed
  <2>2. Typed(u) BY DEF Typed
  <2> HIDE DEF u
  <2>3. ~v.blk[Detection[s]].blocked /\ Holders(v, Detection[s]) = {}
    <3>1. v.blk[Detection[s]].reservedBy \in Seq(Train) BY DetectionBlock DEF Typed, BlockTyped
    <3> QED BY <1>1, <3>1 DEF MayThrow, Reserved, Holders, ToSet
  <2>4. \A r \in Switch : r # s => u.sw[r] = v.sw[r] BY <2>1 DEF Typed
  <2>5. \A r \in Switch : SteersAt(v, u, t, r)
    BY <2>1, <2>3, <2>4 DEF SteersAt, Holders
  <2>6. Recorded(v) => Recorded(u) BY <2>1 DEF Recorded, Holders
  <2>7. Aligned(v) => Aligned(u) BY <2>1 DEF Aligned, PathAligned, NextLink, End
  <2>8. Stands(v, u) BY <2>1 DEF Stands
  <2>9. Steers(v, u, t) BY <2>2, <2>5, <2>6, <2>7, <2>8 DEF Steers
  <2>10. Keeps(u, SwitchSetState(v, s, j)) BY <1>1, ThrowKeeps DEF SwitchSetState, u
  <2> QED BY <2>9, <2>10, SteersKeeps
<1>2. CASE ~MayThrow(v, s, j)
  BY <1>2, KeepsItself, KeepsSteers DEF SwitchSetState
<1> QED BY <1>1, <1>2

-----------------------------------------------------------------------------
(* Reservations *)

\* Blocks whose reservations, and those of train t, change while everything else about
\* them stays.
WithReservations(v, F, t, R) == [v EXCEPT !.blk = F, !.trn[t].reservedBlocks = R]

\* Only train t comes into a reservation or leaves it, and it knows of those it is in.
LEMMA ReservationsPut ==
  ASSUME NEW v, Typed(v), NEW t, NEW F, DOMAIN F = Block, NEW R,
         t \in Train => R \subseteq Block,
         \A b \in Block :
           /\ BlockTyped(F[b]) /\ F[b].dir = v.blk[b].dir
           /\ F[b].blocked = v.blk[b].blocked /\ F[b].train = v.blk[b].train
           /\ F[b].trainFollowingChecked = v.blk[b].trainFollowingChecked
           /\ ToSet(F[b].reservedBy) \ {t} = Holders(v, b) \ {t}
           /\ t \in ToSet(F[b].reservedBy) =>
                b \in R \/ (t \in Holders(v, b) /\ b \notin v.trn[t].reservedBlocks)
  PROVE  Steers(v, WithReservations(v, F, t, R), t)
<1> DEFINE u == WithReservations(v, F, t, R)
<1>1. /\ u.blk = F /\ u.path = v.path /\ u.sw = v.sw /\ u.q = v.q /\ u.tq = v.tq
      /\ u.trainq = v.trainq /\ DOMAIN u = DOMAIN v
      /\ DOMAIN u.trn = Train
      /\ \A o \in Train : o # t => u.trn[o] = v.trn[o]
      /\ t \in Train => u.trn[t] = [v.trn[t] EXCEPT !.reservedBlocks = R]
  BY DEF Typed, WithReservations
<1> HIDE DEF u
<1>2. t \in Train => TrainTyped(u.trn[t]) /\ u.trn[t].reservedBlocks = R
  BY <1>1 DEF Typed, TrainTyped
<1>3. \A o \in Train : TrainTyped(u.trn[o]) BY <1>1, <1>2 DEF Typed
<1>4. Typed(u) BY <1>1, <1>3 DEF Typed
<1>5. Stands(v, u) BY <1>1 DEF Stands
<1>6. \A s \in Switch : SteersAt(v, u, t, s) BY <1>1, DetectionBlock DEF SteersAt, Holders
<1>7. ASSUME Recorded(v), NEW b \in Block, NEW o \in Train, o \in Holders(u, b)
      PROVE  b \in u.trn[o].reservedBlocks
  <2>1. CASE o # t BY <1>1, <1>7, <2>1 DEF Recorded, Holders
  <2>2. CASE o = t BY <1>1, <1>2, <1>7, <2>2 DEF Recorded, Holders
  <2> QED BY <2>1, <2>2
<1>8. ASSUME Aligned(v) PROVE Aligned(u)
  <2> SUFFICES ASSUME NEW p \in Path PROVE PathAligned(u, p) BY DEF Aligned
  <2>1. PathAligned(v, p) BY <1>8 DEF Aligned
  <2>2. \A b \in PathBlocks(p) : u.blk[b].dir = v.blk[b].dir BY <1>1 DEF PathBlocks
  <2>3. v.path[p].Entrance \in PathBlocks(p) /\ v.path[p].Exit \in PathBlocks(p)
    BY DEF Typed, PathTyped
  <2>4. \A b \in PathBlocks(p), d \in {NEXT, PREV} : NextLink(u, b, d) = NextLink(v, b, d)
    BY <2>2 DEF NextLink, End
  <2> QED BY <1>1, <2>1, <2>2, <2>3, <2>4 DEF PathAligned
<1>9. Recorded(v) => Recorded(u) BY <1>7 DEF Recorded
<1> QED BY <1>4, <1>5, <1>6, <1>8, <1>9 DEF Steers, u

\* Block::reserve adds a train to those of the block, and changes nothing else but aspects.
LEMMA ReservedForSame ==
  ASSUME NEW B, BlockTyped(B), NEW t \in Train, NEW C, C = ReservedFor(B, t)
  PROVE  /\ BlockTyped(C) /\ C.dir = B.dir /\ C.blocked = B.blocked /\ C.train = B.train
         /\ C.trainFollowingChecked = B.trainFollowingChecked
         /\ ToSet(C.reservedBy) = ToSet(B.reservedBy) \cup {t}
<1> DEFINE list == IF t \in ToSet(B.reservedBy) THEN B.reservedBy ELSE Append(B.reservedBy, t)
           held == [B EXCEPT !.reservedBy = list]
<1>1. list \in Seq(Train) /\ ToSet(list) = ToSet(B.reservedBy) \cup {t}
  BY Appended DEF BlockTyped
<1>2. C = IF B.blocked THEN held
          ELSE [held EXCEPT !.state = IF @ >= PROCEED THEN RESERVED ELSE @, !.reverse = DANGER]
  BY DEF ReservedFor
<1> HIDE DEF list
<1> QED BY <1>1, <1>2 DEF BlockTyped

\* Block::dereserve takes trains away, and changes nothing else but aspects.
LEMMA FreedOfSame ==
  ASSUME NEW B, BlockTyped(B), NEW T, NEW C, C = FreedOf(B, T)
  PROVE  /\ BlockTyped(C) /\ C.dir = B.dir /\ C.blocked = B.blocked /\ C.train = B.train
         /\ C.trainFollowingChecked = B.trainFollowingChecked
         /\ ToSet(C.reservedBy) = ToSet(B.reservedBy) \ T
<1> DEFINE list == Without(B.reservedBy, T)
           freed == [B EXCEPT !.reservedBy = list]
<1>1. list \in Seq(Train) /\ ToSet(list) = ToSet(B.reservedBy) \ T
  BY WithoutSet DEF BlockTyped
<1>2. C = IF T = {} \/ freed.reservedBy # <<>> \/ B.blocked THEN freed
          ELSE [freed EXCEPT !.state = PROCEED, !.reverse = PROCEED]
  BY DEF FreedOf
<1> HIDE DEF list
<1> QED BY <1>1, <1>2 DEF BlockTyped

\* Train::reserveBlock, of a set of blocks
LEMMA ReserveBlocksSteers ==
  ASSUME NEW v, Typed(v), NEW S \in SUBSET Block, NEW t \in Train
  PROVE  Steers(v, ReserveBlocks(v, S, t), t)
<1> DEFINE F == [b \in Block |-> IF b \in S THEN ReservedFor(v.blk[b], t) ELSE v.blk[b]]
           R == v.trn[t].reservedBlocks \cup S
<1>1. ReserveBlocks(v, S, t) = WithReservations(v, F, t, R)
  BY DEF ReserveBlocks, WithReservations
<1>2. ASSUME NEW b \in Block
      PROVE  /\ BlockTyped(F[b]) /\ F[b].dir = v.blk[b].dir
             /\ F[b].blocked = v.blk[b].blocked /\ F[b].train = v.blk[b].train
             /\ F[b].trainFollowingChecked = v.blk[b].trainFollowingChecked
             /\ ToSet(F[b].reservedBy) \ {t} = Holders(v, b) \ {t}
             /\ t \in ToSet(F[b].reservedBy) =>
                          b \in R \/ (t \in Holders(v, b) /\ b \notin v.trn[t].reservedBlocks)
  <2>1. BlockTyped(v.blk[b]) BY DEF Typed
  <2>2. F[b] = IF b \in S THEN ReservedFor(v.blk[b], t) ELSE v.blk[b] OBVIOUS
  <2>3. R = v.trn[t].reservedBlocks \cup S OBVIOUS
  <2> HIDE DEF F, R
  <2>4. CASE b \in S BY <2>1, <2>2, <2>3, <2>4, ReservedForSame DEF Holders
  <2>5. CASE b \notin S BY <2>1, <2>2, <2>3, <2>5 DEF Holders
  <2> QED BY <2>4, <2>5
<1>3. R \subseteq Block BY DEF Typed, TrainTyped
<1>4. DOMAIN F = Block OBVIOUS
<1> HIDE DEF F, R
<1> QED BY <1>1, <1>2, <1>3, <1>4, ReservationsPut

\* Train::dereserveBlock, of a set of blocks
LEMMA DereserveBlocksSteers ==
  ASSUME NEW v, Typed(v), NEW S, NEW t
  PROVE  Steers(v, DereserveBlocks(v, S, t), t)
<1> DEFINE F == [b \in Block |-> IF b \in S THEN FreedOf(v.blk[b], {t}) ELSE v.blk[b]]
           R == v.trn[t].reservedBlocks \ S
<1>1. DereserveBlocks(v, S, t) = WithReservations(v, F, t, R)
  BY DEF DereserveBlocks, WithReservations
<1>2. ASSUME NEW b \in Block
      PROVE  /\ BlockTyped(F[b]) /\ F[b].dir = v.blk[b].dir
             /\ F[b].blocked = v.blk[b].blocked /\ F[b].train = v.blk[b].train
             /\ F[b].trainFollowingChecked = v.blk[b].trainFollowingChecked
             /\ ToSet(F[b].reservedBy) \ {t} = Holders(v, b) \ {t}
             /\ t \in ToSet(F[b].reservedBy) =>
                          b \in R \/ (t \in Holders(v, b) /\ b \notin v.trn[t].reservedBlocks)
  <2>1. BlockTyped(v.blk[b]) BY DEF Typed
  <2>2. F[b] = IF b \in S THEN FreedOf(v.blk[b], {t}) ELSE v.blk[b] OBVIOUS
  <2>3. R = v.trn[t].reservedBlocks \ S OBVIOUS
  <2> HIDE DEF F, R
  <2>4. CASE b \in S BY <2>1, <2>2, <2>3, <2>4, FreedOfSame DEF Holders
  <2>5. CASE b \notin S BY <2>1, <2>2, <2>3, <2>5 DEF Holders
  <2> QED BY <2>4, <2>5
<1>3. t \in Train => R \subseteq Block BY DEF Typed, TrainTyped
<1>4. DOMAIN F = Block OBVIOUS
<1> HIDE DEF F, R
<1> QED BY <1>1, <1>2, <1>3, <1>4, ReservationsPut

\* Path::reservedTrains is written.
LEMMA PathReservedTrainsKeeps ==
  ASSUME NEW v, Typed(v), NEW p, NEW R
  PROVE  Keeps(v, [v EXCEPT !.path[p].reservedTrains = R])
<1> DEFINE P == [v.path[p] EXCEPT !.reservedTrains = R]
<1>1. p \in Path => PathTyped(p, P) /\ P.Entrance = v.path[p].Entrance /\ P.Exit = v.path[p].Exit
  BY DEF Typed, PathTyped
<1>2. [v EXCEPT !.path[p].reservedTrains = R] = [v EXCEPT !.path[p] = P] OBVIOUS
<1> HIDE DEF P
<1> QED BY <1>1, <1>2, PathPut

\* The blocks beyond the exit of a path that is reserved are looked at again.
LEMMA RefreshKeeps ==
  ASSUME NEW v, Typed(v), NEW p \in Path
  PROVE  Keeps(v, RefreshBeyondExit(v, p))
<1> DEFINE n == v.blk[v.path[p].Exit].N
<1>1. n \in Seq(Block) BY DEF Typed, PathTyped, BlockTyped, PathBlocks
<1>2. CASE n = <<>> BY <1>2, KeepsItself DEF RefreshBeyondExit
<1>3. CASE n # <<>>
  <2>1. n[1] \in Block BY <1>1, <1>3
  <2> QED BY <1>3, <2>1, RailStateKeeps DEF RefreshBeyondExit
<1> QED BY <1>2, <1>3

\* The blocks of a path are blocks.
LEMMA PathBlocksTyped == \A p : PathBlocks(p) \in SUBSET Block
BY DEF PathBlocks

\* Path::reserve reserves blocks of its path for the train.
LEMMA BlocksReserved ==
  ASSUME NEW v, Typed(v), NEW p \in Path, NEW t \in Train, NEW S \in SUBSET Block, NEW R
  PROVE  Steers(v, RefreshBeyondExit(ReserveBlocks([v EXCEPT !.path[p].reservedTrains = R], S, t), p), t)
<1> DEFINE u == [v EXCEPT !.path[p].reservedTrains = R]
           x == ReserveBlocks(u, S, t)
<1>1. Keeps(v, u) BY PathReservedTrainsKeeps
<1>2. Steers(v, u, t) /\ Typed(u) BY <1>1, KeepsSteers DEF Keeps
<1> HIDE DEF u
<1>3. Steers(u, x, t) /\ Typed(x) BY <1>2, ReserveBlocksSteers DEF Steers
<1> HIDE DEF x
<1>4. Keeps(x, RefreshBeyondExit(x, p)) BY <1>3, RefreshKeeps
<1>5. Steers(v, RefreshBeyondExit(x, p), t) BY <1>2, <1>3, <1>4, SteersChain, SteersKeeps
<1> QED BY <1>5 DEF x, u

\* It reserves all of them,
LEMMA PathReserveSteers ==
  ASSUME NEW v, Typed(v), NEW p \in Path, NEW t \in Train
  PROVE  Steers(v, PathReserve(v, p, t), t)
BY BlocksReserved, PathBlocksTyped DEF PathReserve

AheadTurn(a, n, x) == AheadStep(a, x)
AheadGood(a, n, x) == a.last \in Block /\ a.seen \in SUBSET Block
AheadLoop == INSTANCE Loops WITH Step <- AheadTurn, Good <- AheadGood

\* The blocks ahead of the train in its path are blocks.
LEMMA AheadInPathTyped ==
  ASSUME NEW v, Typed(v), NEW p, NEW b \in Block
  PROVE  AheadInPath(v, p, b) \in SUBSET Block
<1> DEFINE x == [world |-> v, path |-> p]
           a0 == [last |-> b, seen |-> {}]
<1>1. AheadGood(a0, 0, x) BY DEF AheadGood
<1>2. ASSUME NEW a, AheadGood(a, 0, x) PROVE AheadGood(AheadStep(a, x), 0, x)
  <2> DEFINE N == v.blk[a.last].N
  <2>1. N \in Seq(Block) /\ (N # <<>> => N[1] \in Block) BY <1>2 DEF AheadGood, Typed, BlockTyped
  <2>2. AheadStep(a, x) = IF N = <<>> \/ PathOf[N[1]] # p THEN a
                          ELSE [last |-> N[1], seen |-> a.seen \cup {N[1]}]
    BY DEF AheadStep
  <2> HIDE DEF N
  <2> QED BY <1>2, <2>1, <2>2 DEF AheadGood
<1>3. Cardinality(Block) \in Nat BY RailAssumption, FS_CardinalityType
<1>4. AheadInPath(v, p, b) = AheadLoop!At(a0, x, Cardinality(Block)).seen
  BY DEF AheadInPath, AheadLoop!At, AheadTurn
<1> HIDE DEF a0, x
<1>5. AheadGood(AheadLoop!At(a0, x, Cardinality(Block)), Cardinality(Block), x)
  BY <1>1, <1>2, <1>3, AheadLoop!Kept DEF AheadTurn, AheadGood
<1> QED BY <1>4, <1>5 DEF AheadGood

\* or those ahead of the train alone (Path::reserve from a block on).
LEMMA PathReserveFromSteers ==
  ASSUME NEW v, Typed(v), NEW p \in Path, NEW t \in Train, NEW b \in Block
  PROVE  Steers(v, PathReserveFrom(v, p, t, b), t)
BY BlocksReserved, AheadInPathTyped DEF PathReserveFrom

\* Path::dereserve frees them.
LEMMA PathDereserveSteers ==
  ASSUME NEW v, Typed(v), NEW p, NEW t
  PROVE  Steers(v, PathDereserve(v, p, t), t)
<1>1. Keeps(v, TrainAtEnd(v, p, t)) BY PathReservedTrainsKeeps DEF TrainAtEnd
<1>2. Steers(v, TrainAtEnd(v, p, t), t) /\ Typed(TrainAtEnd(v, p, t)) BY <1>1, KeepsSteers DEF Keeps
<1> QED BY <1>2, DereserveBlocksSteers, SteersChain DEF PathDereserve

-----------------------------------------------------------------------------
(* Turning blocks and paths *)

\* Block::reverse of an object
LEMMA ReversedTyped ==
  \A B : BlockTyped(B) =>
    /\ BlockTyped(Reversed(B)) /\ Reversed(B).dir = 1 - B.dir
    /\ Reversed(B).blocked = B.blocked /\ Reversed(B).train = B.train
    /\ Reversed(B).trainFollowingChecked = B.trainFollowingChecked
    /\ Reversed(B).reservedBy = B.reservedBy
BY DEF Reversed, BlockTyped, NEXT, PREV

\* What was behind a turned block is ahead of it.
LEMMA TurnedLinks ==
  ASSUME NEW v, Typed(v), NEW u, NEW b \in Block, u.blk[b].dir = 1 - v.blk[b].dir
  PROVE  NextLink(u, b, NEXT) = NextLink(v, b, PREV) /\ NextLink(u, b, PREV) = NextLink(v, b, NEXT)
<1>1. v.blk[b].dir \in {0, 1} BY DEF Typed, BlockTyped, NEXT, PREV
<1>2. CASE v.blk[b].dir = 0 BY <1>2 DEF NextLink, End, NEXT, PREV
<1>3. CASE v.blk[b].dir = 1 BY <1>3 DEF NextLink, End, NEXT, PREV
<1> QED BY <1>1, <1>2, <1>3

\* A train of a path that is turned faces back, and gives up what it held there.
LEMMA FacingBackTyped ==
  ASSUME NEW T, TrainTyped(T), NEW p
  PROVE  /\ TrainTyped(FacingBack(T, p))
         /\ FacingBack(T, p).reservedBlocks = T.reservedBlocks \ PathBlocks(p)
<1>1. Reverse(T.det) \in Seq(Block) /\ Reverse(T.det) # <<>> /\ Last(T.det) \in Block
  BY DEF TrainTyped, Reverse, Last
<1> QED BY <1>1 DEF FacingBack, TrainTyped

\* Path::reverse turns all blocks of a path and swaps its ends, so the path stays aligned.
LEMMA PathReverseSteers ==
  ASSUME NEW v, Typed(v), NEW p \in Path, NEW t,
         PathsApart => \A b \in PathBlocks(p) : Type[b] # "NOSTOP"
  PROVE  Steers(v, PathReverse(v, p), t)
<1> DEFINE u == PathReverse(v, p)
           F == BlocksReversed(v, p)
           P == v.path[p]
           G == [o \in Train |-> IF o \in P.trains THEN FacingBack(v.trn[o], p) ELSE v.trn[o]]
<1>1. CASE \E o \in P.trains : ~Standing(v, o)
  BY <1>1, KeepsItself, KeepsSteers DEF PathReverse
<1>2. CASE ~\E o \in P.trains : ~Standing(v, o)
  <2>0. v.path[p] = P /\ PathTyped(p, P) BY DEF Typed
  <2>1. /\ u.blk = F /\ u.trn = G /\ u.sw = v.sw /\ u.q = v.q /\ u.tq = v.tq
        /\ u.trainq = v.trainq /\ DOMAIN u = DOMAIN v
        /\ DOMAIN u.path = Path
        /\ \A q \in Path : q # p => u.path[q] = v.path[q]
    BY <1>2 DEF PathReverse, Typed
  <2>2. PathTyped(p, u.path[p]) /\ u.path[p].Entrance = P.Exit /\ u.path[p].Exit = P.Entrance
    BY <1>2 DEF PathReverse, Typed, PathTyped
  <2> HIDE DEF u
  <2>3. ASSUME NEW b \in Block
        PROVE  /\ BlockTyped(F[b]) /\ F[b].blocked = v.blk[b].blocked /\ F[b].train = v.blk[b].train
               /\ F[b].trainFollowingChecked = v.blk[b].trainFollowingChecked
               /\ F[b].dir = IF b \in PathBlocks(p) THEN 1 - v.blk[b].dir ELSE v.blk[b].dir
               /\ ToSet(F[b].reservedBy) = IF b \in PathBlocks(p) THEN Holders(v, b) \ P.trains
                                           ELSE Holders(v, b)
    <3> HIDE DEF P
    <3>1. BlockTyped(v.blk[b]) BY DEF Typed
    <3>2. CASE b \in PathBlocks(p)
      <4>1. F[b] = FreedOf(Reversed(v.blk[b]), P.trains) BY <3>2 DEF BlocksReversed, P
      <4>2. BlockTyped(Reversed(v.blk[b])) BY <3>1, ReversedTyped
      <4> HIDE DEF F
      <4> QED BY <3>1, <3>2, <4>1, <4>2, ReversedTyped, FreedOfSame DEF Holders
    <3>3. CASE b \notin PathBlocks(p)
      <4>1. F[b] = v.blk[b] BY <3>3 DEF BlocksReversed
      <4> HIDE DEF F
      <4> QED BY <3>1, <3>3, <4>1 DEF Holders
    <3> QED BY <3>2, <3>3
  <2>4. DOMAIN F = Block BY DEF BlocksReversed
  <2>5. ASSUME NEW o \in Train
        PROVE  /\ TrainTyped(G[o])
               /\ G[o].reservedBlocks = IF o \in P.trains THEN v.trn[o].reservedBlocks \ PathBlocks(p)
                                        ELSE v.trn[o].reservedBlocks
    <3>1. G[o] = IF o \in P.trains THEN FacingBack(v.trn[o], p) ELSE v.trn[o] OBVIOUS
    <3> HIDE DEF G, P
    <3> QED BY <3>1, FacingBackTyped DEF Typed
  <2>6. DOMAIN G = Train OBVIOUS
  <2> HIDE DEF F, G, P
  <2>7. \A q \in Path : PathTyped(q, u.path[q]) BY <2>1, <2>2 DEF Typed
  <2>8. Typed(u) BY <2>1, <2>3, <2>4, <2>5, <2>6, <2>7 DEF Typed
  <2>9. Stands(v, u) BY <2>1, <2>3 DEF Stands
  <2>10. \A s \in Switch : SteersAt(v, u, t, s)
    BY <2>1, <2>3, DetectionBlock DEF SteersAt, Holders, PathsApart, PathBlocks
  <2>11. ASSUME Recorded(v), NEW b \in Block, NEW o \in Train, o \in Holders(u, b)
         PROVE  b \in u.trn[o].reservedBlocks
    BY <2>1, <2>3, <2>5, <2>11 DEF Recorded, Holders
  <2>12. ASSUME Aligned(v), NEW q \in Path PROVE PathAligned(u, q)
    <3>1. PathAligned(v, q) BY <2>12 DEF Aligned
    <3>2. CASE q = p
      <4>1. P.Entrance \in PathBlocks(p) /\ P.Exit \in PathBlocks(p) BY <2>0 DEF PathTyped
      <4>2. \A b \in PathBlocks(p) : b \in Block /\ u.blk[b].dir = 1 - v.blk[b].dir
        BY <2>1, <2>3 DEF PathBlocks
      <4>3. /\ NextLink(u, P.Exit, PREV) = NextLink(v, P.Exit, NEXT)
            /\ NextLink(u, P.Entrance, NEXT) = NextLink(v, P.Entrance, PREV)
        BY <4>1, <4>2, TurnedLinks
      <4>4. \A b, c \in PathBlocks(p) : u.blk[b].dir = u.blk[c].dir
        BY <3>1, <3>2, <4>2 DEF PathAligned
      <4> QED BY <2>0, <2>2, <3>1, <3>2, <4>3, <4>4 DEF PathAligned
    <3>3. CASE q # p
      <4>1. u.path[q] = v.path[q] /\ PathTyped(q, v.path[q]) BY <2>1, <3>3 DEF Typed
      <4>2. \A b \in PathBlocks(q) : u.blk[b].dir = v.blk[b].dir
        BY <2>1, <2>3, <3>3 DEF PathBlocks
      <4>3. \A b \in PathBlocks(q), d \in {NEXT, PREV} : NextLink(u, b, d) = NextLink(v, b, d)
        BY <4>2 DEF NextLink, End
      <4> QED BY <3>1, <4>1, <4>2, <4>3 DEF PathAligned, PathTyped
    <3> QED BY <3>2, <3>3
  <2>13. Steers(v, u, t) BY <2>8, <2>9, <2>10, <2>11, <2>12 DEF Steers, Recorded, Aligned
  <2> QED BY <2>13 DEF u
<1> QED BY <1>1, <1>2

\* The path is turned if the train would enter it at its exit.
LEMMA TurnSteers ==
  ASSUME NEW v, Typed(v), NEW b \in Block, NEW prevB, NEW t, PathsApart => Type[b] = "NOSTOP"
  PROVE  Steers(v, Turn(v, b, prevB), t)
<1> DEFINE u == [v EXCEPT !.blk[b] = Reversed(@)]
<1>1. CASE v.blk[b].dir = v.blk[prevB].dir BY <1>1, KeepsItself, KeepsSteers DEF Turn
<1>2. CASE v.blk[b].dir # v.blk[prevB].dir
  <2>1. /\ u.path = v.path /\ u.trn = v.trn /\ u.sw = v.sw /\ u.q = v.q /\ u.tq = v.tq
        /\ u.trainq = v.trainq /\ DOMAIN u = DOMAIN v
        /\ DOMAIN u.blk = Block /\ u.blk[b] = Reversed(v.blk[b])
        /\ \A c \in Block : c # b => u.blk[c] = v.blk[c]
    BY DEF Typed
  <2> HIDE DEF u
  <2>2. /\ BlockTyped(u.blk[b]) /\ u.blk[b].blocked = v.blk[b].blocked
        /\ u.blk[b].train = v.blk[b].train
        /\ u.blk[b].trainFollowingChecked = v.blk[b].trainFollowingChecked
        /\ u.blk[b].reservedBy = v.blk[b].reservedBy /\ u.blk[b].dir = 1 - v.blk[b].dir
    BY <2>1, ReversedTyped DEF Typed
  <2>3. \A c \in Block : BlockTyped(u.blk[c]) BY <2>1, <2>2 DEF Typed
  <2>4. Typed(u) BY <2>1, <2>3 DEF Typed
  <2>5. Stands(v, u) BY <2>1, <2>2 DEF Stands
  <2>6. \A c \in Block : u.blk[c].reservedBy = v.blk[c].reservedBy BY <2>1, <2>2
  <2>7. \A s \in Switch : SteersAt(v, u, t, s) BY <2>1, <2>6, DetectionBlock DEF SteersAt, Holders
  <2>8. Recorded(v) => Recorded(u) BY <2>1, <2>6 DEF Recorded, Holders
  <2>9. ASSUME PathsApart, Aligned(v), NEW q \in Path PROVE PathAligned(u, q)
    <3>1. PathAligned(v, q) /\ PathTyped(q, v.path[q]) BY <2>9 DEF Aligned, Typed
    <3>2. CASE b \in PathBlocks(q)
      <4>1. q # None BY RailAssumption
      <4>2. PathBlocks(q) = {b} BY <2>9, <3>2, <4>1 DEF PathsApart, PathBlocks
      <4>3. v.path[q].Entrance = b /\ v.path[q].Exit = b BY <3>1, <4>2 DEF PathTyped
      <4>4. NextLink(u, b, NEXT) = NextLink(v, b, PREV) /\ NextLink(u, b, PREV) = NextLink(v, b, NEXT)
        BY <2>2, TurnedLinks
      <4> QED BY <2>1, <3>1, <4>2, <4>3, <4>4 DEF PathAligned
    <3>3. CASE b \notin PathBlocks(q)
      <4>1. \A c \in PathBlocks(q) : u.blk[c].dir = v.blk[c].dir BY <2>1, <3>3 DEF PathBlocks
      <4>2. \A c \in PathBlocks(q), d \in {NEXT, PREV} : NextLink(u, c, d) = NextLink(v, c, d)
        BY <4>1 DEF NextLink, End
      <4> QED BY <2>1, <3>1, <4>1, <4>2 DEF PathAligned, PathTyped
    <3> QED BY <3>2, <3>3
  <2>10. Steers(v, u, t) BY <2>4, <2>5, <2>7, <2>8, <2>9 DEF Steers, Aligned
  <2> QED BY <1>2, <2>10 DEF Turn, u
<1> QED BY <1>1, <1>2

-----------------------------------------------------------------------------
(* The walks of the switch solver *)

\* Where a walk of the switch solver is
Walking(a) == {"w", "link", "from"} \subseteq DOMAIN a /\ a.link \in Links \cup {Ended}

\* A walk comes from port to port,
LEMMA SwitchLinks ==
  ASSUME NEW s \in Switch, NEW port \in {"app", "str", "div"}
  PROVE  Link[<<s, port>>] \in Links
BY DEF Links, Ports

\* Whatever it comes to is a switch, a block where no train may stop, or one with a path.
LEMMA WalkLinks ==
  ASSUME NEW a, Walking(a)
  PROVE  /\ AtSwitch(a) => /\ a.link.to \in Switch /\ Detection[a.link.to] \in Block
                           /\ \A v : Onward(v, a.link) \in Links
         /\ AtNoStop(a) => /\ a.link.to \in Block /\ Type[a.link.to] = "NOSTOP"
                           /\ Across(a) \in Links
         /\ AtStop(a) => /\ a.link.to \in Block /\ PathOf[a.link.to] \in Path
                         /\ Type[a.link.to] # "NOSTOP"
<1>1. a.link.type # "E" => a.link \in Links BY DEF Walking, Ended
<1>2. ASSUME AtSwitch(a)
      PROVE  /\ a.link.to \in Switch /\ Detection[a.link.to] \in Block
             /\ \A v : Onward(v, a.link) \in Links
  <2>1. a.link.to \in Switch BY <1>1, <1>2, LinksTyped DEF AtSwitch
  <2>2. \A v : Onward(v, a.link) \in Links BY <2>1, SwitchLinks DEF Onward, SetPort
  <2> QED BY <2>1, <2>2, DetectionBlock
<1>3. a.link.type = "R" => a.link.to \in Block BY <1>1, LinksTyped
<1>4. ASSUME a.link.to \in Block PROVE Across(a) \in Links
  BY <1>4 DEF Across, OtherPort, Links, Ports
<1>5. \A b \in Block : Type[b] # "NOSTOP" => PathOf[b] \in Path BY RailAssumption
<1> QED BY <1>2, <1>3, <1>4, <1>5 DEF AtNoStop, AtStop

\* The bound of the walks is a number.
LEMMA StepsNat == Steps \in Nat
<1> DEFINE S == {x \in Rails : x \in Block => Type[x] = "NOSTOP"}
<1>1. IsFiniteSet(Rails) BY RailAssumption, FS_Union DEF Rails
<1>2. S \in SUBSET Rails OBVIOUS
<1> HIDE DEF S
<1>3. Cardinality(S) \in Nat BY <1>1, <1>2, FS_Subset, FS_CardinalityType
<1> QED BY <1>3 DEF Steps, S

SetTurn(a, n, y) == SetStep(a, y.x)
SetGood(a, n, y) == Walking(a) /\ "ok" \in DOMAIN a /\ Steers(y.world, a.w, y.x.train)
SetLoop == INSTANCE Loops WITH Step <- SetTurn, Good <- SetGood

\* SwitchSolver::setPath throws switches and turns paths for train t on its way.
LEMMA SetPathSteers ==
  ASSUME NEW v, Typed(v), NEW t, NEW link \in Links, NEW from, NEW found, NEW cont
  PROVE  LET r == SetPath(v, t, link, from, found, cont)
         IN {"w", "ok"} \subseteq DOMAIN r /\ Steers(v, r.w, t)
<1> DEFINE x == [train |-> t, found |-> found, cont |-> cont]
           y == [x |-> x, world |-> v]
           a0 == [w |-> v, link |-> link, from |-> from, ok |-> FALSE]
<1>1. SetGood(a0, 0, y) BY KeepsItself, KeepsSteers DEF SetGood, Walking
<1>2. ASSUME NEW a, SetGood(a, 0, y) PROVE SetGood(SetStep(a, x), 0, y)
  <2>1. Walking(a) /\ "ok" \in DOMAIN a /\ Steers(v, a.w, t) /\ Typed(a.w)
    BY <1>2 DEF SetGood, Steers
  <2>2. ASSUME AtSwitch(a) PROVE SetGood(SetAtSwitch(a, x.found), 0, y)
    <3> DEFINE s == a.link.to
               j == Chosen(x.found[s])
               port == IF a.link.type = "s" THEN "app" ELSE IF j = 0 THEN "str" ELSE "div"
    <3>1. s \in Switch BY <2>1, <2>2, WalkLinks
    <3>2. SetAtSwitch(a, x.found) = [w |-> SwitchSetState(a.w, s, j), link |-> Link[<<s, port>>],
                                     from |-> s, ok |-> TRUE]
      BY DEF SetAtSwitch
    <3> HIDE DEF s, j
    <3>3. Link[<<s, port>>] \in Links BY <3>1, SwitchLinks
    <3>4. Steers(v, SwitchSetState(a.w, s, j), t)
      BY <2>1, <3>1, SwitchSetStateSteers, SteersChain
    <3> QED BY <3>2, <3>3, <3>4 DEF SetGood, Walking
  <2>3. SetGood(SetAtStop(a, x.cont), 0, y)
    BY <2>1 DEF SetAtStop, SetGood, Walking
  <2>4. AtNoStop(a) => SetGood([a EXCEPT !.link = Across(a), !.from = a.link.to], 0, y)
    BY <2>1, WalkLinks DEF SetGood, Walking
  <2>5. SetGood([a EXCEPT !.link = Ended], 0, y) BY <2>1 DEF SetGood, Walking
  <2> HIDE DEF x, y
  <2> QED BY <1>2, <2>2, <2>3, <2>4, <2>5 DEF SetStep
<1>3. Steps \in Nat BY StepsNat
<1>4. SetPath(v, t, link, from, found, cont) = SetLoop!At(a0, y, Steps)
  BY DEF SetPath, SetLoop!At, SetTurn
<1>5. \A a, n : SetTurn(a, n, y) = SetStep(a, x) BY DEF SetTurn
<1>6. y.world = v /\ y.x.train = t OBVIOUS
<1> HIDE DEF x, y, a0
<1>7. SetGood(SetLoop!At(a0, y, Steps), Steps, y)
  BY <1>1, <1>2, <1>3, <1>5, SetLoop!Kept DEF SetGood
<1> QED BY <1>4, <1>6, <1>7 DEF SetGood, Walking

WrongTurn(a, n, x) == WrongStep(a, x)
WrongGood(a, n, x) == a.link \in Links
WrongLoop == INSTANCE Loops WITH Step <- WrongTurn, Good <- WrongGood

\* The block SwitchSolver::setWrong marks is one, or none.
LEMMA WrongBlockTyped ==
  ASSUME NEW v, NEW link \in Links, NEW from
  PROVE  WrongBlock(v, link, from) \in Maybe(Block)
<1> DEFINE a0 == [link |-> link, from |-> from]
<1>1. WrongGood(a0, 0, v) BY DEF WrongGood
<1>2. ASSUME NEW a, WrongGood(a, 0, v) PROVE WrongGood(WrongStep(a, v), 0, v)
  <2>1. ASSUME a.link.type \in {"S", "s"} PROVE Onward(v, a.link) \in Links
    <3>1. a.link.to \in Switch BY <1>2, <2>1, LinksTyped DEF WrongGood
    <3> QED BY <3>1, SwitchLinks DEF Onward, SetPort
  <2> QED BY <1>2, <2>1 DEF WrongGood, WrongStep, ReachStep
<1>3. SwitchSteps \in Nat BY RailAssumption, FS_CardinalityType DEF SwitchSteps
<1>4. WrongBlock(v, link, from) = WrongAt(WrongLoop!At(a0, v, SwitchSteps).link)
  BY DEF WrongBlock, WrongLoop!At, WrongTurn
<1> HIDE DEF a0
<1>5. WrongGood(WrongLoop!At(a0, v, SwitchSteps), SwitchSteps, v)
  BY <1>1, <1>2, <1>3, WrongLoop!Kept DEF WrongTurn, WrongGood
<1> QED BY <1>4, <1>5, LinksTyped, DetectionBlock DEF WrongAt, BlockAt, WrongGood, Maybe

\* Flags of a block that only its processing reads may be written.
LEMMA SwitchWrongKeeps ==
  ASSUME NEW v, Typed(v), NEW b, NEW x
  PROVE  /\ Keeps(v, [v EXCEPT !.blk[b].switchWrong = x])
         /\ Keeps(v, [v EXCEPT !.blk[b].recalculate = x])
         /\ Keeps(v, [v EXCEPT !.blk[b].doneAll = x])
         /\ Keeps(v, [v EXCEPT !.blk[b].switchChecked = x])
<1> DEFINE B1 == [v.blk[b] EXCEPT !.switchWrong = x]
           B2 == [v.blk[b] EXCEPT !.recalculate = x]
           B3 == [v.blk[b] EXCEPT !.doneAll = x]
           B4 == [v.blk[b] EXCEPT !.switchChecked = x]
<1>1. b \in Block => /\ BlockTyped(B1) /\ SameBlock(v.blk[b], B1)
                     /\ BlockTyped(B2) /\ SameBlock(v.blk[b], B2)
                     /\ BlockTyped(B3) /\ SameBlock(v.blk[b], B3)
                     /\ BlockTyped(B4) /\ SameBlock(v.blk[b], B4)
  BY DEF Typed, BlockTyped, SameBlock
<1>2. /\ [v EXCEPT !.blk[b].switchWrong = x] = [v EXCEPT !.blk[b] = B1]
      /\ [v EXCEPT !.blk[b].recalculate = x] = [v EXCEPT !.blk[b] = B2]
      /\ [v EXCEPT !.blk[b].doneAll = x] = [v EXCEPT !.blk[b] = B3]
      /\ [v EXCEPT !.blk[b].switchChecked = x] = [v EXCEPT !.blk[b] = B4]
  OBVIOUS
<1> HIDE DEF B1, B2, B3, B4
<1> QED BY <1>1, <1>2, BlockPut

\* SwitchSolver::setWrong changes no more.
LEMMA SetWrongKeeps ==
  ASSUME NEW v, Typed(v), NEW link \in Links, NEW from
  PROVE  Keeps(v, SetWrong(v, link, from))
<1> DEFINE b == WrongBlock(v, link, from)
           u == [v EXCEPT !.blk[b].switchWrong = TRUE]
<1>1. b \in Maybe(Block) BY WrongBlockTyped
<1>2. SetWrong(v, link, from) = IF b = None THEN v ELSE RailState(u, b) BY DEF SetWrong
<1>3. Keeps(v, u) BY SwitchWrongKeeps
<1> HIDE DEF b, u
<1>4. b # None => b \in Block BY <1>1 DEF Maybe
<1>5. b # None => Keeps(u, RailState(u, b)) BY <1>3, <1>4, RailStateKeeps DEF Keeps
<1> QED BY <1>2, <1>3, <1>5, KeepsItself, KeepsChain

FreeTurn(a, n, y) == DereserveStep(a, y.train)
FreeGood(a, n, y) == Walking(a) /\ Steers(y.world, a.w, y.train)
FreeLoop == INSTANCE Loops WITH Step <- FreeTurn, Good <- FreeGood

\* A block on the way is freed of the train.
LEMMA FreeOverSteers ==
  ASSUME NEW v, Typed(v), NEW b, NEW t
  PROVE  Steers(v, FreeOver(v, b, t), t)
<1> DEFINE u == IF IsReservedBy(v, b, t) THEN DereserveBlocks(v, {b}, t) ELSE v
<1>1. Steers(v, u, t) /\ Typed(u)
  BY KeepsItself, KeepsSteers, DereserveBlocksSteers DEF Steers
<1>2. FreeOver(v, b, t) = [u EXCEPT !.blk[b].switchWrong = FALSE] BY DEF FreeOver
<1> HIDE DEF u
<1>3. Keeps(u, [u EXCEPT !.blk[b].switchWrong = FALSE]) BY <1>1, SwitchWrongKeeps, Zenon
<1>4. Keeps(u, FreeOver(v, b, t)) BY <1>2, <1>3, Zenon
<1> QED BY <1>1, <1>4, SteersKeeps

\* SwitchSolver::dereservePath frees the way of the train, and nobody else's.
LEMMA DereservePathSteers ==
  ASSUME NEW v, Typed(v), NEW t, NEW link \in Links, NEW from
  PROVE  Steers(v, DereservePath(v, t, link, from), t)
<1> DEFINE y == [train |-> t, world |-> v]
           a0 == [w |-> v, link |-> link, from |-> from]
<1>1. FreeGood(a0, 0, y) BY KeepsItself, KeepsSteers DEF FreeGood, Walking
<1>2. ASSUME NEW a, FreeGood(a, 0, y) PROVE FreeGood(DereserveStep(a, t), 0, y)
  <2> DEFINE x == a.link.to
             b == Detection[x]
  <2>1. Walking(a) /\ Steers(v, a.w, t) /\ Typed(a.w) BY <1>2 DEF FreeGood, Steers
  <2>2. ASSUME AtSwitch(a)
        PROVE  FreeGood([w |-> FreeOver(a.w, b, t), link |-> Onward(a.w, a.link), from |-> x], 0, y)
    <3>1. Onward(a.w, a.link) \in Links BY <2>1, <2>2, WalkLinks
    <3>2. Steers(v, FreeOver(a.w, b, t), t) BY <2>1, FreeOverSteers, SteersChain
    <3> HIDE DEF x, b
    <3> QED BY <3>1, <3>2 DEF FreeGood, Walking
  <2>3. AtNoStop(a) => FreeGood([a EXCEPT !.link = Across(a), !.from = x], 0, y)
    BY <2>1, WalkLinks DEF FreeGood, Walking
  <2>4. FreeGood([a EXCEPT !.w = FreeEnd(@, x, t), !.link = Ended], 0, y)
    <3>1. Steers(a.w, FreeEnd(a.w, x, t), t)
      BY <2>1, PathDereserveSteers, KeepsItself, KeepsSteers DEF FreeEnd
    <3>2. Steers(v, FreeEnd(a.w, x, t), t) BY <2>1, <3>1, SteersChain
    <3> QED BY <2>1, <3>2 DEF FreeGood, Walking
  <2> HIDE DEF y
  <2> QED BY <1>2, <2>2, <2>3, <2>4 DEF DereserveStep
<1>4. DereservePath(v, t, link, from) = FreeLoop!At(a0, y, Steps).w
  BY DEF DereservePath, FreeLoop!At, FreeTurn
<1>5. \A a, n : FreeTurn(a, n, y) = DereserveStep(a, t) BY DEF FreeTurn
<1>6. y.world = v /\ y.train = t OBVIOUS
<1> HIDE DEF y, a0
<1>7. FreeGood(FreeLoop!At(a0, y, Steps), Steps, y)
  BY <1>1, <1>2, <1>5, StepsNat, FreeLoop!Kept DEF FreeGood
<1> QED BY <1>4, <1>6, <1>7 DEF FreeGood

ReserveTurn(a, n, y) == ReserveStep(a, y.train)
ReserveGood(a, n, y) == Walking(a) /\ Steers(y.world, a.w, y.train)
ReserveLoop == INSTANCE Loops WITH Step <- ReserveTurn, Good <- ReserveGood

\* A block the way leads over is reserved.
LEMMA ReserveOverSteers ==
  ASSUME NEW v, Typed(v), NEW b \in Block, NEW t \in Train
  PROVE  Steers(v, ReserveOver(v, b, t), t)
<1> DEFINE u == IF IsReservedBy(v, b, t) THEN v ELSE ReserveBlocks(v, {b}, t)
<1>0. {b} \in SUBSET Block OBVIOUS
<1>1. Steers(v, u, t) /\ Typed(u)
  BY <1>0, KeepsItself, KeepsSteers, ReserveBlocksSteers DEF Steers
<1>2. ReserveOver(v, b, t) = [u EXCEPT !.blk[b].switchWrong = FALSE] BY DEF ReserveOver
<1> HIDE DEF u
<1>3. Keeps(u, [u EXCEPT !.blk[b].switchWrong = FALSE]) BY <1>1, SwitchWrongKeeps, Zenon
<1>4. Keeps(u, ReserveOver(v, b, t)) BY <1>2, <1>3, Zenon
<1> QED BY <1>1, <1>4, SteersKeeps

\* The path the way ends in is turned to the train, if nobody holds it, and reserved.
LEMMA ReserveEndSteers ==
  ASSUME NEW v, Typed(v), NEW b \in Block, Type[b] # "NOSTOP", NEW t \in Train
  PROVE  Steers(v, ReserveEnd(v, b, t), t)
<1> DEFINE p == PathOf[b]
           u == IF v.path[p].Entrance = b \/ v.path[p].Exit # b THEN v ELSE PathReverse(v, p)
<1>1. p \in Path /\ p # None BY RailAssumption
<1>2. PathsApart => \A c \in PathBlocks(p) : Type[c] # "NOSTOP"
  BY <1>1 DEF PathsApart, PathBlocks
<1>3. Steers(v, PathReverse(v, p), t) BY <1>1, <1>2, PathReverseSteers
<1>4. Steers(v, u, t) /\ Typed(u) BY <1>3, KeepsItself, KeepsSteers DEF Steers
<1>5. ReserveEnd(v, b, t) = IF Reserved(v, b) THEN v ELSE PathReserve(u, p, t) BY DEF ReserveEnd
<1> HIDE DEF u, p
<1>6. Steers(v, PathReserve(u, p, t), t) BY <1>1, <1>4, PathReserveSteers, SteersChain
<1> QED BY <1>5, <1>6, KeepsItself, KeepsSteers

\* SwitchSolver::reservePath reserves the way for the train.
LEMMA ReservePathSteers ==
  ASSUME NEW v, Typed(v), NEW t \in Train, NEW link \in Links, NEW tB
  PROVE  Steers(v, ReservePath(v, t, link, tB), t)
<1> DEFINE y == [train |-> t, world |-> v]
           a0 == [w |-> v, link |-> link, from |-> tB, last |-> tB]
<1>1. ReserveGood(a0, 0, y) BY KeepsItself, KeepsSteers DEF ReserveGood, Walking
<1>2. ASSUME NEW a, ReserveGood(a, 0, y) PROVE ReserveGood(ReserveStep(a, t), 0, y)
  <2> DEFINE x == a.link.to
             b == Detection[x]
  <2>1. Walking(a) /\ Steers(v, a.w, t) /\ Typed(a.w) BY <1>2 DEF ReserveGood, Steers
  <2>2. ASSUME AtSwitch(a)
        PROVE  ReserveGood([w |-> ReserveOver(Turn(a.w, b, a.last), b, t),
                            link |-> Onward(a.w, a.link), from |-> x, last |-> b], 0, y)
    <3>1. b \in Block /\ Onward(a.w, a.link) \in Links BY <2>1, <2>2, WalkLinks
    <3>2. PathsApart => Type[b] = "NOSTOP" BY <2>1, <2>2, WalkLinks DEF PathsApart
    <3> HIDE DEF x, b
    <3>3. Steers(v, Turn(a.w, b, a.last), t) BY <2>1, <3>1, <3>2, TurnSteers, SteersChain
    <3>4. Steers(Turn(a.w, b, a.last), ReserveOver(Turn(a.w, b, a.last), b, t), t)
      BY <3>1, <3>3, ReserveOverSteers DEF Steers
    <3>5. Steers(v, ReserveOver(Turn(a.w, b, a.last), b, t), t) BY <3>3, <3>4, SteersChain
    <3> QED BY <3>1, <3>5 DEF ReserveGood, Walking
  <2>3. ASSUME AtNoStop(a)
        PROVE  ReserveGood([w |-> Turn(a.w, x, a.last), link |-> Across(a), from |-> x, last |-> x], 0, y)
    <3>1. x \in Block /\ Type[x] = "NOSTOP" /\ Across(a) \in Links BY <2>1, <2>3, WalkLinks
    <3>2. Steers(v, Turn(a.w, x, a.last), t) BY <2>1, <3>1, TurnSteers, SteersChain
    <3> QED BY <3>1, <3>2 DEF ReserveGood, Walking
  <2>4. ASSUME AtStop(a) PROVE ReserveGood([a EXCEPT !.w = ReserveEnd(@, x, t), !.link = Ended], 0, y)
    <3>1. x \in Block /\ Type[x] # "NOSTOP" BY <2>1, <2>4, WalkLinks
    <3>2. Steers(v, ReserveEnd(a.w, x, t), t) BY <2>1, <3>1, ReserveEndSteers, SteersChain
    <3> QED BY <2>1, <3>2 DEF ReserveGood, Walking
  <2> HIDE DEF y
  <2> QED BY <1>2, <2>2, <2>3, <2>4 DEF ReserveStep
<1>4. ReservePath(v, t, link, tB) = ReserveLoop!At(a0, y, Steps).w
  BY DEF ReservePath, ReserveLoop!At, ReserveTurn
<1>5. \A a, n : ReserveTurn(a, n, y) = ReserveStep(a, t) BY DEF ReserveTurn
<1>6. y.world = v /\ y.train = t OBVIOUS
<1> HIDE DEF y, a0
<1>7. ReserveGood(ReserveLoop!At(a0, y, Steps), Steps, y)
  BY <1>1, <1>2, <1>5, StepsNat, ReserveLoop!Kept DEF ReserveGood
<1> QED BY <1>4, <1>6, <1>7 DEF ReserveGood

\* SwitchSolver::solve frees the old way, sets the new one and reserves it, whatever way it found.
LEMMA SolveWithSteers ==
  ASSUME NEW v, Typed(v), NEW t \in Train, NEW B, NEW tB, NEW link \in Links, NEW cont, NEW r
  PROVE  Steers(v, SolveWith(v, t, B, tB, link, cont, r).w, t)
<1> DEFINE change == r.f.possible /\ ~r.f.alreadyCorrect
           free == DereservePath(v, t, link, tB)
           way == SetPath(free, t, link, tB, r.sw, cont)
           set == IF change THEN ProcessedAgain(way, B) ELSE [w |-> v, ok |-> r.f.possible]
<1>1. Steers(v, free, t) /\ Typed(free) BY DereservePathSteers DEF Steers
<1>2. {"w", "ok"} \subseteq DOMAIN way /\ Steers(free, way.w, t)
  <2> HIDE DEF free
  <2> QED BY <1>1, SetPathSteers
<1> HIDE DEF free, way
<1>3. Steers(v, way.w, t) /\ Typed(way.w) BY <1>1, <1>2, SteersChain DEF Steers
<1>4. Steers(v, ProcessedAgain(way, B).w, t)
  <2> DEFINE u == [way.w EXCEPT !.blk[B].recalculate = TRUE]
  <2>1. Keeps(way.w, u) BY <1>3, SwitchWrongKeeps
  <2>2. Steers(v, u, t) BY <1>3, <2>1, SteersKeeps
  <2>3. ProcessedAgain(way, B) = IF way.ok THEN [way EXCEPT !.w = u] ELSE way
    BY <1>2 DEF ProcessedAgain
  <2> HIDE DEF u
  <2> QED BY <1>2, <1>3, <2>2, <2>3
<1>5. Steers(v, set.w, t) /\ Typed(set.w)
  <2>1. Steers(v, v, t) BY KeepsItself, KeepsSteers
  <2> HIDE DEF change
  <2>2. Steers(v, set.w, t) BY <1>4, <2>1
  <2> QED BY <2>2 DEF Steers
<1>6. SolveWith(v, t, B, tB, link, cont, r).w = ReserveOrRefuse(set, t, tB, link)
  BY DEF SolveWith, free, way
<1> HIDE DEF set, change
<1>7. Steers(v, ReserveOrRefuse(set, t, tB, link), t)
  BY <1>5, ReservePathSteers, SetWrongKeeps, SteersKeeps, SteersChain DEF ReserveOrRefuse
<1> QED BY <1>6, <1>7

-----------------------------------------------------------------------------
(* What train following may do *)

\* u comes of v by what train following does: blocks are taken and left, and only what is occupied
\* loses reservations.
Follows(v, u) ==
  /\ Typed(u)
  /\ \A b \in Block : /\ u.blk[b].dir = v.blk[b].dir /\ u.blk[b].blocked = v.blk[b].blocked
                      /\ v.blk[b].blocked \/ u.blk[b].reservedBy = v.blk[b].reservedBy
  /\ u.sw = v.sw
  /\ \A p \in Path : u.path[p].Entrance = v.path[p].Entrance /\ u.path[p].Exit = v.path[p].Exit
  /\ Recorded(v) => Recorded(u)

\* What changes only aspects, lists and queues is such a change.
LEMMA KeepsFollows ==
  ASSUME NEW v, NEW u, Keeps(v, u)
  PROVE  Follows(v, u)
BY DEF Keeps, Alike, SameBlock, Follows, Recorded, Holders

\* Afterwards objects still have their types.
LEMMA FollowsTyped ==
  \A v, u : Follows(v, u) =>
    Typed(u) /\ \A b \in Block : u.blk[b].blocked = v.blk[b].blocked /\ u.blk[b].dir = v.blk[b].dir
BY DEF Follows

\* One such change after another is one.
LEMMA FollowsChain ==
  ASSUME NEW v, NEW u, NEW x, Follows(v, u), Follows(u, x)
  PROVE  Follows(v, x)
BY DEF Follows

\* So is one with aspects, lists and queues changed after it.
LEMMA FollowsKeeps ==
  ASSUME NEW v, NEW u, NEW x, Follows(v, u), Keeps(u, x)
  PROVE  Follows(v, x)
BY KeepsFollows, FollowsChain

\* So is a call that writes the Block objects with no more than that changed,
LEMMA BlocksPutFollows ==
  ASSUME NEW v, Typed(v), NEW F, DOMAIN F = Block,
         \A b \in Block : /\ BlockTyped(F[b]) /\ F[b].dir = v.blk[b].dir
                          /\ F[b].blocked = v.blk[b].blocked
                          /\ ToSet(F[b].reservedBy) \subseteq Holders(v, b)
                          /\ v.blk[b].blocked \/ F[b].reservedBy = v.blk[b].reservedBy
  PROVE  Follows(v, [v EXCEPT !.blk = F])
<1> DEFINE u == [v EXCEPT !.blk = F]
<1>1. u.blk = F /\ u.sw = v.sw /\ u.path = v.path /\ u.trn = v.trn BY DEF Typed
<1>2. Typed(u) BY DEF Typed
<1> HIDE DEF u
<1>3. Recorded(v) => Recorded(u) BY <1>1 DEF Recorded, Holders
<1>4. Follows(v, u) BY <1>1, <1>2, <1>3 DEF Follows
<1> QED BY <1>4 DEF u

\* or one of them.
LEMMA BlockPutFollows ==
  ASSUME NEW v, Typed(v), NEW b, NEW B,
         b \in Block => /\ BlockTyped(B) /\ B.dir = v.blk[b].dir
                        /\ B.blocked = v.blk[b].blocked
                        /\ ToSet(B.reservedBy) \subseteq Holders(v, b)
                        /\ v.blk[b].blocked \/ B.reservedBy = v.blk[b].reservedBy
  PROVE  Follows(v, [v EXCEPT !.blk[b] = B])
<1> DEFINE F == [v.blk EXCEPT ![b] = B]
<1>1. DOMAIN F = Block BY DEF Typed
<1>2. \A c \in Block : F[c] = IF c = b THEN B ELSE v.blk[c] BY DEF Typed
<1>3. [v EXCEPT !.blk[b] = B] = [v EXCEPT !.blk = F] OBVIOUS
<1> HIDE DEF F
<1>4. \A c \in Block : /\ BlockTyped(F[c]) /\ F[c].dir = v.blk[c].dir
                       /\ F[c].blocked = v.blk[c].blocked
                       /\ ToSet(F[c].reservedBy) \subseteq Holders(v, c)
                       /\ v.blk[c].blocked \/ F[c].reservedBy = v.blk[c].reservedBy
  BY <1>2 DEF Typed, Holders
<1>5. Follows(v, [v EXCEPT !.blk = F]) BY <1>1, <1>4, BlocksPutFollows
<1> QED BY <1>3, <1>5

\* Block::expectedTrain and expectedDetectable may be written,
LEMMA ExpectKeeps ==
  ASSUME NEW v, Typed(v), NEW b, NEW x \in Maybe(Train), NEW y \in Maybe(Train)
  PROVE  /\ Keeps(v, [v EXCEPT !.blk[b].expectedTrain = x])
         /\ Keeps(v, [v EXCEPT !.blk[b].expectedDetectable = y])
         /\ Keeps(v, [v EXCEPT !.blk[b].expectedTrain = x, !.blk[b].expectedDetectable = y])
<1> DEFINE B1 == [v.blk[b] EXCEPT !.expectedTrain = x]
           B2 == [v.blk[b] EXCEPT !.expectedDetectable = y]
           B3 == [v.blk[b] EXCEPT !.expectedTrain = x, !.expectedDetectable = y]
<1>1. b \in Block => /\ BlockTyped(B1) /\ SameBlock(v.blk[b], B1)
                     /\ BlockTyped(B2) /\ SameBlock(v.blk[b], B2)
                     /\ BlockTyped(B3) /\ SameBlock(v.blk[b], B3)
  BY DEF Typed, BlockTyped, SameBlock
<1>2. /\ [v EXCEPT !.blk[b].expectedTrain = x] = [v EXCEPT !.blk[b] = B1]
      /\ [v EXCEPT !.blk[b].expectedDetectable = y] = [v EXCEPT !.blk[b] = B2]
  OBVIOUS
<1>3. [v EXCEPT !.blk[b].expectedTrain = x, !.blk[b].expectedDetectable = y] = [v EXCEPT !.blk[b] = B3]
  BY DEF Typed
<1> HIDE DEF B1, B2, B3
<1>4. /\ Keeps(v, [v EXCEPT !.blk[b] = B1])
      /\ Keeps(v, [v EXCEPT !.blk[b] = B2])
      /\ Keeps(v, [v EXCEPT !.blk[b] = B3])
  BY <1>1, BlockPut
<1> QED BY <1>2, <1>3, <1>4, Zenon

\* and so may the fields of a train but its reservations.
LEMMA TrainFieldKeeps ==
  ASSUME NEW v, Typed(v), NEW t, NEW x
  PROVE  /\ Keeps(v, [v EXCEPT !.trn[t].expectedSet = x])
         /\ Keeps(v, [v EXCEPT !.trn[t].phase = x])
         /\ Keeps(v, [v EXCEPT !.trn[t].brake = x])
         /\ x \in Block => Keeps(v, [v EXCEPT !.trn[t].B = x])
         /\ x \in Seq(Block) => Keeps(v, [v EXCEPT !.trn[t].blocks = x])
         /\ x \in Seq(Block) /\ x # <<>> => Keeps(v, [v EXCEPT !.trn[t].det = x])
<1> DEFINE T1 == [v.trn[t] EXCEPT !.expectedSet = x]
           T2 == [v.trn[t] EXCEPT !.phase = x]
           T3 == [v.trn[t] EXCEPT !.brake = x]
           T4 == [v.trn[t] EXCEPT !.B = x]
           T5 == [v.trn[t] EXCEPT !.blocks = x]
           T6 == [v.trn[t] EXCEPT !.det = x]
<1>1. ASSUME t \in Train
      PROVE  /\ TrainTyped(T1) /\ T1.reservedBlocks = v.trn[t].reservedBlocks
             /\ TrainTyped(T2) /\ T2.reservedBlocks = v.trn[t].reservedBlocks
             /\ TrainTyped(T3) /\ T3.reservedBlocks = v.trn[t].reservedBlocks
             /\ (x \in Block => TrainTyped(T4)) /\ T4.reservedBlocks = v.trn[t].reservedBlocks
             /\ (x \in Seq(Block) => TrainTyped(T5)) /\ T5.reservedBlocks = v.trn[t].reservedBlocks
             /\ (x \in Seq(Block) /\ x # <<>> => TrainTyped(T6)) /\ T6.reservedBlocks = v.trn[t].reservedBlocks
  BY <1>1 DEF Typed, TrainTyped
<1>2. /\ [v EXCEPT !.trn[t].expectedSet = x] = [v EXCEPT !.trn[t] = T1]
      /\ [v EXCEPT !.trn[t].phase = x] = [v EXCEPT !.trn[t] = T2]
      /\ [v EXCEPT !.trn[t].brake = x] = [v EXCEPT !.trn[t] = T3]
      /\ [v EXCEPT !.trn[t].B = x] = [v EXCEPT !.trn[t] = T4]
      /\ [v EXCEPT !.trn[t].blocks = x] = [v EXCEPT !.trn[t] = T5]
      /\ [v EXCEPT !.trn[t].det = x] = [v EXCEPT !.trn[t] = T6]
  OBVIOUS
<1> HIDE DEF T1, T2, T3, T4, T5, T6
<1>3. /\ Keeps(v, [v EXCEPT !.trn[t] = T1])
      /\ Keeps(v, [v EXCEPT !.trn[t] = T2])
      /\ Keeps(v, [v EXCEPT !.trn[t] = T3])
      /\ x \in Block => Keeps(v, [v EXCEPT !.trn[t] = T4])
      /\ x \in Seq(Block) => Keeps(v, [v EXCEPT !.trn[t] = T5])
      /\ x \in Seq(Block) /\ x # <<>> => Keeps(v, [v EXCEPT !.trn[t] = T6])
  BY <1>1, TrainPut
<1> QED BY <1>2, <1>3, Zenon

\* Path::trains is written.
LEMMA PathTrainsKeeps ==
  ASSUME NEW v, Typed(v), NEW p, NEW R
  PROVE  Keeps(v, [v EXCEPT !.path[p].trains = R])
<1> DEFINE P == [v.path[p] EXCEPT !.trains = R]
<1>1. p \in Path => PathTyped(p, P) /\ P.Entrance = v.path[p].Entrance /\ P.Exit = v.path[p].Exit
  BY DEF Typed, PathTyped
<1>2. [v EXCEPT !.path[p].trains = R] = [v EXCEPT !.path[p] = P] OBVIOUS
<1> HIDE DEF P
<1> QED BY <1>1, <1>2, PathPut

\* Train::setExpected tells the block ahead,
LEMMA SetExpectedTrainKeeps ==
  ASSUME NEW v, Typed(v), NEW t \in Train
  PROVE  Keeps(v, SetExpectedTrain(v, t))
<1> DEFINE det == v.trn[t].det
           front == det[1]
           last == det[Len(det)]
           long == Len(det) > 1 /\ Covered(det) - Length[last] > EngineLength[t]
           w1 == IF long THEN [v EXCEPT !.blk[last].expectedTrain = None] ELSE v
           ahead == IF v.blk[front].N # <<>> THEN v.blk[front].N[1] ELSE NextBlock(v, front, NEXT)
           w2 == IF ahead = None THEN w1
                 ELSE [w1 EXCEPT !.blk[ahead].expectedTrain = t, !.blk[ahead].expectedDetectable = t]
           w3 == [w2 EXCEPT !.trn[t].expectedSet = TRUE]
<1>1. SetExpectedTrain(v, t) = IF v.trn[t].expectedSet \/ det = <<>> THEN v ELSE w3
  BY DEF SetExpectedTrain
<1> HIDE DEF long, ahead, last
<1>2. None \in Maybe(Train) /\ t \in Maybe(Train) BY DEF Maybe
<1>3. Keeps(v, w1) /\ Typed(w1) BY <1>2, KeepsItself, ExpectKeeps DEF Keeps
<1> HIDE DEF w1
<1>4. Keeps(w1, w2) /\ Typed(w2) BY <1>2, <1>3, KeepsItself, ExpectKeeps DEF Keeps
<1> HIDE DEF w2
<1>5. Keeps(w2, w3) BY <1>4, TrainFieldKeeps
<1> HIDE DEF w3
<1> QED BY <1>1, <1>3, <1>4, <1>5, KeepsItself, KeepsChain

\* and resetExpected takes it back.
LEMMA ResetExpectedTrainKeeps ==
  ASSUME NEW v, Typed(v), NEW t \in Train
  PROVE  Keeps(v, ResetExpectedTrain(v, t))
<1> DEFINE det == v.trn[t].det
           last == Last(det)
           w1 == IF Len(det) > 1 THEN [v EXCEPT !.blk[last].expectedTrain = t] ELSE v
           ahead == Beyond(v, NextLink(v, det[1], NEXT))
           w2 == IF ahead = None \/ w1.blk[ahead].expectedTrain # t THEN w1
                 ELSE [w1 EXCEPT !.blk[ahead].expectedTrain = None, !.blk[ahead].expectedDetectable = None]
           w3 == [w2 EXCEPT !.trn[t].expectedSet = FALSE]
<1>1. ResetExpectedTrain(v, t) = IF ~v.trn[t].expectedSet THEN v ELSE w3
  BY DEF ResetExpectedTrain
<1> HIDE DEF ahead, last
<1>2. None \in Maybe(Train) /\ t \in Maybe(Train) BY DEF Maybe
<1>3. Keeps(v, w1) /\ Typed(w1) BY <1>2, KeepsItself, ExpectKeeps DEF Keeps
<1> HIDE DEF w1
<1>4. Keeps(w1, w2) /\ Typed(w2) BY <1>2, <1>3, KeepsItself, ExpectKeeps DEF Keeps
<1> HIDE DEF w2
<1>5. Keeps(w2, w3) BY <1>4, TrainFieldKeeps
<1> HIDE DEF w3
<1> QED BY <1>1, <1>3, <1>4, <1>5, KeepsItself, KeepsChain

\* A train is put into a block or taken out of it.
LEMMA TrainInBlock ==
  ASSUME NEW v, Typed(v), NEW b, NEW x \in Maybe(Train)
  PROVE  Follows(v, [v EXCEPT !.blk[b].train = x])
<1> DEFINE B == [v.blk[b] EXCEPT !.train = x]
<1>1. b \in Block => /\ BlockTyped(B) /\ B.dir = v.blk[b].dir /\ B.blocked = v.blk[b].blocked
                     /\ B.reservedBy = v.blk[b].reservedBy
  BY DEF Typed, BlockTyped
<1>2. [v EXCEPT !.blk[b].train = x] = [v EXCEPT !.blk[b] = B] OBVIOUS
<1> HIDE DEF B
<1>3. Follows(v, [v EXCEPT !.blk[b] = B]) BY <1>1, BlockPutFollows DEF Holders
<1> QED BY <1>2, <1>3

\* Train::setBlock puts a train into a block.
LEMMA SetBlockFollows ==
  ASSUME NEW v, Typed(v), NEW t \in Train, NEW b \in Block
  PROVE  Follows(v, SetBlock(v, t, b))
<1> DEFINE u == [v EXCEPT !.blk[b].train = t]
           list == Append(u.trn[t].blocks, b)
<1>0. t \in Maybe(Train) BY DEF Maybe
<1>1. Follows(v, u) BY <1>0, TrainInBlock
<1>2. SetBlock(v, t, b) = [u EXCEPT !.trn[t].blocks = list] BY DEF SetBlock
<1> HIDE DEF u
<1>3. Typed(u) BY <1>1, FollowsTyped
<1>4. list \in Seq(Block) BY <1>3 DEF Typed, TrainTyped
<1> HIDE DEF list
<1>5. Keeps(u, [u EXCEPT !.trn[t].blocks = list]) BY <1>3, <1>4, TrainFieldKeeps
<1> QED BY <1>1, <1>2, <1>5, FollowsKeeps

\* A block freed of a train is held by no other than before.
LEMMA FreedPut ==
  ASSUME NEW B, BlockTyped(B), NEW t, NEW C, C = FreedOf(B, {t})
  PROVE  /\ BlockTyped(C) /\ C.dir = B.dir /\ C.blocked = B.blocked
         /\ ToSet(C.reservedBy) \subseteq ToSet(B.reservedBy)
BY FreedOfSame

\* A block that is occupied may be freed of a train, also if the train does not know.
LEMMA DereserveFollows ==
  ASSUME NEW v, Typed(v), NEW b \in Block, v.blk[b].blocked, NEW t
  PROVE  Follows(v, Dereserve(v, b, t)) /\ Follows(v, DereserveBlocks(v, {b}, t))
<1> DEFINE u == DereserveBlocks(v, {b}, t)
           B == FreedOf(v.blk[b], {t})
           F == [c \in Block |-> IF c \in {b} THEN FreedOf(v.blk[c], {t}) ELSE v.blk[c]]
           R == v.trn[t].reservedBlocks \ {b}
<1>1. B = FreedOf(v.blk[b], {t}) OBVIOUS
<1>2. Dereserve(v, b, t) = [v EXCEPT !.blk[b] = B] BY DEF Dereserve
<1>3. u = WithReservations(v, F, t, R) BY DEF DereserveBlocks, WithReservations
<1>4. \A c \in Block : F[c] = IF c = b THEN B ELSE v.blk[c] OBVIOUS
<1>5. Steers(v, u, t) BY DereserveBlocksSteers
<1> HIDE DEF B, u, F, R
<1>6. /\ BlockTyped(B) /\ B.dir = v.blk[b].dir /\ B.blocked = v.blk[b].blocked
      /\ ToSet(B.reservedBy) \subseteq Holders(v, b)
  <2> DEFINE D == v.blk[b]
  <2>1. BlockTyped(D) BY DEF Typed
  <2>2. B = FreedOf(D, {t}) BY <1>1
  <2>3. D = v.blk[b] OBVIOUS
  <2> HIDE DEF D
  <2>4. /\ BlockTyped(B) /\ B.dir = D.dir /\ B.blocked = D.blocked
        /\ ToSet(B.reservedBy) \subseteq ToSet(D.reservedBy)
    BY ONLY <2>1, <2>2, FreedPut
  <2> QED BY <2>3, <2>4 DEF Holders
<1>7. u.blk = F /\ u.sw = v.sw /\ u.path = v.path BY <1>3 DEF Typed, WithReservations
<1>8. Follows(v, u) BY <1>4, <1>5, <1>6, <1>7 DEF Follows, Steers
<1>9. Follows(v, [v EXCEPT !.blk[b] = B]) BY <1>6, BlockPutFollows
<1> QED BY <1>2, <1>8, <1>9 DEF u

\* TrainDetectable::MoveInto takes a block for its train.
LEMMA MoveIntoFollows ==
  ASSUME NEW v, Typed(v), NEW t \in Train, NEW b \in Block, v.blk[b].blocked
  PROVE  Follows(v, MoveInto(v, t, b))
<1> DEFINE u == SetBlock(v, t, b)
           x == DereserveBlocks(u, {b}, t)
<1>1. Follows(v, u) BY SetBlockFollows
<1> HIDE DEF u
<1>2. Follows(u, x) /\ Typed(x) BY <1>1, FollowsTyped, DereserveFollows
<1> HIDE DEF x
<1>3. Keeps(x, PutTrain(x, t)) BY <1>2, PutsKeep
<1> QED BY <1>1, <1>2, <1>3, FollowsChain, FollowsKeeps DEF MoveInto, x, u

\* Train::releaseBlock dereserves the block it leaves.
LEMMA ReleaseBlockFollows ==
  ASSUME NEW v, Typed(v), NEW t \in Train, NEW b
  PROVE  Follows(v, ReleaseBlock(v, t, b))
<1> DEFINE blocks == Without(v.trn[t].blocks, {b})
           u == [v EXCEPT !.blk[b].train = None]
           w1 == [u EXCEPT !.trn[t].blocks = blocks]
<1>0. None \in Maybe(Train) BY DEF Maybe
<1>1. Follows(v, u) BY <1>0, TrainInBlock
<1>2. [v EXCEPT !.blk[b].train = None, !.trn[t].blocks = blocks] = w1 OBVIOUS
<1>3. blocks \in Seq(Block) BY WithoutSet DEF Typed, TrainTyped
<1>4. ReleaseBlock(v, t, b) =
        IF v.trn[t].B # b THEN w1
        ELSE IF blocks = <<>> THEN Fault(w1, "null")
        ELSE [w1 EXCEPT !.trn[t].B = blocks[1]]
  BY <1>2 DEF ReleaseBlock
<1> HIDE DEF blocks, u
<1>5. Typed(u) BY <1>1, FollowsTyped
<1>6. Keeps(u, w1) BY <1>3, <1>5, TrainFieldKeeps
<1> HIDE DEF w1
<1>7. Follows(v, w1) /\ Typed(w1) BY <1>1, <1>6, FollowsKeeps, FollowsTyped
<1>8. Keeps(w1, Fault(w1, "null")) BY <1>7, FaultKeeps
<1>9. ASSUME blocks # <<>> PROVE Keeps(w1, [w1 EXCEPT !.trn[t].B = blocks[1]])
  <2>1. blocks[1] \in Block BY <1>3, <1>9
  <2> QED BY <1>7, <2>1, TrainFieldKeeps
<1> QED BY <1>4, <1>7, <1>8, <1>9, FollowsKeeps

\* TrainDetectable::MoveOutOf leaves it.
LEMMA MoveOutOfFollows ==
  ASSUME NEW v, Typed(v), NEW t \in Train, NEW b
  PROVE  Follows(v, MoveOutOf(v, t, b))
<1> DEFINE u == ReleaseBlock(v, t, b)
           w1 == PutTrain(u, t)
           det == v.trn[t].det
           w2 == [w1 EXCEPT !.trn[t].det = Front(det)]
<1>1. Follows(v, u) /\ Typed(u) BY ReleaseBlockFollows, FollowsTyped
<1> HIDE DEF u
<1>2. Keeps(u, w1) BY <1>1, PutsKeep
<1>3. Follows(v, w1) /\ Typed(w1) BY <1>1, <1>2, FollowsKeeps, FollowsTyped
<1>4. MoveOutOf(v, t, b) = IF Len(det) > 1 /\ b = det[Len(det)] THEN SetExpectedTrain(w2, t) ELSE w1
  BY DEF MoveOutOf, u
<1> HIDE DEF w1
<1>5. ASSUME Len(det) > 1 PROVE Keeps(w1, SetExpectedTrain(w2, t))
  <2>1. det \in Seq(Block) BY DEF Typed, TrainTyped
  <2> HIDE DEF det
  <2>2. Front(det) \in Seq(Block) /\ Front(det) # <<>>
    <3>1. Front(det) = SubSeq(det, 1, Len(det) - 1) BY DEF Front
    <3>2. 1 <= Len(det) - 1 /\ Len(det) - 1 <= Len(det) /\ Len(det) \in Nat BY <1>5, <2>1
    <3>3. SubSeq(det, 1, Len(det) - 1) \in Seq(Block) BY <2>1, <3>2
    <3>4. Len(SubSeq(det, 1, Len(det) - 1)) = Len(det) - 1 BY <2>1, <3>2
    <3>5. Len(Front(det)) # 0 BY <3>1, <3>2, <3>4
    <3>6. Front(det) # <<>> BY <3>5
    <3> QED BY <3>1, <3>3, <3>6
  <2>3. Keeps(w1, w2) BY <1>3, <2>2, TrainFieldKeeps
  <2> HIDE DEF w2
  <2>4. Keeps(w2, SetExpectedTrain(w2, t)) BY <2>3, SetExpectedTrainKeeps DEF Keeps
  <2> QED BY <2>3, <2>4, KeepsChain
<1> QED BY <1>3, <1>4, <1>5, FollowsKeeps

\* TrainDetectable::stepForward does both.
LEMMA StepForwardFollows ==
  ASSUME NEW v, Typed(v), NEW t \in Train, NEW b \in Block, v.blk[b].blocked
  PROVE  Follows(v, StepForward(v, t, b))
<1> DEFINE det == <<b>> \o v.trn[t].det
           u == [v EXCEPT !.trn[t].B = b]
           w1 == [u EXCEPT !.trn[t].det = det]
           w2 == [w1 EXCEPT !.trn[t].expectedSet = FALSE]
           w3 == [w2 EXCEPT !.blk[b].expectedDetectable = None]
           w4 == SetExpectedTrain(w3, t)
           front == v.trn[t].det[1]
<1>1. StepForward(v, t, b) = IF v.blk[front].N # <<>> /\ v.blk[front].N[1] = b THEN MoveInto(w4, t, b) ELSE v
  BY DEF StepForward
<1> HIDE DEF front
<1>2. det \in Seq(Block) /\ det # <<>> BY DEF Typed, TrainTyped
<1> HIDE DEF det
<1>3. Keeps(v, u) /\ Typed(u) BY TrainFieldKeeps DEF Keeps
<1> HIDE DEF u
<1>4. Keeps(u, w1) /\ Typed(w1) BY <1>2, <1>3, TrainFieldKeeps DEF Keeps
<1> HIDE DEF w1
<1>5. Keeps(w1, w2) /\ Typed(w2) BY <1>4, TrainFieldKeeps DEF Keeps
<1> HIDE DEF w2
<1>6. Keeps(w2, w3) /\ Typed(w3)
  <2>1. None \in Maybe(Train) BY DEF Maybe
  <2> QED BY <1>5, <2>1, ExpectKeeps DEF Keeps
<1> HIDE DEF w3
<1>7. Keeps(w3, w4) BY <1>6, SetExpectedTrainKeeps
<1> HIDE DEF w4
<1>8. Keeps(v, w4) BY <1>3, <1>4, <1>5, <1>6, <1>7, KeepsChain
<1>9. Typed(w4) /\ w4.blk[b].blocked BY <1>8 DEF Keeps, Alike, SameBlock
<1>10. Follows(v, MoveInto(w4, t, b)) BY <1>8, <1>9, KeepsFollows, MoveIntoFollows, FollowsChain
<1>11. Follows(v, v) BY KeepsItself, KeepsFollows
<1> QED BY <1>1, <1>10, <1>11

\* A train arrives in a path and leaves others, whose Path objects list it.
LEMMA InPathKeeps ==
  ASSUME NEW v, Typed(v)
  PROVE  /\ \A p : Keeps(v, AnalyzeTrains(v, p))
         /\ \A t, b : Keeps(v, FrontInPath(v, t, b)) /\ Keeps(v, RearInPath(v, t, b))
<1>1. ASSUME NEW p PROVE Keeps(v, AnalyzeTrains(v, p))
  BY KeepsItself, PathTrainsKeeps DEF AnalyzeTrains
<1>2. ASSUME NEW t, NEW b PROVE Keeps(v, FrontInPath(v, t, b)) /\ Keeps(v, RearInPath(v, t, b))
  <2> DEFINE p == PathOf[b]
             u == IF v.path[p].Entrance = b THEN [v EXCEPT !.path[p].trains = @ \cup {t}] ELSE v
  <2>1. Keeps(v, u) /\ Typed(u) BY KeepsItself, PathTrainsKeeps DEF Keeps
  <2>2. FrontInPath(v, t, b) = IF p = None \/ v.trn[t].B # b THEN v
                               ELSE IF v.path[p].Exit = b THEN TrainAtEnd(u, p, t) ELSE u
    BY DEF FrontInPath
  <2> HIDE DEF u
  <2>3. Keeps(u, TrainAtEnd(u, p, t)) BY <2>1, PathReservedTrainsKeeps DEF TrainAtEnd
  <2>4. Keeps(v, FrontInPath(v, t, b)) BY <2>1, <2>2, <2>3, KeepsItself, KeepsChain
  <2>5. Keeps(v, RearInPath(v, t, b)) BY <1>1, PathTrainsKeeps DEF RearInPath
  <2> QED BY <2>4, <2>5
<1> QED BY <1>1, <1>2

\* What a block knows beside it is a block.
LEMMA NeighbourTyped ==
  ASSUME NEW v, Typed(v), NEW b \in Block
  PROVE  /\ v.blk[b].N # <<>> => v.blk[b].N[1] \in Block
         /\ v.blk[b].P # <<>> => v.blk[b].P[1] \in Block
<1>1. v.blk[b].N \in Seq(Block) /\ v.blk[b].P \in Seq(Block) BY DEF Typed, BlockTyped
<1> QED BY <1>1

\* What it knows of trains is trains.
LEMMA TrainsTyped ==
  ASSUME NEW v, Typed(v), NEW b \in Block
  PROVE  /\ v.blk[b].train # None => v.blk[b].train \in Train
         /\ v.blk[b].expectedTrain # None => v.blk[b].expectedTrain \in Train
         /\ v.blk[b].expectedDetectable # None => v.blk[b].expectedDetectable \in Train
BY DEF Typed, BlockTyped, Maybe

\* Train following of a block that was left
LEMMA FollowOutFollows ==
  ASSUME NEW v, Typed(v), NEW b \in Block, v.blk[b].train # None
  PROVE  Follows(v, FollowOut(v, b))
<1> DEFINE t == v.blk[b].train
           u == MoveOutOf(v, t, b)
<1>1. t \in Train BY TrainsTyped
<1>2. FollowOut(v, b) \in {SetState(v, b, UNKNOWN), RearInPath(u, t, b)} BY DEF FollowOut
<1> HIDE DEF t
<1>3. Follows(v, u) /\ Typed(u) BY <1>1, MoveOutOfFollows, FollowsTyped
<1> HIDE DEF u
<1>4. Follows(v, RearInPath(u, t, b)) BY <1>3, InPathKeeps, FollowsKeeps
<1>5. Follows(v, SetState(v, b, UNKNOWN)) BY SetStateKeeps, KeepsFollows
<1> QED BY <1>2, <1>4, <1>5

\* A train that arrives is listed by its path.
LEMMA ArrivedKeeps ==
  ASSUME NEW v, Typed(v), NEW b
  PROVE  Keeps(v, Arrived(v, b))
BY FaultKeeps, InPathKeeps DEF Arrived

\* It is expected ahead.
LEMMA ExpectAheadKeeps ==
  ASSUME NEW v, Typed(v), NEW t \in Train, NEW b
  PROVE  Keeps(v, ExpectAhead(v, t, b))
<1>1. t \in Maybe(Train) BY DEF Maybe
<1> QED BY <1>1, KeepsItself, ExpectKeeps DEF ExpectAhead

\* Train following of a block that is entered, by a train expected there or by a neighbour
LEMMA FollowInFollows ==
  ASSUME NEW v, Typed(v), NEW b \in Block, v.blk[b].blocked
  PROVE  "w" \in DOMAIN FollowIn(v, b) /\ Follows(v, FollowIn(v, b).w)
<1> DEFINE B == v.blk[b]
           t == B.expectedTrain
           o == B.expectedDetectable
           x == B.P[1]
           y == B.N[1]
           holds(l) == l # <<>> /\ v.blk[l[1]].blocked /\ v.blk[l[1]].train # None
           copied(c) == IF Standing(v, c) THEN AnalyzeTrains(SetBlock(v, c, b), PathOf[b])
                        ELSE MoveInto(v, c, b)
           stepped == Arrived(StepForward(v, o, b), b)
           moved == [MoveInto(v, t, b) EXCEPT !.trn[t].B = b]
           expected == ExpectAhead(FrontInPath(moved, t, b), t, b)
           behind == copied(v.blk[x].train)
           ahead == AnalyzeTrains(MoveInto(v, v.blk[y].train, b), PathOf[b])
<1>1. ASSUME NEW c \in Train PROVE Follows(v, MoveInto(v, c, b)) /\ Typed(MoveInto(v, c, b))
  BY MoveIntoFollows, FollowsTyped
<1>2. o # None => Follows(v, stepped)
  <2>1. o # None => o \in Train BY TrainsTyped
  <2> HIDE DEF o
  <2>2. o # None => Follows(v, StepForward(v, o, b)) /\ Typed(StepForward(v, o, b))
    BY <2>1, StepForwardFollows, FollowsTyped
  <2> QED BY <2>2, ArrivedKeeps, FollowsKeeps
<1>3. t # None => Follows(v, expected)
  <2>1. t # None => t \in Train BY TrainsTyped
  <2> HIDE DEF t, expected
  <2> SUFFICES ASSUME t # None PROVE Follows(v, expected) OBVIOUS
  <2> DEFINE u == MoveInto(v, t, b)
  <2>2. Follows(v, u) /\ Typed(u) BY <1>1, <2>1
  <2> HIDE DEF u
  <2>3. Keeps(u, [u EXCEPT !.trn[t].B = b]) BY <2>2, TrainFieldKeeps
  <2>4. moved = [u EXCEPT !.trn[t].B = b] BY DEF u
  <2> HIDE DEF moved
  <2>5. Follows(v, moved) /\ Typed(moved) BY <2>2, <2>3, <2>4, FollowsKeeps, FollowsTyped
  <2>6. Keeps(moved, FrontInPath(moved, t, b)) /\ Typed(FrontInPath(moved, t, b))
    BY <2>5, InPathKeeps DEF Keeps
  <2>7. Keeps(FrontInPath(moved, t, b), expected) BY <2>1, <2>6, ExpectAheadKeeps DEF expected
  <2> QED BY <2>5, <2>6, <2>7, FollowsKeeps
<1>4. ASSUME NEW c \in Train PROVE Follows(v, copied(c))
  <2>1. Follows(v, SetBlock(v, c, b)) /\ Typed(SetBlock(v, c, b)) BY SetBlockFollows, FollowsTyped
  <2>2. Follows(v, AnalyzeTrains(SetBlock(v, c, b), PathOf[b])) BY <2>1, InPathKeeps, FollowsKeeps
  <2> QED BY <1>1, <2>2
<1>5. holds(B.P) => Follows(v, behind)
  <2>1. holds(B.P) => v.blk[x].train \in Train BY NeighbourTyped, TrainsTyped
  <2> HIDE DEF copied, holds, B
  <2> QED BY <1>4, <2>1
<1>6. holds(B.N) => Follows(v, ahead)
  <2>1. holds(B.N) => v.blk[y].train \in Train BY NeighbourTyped, TrainsTyped
  <2> HIDE DEF holds, B
  <2> QED BY <1>1, <2>1, InPathKeeps, FollowsKeeps
<1>7. Follows(v, Fault(v, "new train")) BY FaultKeeps, KeepsFollows
<1>8. LET r == FollowIn(v, b)
      IN \/ o # None /\ r = [w |-> stepped, changed |-> TRUE]
         \/ t # None /\ r = [w |-> expected, changed |-> TRUE]
         \/ holds(B.P) /\ r = [w |-> behind, changed |-> ~Standing(v, v.blk[x].train)]
         \/ holds(B.N) /\ r = [w |-> ahead, changed |-> TRUE]
         \/ r = [w |-> Fault(v, "new train"), changed |-> FALSE]
  BY DEF FollowIn
<1> DEFINE r == FollowIn(v, b)
           lost == Fault(v, "new train")
<1> HIDE DEF o, t, stepped, expected, holds, behind, ahead, x, B, lost
<1>9. \E u, c : r = [w |-> u, changed |-> c] /\ Follows(v, u)
  BY <1>2, <1>3, <1>5, <1>6, <1>7, <1>8, Zenon DEF lost
<1> HIDE DEF r
<1>10. "w" \in DOMAIN r /\ Follows(v, r.w) BY <1>9
<1> QED BY <1>10 DEF r

\* Train following of a block whose train was lost
LEMMA RestoreFollows ==
  ASSUME NEW v, Typed(v), NEW b
  PROVE  Follows(v, Restore(v, b))
<1> DEFINE stray(x) == ~v.blk[x].blocked /\ v.blk[x].state = UNKNOWN /\ v.blk[x].train # None
           along(list) == {x \in Block : \E i \in 1..Len(list) :
                                         list[i] = x /\ \A k \in 1..i : stray(list[k])}
           strays == along(v.blk[b].N) \cup along(v.blk[b].P)
           left(B) == [WithAspect(B, PROCEED) EXCEPT !.train = None]
           F == [x \in Block |-> IF x \in strays THEN left(v.blk[x]) ELSE v.blk[x]]
<1>1. Restore(v, b) \in {v, [v EXCEPT !.blk = F]} BY DEF Restore
<1> HIDE DEF strays
<1>2. ASSUME NEW B, BlockTyped(B)
      PROVE  /\ BlockTyped(left(B)) /\ left(B).dir = B.dir /\ left(B).blocked = B.blocked
             /\ left(B).reservedBy = B.reservedBy
  <2>1. BlockTyped(WithAspect(B, PROCEED)) /\ SameBlock(B, WithAspect(B, PROCEED))
    BY <1>2, WithAspectSame
  <2> QED BY <2>1 DEF BlockTyped, SameBlock, Maybe
<1>3. ASSUME NEW x \in Block
      PROVE  /\ BlockTyped(F[x]) /\ F[x].dir = v.blk[x].dir
             /\ F[x].blocked = v.blk[x].blocked
             /\ ToSet(F[x].reservedBy) \subseteq Holders(v, x)
             /\ v.blk[x].blocked \/ F[x].reservedBy = v.blk[x].reservedBy
  <2>1. F[x] = v.blk[x] \/ F[x] = left(v.blk[x]) OBVIOUS
  <2>2. BlockTyped(v.blk[x]) BY DEF Typed
  <2> HIDE DEF F, left
  <2> QED BY <1>2, <2>1, <2>2 DEF Holders
<1>4. DOMAIN F = Block OBVIOUS
<1> HIDE DEF F
<1>5. Follows(v, [v EXCEPT !.blk = F]) BY <1>3, <1>4, BlocksPutFollows
<1> QED BY <1>1, <1>5, KeepsItself, KeepsFollows

\* Algorithm::train_following
LEMMA FollowingFollows ==
  ASSUME NEW v, Typed(v), NEW b \in Block
  PROVE  "w" \in DOMAIN Following(v, b) /\ Follows(v, Following(v, b).w)
<1>1. Follows(v, Restore(v, b)) BY RestoreFollows
<1>2. v.blk[b].train # None => Follows(v, FollowOut(v, b)) BY FollowOutFollows
<1>3. ASSUME v.blk[b].blocked
      PROVE  LET r == RestoreUnchanged(FollowIn(DereserveFirst(v, b), b), b)
             IN "w" \in DOMAIN r /\ Follows(v, r.w)
  <2> DEFINE u == DereserveFirst(v, b)
             r == FollowIn(u, b)
  <2>1. Follows(v, u)
    BY <1>3, DereserveFollows, KeepsItself, KeepsFollows DEF DereserveFirst
  <2> HIDE DEF u
  <2>2. Typed(u) /\ u.blk[b].blocked BY <1>3, <2>1, FollowsTyped
  <2>3. "w" \in DOMAIN r /\ Follows(u, r.w) BY <2>2, FollowInFollows
  <2> HIDE DEF r
  <2>4. Follows(v, r.w) /\ Typed(r.w) BY <2>1, <2>3, FollowsChain, FollowsTyped
  <2>5. Follows(v, Restore(r.w, b)) BY <2>4, RestoreFollows, FollowsChain
  <2>6. RestoreUnchanged(r, b) = IF r.changed \/ r.w.fault # "none" THEN r
                                 ELSE [r EXCEPT !.w = Restore(r.w, b)]
    BY DEF RestoreUnchanged
  <2>7. "w" \in DOMAIN RestoreUnchanged(r, b) /\ Follows(v, RestoreUnchanged(r, b).w)
    BY <2>3, <2>4, <2>5, <2>6
  <2> QED BY <2>7 DEF r, u
<1>4. LET f == Following(v, b)
      IN \/ v.blk[b].train # None /\ f = [w |-> FollowOut(v, b), changed |-> FALSE]
         \/ v.blk[b].blocked /\ f = RestoreUnchanged(FollowIn(DereserveFirst(v, b), b), b)
         \/ f = [w |-> Restore(v, b), changed |-> FALSE]
  BY DEF Following
<1> QED BY <1>1, <1>2, <1>3, <1>4

-----------------------------------------------------------------------------
(* processBlock *)

\* checkNextBlock has the blocks beside processed again.
LEMMA CheckNextBlockKeeps ==
  ASSUME NEW v, Typed(v), NEW b \in Block
  PROVE  Keeps(v, CheckNextBlock(v, b))
<1> DEFINE B == v.blk[b]
           at(l) == l # <<>> /\ v.blk[l[1]].blocked
           u(x) == [v EXCEPT !.blk[x].doneAll = FALSE]
           again(x, put) == IF put THEN Put(u(x), x) ELSE u(x)
           put == B.N = <<>> \/ B.N[1] \notin ToSet(v.q)
<1>1. ASSUME NEW x \in Block, NEW c PROVE Keeps(v, again(x, c))
  <2>1. Keeps(v, u(x)) /\ Typed(u(x)) BY SwitchWrongKeeps DEF Keeps
  <2> HIDE DEF u
  <2>2. Keeps(u(x), Put(u(x), x)) BY <2>1, PutsKeep
  <2> QED BY <2>1, <2>2, KeepsChain
<1>2. CheckNextBlock(v, b) = IF B.blocked \/ B.state # BLOCKED THEN v
                             ELSE IF at(B.N) THEN again(B.N[1], TRUE)
                             ELSE IF at(B.P) THEN again(B.P[1], put) ELSE v
  BY DEF CheckNextBlock
<1>3. (B.N # <<>> => B.N[1] \in Block) /\ (B.P # <<>> => B.P[1] \in Block) BY NeighbourTyped
<1>4. Keeps(v, v) BY KeepsItself
<1> HIDE DEF B, again, put
<1> QED BY <1>1, <1>2, <1>3, <1>4

\* A block is marked as followed.
LEMMA FollowedFollows ==
  ASSUME NEW v, Typed(v), NEW b \in Block
  PROVE  LET u == [v EXCEPT !.blk[b].trainFollowingChecked = TRUE]
         IN Follows(v, u) /\ u.blk[b].trainFollowingChecked
<1> DEFINE B == [v.blk[b] EXCEPT !.trainFollowingChecked = TRUE]
           u == [v EXCEPT !.blk[b].trainFollowingChecked = TRUE]
<1>1. /\ BlockTyped(B) /\ B.dir = v.blk[b].dir /\ B.blocked = v.blk[b].blocked
      /\ B.reservedBy = v.blk[b].reservedBy /\ B.trainFollowingChecked = TRUE
  BY DEF Typed, BlockTyped
<1>2. u = [v EXCEPT !.blk[b] = B] OBVIOUS
<1>3. u.blk[b] = B BY DEF Typed
<1> HIDE DEF B, u
<1>4. Follows(v, [v EXCEPT !.blk[b] = B]) BY <1>1, BlockPutFollows DEF Holders
<1>5. Follows(v, u) /\ u.blk[b].trainFollowingChecked BY <1>1, <1>2, <1>3, <1>4
<1> QED BY <1>5 DEF u

\* A block that was followed already is left as it is.
LEMMA FollowFollows ==
  ASSUME NEW v, Typed(v), NEW b \in Block
  PROVE  /\ Follows(v, Follow(v, b)) /\ Follow(v, b).blk[b].trainFollowingChecked
         /\ v.blk[b].trainFollowingChecked => Follow(v, b) = v
<1>1. CASE v.blk[b].trainFollowingChecked
  BY <1>1, KeepsItself, KeepsFollows DEF Follow
<1>2. CASE ~v.blk[b].trainFollowingChecked
  <2> DEFINE r == Following(v, b)
             c == r.w.blk[b].switchChecked /\ ~r.changed
             x == [r.w EXCEPT !.blk[b].switchChecked = c]
             y == CheckNextBlock(x, b)
             z == [y EXCEPT !.blk[b].trainFollowingChecked = TRUE]
  <2>1. Follows(v, r.w) /\ Typed(r.w) BY FollowingFollows, FollowsTyped
  <2>2. Follow(v, b) = z
    <3>1. [r.w EXCEPT !.blk[b].switchChecked = @ /\ ~r.changed] = x OBVIOUS
    <3> HIDE DEF x
    <3> QED BY <1>2, <3>1 DEF Follow, Moved
  <2> HIDE DEF r, c
  <2>3. Keeps(r.w, x) /\ Typed(x) BY <2>1, SwitchWrongKeeps DEF Keeps
  <2> HIDE DEF x
  <2>4. Keeps(x, y) /\ Typed(y) BY <2>3, CheckNextBlockKeeps DEF Keeps
  <2> HIDE DEF y
  <2>5. Follows(y, z) /\ z.blk[b].trainFollowingChecked BY <2>4, FollowedFollows
  <2> HIDE DEF z
  <2>6. Follows(v, z) BY <2>1, <2>3, <2>4, <2>5, FollowsKeeps, FollowsChain
  <2> QED BY <1>2, <2>2, <2>5, <2>6
<1> QED BY <1>1, <1>2

LookTurn(a, n, y) == LookStep(a, y.x)
LookGood(a, n, y) ==
  /\ {"w", "changed", "i"} \subseteq DOMAIN a /\ a.i \in Nat
  /\ Steers(y.world, a.w, y.x.train)
LookLoop == INSTANCE Loops WITH Step <- LookTurn, Good <- LookGood

\* Switch_Checker solves the switches ahead of a train, for it and for nobody else.
LEMMA LookSteers ==
  ASSUME NEW v, Typed(v), NEW t \in Train, NEW b \in Block, NEW room
  PROVE  LET r == Look(v, t, b, room)
         IN {"w", "changed"} \subseteq DOMAIN r /\ Steers(v, r.w, t)
<1> DEFINE x == [train |-> t, front |-> b, list |-> v.blk[b].N]
           y == [x |-> x, world |-> v]
           a0 == [w |-> v, changed |-> FALSE, i |-> 0, room |-> room,
                  seen |-> Type[b] # "NOSTOP", d |-> NEXT]
<1>1. LookGood(a0, 0, y) BY KeepsItself, KeepsSteers DEF LookGood
<1>2. x.list \in Seq(Block) /\ x.train = t /\ x.front = b /\ y.world = v /\ y.x = x
  BY DEF Typed, BlockTyped
<1> HIDE DEF x, y
<1>3. ASSUME NEW a, LookGood(a, 0, y) PROVE LookGood(LookStep(a, x), 0, y)
  <2> DEFINE here == IF a.i = 0 THEN x.front ELSE x.list[a.i]
             before == IF a.i <= 1 THEN x.front ELSE x.list[a.i - 1]
             stops == Type[here] # "NOSTOP"
             d == IF a.i > 0 /\ a.w.blk[before].dir # a.w.blk[here].dir THEN 1 - a.d ELSE a.d
             link == NextLink(a.w, here, d)
             ask == (a.seen \/ stops) /\ \/ a.i > 0 /\ link.type = "S"
                                         \/ link.type = "s"
                                         \/ link.type = "R" /\ Type[link.to] = "NOSTOP"
             far == \/ a.changed \/ a.i > 4 \/ a.i > Len(x.list)
                    \/ a.room < (IF stops THEN Length[here] ELSE 0)
                    \/ a.w.blk[here].blocked /\ here # x.front
             next == [a EXCEPT !.i = @ + 1, !.room = @ - Length[here], !.d = d,
                               !.seen = (@ \/ stops) /\ ~ask]
             r == Solve(a.w, x.train, x.front, here, link, FALSE)
  <2>1. /\ {"w", "changed", "i"} \subseteq DOMAIN a /\ a.i \in Nat /\ Steers(v, a.w, t)
        /\ Typed(a.w)
    BY <1>2, <1>3 DEF LookGood, Steers
  <2>2. LookStep(a, x) = CASE far -> [a EXCEPT !.i = 5]
                           [] ~far /\ ask -> Solved(next, r)
                           [] OTHER -> next
    BY DEF LookStep
  <2>3. ~far => link \in Links
    <3>1. ~far => here \in Block BY <1>2, <2>1
    <3> HIDE DEF far, here
    <3> QED BY <3>1 DEF NextLink, End, Links, Ports
  <2>4. {"w", "changed", "i"} \subseteq DOMAIN next /\ next.i \in Nat /\ next.w = a.w
    <3> HIDE DEF here, d, ask, stops
    <3> QED BY <2>1
  <2> HIDE DEF here, link, far, ask, next
  <2>5. ~far => Steers(v, r.w, t)
    <3>1. r = SolveWith(a.w, t, x.front, here, link, FALSE,
                        FindPath(a.w, t, link, here, here, NEXT, FALSE))
      BY <1>2 DEF Solve
    <3> HIDE DEF r
    <3>2. ~far => Steers(a.w, r.w, t) BY <2>1, <2>3, <3>1, SolveWithSteers
    <3> QED BY <2>1, <3>2, SteersChain
  <2>6. LookGood([a EXCEPT !.i = 5], 0, y) BY <1>2, <2>1 DEF LookGood
  <2>7. LookGood(next, 0, y) BY <1>2, <2>1, <2>4 DEF LookGood
  <2>8. ~far => LookGood(Solved(next, r), 0, y)
    <3> HIDE DEF r
    <3> QED BY <1>2, <2>4, <2>5 DEF LookGood, Solved
  <2> HIDE DEF r
  <2> QED BY <2>2, <2>6, <2>7, <2>8
<1>4. Look(v, t, b, room) = LookLoop!At(a0, y, 5) BY DEF Look, LookLoop!At, LookTurn, x, y
<1>5. \A a, n : LookTurn(a, n, y) = LookStep(a, x) BY <1>2 DEF LookTurn
<1> HIDE DEF a0
<1>6. LookGood(LookLoop!At(a0, y, 5), 5, y)
  BY <1>1, <1>3, <1>5, LookLoop!Kept DEF LookGood
<1> QED BY <1>2, <1>4, <1>6 DEF LookGood

\* Switch_Checker is called if there is a train in the block.
LEMMA CheckSteers ==
  ASSUME NEW v, Typed(v), NEW b \in Block, NEW braking
  PROVE  LET r == Check(v, b, braking)
         IN {"w", "changed"} \subseteq DOMAIN r /\ Steers(v, r.w, v.blk[b].train)
<1> DEFINE t == v.blk[b].train
           room == braking + Length[b]
           r == Check(v, b, braking)
<1>1. t # None => t \in Train BY TrainsTyped
<1>2. Steers(v, v, t) /\ Steers(v, Fault(v, "null"), t) BY KeepsItself, FaultKeeps, KeepsSteers
<1>3. \/ r = [w |-> v, changed |-> FALSE]
      \/ r = [w |-> Fault(v, "null"), changed |-> FALSE]
      \/ t # None /\ r = Look(v, t, b, room)
  BY DEF Check, SwitchChecker
<1> HIDE DEF t, room, r
<1>4. CASE t # None /\ r = Look(v, t, b, room) BY <1>1, <1>4, LookSteers DEF t, r
<1>5. CASE r = [w |-> v, changed |-> FALSE] \/ r = [w |-> Fault(v, "null"), changed |-> FALSE]
  <2>1. {"w", "changed"} \subseteq DOMAIN r /\ Steers(v, r.w, t) BY <1>2, <1>5
  <2> QED BY <2>1 DEF r, t
<1> QED BY <1>3, <1>4, <1>5

\* The aspects of the block are computed last.
LEMMA FinishKeeps ==
  ASSUME NEW r, Typed(r.w), NEW b \in Block
  PROVE  Keeps(r.w, Finish(r, b))
<1> DEFINE x == RailState(r.w, b)
           y == [x EXCEPT !.blk[b].switchChecked = TRUE]
           z == [y EXCEPT !.blk[b].doneAll = TRUE]
<1>1. Keeps(r.w, x) /\ Typed(x) BY RailStateKeeps DEF Keeps
<1>2. Finish(r, b) = IF r.changed \/ r.w.fault # "none" THEN r.w ELSE z BY DEF Finish
<1> HIDE DEF x
<1>3. Keeps(x, y) /\ Typed(y) BY <1>1, SwitchWrongKeeps DEF Keeps
<1> HIDE DEF y
<1>4. Keeps(y, z) BY <1>3, SwitchWrongKeeps
<1> HIDE DEF z
<1> QED BY <1>1, <1>2, <1>3, <1>4, KeepsItself, KeepsChain

\* One processing of a block: what train following does, then what the switch solver
\* does for the train that is found in it.
LEMMA ProcessBlockSteps ==
  ASSUME NEW v, Typed(v), NEW b \in Block, NEW force, NEW braking
  PROVE  LET u == ProcessBlock(v, b, force, braking)
         IN /\ \/ u = v
               \/ \E x : /\ Follows(v, x) /\ x.blk[b].trainFollowingChecked
                         /\ Steers(x, u, x.blk[b].train)
            /\ v.blk[b].trainFollowingChecked => Steers(v, u, v.blk[b].train)
<1> DEFINE y == [v EXCEPT !.blk[b].doneAll = FALSE]
           z == Search(y, b)
           w1 == CheckNextBlock(z, b)
           x == Follow(w1, b)
           r == Check(x, b, braking)
           u == ProcessBlock(v, b, force, braking)
<1>1. u = IF v.blk[b].doneAll /\ ~force THEN v ELSE Finish(r, b) BY DEF ProcessBlock
<1>2. Keeps(v, y) /\ Typed(y) BY SwitchWrongKeeps DEF Keeps
<1> HIDE DEF y, u
<1>3. Keeps(y, z) /\ Typed(z) BY <1>2, AlgorSearchKeeps, KeepsItself DEF Search, Keeps
<1> HIDE DEF z
<1>4. Keeps(z, w1) /\ Typed(w1) BY <1>3, CheckNextBlockKeeps DEF Keeps
<1> HIDE DEF w1
<1>5. Keeps(v, w1) BY <1>2, <1>3, <1>4, KeepsChain
<1>6. /\ Follows(w1, x) /\ x.blk[b].trainFollowingChecked
      /\ w1.blk[b].trainFollowingChecked => x = w1
  BY <1>4, FollowFollows
<1> HIDE DEF x
<1>7. Follows(v, x) /\ Typed(x) BY <1>5, <1>6, KeepsFollows, FollowsChain, FollowsTyped
<1>8. Steers(x, r.w, x.blk[b].train) /\ Typed(r.w) BY <1>7, CheckSteers DEF Steers
<1> HIDE DEF r
<1>9. Steers(x, Finish(r, b), x.blk[b].train) BY <1>8, FinishKeeps, SteersKeeps
<1>10. u = v \/ (\E p : /\ Follows(v, p) /\ p.blk[b].trainFollowingChecked
                        /\ Steers(p, u, p.blk[b].train))
  BY <1>1, <1>6, <1>7, <1>9
<1>11. ASSUME v.blk[b].trainFollowingChecked PROVE Steers(v, u, v.blk[b].train)
  <2>1. w1.blk[b].trainFollowingChecked /\ w1.blk[b].train = v.blk[b].train
    BY <1>5, <1>11 DEF Keeps, Alike, SameBlock
  <2>2. Steers(v, w1, v.blk[b].train) BY <1>5, KeepsSteers
  <2>3. Steers(v, Finish(r, b), v.blk[b].train) BY <1>6, <1>9, <2>1, <2>2, SteersChain
  <2> QED BY <1>1, <2>3, KeepsItself, KeepsSteers
<1> QED BY <1>10, <1>11 DEF u

AgainTurn(a, n, y) == ProcessAgain(a, y.x)
\* A block may be processed several times over: the trains are looked for once.
AgainGood(a, n, y) ==
  \/ Follows(y.world, a)
  \/ \E x : /\ Follows(y.world, x) /\ Steers(x, a, a.blk[y.x.block].train)
            /\ a.blk[y.x.block].trainFollowingChecked
AgainLoop == INSTANCE Loops WITH Step <- AgainTurn, Good <- AgainGood

\* The solver moves no train: processed a second time, the block has the same one.
LEMMA SteersStands ==
  ASSUME NEW v, NEW u, NEW t, Steers(v, u, t)
  PROVE  Typed(u) /\ \A b \in Block : /\ u.blk[b].train = v.blk[b].train
                                      /\ u.blk[b].trainFollowingChecked = v.blk[b].trainFollowingChecked
                                      /\ u.blk[b].blocked = v.blk[b].blocked
BY DEF Steers, Stands

\* A block that was followed is left to the solver when it is processed again,
LEMMA ProcessBlockGood ==
  ASSUME NEW v, NEW y, NEW a, Typed(a), AgainGood(a, 0, y), y.x.block \in Block, NEW force, NEW braking
  PROVE  AgainGood(ProcessBlock(a, y.x.block, force, braking), 0, y)
<1> DEFINE b == y.x.block
           u == ProcessBlock(a, b, force, braking)
<1>1. /\ \/ u = a
         \/ \E x : /\ Follows(a, x) /\ x.blk[b].trainFollowingChecked
                   /\ Steers(x, u, x.blk[b].train)
      /\ a.blk[b].trainFollowingChecked => Steers(a, u, a.blk[b].train)
  BY ProcessBlockSteps
<1> HIDE DEF u
<1>2. CASE Follows(y.world, a)
  <2>1. CASE u = a BY <1>2, <2>1 DEF AgainGood, u
  <2>2. ASSUME NEW x, Follows(a, x), x.blk[b].trainFollowingChecked, Steers(x, u, x.blk[b].train)
        PROVE  AgainGood(u, 0, y)
    <3>1. Follows(y.world, x) BY <1>2, <2>2, FollowsChain
    <3>2. u.blk[b].trainFollowingChecked /\ u.blk[b].train = x.blk[b].train BY <2>2, SteersStands
    <3> QED BY <2>2, <3>1, <3>2 DEF AgainGood
  <2> QED BY <1>1, <2>1, <2>2 DEF u
<1>3. ASSUME NEW x, Follows(y.world, x), Steers(x, a, a.blk[b].train), a.blk[b].trainFollowingChecked
      PROVE  AgainGood(u, 0, y)
  <2>1. Steers(a, u, a.blk[b].train) BY <1>1, <1>3
  <2>2. u.blk[b].trainFollowingChecked /\ u.blk[b].train = a.blk[b].train BY <1>3, <2>1, SteersStands
  <2>3. Steers(x, u, u.blk[b].train) BY <1>3, <2>1, <2>2, SteersChain
  <2> QED BY <1>3, <2>2, <2>3 DEF AgainGood
<1>4. AgainGood(u, 0, y) BY <1>2, <1>3 DEF AgainGood, u
<1> QED BY <1>4 DEF u

\* the world stays typed,
LEMMA AgainTyped ==
  ASSUME NEW a, NEW y, AgainGood(a, 0, y)
  PROVE  Typed(a)
BY FollowsTyped, SteersStands DEF AgainGood

\* and queues may be written in between.
LEMMA AgainKeeps ==
  ASSUME NEW a, NEW u, NEW y, AgainGood(a, 0, y), Keeps(a, u), y.x.block \in Block
  PROVE  AgainGood(u, 0, y)
<1> DEFINE b == y.x.block
<1>1. CASE Follows(y.world, a) BY <1>1, FollowsKeeps DEF AgainGood
<1>2. ASSUME NEW x, Follows(y.world, x), Steers(x, a, a.blk[b].train), a.blk[b].trainFollowingChecked
      PROVE  AgainGood(u, 0, y)
  <2>1. u.blk[b].train = a.blk[b].train /\ u.blk[b].trainFollowingChecked
    BY <1>2 DEF Keeps, Alike, SameBlock
  <2>2. Steers(x, u, u.blk[b].train) BY <1>2, <2>1, SteersKeeps
  <2> QED BY <1>2, <2>1, <2>2 DEF AgainGood
<1> QED BY <1>1, <1>2 DEF AgainGood

\* BlockTick processes a block so, and queues what it changed.
LEMMA TickBlockSteps ==
  ASSUME NEW v, Typed(v), NEW b \in Block, NEW braking
  PROVE  \E x, t : Follows(v, x) /\ Steers(x, TickBlock(v, b, braking), t)
<1> DEFINE x == [block |-> b, braking |-> braking]
           y == [x |-> x, world |-> v]
           a0 == ProcessBlock(v, b, FALSE, braking)
           an == AgainLoop!At(a0, y, ReprocessBound)
           u == TickBlock(v, b, braking)
<1>1. y.x = x /\ y.world = v /\ x.block = b /\ y.x.block \in Block OBVIOUS
<1>2. TickBlock(v, b, braking) = NoneLeft(an, b)
  BY DEF TickBlock, Reprocess, AgainLoop!At, AgainTurn
<1> HIDE DEF x, y
<1>3. AgainGood(v, 0, y) BY <1>1, KeepsItself, KeepsFollows DEF AgainGood
<1>4. AgainGood(a0, 0, y) BY <1>1, <1>3, ProcessBlockGood
<1>5. ASSUME NEW a, AgainGood(a, 0, y) PROVE AgainGood(ProcessAgain(a, x), 0, y)
  <2> DEFINE c == [a EXCEPT !.blk[x.block].recalculate = FALSE]
  <2>1. Keeps(a, c) BY <1>5, AgainTyped, SwitchWrongKeeps
  <2>2. ProcessAgain(a, x) = IF Recalculates(a, b) THEN ProcessBlock(c, y.x.block, FALSE, x.braking) ELSE a
    BY <1>1 DEF ProcessAgain
  <2> HIDE DEF c
  <2>3. AgainGood(c, 0, y) BY <1>1, <1>5, <2>1, AgainKeeps
  <2>4. AgainGood(ProcessBlock(c, y.x.block, FALSE, x.braking), 0, y)
    BY <1>1, <2>3, AgainTyped, ProcessBlockGood
  <2> QED BY <1>5, <2>2, <2>4
<1>6. \A a, n : AgainTurn(a, n, y) = ProcessAgain(a, x) BY <1>1 DEF AgainTurn
<1>7. \A a, n, m : AgainGood(a, n, y) <=> AgainGood(a, m, y) BY DEF AgainGood
<1>8. ReprocessBound \in Nat BY DEF ReprocessBound
<1> HIDE DEF a0
<1>9. AgainGood(an, ReprocessBound, y)
  <2>1. AgainGood(a0, 0, y) BY <1>4
  <2>2. \A a : \A n \in 1..ReprocessBound : AgainGood(a, n - 1, y) => AgainGood(AgainTurn(a, n, y), n, y)
    BY <1>5, <1>6, <1>7
  <2> QED BY <1>8, <2>1, <2>2, AgainLoop!Kept
<1> HIDE DEF an, u
<1>10. AgainGood(an, 0, y) BY <1>7, <1>9
<1>11. Keeps(an, NoneLeft(an, b)) BY <1>10, AgainTyped, KeepsItself, FaultKeeps DEF NoneLeft
<1>12. AgainGood(u, 0, y) BY <1>1, <1>2, <1>10, <1>11, AgainKeeps DEF u
<1>13. CASE Follows(v, u)
  <2>1. Steers(u, u, None) BY <1>13, FollowsTyped, KeepsItself, KeepsSteers
  <2> QED BY <1>13, <2>1 DEF u
<1> QED BY <1>1, <1>12, <1>13 DEF AgainGood, u

-----------------------------------------------------------------------------
(* What a thread may do in one step *)

\* What a step of a thread promises: no points move under a train, none in a block another train
\* holds, paths stay aligned and reservations recorded.
Reliable(v, u) ==
  /\ Typed(u)
  /\ \A b \in Block : u.blk[b].blocked = v.blk[b].blocked
  /\ Recorded(v) => Recorded(u)
  /\ PathsApart /\ Aligned(v) => Aligned(u)
  /\ \A s \in Switch :
       u.sw[s] # v.sw[s] =>
         /\ ~v.blk[Detection[s]].blocked
         /\ PathsApart /\ Holders(v, Detection[s]) # {} =>
              Holders(u, Detection[s]) \subseteq Holders(v, Detection[s])

\* Train following turns no path.
LEMMA FollowsAligned ==
  ASSUME NEW v, NEW u, Typed(v), Follows(v, u), Aligned(v)
  PROVE  Aligned(u)
<1> SUFFICES ASSUME NEW p \in Path PROVE PathAligned(u, p) BY DEF Aligned
<1>1. PathAligned(v, p) BY DEF Aligned
<1>2. \A b \in PathBlocks(p) : u.blk[b].dir = v.blk[b].dir BY DEF PathBlocks, Follows
<1>3. /\ u.path[p].Entrance = v.path[p].Entrance /\ u.path[p].Exit = v.path[p].Exit
      /\ v.path[p].Entrance \in PathBlocks(p) /\ v.path[p].Exit \in PathBlocks(p)
  BY DEF Follows, Typed, PathTyped
<1>4. \A b \in PathBlocks(p), d \in {NEXT, PREV} : NextLink(u, b, d) = NextLink(v, b, d)
  BY <1>2 DEF NextLink, End
<1> QED BY <1>1, <1>2, <1>3, <1>4 DEF PathAligned

\* The solver keeps the promise after train following,
LEMMA StepsReliable ==
  ASSUME NEW v, Typed(v), NEW x, Follows(v, x), NEW t, NEW u, Steers(x, u, t)
  PROVE  Reliable(v, u)
<1>1. \A b \in Block : u.blk[b].blocked = v.blk[b].blocked BY DEF Follows, Steers, Stands
<1>2. Recorded(v) => Recorded(u) BY DEF Follows, Steers
<1>3. PathsApart /\ Aligned(v) => Aligned(u) BY FollowsAligned DEF Steers
<1>4. ASSUME NEW s \in Switch, u.sw[s] # v.sw[s]
      PROVE  /\ ~v.blk[Detection[s]].blocked
             /\ PathsApart /\ Holders(v, Detection[s]) # {} =>
                  Holders(u, Detection[s]) \subseteq Holders(v, Detection[s])
  <2> DEFINE b == Detection[s]
  <2>1. b \in Block BY DetectionBlock
  <2>2. SteersAt(x, u, t, s) BY DEF Steers
  <2>3. x.sw[s] = v.sw[s] /\ x.blk[b].blocked = v.blk[b].blocked BY <2>1 DEF Follows
  <2>4. ~v.blk[b].blocked BY <1>4, <2>2, <2>3 DEF SteersAt
  <2>5. Holders(x, b) = Holders(v, b) BY <2>1, <2>4 DEF Follows, Holders
  <2> QED BY <1>4, <2>2, <2>3, <2>4, <2>5 DEF SteersAt
<1> QED BY <1>1, <1>2, <1>3, <1>4 DEF Reliable, Steers

\* and alone.
LEMMA SteersReliable ==
  ASSUME NEW v, Typed(v), NEW t, NEW u, Steers(v, u, t)
  PROVE  Reliable(v, u)
BY StepsReliable, KeepsItself, KeepsFollows

\* It keeps it after changes of aspects, lists and queues.
LEMMA KeepsReliable ==
  ASSUME NEW v, Typed(v), NEW x, Keeps(v, x), NEW u, Reliable(x, u)
  PROVE  Reliable(v, u)
<1>1. Recorded(v) => Recorded(x) BY KeepsFollows DEF Follows
<1>2. Aligned(v) => Aligned(x) BY KeepsAligned DEF Keeps
<1>3. \A b \in Block : x.blk[b].blocked = v.blk[b].blocked /\ Holders(x, b) = Holders(v, b)
  BY DEF Keeps, Alike, SameBlock, Holders
<1>4. x.sw = v.sw BY DEF Keeps, Alike
<1> QED BY <1>1, <1>2, <1>3, <1>4, DetectionBlock DEF Reliable

\* The stations with a parked train may be written.
LEMMA ParkedKeeps ==
  ASSUME NEW v, Typed(v), NEW S
  PROVE  Keeps(v, [v EXCEPT !.parkedIn = S])
BY DEF Keeps, Alike, Typed, SameBlock

\* A train that starts changes only its own fields, what is parked and what is expected.
LEMMA StartKeeps ==
  ASSUME NEW v, Typed(v), NEW t \in Train
  PROVE  Keeps(v, Start(v, t))
<1> DEFINE w0 == [v EXCEPT !.trn[t].phase = "driving"]
           w1 == [w0 EXCEPT !.trn[t].brake = "none"]
           x == SetExpectedTrain(w1, t)
           S == x.parkedIn \ StationsOf(v, t)
           y == [x EXCEPT !.parkedIn = S]
<1>1. Start(v, t) = IF v.trn[t].phase # "idle" THEN w1 ELSE y
  <2>1. [v EXCEPT !.trn[t].phase = "driving", !.trn[t].brake = "none"] = w1 OBVIOUS
  <2>2. [x EXCEPT !.parkedIn = @ \ StationsOf(v, t)] = y OBVIOUS
  <2> HIDE DEF w1
  <2> QED BY <2>1, <2>2 DEF Start
<1>2. Keeps(v, w0) /\ Typed(w0) BY TrainFieldKeeps DEF Keeps
<1> HIDE DEF w0, S
<1>3. Keeps(w0, w1) /\ Typed(w1) BY <1>2, TrainFieldKeeps DEF Keeps
<1> HIDE DEF w1
<1>4. Keeps(w1, x) /\ Typed(x) BY <1>3, SetExpectedTrainKeeps DEF Keeps
<1> HIDE DEF x
<1>5. Keeps(x, y) BY <1>4, ParkedKeeps
<1> HIDE DEF y
<1> QED BY <1>1, <1>2, <1>3, <1>4, <1>5, KeepsChain

\* A train that brakes changes only its own fields.
LEMMA BrakeForKeeps ==
  ASSUME NEW v, Typed(v), NEW t, NEW brake, NEW signal
  PROVE  Keeps(v, BrakeFor(v, t, brake, signal))
<1> DEFINE T == [v.trn[t] EXCEPT !.brake = brake, !.signal = signal]
<1>1. t \in Train => TrainTyped(T) /\ T.reservedBlocks = v.trn[t].reservedBlocks
  BY DEF Typed, TrainTyped
<1>2. [v EXCEPT !.trn[t].brake = brake, !.trn[t].signal = signal] = [v EXCEPT !.trn[t] = T]
  BY DEF Typed
<1> HIDE DEF T
<1>3. Keeps(v, [v EXCEPT !.trn[t] = T]) BY <1>1, TrainPut
<1> QED BY <1>2, <1>3, KeepsItself DEF BrakeFor

\* TrainTick throws and reserves nothing.
LEMMA TrainControlKeeps ==
  ASSUME NEW v, Typed(v), NEW t \in Train, NEW go
  PROVE  Keeps(v, TrainControl(v, t, go))
<1> DEFINE u == TrainControl(v, t, go)
<1>1. u = v \/ u = Start(v, t) \/ \E brake, signal : u = BrakeFor(v, t, brake, signal)
  BY DEF TrainControl
<1> HIDE DEF u
<1>2. Keeps(v, u) BY <1>1, KeepsItself, StartKeeps, BrakeForKeeps
<1> QED BY <1>2 DEF u

\* A train that stops frees what it had reserved.
LEMMA StopSteers ==
  ASSUME NEW v, Typed(v), NEW t \in Train
  PROVE  Steers(v, Stop(v, t), t)
<1> DEFINE w0 == [v EXCEPT !.trn[t].phase = "idle"]
           x == ResetExpectedTrain(w0, t)
           w1 == DereserveAll(x, t)
           b == v.trn[t].B
           S == w1.parkedIn \cup StationsOf(v, t)
           w2 == [w1 EXCEPT !.blk[b].doneAll = FALSE]
           w3 == [w2 EXCEPT !.parkedIn = S]
           wait == [v EXCEPT !.trn[t].phase = "waiting"]
<1>1. Stop(v, t) = IF v.trn[t].brake = "signal" THEN wait ELSE Put(w3, b)
  <2>1. [w1 EXCEPT !.blk[b].doneAll = FALSE, !.parkedIn = @ \cup StationsOf(v, t)] = w3 OBVIOUS
  <2> HIDE DEF w3
  <2>2. Stop(v, t) = IF v.trn[t].brake = "signal" THEN wait
                     ELSE Put([w1 EXCEPT !.blk[b].doneAll = FALSE,
                                         !.parkedIn = @ \cup StationsOf(v, t)], b)
    BY DEF Stop
  <2> QED BY <2>1, <2>2
<1>2. Keeps(v, wait) BY TrainFieldKeeps
<1>3. Keeps(v, w0) /\ Typed(w0) BY TrainFieldKeeps DEF Keeps
<1>4. b \in Block BY DEF Typed, TrainTyped
<1> HIDE DEF w0, S, b, wait
<1>5. Keeps(w0, x) /\ Typed(x) BY <1>3, ResetExpectedTrainKeeps DEF Keeps
<1>6. Keeps(v, x) BY <1>3, <1>5, KeepsChain
<1> HIDE DEF x
<1>7. Steers(x, w1, t) /\ Typed(w1) BY <1>5, DereserveBlocksSteers DEF DereserveAll, Steers
<1> HIDE DEF w1
<1>8. Keeps(w1, w2) /\ Typed(w2) BY <1>7, SwitchWrongKeeps DEF Keeps
<1> HIDE DEF w2
<1>9. Keeps(w2, w3) /\ Typed(w3) BY <1>8, ParkedKeeps DEF Keeps
<1> HIDE DEF w3
<1>10. Keeps(w3, Put(w3, b)) BY <1>4, <1>9, PutsKeep
<1>11. Steers(v, w1, t) BY <1>6, <1>7, KeepsSteers, SteersChain
<1>12. Steers(v, Put(w3, b), t) BY <1>8, <1>9, <1>10, <1>11, SteersKeeps
<1> QED BY <1>1, <1>2, <1>12, KeepsSteers

\* Train::Continue, whatever way its check has found and however old that is
LEMMA ContinueSteers ==
  ASSUME NEW v, Typed(v), NEW t \in Train, NEW b \in Block, NEW way, NEW n
  PROVE  Steers(v, GoOn(ReserveAhead(SolveWith(v, t, b, b, NextLink(v, b, NEXT), TRUE, way), t, b, n), t), t)
<1> DEFINE link == NextLink(v, b, NEXT)
           r == SolveWith(v, t, b, b, link, TRUE, way)
           p == PathOf[b]
           x == IF p = None THEN r.w ELSE PathReserveFrom(r.w, p, t, b)
           u == ReserveAhead(r, t, b, n)
<1>1. link \in Links BY DEF NextLink, End, Links, Ports
<1>2. Steers(v, r.w, t) /\ Typed(r.w) BY <1>1, SolveWithSteers DEF Steers
<1>3. p # None => p \in Path BY RailAssumption
<1>4. u = r.w \/ u = Put(x, b) BY DEF ReserveAhead
<1> HIDE DEF r, p, u
<1>5. Steers(v, x, t) /\ Typed(x)
  <2>1. p # None => Steers(v, PathReserveFrom(r.w, p, t, b), t)
    BY <1>2, <1>3, PathReserveFromSteers, SteersChain
  <2> QED BY <1>2, <2>1 DEF Steers
<1> HIDE DEF x
<1>6. Steers(v, Put(x, b), t) BY <1>5, PutsKeep, SteersKeeps
<1>7. Steers(v, u, t) /\ Typed(u) BY <1>2, <1>4, <1>6 DEF Steers
<1>8. Keeps(u, GoOn(u, t)) BY <1>7, StartKeeps, KeepsItself DEF GoOn
<1>9. Steers(v, GoOn(u, t), t) BY <1>7, <1>8, SteersKeeps
<1> QED BY <1>9 DEF u, r

\* BlockTick keeps the promise.
LEMMA TickBlockReliable ==
  ASSUME NEW v, Typed(v), v.q # <<>>, NEW d
  PROVE  Reliable(v, TickBlock([v EXCEPT !.q = Tail(@)], Head(v.q), d))
<1> DEFINE rest == Tail(v.q)
           u == [v EXCEPT !.q = rest]
           b == Head(v.q)
<1>1. rest \in Seq(Block) /\ b \in Block BY DEF Typed
<1>2. v.tq \in Seq(Block) /\ v.trainq \in Seq(Train) BY DEF Typed
<1>3. [v EXCEPT !.q = Tail(@)] = u OBVIOUS
<1> HIDE DEF rest, b
<1>4. Keeps(v, u) BY <1>1, <1>2, QueuesKeep
<1> HIDE DEF u
<1>5. Typed(u) BY <1>4 DEF Keeps
<1>6. Reliable(u, TickBlock(u, b, d)) BY <1>1, <1>5, TickBlockSteps, StepsReliable
<1>7. Reliable(v, TickBlock(u, b, d)) BY <1>4, <1>6, KeepsReliable
<1> QED BY <1>3, <1>7 DEF b

\* TrainTick keeps it.
LEMMA TickTrainReliable ==
  ASSUME NEW v, Typed(v), v.trainq # <<>>, NEW go
  PROVE  Reliable(v, TrainControl([v EXCEPT !.trainq = Tail(@)], Head(v.trainq), go))
<1> DEFINE rest == Tail(v.trainq)
           u == [v EXCEPT !.trainq = rest]
           t == Head(v.trainq)
<1>1. rest \in Seq(Train) /\ t \in Train BY DEF Typed
<1>2. v.q \in Seq(Block) /\ v.tq \in Seq(Block) BY DEF Typed
<1>3. [v EXCEPT !.trainq = Tail(@)] = u OBVIOUS
<1> HIDE DEF rest, t
<1>4. Keeps(v, u) BY <1>1, <1>2, QueuesKeep
<1> HIDE DEF u
<1>5. Typed(u) BY <1>4 DEF Keeps
<1>6. Keeps(u, TrainControl(u, t, go)) BY <1>1, <1>5, TrainControlKeeps
<1>7. Reliable(u, TrainControl(u, t, go)) BY <1>5, <1>6, KeepsSteers, SteersReliable
<1>8. Reliable(v, TrainControl(u, t, go)) BY <1>4, <1>7, KeepsReliable
<1> QED BY <1>3, <1>8 DEF t

\* The brakes of a train keep it.
LEMMA BrakesReliable ==
  ASSUME NEW v, Typed(v), NEW t \in Train
  PROVE  Reliable(v, [v EXCEPT !.trn[t].brake = "none"]) /\ Reliable(v, Stop(v, t))
<1> DEFINE u == [v EXCEPT !.trn[t].brake = "none"]
<1>1. Keeps(v, u) BY TrainFieldKeeps
<1> HIDE DEF u
<1>2. Reliable(v, u) BY <1>1, KeepsSteers, SteersReliable
<1>3. Reliable(v, Stop(v, t)) BY StopSteers, SteersReliable
<1> QED BY <1>2, <1>3 DEF u

\* The way a switch that may be thrown is thrown.
LEMMA ThrowReliable ==
  ASSUME NEW v, Typed(v), NEW s \in Switch, NEW j, MayThrow(v, s, j)
  PROVE  /\ Reliable(v, Throw(v, s, j))
         /\ \A r \in Switch : Throw(v, s, j).sw[r] # v.sw[r] => r = s
<1> DEFINE u == [v EXCEPT !.sw[s] = j]
           x == Throw(v, s, j)
<1>1. Reliable(v, x)
  <2>1. SwitchSetState(v, s, j) = x BY DEF SwitchSetState
  <2> HIDE DEF x
  <2> QED BY <2>1, SwitchSetStateSteers, SteersReliable
<1>2. Keeps(u, x) BY ThrowKeeps
<1> HIDE DEF x
<1>3. x.sw = u.sw BY <1>2 DEF Keeps, Alike
<1>4. \A r \in Switch : r # s => u.sw[r] = v.sw[r] BY DEF Typed
<1> HIDE DEF u
<1>5. \A r \in Switch : x.sw[r] # v.sw[r] => r = s BY <1>3, <1>4
<1> QED BY <1>1, <1>5 DEF x

BeyondTurn(a, n, x) == BeyondStep(a, x)
BeyondGood(a, n, x) == a \in Links
BeyondLoop == INSTANCE Loops WITH Step <- BeyondTurn, Good <- BeyondGood

\* The wheels of a train are carried to a block or to the end of the track.
LEMMA BeyondTyped ==
  ASSUME NEW v, NEW link \in Links
  PROVE  Beyond(v, link) \in Maybe(Block)
<1>1. BeyondGood(link, 0, v) BY DEF BeyondGood
<1>2. ASSUME NEW a, BeyondGood(a, 0, v) PROVE BeyondGood(BeyondStep(a, v), 0, v)
  <2>1. ASSUME a.type \in {"S", "s"} PROVE Onward(v, a) \in Links
    <3>1. a.to \in Switch BY <1>2, <2>1, LinksTyped DEF BeyondGood
    <3> QED BY <3>1, SwitchLinks DEF Onward, SetPort
  <2> QED BY <1>2, <2>1 DEF BeyondGood, BeyondStep
<1>3. 2 * SwitchSteps \in Nat BY RailAssumption, FS_CardinalityType DEF SwitchSteps
<1>4. Beyond(v, link) = BlockAt(BeyondLoop!At(link, v, 2 * SwitchSteps))
  BY DEF Beyond, BeyondLoop!At, BeyondTurn
<1>5. BeyondGood(BeyondLoop!At(link, v, 2 * SwitchSteps), 2 * SwitchSteps, v)
  BY <1>1, <1>2, <1>3, BeyondLoop!Kept DEF BeyondTurn, BeyondGood
<1> QED BY <1>4, <1>5, LinksTyped DEF BlockAt, BeyondGood, Maybe

\* A detection changes whether a block is occupied, and nothing else.
LEMMA DetectSame ==
  ASSUME Typed(w), NEW b \in Block, NEW on, NEW u, u = Detect(b, on)
  PROVE  /\ Typed(u) /\ u.sw = w.sw
         /\ Recorded(w) => Recorded(u)
         /\ Aligned(w) => Aligned(u)
         /\ \A c \in Block : u.blk[c].blocked = IF c = b THEN on ELSE w.blk[c].blocked
<1> DEFINE B == [w.blk[b] EXCEPT !.blocked = on, !.trainFollowingChecked = FALSE, !.doneAll = FALSE]
           F == [w.blk EXCEPT ![b] = B]
           q == AddOnce(w.q, b)
<1>1. /\ BlockTyped(B) /\ B.blocked = on /\ B.dir = w.blk[b].dir
      /\ B.reservedBy = w.blk[b].reservedBy
  BY DEF Typed, BlockTyped
<1>2. q \in Seq(Block) BY AddOnceTyped DEF Typed
<1>3. DOMAIN F = Block /\ \A c \in Block : F[c] = IF c = b THEN B ELSE w.blk[c] BY DEF Typed
<1>4. u = [w EXCEPT !.blk = F, !.q = q] BY DEF Detect, Typed
<1> HIDE DEF B, F, q
<1>5. /\ u.blk = F /\ u.q = q /\ u.sw = w.sw /\ u.path = w.path /\ u.trn = w.trn
      /\ u.tq = w.tq /\ u.trainq = w.trainq /\ DOMAIN u = DOMAIN w
  BY <1>4 DEF Typed
<1>6. Typed(u) BY <1>1, <1>2, <1>3, <1>5 DEF Typed
<1>7. Recorded(w) => Recorded(u) BY <1>1, <1>3, <1>5 DEF Recorded, Holders
<1>8. \A c \in Block : u.blk[c].dir = w.blk[c].dir BY <1>1, <1>3, <1>5
<1>9. ASSUME Aligned(w), NEW p \in Path PROVE PathAligned(u, p)
  <2>1. PathAligned(w, p) /\ PathTyped(p, w.path[p]) BY <1>9 DEF Aligned, Typed
  <2>2. \A c \in PathBlocks(p) : u.blk[c].dir = w.blk[c].dir BY <1>8 DEF PathBlocks
  <2>3. \A c \in PathBlocks(p), d \in {NEXT, PREV} : NextLink(u, c, d) = NextLink(w, c, d)
    BY <2>2 DEF NextLink, End
  <2> QED BY <1>5, <2>1, <2>2, <2>3 DEF PathAligned, PathTyped
<1>10. \A c \in Block : u.blk[c].blocked = IF c = b THEN on ELSE w.blk[c].blocked
  BY <1>1, <1>3, <1>5
<1> QED BY <1>5, <1>6, <1>7, <1>9, <1>10 DEF Aligned

-----------------------------------------------------------------------------
(* The start *)

\* The world before InitProcess: paths lie the way their train faces, with both ends leading out.
LEMMA BlankGood ==
  /\ Typed(Blank) /\ Recorded(Blank) /\ Aligned(Blank)
  /\ \A b \in Block : Blank.blk[b].blocked <=> \E t \in Train : StartAt[t] = b
<1> DEFINE turned(p) == \E b \in PathBlocks(p) : BlankBlock(b).dir = PREV
           P(p) == [Entrance |-> PathEnd(p, IF turned(p) THEN "next" ELSE "prev"),
                    Exit |-> PathEnd(p, IF turned(p) THEN "prev" ELSE "next"),
                    reservedTrains |-> {},
                    trains |-> {t \in Train : PathOf[StartAt[t]] = p}]
           T(t) == [B |-> StartAt[t], blocks |-> <<StartAt[t]>>, det |-> <<StartAt[t]>>,
                    expectedSet |-> FALSE, phase |-> "idle", brake |-> "none",
                    signal |-> None, reservedBlocks |-> {}]
<1>1. /\ {"blk", "sw", "path", "trn", "q", "tq", "trainq"} \subseteq DOMAIN Blank
      /\ Blank.blk = [b \in Block |-> BlankBlock(b)]
      /\ Blank.sw = [s \in Switch |-> 0]
      /\ Blank.path = [p \in Path |-> P(p)]
      /\ Blank.trn = [t \in Train |-> T(t)]
      /\ Blank.q = <<>> /\ Blank.tq = <<>> /\ Blank.trainq = <<>>
  BY DEF Blank
<1>2. ASSUME NEW b \in Block
      PROVE  /\ BlockTyped(BlankBlock(b)) /\ BlankBlock(b).reservedBy = <<>>
             /\ BlankBlock(b).blocked <=> \E t \in Train : StartAt[t] = b
  <2> DEFINE here == {t \in Train : StartAt[t] = b}
             t == IF here = {} THEN None ELSE CHOOSE x \in here : TRUE
  <2>1. t \in Maybe(Train) BY DEF Maybe
  <2>2. here # {} <=> \E x \in Train : StartAt[x] = b OBVIOUS
  <2> DEFINE d == IF \E x \in {x \in Train : PathOf[StartAt[x]] = PathOf[b] /\ PathOf[b] # None}
                            \cup here : StartDir[x] = PREV THEN PREV ELSE NEXT
             B == BlankBlock(b)
  <2>3. B = [dir |-> d, state |-> PROCEED, reverse |-> PROCEED, blocked |-> here # {}, train |-> t,
             expectedTrain |-> t, expectedDetectable |-> None, reservedBy |-> <<>>,
             switchWrong |-> FALSE, N |-> <<>>, P |-> <<>>, searched |-> FALSE,
             trainFollowingChecked |-> TRUE, switchChecked |-> TRUE, doneAll |-> FALSE,
             recalculate |-> FALSE]
    BY DEF BlankBlock
  <2>4. d \in {NEXT, PREV} OBVIOUS
  <2>5. (here # {}) \in BOOLEAN OBVIOUS
  <2> HIDE DEF here, t, d, B
  <2>6. /\ DOMAIN B = {"dir", "state", "reverse", "blocked", "train", "expectedTrain",
                       "expectedDetectable", "reservedBy", "switchWrong", "N", "P", "searched",
                       "trainFollowingChecked", "switchChecked", "doneAll", "recalculate"}
        /\ B.dir = d /\ B.N = <<>> /\ B.P = <<>> /\ B.reservedBy = <<>> /\ B.train = t
        /\ B.expectedTrain = t /\ B.expectedDetectable = None /\ B.blocked = (here # {})
        /\ B.searched = FALSE
    BY <2>3
  <2>7. BlockTyped(B) BY <2>1, <2>4, <2>5, <2>6 DEF BlockTyped, Maybe
  <2>8. B.blocked <=> \E x \in Train : StartAt[x] = b BY <2>2, <2>6
  <2> QED BY <2>6, <2>7, <2>8 DEF B
<1>3. ASSUME NEW p \in Path, NEW end \in {"next", "prev"}
      PROVE  PathEnd(p, end) \in PathBlocks(p) /\ LeavesPath(p, Link[<<PathEnd(p, end), end>>])
  BY InterlockingAssumption DEF PathEnd
<1>4. \A p \in Path : PathTyped(p, P(p)) BY <1>3 DEF PathTyped
<1>5. \A t \in Train : TrainTyped(T(t)) /\ T(t).reservedBlocks = {}
  BY InterlockingAssumption DEF TrainTyped
<1> HIDE DEF T
<1>6. Typed(Blank) BY <1>1, <1>2, <1>4, <1>5 DEF Typed
<1>7. Recorded(Blank) BY <1>1, <1>2 DEF Recorded, Holders, ToSet
<1>8. ASSUME NEW p \in Path PROVE PathAligned(Blank, p)
  <2> DEFINE faces == {x \in Train : PathOf[StartAt[x]] = p /\ p # None}
             back == \E x \in faces : StartDir[x] = PREV
  <2>1. ASSUME NEW b \in PathBlocks(p) PROVE BlankBlock(b).dir = IF back THEN PREV ELSE NEXT
    <3>1. b \in Block /\ PathOf[b] = p /\ p # None BY RailAssumption DEF PathBlocks
    <3>2. faces \cup {t \in Train : StartAt[t] = b} = faces BY <3>1
    <3>3. BlankBlock(b).dir = IF \E x \in {x \in Train : PathOf[StartAt[x]] = PathOf[b] /\ PathOf[b] # None}
                                          \cup {t \in Train : StartAt[t] = b} : StartDir[x] = PREV
                              THEN PREV ELSE NEXT
      BY DEF BlankBlock
    <3> QED BY <3>1, <3>2, <3>3
  <2> HIDE DEF faces, back
  <2>2. PathBlocks(p) # {} BY <1>3
  <2>3. turned(p) <=> back BY <2>1, <2>2 DEF NEXT, PREV
  <2>4. Blank.path[p].Entrance = PathEnd(p, IF back THEN "next" ELSE "prev")
    BY <1>1, <2>3
  <2>5. Blank.path[p].Exit = PathEnd(p, IF back THEN "prev" ELSE "next")
    BY <1>1, <2>3
  <2>6. \A b \in PathBlocks(p) : Blank.blk[b].dir = IF back THEN PREV ELSE NEXT
    BY <1>1, <2>1 DEF PathBlocks
  <2> DEFINE en == PathEnd(p, IF back THEN "next" ELSE "prev")
             ex == PathEnd(p, IF back THEN "prev" ELSE "next")
  <2>e. /\ en \in PathBlocks(p) /\ LeavesPath(p, Link[<<en, IF back THEN "next" ELSE "prev">>])
        /\ ex \in PathBlocks(p) /\ LeavesPath(p, Link[<<ex, IF back THEN "prev" ELSE "next">>])
    BY <1>3
  <2> HIDE DEF en, ex
  <2>7. LeavesPath(p, NextLink(Blank, Blank.path[p].Entrance, PREV))
    <3>1. Blank.path[p].Entrance = en BY <2>4 DEF en
    <3>2. End(Blank, en, PREV) = IF back THEN "next" ELSE "prev"
      BY <2>e, <2>6 DEF End, NEXT, PREV
    <3> QED BY <2>e, <3>1, <3>2 DEF NextLink
  <2>8. LeavesPath(p, NextLink(Blank, Blank.path[p].Exit, NEXT))
    <3>1. Blank.path[p].Exit = ex BY <2>5 DEF ex
    <3>2. End(Blank, ex, NEXT) = IF back THEN "prev" ELSE "next"
      BY <2>e, <2>6 DEF End, NEXT, PREV
    <3> QED BY <2>e, <3>1, <3>2 DEF NextLink
  <2> QED BY <2>6, <2>7, <2>8 DEF PathAligned
<1>9. \A b \in Block : Blank.blk[b].blocked <=> \E t \in Train : StartAt[t] = b
  BY <1>1, <1>2
<1> QED BY <1>6, <1>7, <1>8, <1>9 DEF Aligned

\* What a world the program is in agrees with.
Sound(v) ==
  /\ Typed(v) /\ Recorded(v)
  /\ PathsApart => Aligned(v)

\* A step that keeps the promise leads from such a world to such a world.
LEMMA ReliableSound ==
  ASSUME NEW v, NEW u, Sound(v), Reliable(v, u)
  PROVE  Sound(u)
BY DEF Sound, Reliable

StartTurn(a, n, x) == StartStep(a)
StartGood(a, n, x) ==
  /\ {"w", "left"} \subseteq DOMAIN a /\ a.left \subseteq Block
  /\ Sound(a.w)
  /\ \A b \in Block : a.w.blk[b].blocked <=> \E t \in Train : StartAt[t] = b
StartLoop == INSTANCE Loops WITH Step <- StartTurn, Good <- StartGood

\* To process a block is such a step.
LEMMA ProcessReliable ==
  ASSUME NEW v, Typed(v), NEW b \in Block, NEW force, NEW braking
  PROVE  Reliable(v, ProcessBlock(v, b, force, braking))
<1> DEFINE u == ProcessBlock(v, b, force, braking)
<1>1. u = v \/ \E x : Follows(v, x) /\ Steers(x, u, x.blk[b].train) BY ProcessBlockSteps
<1> HIDE DEF u
<1>2. CASE u = v BY <1>2, KeepsItself, KeepsSteers, SteersReliable DEF u
<1>3. ASSUME NEW x, Follows(v, x), Steers(x, u, x.blk[b].train) PROVE Reliable(v, u)
  BY <1>3, StepsReliable
<1> QED BY <1>1, <1>2, <1>3 DEF u

\* The world after InitProcess is such a world, and occupied where the trains stand.
LEMMA StartedGood ==
  /\ Sound(Started)
  /\ \A b \in Block : Started.blk[b].blocked <=> \E t \in Train : StartAt[t] = b
<1> DEFINE a0 == [w |-> Blank, left |-> Block]
           N == Cardinality(Block)
<1>1. StartGood(a0, 0, 0) BY BlankGood DEF StartGood, Sound
<1>2. ASSUME NEW a, StartGood(a, 0, 0) PROVE StartGood(StartStep(a), 0, 0)
  <2>1. CASE a.left = {} BY <1>2, <2>1 DEF StartStep
  <2>2. CASE a.left # {}
    <3> DEFINE b == CHOOSE x \in a.left : TRUE
               u == ProcessBlock(a.w, b, TRUE, 0)
    <3>1. StartStep(a) = [w |-> u, left |-> a.left \ {b}] BY <2>2 DEF StartStep
    <3>2. b \in Block BY <1>2, <2>2 DEF StartGood
    <3> HIDE DEF b
    <3>3. Reliable(a.w, u) BY <1>2, <3>2, ProcessReliable DEF StartGood, Sound
    <3> HIDE DEF u
    <3>4. Sound(u) BY <1>2, <3>3, ReliableSound DEF StartGood
    <3>5. \A c \in Block : u.blk[c].blocked <=> \E t \in Train : StartAt[t] = c
      BY <1>2, <3>3 DEF StartGood, Reliable
    <3>6. a.left \ {b} \subseteq Block BY <1>2 DEF StartGood
    <3> QED BY <3>1, <3>4, <3>5, <3>6 DEF StartGood
  <2> QED BY <2>1, <2>2
<1>3. N \in Nat BY RailAssumption, FS_CardinalityType
<1>4. Started = StartLoop!At(a0, 0, N).w BY DEF Started, StartLoop!At, StartTurn
<1> HIDE DEF a0, N
<1>5. \A a, n : StartTurn(a, n, 0) = StartStep(a) BY DEF StartTurn
<1>6. \A a, n, m : StartGood(a, n, 0) <=> StartGood(a, m, 0) BY DEF StartGood
<1>7. StartGood(StartLoop!At(a0, 0, N), N, 0)
  <2>1. \A a : \A n \in 1..N : StartGood(a, n - 1, 0) => StartGood(StartTurn(a, n, 0), n, 0)
    BY <1>2, <1>5, <1>6
  <2> QED BY <1>1, <1>3, <2>1, StartLoop!Kept
<1> QED BY <1>4, <1>7 DEF StartGood

-----------------------------------------------------------------------------
(* The blocks of a train *)

\* A train that enters a block is in one more,
LEMMA OneMore ==
  ASSUME NEW p \in Seq(Block), Len(p) = 1, NEW n \in Block,
         NEW q, q = Append(p, n) \/ q = <<n>> \o p
  PROVE  q \in Seq(Block) /\ Len(q) = 2 /\ ToSet(q) = ToSet(p) \cup {n}
<1>1. CASE q = Append(p, n)
  <2>a. Append(p, n) \in Seq(Block) /\ Len(Append(p, n)) = Len(p) + 1 BY Appended
  <2>1. q \in Seq(Block) /\ Len(q) = 2 BY <1>1, <2>a
  <2>2. ToSet(Append(p, n)) = ToSet(p) \cup {n} BY Appended
  <2> QED BY <1>1, <2>1, <2>2
<1>2. CASE q = <<n>> \o p
  <2> DEFINE l == <<n>>
  <2>0. l \in Seq(Block) /\ Len(l) = 1 /\ l[1] = n OBVIOUS
  <2> HIDE DEF l
  <2>q. q = l \o p BY <1>2 DEF l
  <2>1. q \in Seq(Block) /\ Len(q) = 2 BY <2>0, <2>q
  <2>2. q[1] = n /\ q[2] = p[1] BY <2>0, <2>q
  <2>3. DOMAIN q = 1..2 /\ DOMAIN p = 1..1 BY <2>1
  <2>4. ToSet(q) = {q[1], q[2]} /\ ToSet(p) = {p[1]} BY <2>3 DEF ToSet
  <2> QED BY <2>1, <2>2, <2>4
<1> QED BY <1>1, <1>2

\* and one that leaves a block in one less.
LEMMA OneLess ==
  ASSUME NEW p \in Seq(Block), Len(p) = 2, NEW q, NEW rear,
         \/ q = Tail(p) /\ rear = Head(p)
         \/ q = Front(p) /\ rear = Last(p)
  PROVE  /\ q \in Seq(Block) /\ Len(q) = 1 /\ rear \in Block
         /\ ToSet(p) = ToSet(q) \cup {rear}
<1>1. p[1] \in Block /\ p[2] \in Block /\ DOMAIN p = 1..2 OBVIOUS
<1>2. ToSet(p) = {p[1], p[2]} BY <1>1 DEF ToSet
<1>3. CASE q = Tail(p) /\ rear = Head(p)
  <2>1. q \in Seq(Block) /\ Len(q) = 1 /\ q[1] = p[2] /\ rear = p[1] BY <1>3
  <2>2. DOMAIN q = 1..1 BY <2>1
  <2>3. ToSet(q) = {p[2]} BY <2>1, <2>2 DEF ToSet
  <2> QED BY <1>1, <1>2, <2>1, <2>3
<1>4. CASE q = Front(p) /\ rear = Last(p)
  <2>1. q = SubSeq(p, 1, 1) /\ rear = p[2] BY <1>4 DEF Front, Last
  <2>2. q \in Seq(Block) /\ Len(q) = 1 /\ q[1] = p[1] BY <2>1
  <2>3. DOMAIN q = 1..1 BY <2>2
  <2>4. ToSet(q) = {p[1]} BY <2>2, <2>3 DEF ToSet
  <2> QED BY <1>1, <1>2, <2>1, <2>2, <2>4
<1> QED BY <1>3, <1>4

-----------------------------------------------------------------------------
(* The invariant *)

\* Every train is in one block or over a joint, and the detections say where.
Located ==
  /\ DOMAIN pos = Train
  /\ \A t \in Train : pos[t] \in Seq(Block) /\ Len(pos[t]) \in {1, 2}
  /\ \A b \in Block : w.blk[b].blocked <=> \E t \in Train : b \in ToSet(pos[t])

\* What the scheduler thread and a client remember between two steps.  Where
\* nothing comes between them, what the client has tested still holds.
Threads ==
  /\ sched # AtRest => sched.train \in Train
  /\ client # AtRest => client.sw \in Switch
  /\ ~Preempted => /\ sched = AtRest \/ client = AtRest
                   /\ client # AtRest => MayThrow(w, client.sw, client.state)

Inv == Sound(w) /\ Located /\ Threads

\* The three kinds of steps that change the world: a thread works on it, a train
\* moves under the detection, a client throws a switch.
Worked == Reliable(w, w') /\ UNCHANGED <<pos, client>>

TrainMoved ==
  /\ Sound(w') /\ w'.sw = w.sw /\ Located'
  /\ UNCHANGED <<sched, client>>

Thrown ==
  /\ client # AtRest /\ w' = Throw(w, client.sw, client.state)
  /\ client' = AtRest /\ UNCHANGED <<pos, sched>>

\* The detection of a train that enters a block follows it,
LEMMA EnterMoves ==
  ASSUME Inv, NEW t \in Train, Enter(t)
  PROVE  TrainMoved
<1> DEFINE n == Beyond(w, LinkAhead(t))
           p == pos[t]
           q == IF StartDir[t] = NEXT THEN Append(p, n) ELSE <<n>> \o p
<1>1. p \in Seq(Block) /\ Len(p) = 1 /\ DOMAIN pos = Train BY DEF Inv, Located, Enter
<1>2. LinkAhead(t) \in Links
  <2>1. FrontOf(t) \in Block BY <1>1 DEF FrontOf, Last
  <2> QED BY <2>1 DEF LinkAhead, Links, Ports
<1>3. n \in Block
  <2>1. n # None BY DEF Enter
  <2>2. n \in Maybe(Block) BY <1>2, BeyondTyped
  <2> QED BY <2>1, <2>2 DEF Maybe
<1>4. pos' = [pos EXCEPT ![t] = q] /\ UNCHANGED <<sched, client>> BY DEF Enter
<1>5. w' = IF w.blk[n].blocked THEN w ELSE Detect(n, TRUE) BY DEF Enter
<1> HIDE DEF n, p, q
<1>6. q \in Seq(Block) /\ Len(q) = 2 /\ ToSet(q) = ToSet(p) \cup {n}
  BY <1>1, <1>3, OneMore DEF q
<1>7. \A o \in Train : pos'[o] = IF o = t THEN q ELSE pos[o] BY <1>1, <1>4
<1>8. \A b : (\E o \in Train : b \in ToSet(pos'[o])) <=> b = n \/ \E o \in Train : b \in ToSet(pos[o])
  BY <1>6, <1>7 DEF p
<1>9. Sound(w') /\ w'.sw = w.sw /\ \A b \in Block : w'.blk[b].blocked <=> b = n \/ w.blk[b].blocked
  <2>1. CASE w.blk[n].blocked BY <1>5, <2>1 DEF Inv
  <2>2. CASE ~w.blk[n].blocked
    <3> DEFINE on == TRUE
    <3>1. w' = Detect(n, on) BY <1>5, <2>2
    <3> HIDE DEF on
    <3>2. /\ Typed(w') /\ w'.sw = w.sw /\ (Recorded(w) => Recorded(w')) /\ (Aligned(w) => Aligned(w'))
          /\ \A c \in Block : w'.blk[c].blocked = IF c = n THEN on ELSE w.blk[c].blocked
      BY <1>3, <3>1, DetectSame DEF Inv, Sound
    <3> QED BY <3>2 DEF Inv, Sound, on
  <2> QED BY <2>1, <2>2
<1>10. Located'
  <2>1. DOMAIN pos' = Train BY <1>1, <1>4
  <2>2. \A o \in Train : pos'[o] \in Seq(Block) /\ Len(pos'[o]) \in {1, 2}
    BY <1>6, <1>7 DEF Inv, Located
  <2>3. \A b \in Block : w.blk[b].blocked <=> \E o \in Train : b \in ToSet(pos[o])
    BY DEF Inv, Located
  <2> QED BY <1>8, <1>9, <2>1, <2>2, <2>3 DEF Located
<1> QED BY <1>4, <1>9, <1>10 DEF TrainMoved

\* and so it does when it leaves a block that no other train is in.
LEMMA LeaveMoves ==
  ASSUME Inv, NEW t \in Train, Leave(t)
  PROVE  TrainMoved
<1> DEFINE p == pos[t]
           q == IF StartDir[t] = NEXT THEN Tail(p) ELSE Front(p)
           rear == IF StartDir[t] = NEXT THEN Head(p) ELSE Last(p)
<1>1. p \in Seq(Block) /\ Len(p) = 2 /\ DOMAIN pos = Train BY DEF Inv, Located, Leave
<1>2. pos' = [pos EXCEPT ![t] = q] /\ UNCHANGED <<sched, client>> BY DEF Leave
<1>3. w' = IF \E o \in Train : rear \in ToSet(pos'[o]) THEN w ELSE Detect(rear, FALSE) BY DEF Leave
<1> HIDE DEF p, q, rear
<1>4. q \in Seq(Block) /\ Len(q) = 1 /\ rear \in Block /\ ToSet(p) = ToSet(q) \cup {rear}
  BY <1>1, OneLess DEF q, rear
<1>5. \A o \in Train : pos'[o] = IF o = t THEN q ELSE pos[o] BY <1>1, <1>2
<1>6. \A b : b # rear => ((\E o \in Train : b \in ToSet(pos'[o])) <=> \E o \in Train : b \in ToSet(pos[o]))
  BY <1>4, <1>5 DEF p
<1>7. \E o \in Train : rear \in ToSet(pos[o]) BY <1>4 DEF p
<1>8. \A b \in Block : w.blk[b].blocked <=> \E o \in Train : b \in ToSet(pos[o]) BY DEF Inv, Located
<1>9. /\ Sound(w') /\ w'.sw = w.sw
      /\ \A b \in Block : w'.blk[b].blocked <=> \E o \in Train : b \in ToSet(pos'[o])
  <2>1. CASE \E o \in Train : rear \in ToSet(pos'[o])
    <3>1. w' = w BY <1>3, <2>1
    <3>2. \A b : (\E o \in Train : b \in ToSet(pos'[o])) <=> \E o \in Train : b \in ToSet(pos[o])
      BY <1>6, <1>7, <2>1
    <3> QED BY <1>8, <3>1, <3>2 DEF Inv
  <2>2. CASE ~\E o \in Train : rear \in ToSet(pos'[o])
    <3> DEFINE on == FALSE
    <3>1. w' = Detect(rear, on) BY <1>3, <2>2
    <3> HIDE DEF on
    <3>2. /\ Typed(w') /\ w'.sw = w.sw /\ (Recorded(w) => Recorded(w')) /\ (Aligned(w) => Aligned(w'))
          /\ \A c \in Block : w'.blk[c].blocked = IF c = rear THEN on ELSE w.blk[c].blocked
      BY <1>4, <3>1, DetectSame DEF Inv, Sound
    <3>3. Sound(w') BY <3>2 DEF Inv, Sound
    <3>4. \A b \in Block : w'.blk[b].blocked <=> \E o \in Train : b \in ToSet(pos'[o])
      BY <1>6, <1>8, <2>2, <3>2 DEF on
    <3> QED BY <3>2, <3>3, <3>4
  <2> QED BY <2>1, <2>2
<1>10. Located'
  <2>1. DOMAIN pos' = Train BY <1>1, <1>2
  <2>2. \A o \in Train : pos'[o] \in Seq(Block) /\ Len(pos'[o]) \in {1, 2}
    BY <1>4, <1>5 DEF Inv, Located
  <2> QED BY <1>9, <2>1, <2>2 DEF Located
<1> QED BY <1>2, <1>9, <1>10 DEF TrainMoved

\* Who is between two steps is not at rest.
LEMMA Resting == ASSUME NEW a, a.step \in {"checked", "found", "tested"} PROVE a # AtRest
BY DEF AtRest

\* What a step does to the world, and who is between two steps then
LEMMA StepKinds ==
  ASSUME Inv, [Next]_vars
  PROVE  \/ w' = w /\ pos' = pos
         \/ Worked /\ (~Preempted => client = AtRest)
         \/ TrainMoved /\ (~Preempted => client = AtRest)
         \/ Thrown /\ ClientThrows
<1>1. Typed(w) BY DEF Inv, Sound
<1>2. CASE TickBlocks BY <1>1, <1>2, TickBlockReliable DEF TickBlocks, Worked, Undisturbed
<1>3. CASE EndBlocks BY <1>3 DEF EndBlocks
<1>4. CASE TickTrains BY <1>1, <1>4, TickTrainReliable DEF TickTrains, Worked, Undisturbed
<1>5. ASSUME NEW t \in Train, Enter(t) PROVE TrainMoved /\ (~Preempted => client = AtRest)
  BY <1>5, EnterMoves DEF Enter, Undisturbed
<1>6. ASSUME NEW t \in Train, Leave(t) PROVE TrainMoved /\ (~Preempted => client = AtRest)
  BY <1>6, LeaveMoves DEF Leave, Undisturbed
<1>7. ASSUME NEW t \in Train, Brakes(t) PROVE Worked /\ (~Preempted => client = AtRest)
  BY <1>1, <1>7, BrakesReliable DEF Brakes, Worked, Undisturbed
<1>8. ASSUME NEW t \in Train, ContinueCheck(t) PROVE w' = w /\ pos' = pos
  BY <1>8 DEF ContinueCheck
<1>9. CASE ContinueFind BY <1>9 DEF ContinueFind
<1>10. CASE Continue
  <2> DEFINE t == sched.train
             b == w.trn[t].B
             u == GoOn(ReserveAhead(SolveWith(w, t, b, b, NextLink(w, b, NEXT), TRUE, sched.way),
                                    t, b, w.blk[b].N), t)
  <2>1. w' = u /\ pos' = pos /\ client' = client /\ sched.step = "found" BY <1>10 DEF Continue
  <2>2. sched # AtRest BY <2>1, Resting
  <2>3. t \in Train /\ (~Preempted => client = AtRest) BY <2>2 DEF Inv, Threads
  <2>4. b \in Block BY <1>1, <2>3 DEF Typed, TrainTyped
  <2> HIDE DEF t, b
  <2>5. Steers(w, u, t) BY <1>1, <2>3, <2>4, ContinueSteers
  <2> HIDE DEF u
  <2>6. Reliable(w, u) BY <1>1, <2>5, SteersReliable
  <2> QED BY <2>1, <2>3, <2>6 DEF Worked
<1>11. ASSUME NEW s \in Switch, ClientTests(s) PROVE w' = w /\ pos' = pos
  BY <1>11 DEF ClientTests
<1>12. CASE ClientThrows
  <2>1. client # AtRest BY <1>12, Resting DEF ClientThrows
  <2> QED BY <1>12, <2>1 DEF ClientThrows, Thrown
<1>13. CASE UNCHANGED vars BY <1>13 DEF vars
<1> QED BY <1>2, <1>3, <1>4, <1>5, <1>6, <1>7, <1>8, <1>9, <1>10, <1>11, <1>12, <1>13 DEF Next

\* A throw that was tested long ago may move points under a train, but leaves the world sound.
LEMMA ThrownSound ==
  ASSUME Inv, Thrown
  PROVE  Sound(w') /\ Located'
<1> DEFINE s == client.sw
           j == client.state
           v == [w EXCEPT !.sw[s] = j]
<1>1. s \in Switch /\ w' = Throw(w, s, j) /\ pos' = pos /\ Typed(w) BY DEF Inv, Sound, Threads, Thrown
<1> HIDE DEF s, j
<1>2. v.blk = w.blk /\ v.path = w.path /\ v.trn = w.trn /\ v.q = w.q /\ v.tq = w.tq
      /\ v.trainq = w.trainq /\ DOMAIN v = DOMAIN w /\ DOMAIN v.sw = DOMAIN w.sw
  BY <1>1 DEF Typed
<1>3. Keeps(v, w') BY <1>1, ThrowKeeps
<1> HIDE DEF v
<1>4. Typed(v) BY <1>1, <1>2 DEF Typed
<1>5. Recorded(w') BY <1>2, <1>3 DEF Keeps, Alike, SameBlock, Recorded, Holders, Inv, Sound
<1>6. Aligned(w) => Aligned(w')
  <2>1. SUFFICES ASSUME Aligned(w) PROVE Aligned(w') OBVIOUS
  <2>2. Aligned(v) BY <1>2, <2>1 DEF Aligned, PathAligned, NextLink, End
  <2> QED BY <1>3, <1>4, <2>2, KeepsAligned DEF Keeps
<1>7. \A b \in Block : w'.blk[b].blocked = w.blk[b].blocked
  BY <1>2, <1>3 DEF Keeps, Alike, SameBlock
<1>8. Sound(w') BY <1>3, <1>5, <1>6 DEF Keeps, Inv, Sound
<1>9. Located' BY <1>1, <1>7 DEF Inv, Located
<1> QED BY <1>8, <1>9

\* The first two parts of the invariant are kept,
LEMMA WorldSound ==
  ASSUME Inv, [Next]_vars
  PROVE  Sound(w') /\ Located'
<1>1. CASE w' = w /\ pos' = pos BY <1>1 DEF Inv, Located
<1>2. CASE Worked
  <2>1. Sound(w') BY <1>2, ReliableSound DEF Worked, Inv
  <2>2. \A b \in Block : w'.blk[b].blocked = w.blk[b].blocked BY <1>2 DEF Worked, Reliable
  <2>3. Located' BY <1>2, <2>2 DEF Worked, Inv, Located
  <2> QED BY <2>1, <2>3
<1>3. CASE TrainMoved BY <1>3 DEF TrainMoved
<1>4. CASE Thrown BY <1>4, ThrownSound
<1> QED BY <1>1, <1>2, <1>3, <1>4, StepKinds

\* and so is the third: where threads are not preempted nothing comes between a test and its throw.
LEMMA ThreadsKept ==
  ASSUME Inv, [Next]_vars
  PROVE  Threads'
<1>1. Threads BY DEF Inv
<1>2. ASSUME UNCHANGED <<sched, client>>, ~Preempted => client = AtRest PROVE Threads'
  BY <1>1, <1>2 DEF Threads
<1>3. CASE TickBlocks BY <1>2, <1>3 DEF TickBlocks, Undisturbed
<1>4. CASE EndBlocks BY <1>2, <1>4 DEF EndBlocks, Undisturbed
<1>5. CASE TickTrains BY <1>2, <1>5 DEF TickTrains, Undisturbed
<1>6. ASSUME NEW t \in Train, Enter(t) \/ Leave(t) \/ Brakes(t) PROVE Threads'
  BY <1>2, <1>6 DEF Enter, Leave, Brakes, Undisturbed
<1>7. ASSUME NEW t \in Train, ContinueCheck(t) PROVE Threads'
  <2>1. client' = client /\ sched'.train = t /\ (~Preempted => client = AtRest)
    BY <1>7 DEF ContinueCheck, Undisturbed
  <2> QED BY <1>1, <2>1 DEF Threads
<1>8. CASE ContinueFind
  <2>1. sched # AtRest BY <1>8, Resting DEF ContinueFind
  <2>2. client' = client /\ sched'.train = sched.train BY <1>8 DEF ContinueFind
  <2> QED BY <1>1, <2>1, <2>2 DEF Threads
<1>9. CASE Continue
  <2>1. sched # AtRest BY <1>9, Resting DEF Continue
  <2>2. client' = client /\ sched' = AtRest BY <1>9 DEF Continue
  <2> QED BY <1>1, <2>1, <2>2 DEF Threads
<1>10. ASSUME NEW s \in Switch, ClientTests(s) PROVE Threads'
  <2>1. /\ client' = [step |-> "tested", sw |-> s, state |-> 1 - w.sw[s]]
        /\ sched' = sched /\ w' = w /\ MayThrow(w, s, 1 - w.sw[s]) /\ (~Preempted => sched = AtRest)
    BY <1>10 DEF ClientTests, Undisturbed
  <2>2. client'.sw = s /\ client'.state = 1 - w.sw[s] BY <2>1
  <2>3. MayThrow(w', client'.sw, client'.state) BY <2>1, <2>2
  <2> QED BY <1>1, <2>1, <2>2, <2>3 DEF Threads
<1>11. CASE ClientThrows
  <2>1. client' = AtRest /\ sched' = sched BY <1>11 DEF ClientThrows
  <2> QED BY <1>1, <2>1 DEF Threads
<1>12. CASE UNCHANGED vars BY <1>1, <1>12 DEF vars, Threads
<1> QED BY <1>3, <1>4, <1>5, <1>6, <1>7, <1>8, <1>9, <1>10, <1>11, <1>12 DEF Next

\* The invariant holds at the start.
LEMMA InvInit == Init => Inv
<1> SUFFICES ASSUME Init PROVE Inv OBVIOUS
<1>1. /\ w = Started /\ pos = [t \in Train |-> <<StartAt[t]>>] /\ sched = AtRest /\ client = AtRest
  BY DEF Init
<1>2. \A t \in Train : StartAt[t] \in Block BY InterlockingAssumption
<1>3. ASSUME NEW t \in Train
      PROVE  pos[t] \in Seq(Block) /\ Len(pos[t]) = 1 /\ ToSet(pos[t]) = {StartAt[t]}
  <2> DEFINE p == <<StartAt[t]>>
  <2>1. p \in Seq(Block) /\ Len(p) = 1 /\ p[1] = StartAt[t] BY <1>2
  <2>2. pos[t] = p BY <1>1
  <2> HIDE DEF p
  <2>3. DOMAIN p = 1..1 BY <2>1
  <2>4. ToSet(p) = {p[1]} BY <2>3 DEF ToSet
  <2> QED BY <2>1, <2>2, <2>4
<1>4. Sound(w) /\ \A b \in Block : w.blk[b].blocked <=> \E t \in Train : StartAt[t] = b
  BY <1>1, StartedGood
<1>5. Located
  <2>1. DOMAIN pos = Train BY <1>1
  <2>2. \A t \in Train : pos[t] \in Seq(Block) /\ Len(pos[t]) \in {1, 2} BY <1>3
  <2>3. \A t \in Train : \A b : b \in ToSet(pos[t]) <=> StartAt[t] = b BY <1>3
  <2>4. \A b \in Block : w.blk[b].blocked <=> \E t \in Train : b \in ToSet(pos[t]) BY <1>4, <2>3
  <2> QED BY <2>1, <2>2, <2>4 DEF Located
<1> QED BY <1>1, <1>4, <1>5 DEF Inv, Threads

\* The invariant: whatever the trains, the clients and the threads do, objects keep
\* their types, what is reserved is recorded, and the detections tell where trains are.
THEOREM Invariant == Spec => []Inv
<1>1. Inv /\ [Next]_vars => Inv' BY WorldSound, ThreadsKept DEF Inv
<1> QED BY InvInit, <1>1, PTL DEF Spec

\* A train knows of every block that is reserved for it (Block::reserve and
\* Train::reserveBlock, Train::dereserveAll): the half of ReservationsAgree without
\* which a block would stay reserved for good.
THEOREM HeldIsRecorded == Spec => []Recorded(w)
<1>1. Inv => Recorded(w) BY DEF Inv, Sound
<1> QED BY Invariant, <1>1, PTL

\* Path::reverse always turns a path as a whole, whichever train asks for it and
\* however the threads preempt each other: PathsAligned holds of every layout whose
\* switches are detected by blocks where no train may stop.
THEOREM Aligning == PathsApart /\ Spec => []PathsAligned
<1> SUFFICES ASSUME PathsApart PROVE Spec => []PathsAligned OBVIOUS
<1>1. Inv => PathsAligned BY DEF Inv, Sound, Aligned, PathAligned, PathsAligned
<1> QED BY Invariant, <1>1, PTL

\* No step but a client's moves points under a train or in a block another one holds.
LEMMA PointsKept ==
  ASSUME Inv, [Next]_vars, NEW s \in Switch, w'.sw[s] # w.sw[s], ~ClientThrows
  PROVE  /\ ~w.blk[Detection[s]].blocked /\ client' = client
         /\ PathsApart /\ Reserved(w, Detection[s]) =>
              Holders(w', Detection[s]) \subseteq Holders(w, Detection[s])
<1> DEFINE b == Detection[s]
           list == w.blk[b].reservedBy
<1>1. Worked BY StepKinds DEF TrainMoved
<1>2. Reliable(w, w') /\ client' = client BY <1>1 DEF Worked
<1>3. list \in Seq(Train) BY DetectionBlock DEF Inv, Sound, Typed, BlockTyped
<1> HIDE DEF list
<1>4. list # <<>> => list[1] \in ToSet(list) BY <1>3 DEF ToSet
<1>5. Reserved(w, b) => Holders(w, b) # {} BY <1>4 DEF Reserved, Holders, list
<1> QED BY <1>2, <1>5 DEF Reliable

\* Nor does a client's, if nothing has come between its test and its throw.
LEMMA ThrowsKept ==
  ASSUME Inv, [Next]_vars, ~Preempted, NEW s \in Switch, w'.sw[s] # w.sw[s], ClientThrows
  PROVE  ~w.blk[Detection[s]].blocked /\ ~Reserved(w, Detection[s])
<1>1. client # AtRest BY Resting DEF ClientThrows
<1>2. client.sw \in Switch /\ MayThrow(w, client.sw, client.state) /\ Typed(w)
  BY <1>1 DEF Inv, Threads, Sound
<1>3. w' = Throw(w, client.sw, client.state) BY DEF ClientThrows
<1>4. s = client.sw /\ Reliable(w, w') BY <1>2, <1>3, ThrowReliable
<1> QED BY <1>2, <1>4 DEF Reliable, MayThrow

\* Where there is a train, the block is occupied.
LEMMA TrainsSeen ==
  ASSUME Inv, NEW s \in Switch, ~w.blk[Detection[s]].blocked
  PROVE  \A t \in Train : Detection[s] \notin ToSet(pos[t])
BY DetectionBlock DEF Inv, Located

\* However the threads preempt each other, Train::Continue without the mutex included,
\* the program itself moves no points under a train: a throw that a client has tested
\* before is all that may (throw_switch and Switch::setState, which do not hold it).
THEOREM OnlyClientsMove ==
  Spec => [][~ClientThrows =>
               \A s \in Switch :
                 w'.sw[s] # w.sw[s] => \A t \in Train : Detection[s] \notin ToSet(pos[t])]_vars
<1>1. Inv /\ [Next]_vars =>
        (~ClientThrows =>
           \A s \in Switch :
             w'.sw[s] # w.sw[s] => \A t \in Train : Detection[s] \notin ToSet(pos[t]))
  BY PointsKept, TrainsSeen
<1> QED BY Invariant, <1>1, PTL DEF Spec

\* No points move under a train on any layout, as long as nothing comes between the
\* test of Switch::setState and its throw, nor into Train::Continue.
THEOREM Holding == ~Preempted /\ Spec => PointsHeld
<1> SUFFICES ASSUME ~Preempted PROVE Spec => PointsHeld OBVIOUS
<1>1. Inv /\ [Next]_vars =>
        \A s \in Switch : w'.sw[s] # w.sw[s] => \A t \in Train : Detection[s] \notin ToSet(pos[t])
  BY PointsKept, ThrowsKept, TrainsSeen
<1> QED BY Invariant, <1>1, PTL DEF Spec, PointsHeld

\* Nor are the points of a reserved block thrown by a client, or by the solver for a
\* train that does not hold it (Switch::setState, SwitchSolver::findPath).
THEOREM HoldingReserved == PathsApart /\ ~Preempted /\ Spec => ReservedPointsHeld
<1> SUFFICES ASSUME PathsApart, ~Preempted PROVE Spec => ReservedPointsHeld OBVIOUS
<1>1. ASSUME Inv, [Next]_vars, NEW s \in Switch, w'.sw[s] # w.sw[s], Reserved(w, Detection[s])
      PROVE  client' = client /\ Holders(w', Detection[s]) \subseteq Holders(w, Detection[s])
  BY <1>1, PointsKept, ThrowsKept
<1>2. Inv /\ [Next]_vars =>
        \A s \in Switch :
          LET b == Detection[s]
          IN w'.sw[s] # w.sw[s] /\ Reserved(w, b) =>
               client' = client /\ ToSet(w'.blk[b].reservedBy) \subseteq ToSet(w.blk[b].reservedBy)
  BY <1>1 DEF Holders
<1> QED BY Invariant, <1>2, PTL DEF Spec, ReservedPointsHeld
=============================================================================
