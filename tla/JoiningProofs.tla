---------------------------- MODULE JoiningProofs ----------------------------
(***************************************************************************)
(* Proofs about Joining, for every layout, any wagons and clients, and      *)
(* threads that preempt each other.                                         *)
(***************************************************************************)
EXTENDS Joining, WellFoundedInduction, TLAPS

-----------------------------------------------------------------------------
(* Lemmas about the list of connectors.                                    *)

\* RemoveAt moves what lies behind by one.
LEMMA Removed ==
  ASSUME NEW S, NEW s \in Seq(S), NEW i \in 1..Len(s)
  PROVE  /\ RemoveAt(s, i) \in Seq(S)
         /\ Len(RemoveAt(s, i)) = Len(s) - 1
         /\ \A k \in 1..Len(s) - 1 : RemoveAt(s, i)[k] = IF k < i THEN s[k] ELSE s[k + 1]
  <1> DEFINE a == SubSeq(s, 1, i - 1)
             b == SubSeq(s, i + 1, Len(s))
  <1>1. a \in Seq(S) /\ Len(a) = i - 1 /\ \A k \in 1..i - 1 : a[k] = s[k]
    OBVIOUS
  <1>2. b \in Seq(S) /\ Len(b) = Len(s) - i /\ \A k \in 1..Len(s) - i : b[k] = s[k + i]
    OBVIOUS
  <1> HIDE DEF a, b
  <1>3. RemoveAt(s, i) = a \o b
    BY Zenon DEF RemoveAt, a, b
  <1>4. /\ a \o b \in Seq(S) /\ Len(a \o b) = Len(s) - 1
        /\ \A k \in 1..Len(s) - 1 : (a \o b)[k] = IF k <= i - 1 THEN a[k] ELSE b[k - (i - 1)]
    BY <1>1, <1>2
  <1>5. ASSUME NEW k \in 1..Len(s) - 1
        PROVE  (a \o b)[k] = IF k < i THEN s[k] ELSE s[k + 1]
    <2>1. CASE k < i
      BY <2>1, <1>1, <1>4
    <2>2. CASE k >= i
      <3> DEFINE m == k - (i - 1)
      <3>1. m \in 1..Len(s) - i /\ m + i = k + 1 /\ ~(k <= i - 1) /\ ~(k < i)
        BY <2>2
      <3>2. (a \o b)[k] = b[m]
        BY <3>1, <1>4
      <3> HIDE DEF m
      <3>3. b[m] = s[m + i]
        BY <1>2, <3>1
      <3> QED BY <3>1, <3>2, <3>3
    <2>3. k < i \/ k >= i
      OBVIOUS
    <2> QED BY <2>1, <2>2, <2>3, Zenon
  <1> QED BY <1>3, <1>4, <1>5

\* Erased takes the two connectors off the list, whichever is first, and keeps the
\* others once each.
LEMMA ErasedOK ==
  ASSUME NEW S, NEW s \in Seq(S), IsInjective(s),
         NEW i \in 1..Len(s), NEW j \in 1..Len(s), i # j
  PROVE  /\ Erased(s, i, j) \in Seq(S) /\ IsInjective(Erased(s, i, j))
         /\ ToSet(Erased(s, i, j)) = ToSet(s) \ {s[i], s[j]}
  <1> DEFINE h == IF i < j THEN j - 1 ELSE j
             r == RemoveAt(s, i)
             e == RemoveAt(r, h)
             lo == IF i < j THEN i ELSE j
             hi == IF i < j THEN j ELSE i
             at(k) == IF k < lo THEN k ELSE IF k + 1 < hi THEN k + 1 ELSE k + 2
  <1>1. r \in Seq(S) /\ Len(r) = Len(s) - 1
        /\ \A k \in 1..Len(s) - 1 : r[k] = IF k < i THEN s[k] ELSE s[k + 1]
    BY Removed, Zenon DEF r
  <1>2. h \in 1..Len(r)
    BY <1>1
  <1> HIDE DEF r
  <1>3. e \in Seq(S) /\ Len(e) = Len(r) - 1
        /\ \A k \in 1..Len(r) - 1 : e[k] = IF k < h THEN r[k] ELSE r[k + 1]
    BY <1>1, <1>2, Removed, Zenon DEF e
  <1> HIDE DEF e
  <1>4. Len(e) = Len(s) - 2 /\ DOMAIN e = 1..Len(s) - 2 /\ DOMAIN s = 1..Len(s)
    BY <1>1, <1>3
  <1>5. ASSUME NEW k \in 1..Len(s) - 2
        PROVE  e[k] = s[at(k)]
    <2>1. k \in 1..Len(r) - 1 /\ k \in 1..Len(s) - 1 /\ k + 1 \in 1..Len(s) - 1
      BY <1>1
    <2>2. e[k] = IF k < h THEN r[k] ELSE r[k + 1]
      BY <1>3, <2>1
    <2>3. /\ r[k] = IF k < i THEN s[k] ELSE s[k + 1]
          /\ r[k + 1] = IF k + 1 < i THEN s[k + 1] ELSE s[k + 1 + 1]
      BY <1>1, <2>1
    <2> QED BY <2>2, <2>3
  <1>6. ASSUME NEW k \in 1..Len(s) - 2
        PROVE  at(k) \in 1..Len(s) /\ at(k) # i /\ at(k) # j
    OBVIOUS
  <1>7. ASSUME NEW k \in 1..Len(s) - 2, NEW l \in 1..Len(s) - 2, at(k) = at(l)
        PROVE  k = l
    BY <1>7
  <1>8. ASSUME NEW m \in 1..Len(s), m # i, m # j
        PROVE  \E k \in 1..Len(s) - 2 : at(k) = m
    <2> DEFINE k == IF m < lo THEN m ELSE IF m < hi THEN m - 1 ELSE m - 2
    <2>1. k \in 1..Len(s) - 2 /\ at(k) = m
      BY <1>8
    <2> QED BY <2>1
  <1>9. Erased(s, i, j) = e
    BY DEF Erased, e, r
  <1> HIDE DEF at
  <1>10. IsInjective(e)
    <2> SUFFICES ASSUME NEW k \in 1..Len(s) - 2, NEW l \in 1..Len(s) - 2, e[k] = e[l]
                 PROVE  k = l
      BY <1>4 DEF IsInjective
    <2>1. s[at(k)] = s[at(l)]
      BY <1>5
    <2>2. at(k) = at(l)
      BY <2>1, <1>4, <1>6 DEF IsInjective
    <2> QED BY <2>2, <1>7
  <1>11. ToSet(e) = ToSet(s) \ {s[i], s[j]}
    <2>1. ASSUME NEW k \in 1..Len(s) - 2
          PROVE  e[k] \in ToSet(s) \ {s[i], s[j]}
      <3>1. at(k) \in DOMAIN s /\ i \in DOMAIN s /\ j \in DOMAIN s /\ at(k) # i /\ at(k) # j
        BY <1>4, <1>6
      <3>2. s[at(k)] # s[i] /\ s[at(k)] # s[j] /\ s[at(k)] \in ToSet(s)
        BY <3>1 DEF IsInjective, ToSet
      <3> QED BY <3>2, <1>5
    <2>2. ASSUME NEW m \in 1..Len(s), s[m] \notin {s[i], s[j]}
          PROVE  s[m] \in ToSet(e)
      <3>1. PICK k \in 1..Len(s) - 2 : at(k) = m
        BY <1>8, <2>2
      <3> QED BY <3>1, <1>4, <1>5 DEF ToSet
    <2> QED BY <2>1, <2>2, <1>4 DEF ToSet
  <1> QED BY <1>3, <1>9, <1>10, <1>11

\* Index finds what is on the list.
LEMMA IndexOf ==
  ASSUME NEW S, NEW s \in Seq(S), NEW c \in ToSet(s)
  PROVE  Index(s, c) \in 1..Len(s) /\ s[Index(s, c)] = c
  BY DEF Index, ToSet

-----------------------------------------------------------------------------
(* The invariants.                                                         *)

\* A connector stands on the list once and until it is joined; the algorithm thread
\* still finds there what find_connectable found, as the client waits for it.
ListInv ==
  /\ connectors \in Seq(Connector) /\ IsInjective(connectors)
  /\ connection \in [Connector -> [to : Connector \cup {None}, crossover : BOOLEAN]]
  /\ step \in {"test", "find", "connect", "save", "map", "run"}
  /\ loading \in {"idle", "wait", "load", "done"}
  /\ \A c \in ToSet(connectors) : connection[c] = NotJoined
  /\ step = "connect" =>
       \E i, j \in 1..Len(connectors) : i < j /\ found = <<i, j>>
  /\ step # "connect" => found = <<>>
  /\ loading = "load" => step # "connect"
  /\ setup \in Setups

\* Two connectors on the list are joined and leave it.
JoinsTwo(c, d, x) ==
  /\ c \in ToSet(connectors) /\ d \in ToSet(connectors) /\ c # d
  /\ x \in BOOLEAN /\ Ports[c] = Ports[d]
  /\ Connect(c, d, x)
  /\ connectors' \in Seq(Connector) /\ IsInjective(connectors')
  /\ ToSet(connectors') = ToSet(connectors) \ {c, d}

\* What a setup says of a connector: nothing, or how it lies.
LEMMA SetupSays ==
  ASSUME setup \in Setups, NEW c \in Connector
  PROVE  setup[c] \in {NotJoined, Joint(c)} /\ (~Incomplete => setup[c] = Joint(c))
  <1>1. PICK cs : setup = [d \in Connector |-> IF d \in cs THEN Joint(d) ELSE NotJoined]
    BY DEF Setups
  <1>2. ~Incomplete => setup = [d \in Connector |-> Joint(d)]
    BY DEF Setups
  <1> QED BY <1>1, <1>2

\* A connector that is found is one of two on the list, and they are joined as their
\* blocks tell.
LEMMA FoundJoins ==
  ASSUME ListInv, ConnectConnectors, rails' # rails
  PROVE  \E i, j \in 1..Len(connectors) :
           /\ MayConnect(connectors[i], connectors[j])
           /\ JoinsTwo(connectors[i], connectors[j], ~Straight(connectors[i], connectors[j]))
  <1>1. PICK i \in 1..Len(connectors), j \in 1..Len(connectors) : i < j /\ found = <<i, j>>
    BY DEF ListInv, ConnectConnectors
  <1> DEFINE c == connectors[i]
             d == connectors[j]
  <1>2. /\ MayConnect(c, d)
        /\ Connect(c, d, ~Straight(c, d)) /\ connectors' = Erased(connectors, i, j)
    BY <1>1 DEF ConnectConnectors, rails
  <1>3. /\ connectors' \in Seq(Connector) /\ IsInjective(connectors')
        /\ ToSet(connectors') = ToSet(connectors) \ {c, d}
    BY <1>1, <1>2, ErasedOK DEF ListInv
  <1>4. c \in ToSet(connectors) /\ d \in ToSet(connectors) /\ c # d
    BY <1>1 DEF ListInv, IsInjective, ToSet
  <1>5. Ports[c] = Ports[d] /\ (~Straight(c, d)) \in BOOLEAN
    BY <1>2, Zenon DEF MayConnect
  <1>6. JoinsTwo(c, d, ~Straight(c, d))
    BY <1>2, <1>3, <1>4, <1>5 DEF JoinsTwo
  <1> QED BY <1>2, <1>6

\* What is loaded is joined as it lies.
LEMMA LoadJoins ==
  ASSUME ListInv, Load, rails' # rails
  PROVE  \E c \in Connector :
           /\ setup[c] = Joint(c)
           /\ JoinsTwo(c, Laid[c][1], Laid[c][2]) /\ loading' = loading
  <1> DEFINE d(c) == setup[c].to
  <1>1. PICK c \in Connector :
          /\ {c, d(c)} \subseteq ToSet(connectors)
          /\ Connect(c, d(c), setup[c].crossover) /\ loading' = loading
          /\ connectors' = Erased(connectors, Index(connectors, c), Index(connectors, d(c)))
    BY DEF Load
  <1>2. ToSet(connectors) \subseteq Connector
    BY DEF ListInv, ToSet
  <1>3. setup[c] = Joint(c)
    BY <1>1, <1>2, SetupSays, LayoutAssumption DEF ListInv, NotJoined
  <1>4. d(c) = Laid[c][1] /\ setup[c].crossover = Laid[c][2]
    BY <1>3 DEF Joint
  <1>5. d(c) # c /\ Ports[c] = Ports[d(c)] /\ Laid[c][2] \in BOOLEAN
    BY <1>4, LayoutAssumption
  <1> HIDE DEF d
  <1>6. /\ connectors \in Seq(Connector) /\ IsInjective(connectors)
        /\ c \in ToSet(connectors) /\ d(c) \in ToSet(connectors)
    BY <1>1 DEF ListInv
  <1> DEFINE i == Index(connectors, c)
             j == Index(connectors, d(c))
  <1>7. /\ i \in 1..Len(connectors) /\ connectors[i] = c
        /\ j \in 1..Len(connectors) /\ connectors[j] = d(c)
    BY <1>6, IndexOf
  <1>8. i # j
    BY <1>7, <1>5
  <1> HIDE DEF i, j
  <1>9. /\ Erased(connectors, i, j) \in Seq(Connector) /\ IsInjective(Erased(connectors, i, j))
        /\ ToSet(Erased(connectors, i, j)) = ToSet(connectors) \ {connectors[i], connectors[j]}
    BY <1>6, <1>7, <1>8, ErasedOK, Zenon
  <1>10. connectors' = Erased(connectors, i, j)
    BY <1>1 DEF i, j
  <1>11. JoinsTwo(c, d(c), Laid[c][2])
    BY <1>1, <1>4, <1>5, <1>6, <1>7, <1>9, <1>10 DEF JoinsTwo
  <1> QED BY <1>1, <1>3, <1>4, <1>11

\* The rails change only when two connectors on the list are joined.
LEMMA RailsStep ==
  ASSUME ListInv, [Next]_vars, rails' # rails
  PROVE  \E c, d \in Connector, x \in BOOLEAN :
           /\ JoinsTwo(c, d, x)
           /\ \/ MayConnect(c, d) /\ x = ~Straight(c, d)
              \/ d = Laid[c][1] /\ x = Laid[c][2]
  <1>1. ConnectConnectors \/ Load
    BY Zenon DEF Next, vars, Move, Detect, Test, Find, Save, Map, StopConnecting, Request, Lock
  <1>2. ToSet(connectors) \subseteq Connector
    BY DEF ListInv, ToSet
  <1>3. CASE ConnectConnectors
    <2>1. PICK i, j \in 1..Len(connectors) :
            /\ MayConnect(connectors[i], connectors[j])
            /\ JoinsTwo(connectors[i], connectors[j], ~Straight(connectors[i], connectors[j]))
      BY <1>3, FoundJoins
    <2> QED BY <1>2, <2>1, Zenon DEF JoinsTwo
  <1>4. CASE Load
    <2>1. PICK c \in Connector : JoinsTwo(c, Laid[c][1], Laid[c][2])
      BY <1>4, LoadJoins
    <2> QED BY <1>2, <2>1, Zenon DEF JoinsTwo
  <1> QED BY <1>1, <1>3, <1>4

\* Those that are joined know each other; nobody else is touched.
LEMMA JoinsConnection ==
  ASSUME ListInv, NEW c \in Connector, NEW d \in Connector, NEW x \in BOOLEAN, JoinsTwo(c, d, x)
  PROVE  /\ connection' \in [Connector -> [to : Connector \cup {None}, crossover : BOOLEAN]]
         /\ connection'[c] = [to |-> d, crossover |-> x]
         /\ connection'[d] = [to |-> c, crossover |-> x]
         /\ \A e \in Connector \ {c, d} : connection'[e] = connection[e]
         /\ \A e \in ToSet(connectors') : connection'[e] = NotJoined
  <1>1. connection' = [connection EXCEPT ![c] = [to |-> d, crossover |-> x],
                                         ![d] = [to |-> c, crossover |-> x]]
    BY Zenon DEF JoinsTwo, Connect
  <1>2. c # d /\ ToSet(connectors') = ToSet(connectors) \ {c, d}
    BY DEF JoinsTwo
  <1>3. ToSet(connectors) \subseteq Connector
    BY DEF ListInv, ToSet
  <1> QED BY <1>1, <1>2, <1>3 DEF ListInv

LEMMA ListStarts == Init => ListInv
  <1> SUFFICES ASSUME Init PROVE ListInv
    OBVIOUS
  <1>1. connectors \in Seq(Connector) /\ IsInjective(connectors)
    BY LayoutAssumption DEF Init
  <1>2. connection = [c \in Connector |-> NotJoined]
    BY DEF Init
  <1>3. \A c \in ToSet(connectors) : connection[c] = NotJoined
    BY <1>1, <1>2 DEF ToSet
  <1>4. connection \in [Connector -> [to : Connector \cup {None}, crossover : BOOLEAN]]
    BY <1>2 DEF NotJoined
  <1>5. step = "test" /\ found = <<>> /\ loading = "idle" /\ setup \in Setups
    BY DEF Init
  <1> QED BY <1>1, <1>3, <1>4, <1>5 DEF ListInv

LEMMA ListSteps == ListInv /\ [Next]_vars => ListInv'
  <1> SUFFICES ASSUME ListInv, [Next]_vars PROVE ListInv'
    OBVIOUS
  <1>1. /\ connectors' \in Seq(Connector) /\ IsInjective(connectors')
        /\ connection' \in [Connector -> [to : Connector \cup {None}, crossover : BOOLEAN]]
        /\ \A c \in ToSet(connectors') : connection'[c] = NotJoined
    <2>1. CASE rails' = rails
      BY <2>1 DEF ListInv, rails
    <2>2. CASE rails' # rails
      <3>1. PICK c, d \in Connector, x \in BOOLEAN : JoinsTwo(c, d, x)
        BY <2>2, RailsStep
      <3> QED BY <3>1, JoinsConnection DEF JoinsTwo
    <2> QED BY <2>1, <2>2
  <1>2. setup' = setup
    BY Zenon DEF Next, vars, client, Move, Detect, Test, Find, ConnectConnectors, Save, Map,
             StopConnecting, Request, Lock, Load
  <1>3. /\ step' \in {"test", "find", "connect", "save", "map", "run"}
        /\ step' = "connect" =>
             \E i, j \in 1..Len(connectors') : i < j /\ found' = <<i, j>>
        /\ step' # "connect" => found' = <<>>
        /\ loading' = "load" => step' # "connect"
        /\ loading' \in {"idle", "wait", "load", "done"}
    <2>1. CASE Find
      <3>1. connectors' = connectors /\ loading' = loading /\ loading # "load"
        BY <2>1 DEF Find, rails, client
      <3>2. CASE \E i, j \in Connectable :
                   /\ i < j /\ \A k \in Connectable : k <= j => k \in {i, j}
                   /\ found' = <<i, j>> /\ step' = "connect"
        <4>1. Connectable \subseteq 1..Len(connectors)
          BY DEF Connectable, ListInv
        <4> QED BY <3>1, <3>2, <4>1 DEF ListInv
      <3>3. CASE found' = <<>> /\ step' = IF connectors = <<>> THEN "save" ELSE "test"
        BY <3>1, <3>3 DEF ListInv
      <3> QED BY <2>1, <3>2, <3>3, Zenon DEF Find
    <2>2. CASE Load
      <3>1. UNCHANGED <<step, found>> /\ loading = "load" /\ loading' \in {"load", "done"}
        BY <2>2 DEF Load, algorithm
      <3> QED BY <3>1 DEF ListInv
    <2>3. CASE Lock
      BY <2>3 DEF Lock, rails, algorithm, ListInv
    <2>4. CASE ConnectConnectors
      <3>1. /\ step' = IF connectors' = <<>> THEN "save" ELSE "test"
            /\ found' = <<>> /\ loading' = loading
        BY <2>4 DEF ConnectConnectors, client
      <3> QED BY <3>1 DEF ListInv
    <2>5. CASE Test
      BY <2>5 DEF Test, rails, client, ListInv
    <2>6. CASE Save
      BY <2>6 DEF Save, rails, client, ListInv
    <2>7. CASE Map
      BY <2>7 DEF Map, rails, client, ListInv
    <2>8. CASE Request
      BY <2>8 DEF Request, rails, algorithm, ListInv
    <2>9. CASE UNCHANGED <<rails, algorithm, client>>
      BY <2>9 DEF rails, algorithm, client, ListInv
    <2> QED BY <2>1, <2>2, <2>3, <2>4, <2>5, <2>6, <2>7, <2>8, <2>9, Zenon
            DEF Next, vars, Move, Detect, StopConnecting
  <1> QED BY <1>1, <1>2, <1>3 DEF ListInv

-----------------------------------------------------------------------------
(* The links of the rails.                                                 *)

LEMMA PortIs ==
  ASSUME NEW e \in Port
  PROVE  /\ e[1] \in Connector /\ e[2] \in 1..Ports[e[1]] /\ e = <<e[1], e[2]>>
         /\ Ports[e[1]] \in Nat
         /\ End[e].rail \in Rail
         /\ End[e].side \in {"next", "prev", "app", "str", "div"}
         /\ <<End[e].rail, End[e].side>> \in RailSide
  <1>1. PICK c \in Connector : e \in {c} \X (1..Ports[c])
    BY LayoutAssumption
  <1>2. End[e].rail \in Rail /\ End[e].side \in {"next", "prev", "app", "str", "div"}
    BY LayoutAssumption
  <1>3. <<End[e].rail, End[e].side>> \in {End[e].rail} \X Sides(End[e])
    BY <1>2 DEF Sides
  <1>4. End[e] \in Range(End)
    BY DEF Range, Port
  <1>5. <<End[e].rail, End[e].side>> \in RailSide
    BY <1>3, <1>4 DEF RailSide
  <1> QED BY <1>1, <1>2, <1>5, LayoutAssumption

\* The port that faces a port of a joined connector.
FacingIn(c, d, x, e) == <<IF e[1] = c THEN d ELSE c, OppositePort(Ports[c], x, e[2])>>

LEMMA FacingIsPort ==
  ASSUME NEW c \in Connector, NEW d \in Connector, NEW x \in BOOLEAN, c # d, Ports[c] = Ports[d],
         NEW e \in Port, e[1] \in {c, d}
  PROVE  FacingIn(c, d, x, e) \in Port /\ e[1] # FacingIn(c, d, x, e)[1]
  <1> DEFINE o == IF e[1] = c THEN d ELSE c
             p == OppositePort(Ports[c], x, e[2])
  <1>1. o \in Connector /\ Ports[o] = Ports[c] /\ o # e[1]
    OBVIOUS
  <1>2. e[2] \in 1..Ports[c] /\ Ports[c] \in Nat
    BY PortIs
  <1>3. p \in 1..Ports[c]
    BY <1>2 DEF OppositePort
  <1> HIDE DEF o, p
  <1>4. <<o, p>> \in {o} \X (1..Ports[o])
    BY <1>1, <1>3
  <1>5. <<o, p>> \in Port
    BY <1>1, <1>4, LayoutAssumption
  <1> QED BY <1>1, <1>5 DEF FacingIn, o, p

\* No points end in a gap to which a block of another module may come.
PointsApart == \A e, f \in Port : e[1] # f[1] => WrittenSide(e, f) = End[e].side

\* Connect links each rail of both connectors, with its signal, to the one at the port
\* that faces it, and no other rail.
LEMMA JoinsLinks ==
  ASSUME ListInv, TypeOK, PointsApart,
         NEW c \in Connector, NEW d \in Connector, NEW x \in BOOLEAN, JoinsTwo(c, d, x),
         NEW e \in Port
  PROVE  LET side == <<End[e].rail, End[e].side>>
         IN /\ e[1] \in {c, d} => /\ link'[side] = LinkTo(FacingIn(c, d, x, e))
                                  /\ e \in Signalled => signal'[e] = LinkTo(FacingIn(c, d, x, e))
            /\ e[1] \notin {c, d} => /\ link'[side] = link[side]
                                     /\ e \in Signalled => signal'[e] = signal[e]
  <1> DEFINE ends == {h \in Port : h[1] \in {c, d}}
             facing(h) == <<IF h[1] = c THEN d ELSE c, OppositePort(Ports[c], x, h[2])>>
             written(h) == <<End[h].rail, WrittenSide(h, facing(h))>>
             side == <<End[e].rail, End[e].side>>
  <1>1. /\ c # d /\ Ports[c] = Ports[d]
        /\ link' = [y \in DOMAIN link |->
                      IF \E h \in ends : written(h) = y
                      THEN LinkTo(facing(CHOOSE h \in ends : written(h) = y)) ELSE link[y]]
        /\ signal' = [h \in Signalled |-> IF h \in ends THEN LinkTo(facing(h)) ELSE signal[h]]
    BY DEF JoinsTwo, Connect
  <1>2. side \in DOMAIN link
    BY PortIs DEF TypeOK
  <1>3. ASSUME NEW h \in ends
        PROVE  written(h) = <<End[h].rail, End[h].side>>
    <2>1. facing(h) \in Port /\ h[1] # facing(h)[1]
      BY <1>1, FacingIsPort DEF FacingIn
    <2> QED BY <2>1, Zenon DEF PointsApart
  <1> HIDE DEF written, facing
  <1>4. ASSUME NEW h \in ends
        PROVE  written(h) = side <=> h = e
    <2>1. h \in Port
      OBVIOUS
    <2>2. written(h) = side => End[h].rail = End[e].rail
      BY <1>3
    <2> QED BY <1>3, <2>1, <2>2, LayoutAssumption
  <1>5. CASE e[1] \in {c, d}
    <2>1. e \in ends
      BY <1>5
    <2>2. (CHOOSE h \in ends : written(h) = side) = e
      BY <1>4, <2>1
    <2>3. \E h \in ends : written(h) = side
      BY <1>4, <2>1
    <2>4. link'[side] = LinkTo(facing(e))
      BY <1>1, <1>2, <2>2, <2>3
    <2>5. e \in Signalled => signal'[e] = LinkTo(facing(e))
      BY <1>1, <2>1
    <2> QED BY <1>5, <2>4, <2>5 DEF FacingIn, facing
  <1>6. CASE e[1] \notin {c, d}
    <2>1. e \notin ends
      BY <1>6
    <2>2. ~\E h \in ends : written(h) = side
      BY <1>4, <2>1
    <2> QED BY <1>1, <1>2, <1>6, <2>1, <2>2
  <1> QED BY <1>5, <1>6

RailLink == [type : {"C", "R", "S", "s"}, to : Rail \cup {None}]

LEMMA LinkToIs ==
  ASSUME NEW f \in Port
  PROVE  LinkTo(f) \in RailLink
  <1>1. End[f].rail \in Rail
    BY PortIs
  <1> DEFINE t == CASE IsBlock(f) -> "R" [] End[f].side = "app" -> "S" [] OTHER -> "s"
  <1>2. t \in {"C", "R", "S", "s"}
    <2>1. IsBlock(f) => End[f].side # "app"
      BY DEF IsBlock
    <2> QED BY <2>1
  <1> HIDE DEF t
  <1>3. LinkTo(f) = [type |-> t, to |-> End[f].rail]
    BY DEF LinkTo, t
  <1> QED BY <1>1, <1>2, <1>3 DEF RailLink

\* The links stay links.
LEMMA LinksTyped ==
  ASSUME ListInv, TypeOK, NEW c \in Connector, NEW d \in Connector, NEW x \in BOOLEAN,
         JoinsTwo(c, d, x)
  PROVE  link' \in [RailSide -> RailLink] /\ signal' \in [Signalled -> RailLink]
  <1> DEFINE ends == {h \in Port : h[1] \in {c, d}}
             facing(h) == <<IF h[1] = c THEN d ELSE c, OppositePort(Ports[c], x, h[2])>>
             written(h) == <<End[h].rail, WrittenSide(h, facing(h))>>
  <1>1. /\ c # d /\ Ports[c] = Ports[d]
        /\ link' = [y \in DOMAIN link |->
                      IF \E h \in ends : written(h) = y
                      THEN LinkTo(facing(CHOOSE h \in ends : written(h) = y)) ELSE link[y]]
        /\ signal' = [h \in Signalled |-> IF h \in ends THEN LinkTo(facing(h)) ELSE signal[h]]
    BY DEF JoinsTwo, Connect
  <1>2. link \in [RailSide -> RailLink] /\ signal \in [Signalled -> RailLink]
    BY DEF TypeOK, RailLink
  <1>3. ASSUME NEW h \in ends
        PROVE  LinkTo(facing(h)) \in RailLink
    <2>1. FacingIn(c, d, x, h) \in Port
      BY <1>1, FacingIsPort
    <2> QED BY <2>1, LinkToIs DEF FacingIn
  <1> HIDE DEF facing, written
  <1>4. ASSUME NEW y \in RailSide
        PROVE  (IF \E h \in ends : written(h) = y
                THEN LinkTo(facing(CHOOSE h \in ends : written(h) = y)) ELSE link[y]) \in RailLink
    <2>1. CASE \E h \in ends : written(h) = y
      <3>1. (CHOOSE h \in ends : written(h) = y) \in ends
        BY <2>1
      <3> HIDE DEF ends
      <3> QED BY <2>1, <3>1, <1>3
    <2>2. CASE ~\E h \in ends : written(h) = y
      BY <2>2, <1>2
    <2> QED BY <2>1, <2>2
  <1> HIDE DEF ends
  <1> QED BY <1>1, <1>2, <1>3, <1>4

LEMMA TypeStarts == Init => TypeOK
  <1> SUFFICES ASSUME Init PROVE TypeOK
    OBVIOUS
  <1>1. ListInv
    BY ListStarts
  <1>2. /\ link \in [RailSide -> [type : {"C", "R", "S", "s"}, to : Rail \cup {None}]]
        /\ signal \in [Signalled -> [type : {"C", "R", "S", "s"}, to : Rail \cup {None}]]
    BY DEF Init, Open, Inside
  <1>3. /\ blocked \in [Block -> BOOLEAN] /\ over \in [Wagon -> Port \cup {None}]
        /\ step = "test" /\ found = <<>> /\ state = "Connecting" /\ linked = FALSE
    BY DEF Init
  <1>4. ~(Len(<<>>) = 2)
    OBVIOUS
  <1> QED BY <1>1, <1>2, <1>3, <1>4 DEF ListInv, TypeOK

\* What the program holds of the joining keeps its type.
LEMMA TypeSteps == ListInv /\ ListInv' /\ TypeOK /\ [Next]_vars => TypeOK'
  <1> SUFFICES ASSUME ListInv, ListInv', TypeOK, [Next]_vars PROVE TypeOK'
    OBVIOUS
  <1>1. link' \in [RailSide -> RailLink] /\ signal' \in [Signalled -> RailLink]
    <2>1. CASE rails' = rails
      BY <2>1 DEF TypeOK, RailLink, rails
    <2>2. CASE rails' # rails
      <3>1. PICK c, d \in Connector, x \in BOOLEAN : JoinsTwo(c, d, x)
        BY <2>2, RailsStep
      <3> QED BY <3>1, LinksTyped
    <2> QED BY <2>1, <2>2
  <1>2. over' \in [Wagon -> Port \cup {None}] /\ blocked' \in [Block -> BOOLEAN]
    <2>1. ASSUME NEW w \in Wagon, NEW e \in Port, Move(w, e)
          PROVE  over' \in [Wagon -> Port \cup {None}] /\ blocked' \in [Block -> BOOLEAN]
      BY <2>1 DEF Move, TypeOK
    <2>2. ASSUME NEW b \in Block, Detect(b)
          PROVE  over' \in [Wagon -> Port \cup {None}] /\ blocked' \in [Block -> BOOLEAN]
      <3>1. Occupied(b) \in BOOLEAN
        BY DEF Occupied
      <3> QED BY <2>2, <3>1 DEF Detect, TypeOK
    <2>3. CASE UNCHANGED track
      BY <2>3 DEF track, TypeOK
    <2> QED BY <2>1, <2>2, <2>3, Zenon
            DEF Next, vars, Test, Find, ConnectConnectors, Save, Map, StopConnecting, Request,
                Lock, Load
  <1>3. state' \in {"Connecting", "Loading", "Run"} /\ linked' \in BOOLEAN
    <2>1. CASE Save
      BY <2>1 DEF Save, TypeOK
    <2>2. CASE Map
      BY <2>2 DEF Map, TypeOK
    <2>3. CASE StopConnecting
      BY <2>3 DEF StopConnecting, TypeOK
    <2>4. CASE Request
      BY <2>4 DEF Request, TypeOK
    <2>5. CASE UNCHANGED <<state, linked>>
      BY <2>5 DEF TypeOK
    <2> QED BY <2>1, <2>2, <2>3, <2>4, <2>5, Zenon
            DEF Next, vars, Move, Detect, Test, Find, ConnectConnectors, Lock, Load
  <1>4. Len(found') = 2 <=> step' = "connect"
    <2>1. CASE step' = "connect"
      <3>1. PICK i, j \in 1..Len(connectors') : found' = <<i, j>>
        BY <2>1 DEF ListInv
      <3> QED BY <2>1, <3>1
    <2>2. CASE step' # "connect"
      <3>1. found' = <<>>
        BY <2>2 DEF ListInv
      <3> QED BY <2>2, <3>1
    <2> QED BY <2>1, <2>2
  <1> QED BY <1>1, <1>2, <1>3, <1>4 DEF TypeOK, ListInv, RailLink

\* TypeOK holds whatever clients do and however the threads interleave.
THEOREM TypeCorrect == Spec => []TypeOK
  <1> DEFINE Inv == ListInv /\ TypeOK
  <1>1. Init => Inv
    BY ListStarts, TypeStarts
  <1>2. Inv /\ [Next]_vars => Inv'
    BY ListSteps, TypeSteps
  <1>3. Inv => TypeOK
    OBVIOUS
  <1> QED BY <1>1, <1>2, <1>3, PTL DEF Spec

-----------------------------------------------------------------------------
LEMMA LinkedSteps ==
  ASSUME PointsApart, ListInv, ListInv', TypeOK, PortsLinked, [Next]_vars
  PROVE  PortsLinked'
  <1>1. CASE rails' = rails
    BY <1>1 DEF rails, PortsLinked
  <1>2. CASE rails' # rails
    <2>1. PICK c, d \in Connector, x \in BOOLEAN : JoinsTwo(c, d, x)
      BY <1>2, RailsStep
    <2>2. c # d /\ Ports[c] = Ports[d] /\ ToSet(connectors') = ToSet(connectors) \ {c, d}
      BY <2>1 DEF JoinsTwo
    <2>3. /\ connection'[c] = [to |-> d, crossover |-> x]
          /\ connection'[d] = [to |-> c, crossover |-> x]
          /\ \A b \in Connector \ {c, d} : connection'[b] = connection[b]
      BY <2>1, JoinsConnection, Zenon
    <2> SUFFICES ASSUME NEW e \in Port, connection'[e[1]] # NotJoined
                 PROVE  LET f == <<connection'[e[1]].to,
                                   OppositePort(Ports[e[1]], connection'[e[1]].crossover, e[2])>>
                        IN /\ e[1] \notin ToSet(connectors')
                           /\ link'[<<End[e].rail, End[e].side>>] = LinkTo(f)
                           /\ e \in Signalled => signal'[e] = LinkTo(f)
      BY Zenon DEF PortsLinked
    <2>4. e[1] \in Connector
      BY PortIs
    <2>5. CASE e[1] \in {c, d}
      <3>1. connection'[e[1]] = [to |-> IF e[1] = c THEN d ELSE c, crossover |-> x]
        BY <2>2, <2>5, <2>3
      <3>2. <<connection'[e[1]].to, OppositePort(Ports[e[1]], connection'[e[1]].crossover, e[2])>>
              = FacingIn(c, d, x, e)
        BY <2>2, <2>5, <3>1 DEF FacingIn
      <3>3. /\ link'[<<End[e].rail, End[e].side>>] = LinkTo(FacingIn(c, d, x, e))
            /\ e \in Signalled => signal'[e] = LinkTo(FacingIn(c, d, x, e))
        BY <2>1, <2>5, JoinsLinks
      <3> QED BY <2>2, <2>5, <3>2, <3>3
    <2>6. CASE e[1] \notin {c, d}
      <3>1. connection'[e[1]] = connection[e[1]]
        BY <2>4, <2>6, <2>3
      <3>2. /\ link'[<<End[e].rail, End[e].side>>] = link[<<End[e].rail, End[e].side>>]
            /\ e \in Signalled => signal'[e] = signal[e]
        BY <2>1, <2>6, JoinsLinks
      <3> QED BY <2>2, <3>1, <3>2 DEF PortsLinked
    <2> QED BY <2>5, <2>6
  <1> QED BY <1>1, <1>2

\* PortsLinked: unless points meet a block of another module at their point end, the
\* rails of joined connectors lead to each other, whichever are joined, by wagons or a
\* setup, and whoever moves on meanwhile.
THEOREM RailsMeet == PointsApart /\ Spec => []PortsLinked
  <1> SUFFICES ASSUME PointsApart PROVE Spec => []PortsLinked
    OBVIOUS
  <1> DEFINE Inv == ListInv /\ TypeOK /\ PortsLinked
  <1>1. Init => PortsLinked
    <2> SUFFICES ASSUME Init PROVE PortsLinked
      OBVIOUS
    <2>1. connection = [c \in Connector |-> NotJoined]
      BY DEF Init
    <2>2. \A e \in Port : connection[e[1]] = NotJoined
      BY <2>1, PortIs
    <2> QED BY <2>2 DEF PortsLinked
  <1>2. Inv /\ [Next]_vars => Inv'
    BY ListSteps, TypeSteps, LinkedSteps
  <1>3. Init => Inv
    BY <1>1, ListStarts, TypeStarts
  <1> QED BY <1>2, <1>3, PTL DEF Spec

-----------------------------------------------------------------------------
(* The wagon tells how the modules lie.                                    *)

\* The port that a port faces.
Beyond(e) == Facing(e[1], e[2])

LEMMA BeyondIs ==
  ASSUME NEW e \in Port
  PROVE  /\ Beyond(e) \in Port /\ Beyond(Beyond(e)) = e
         /\ Beyond(e)[1] = Laid[e[1]][1]
         /\ Beyond(e)[2] = IF Laid[e[1]][2] THEN Ports[e[1]] + 1 - e[2] ELSE e[2]
  <1> DEFINE c == e[1]
             p == e[2]
             d == Laid[c][1]
             q == IF Laid[c][2] THEN Ports[c] + 1 - p ELSE p
  <1>1. /\ c \in Connector /\ p \in 1..Ports[c] /\ e = <<c, p>> /\ Ports[c] \in Nat
    BY PortIs
  <1>2. /\ d \in Connector /\ Ports[d] = Ports[c]
        /\ Laid[d][1] = c /\ Laid[d][2] = Laid[c][2]
    BY <1>1, LayoutAssumption
  <1>3. q \in 1..Ports[c] /\ p = IF Laid[c][2] THEN Ports[c] + 1 - q ELSE q
    BY <1>1
  <1>4. Beyond(e) = <<d, q>>
    BY DEF Beyond, Facing
  <1> HIDE DEF c, p, d, q
  <1>5. <<d, q>> \in {d} \X (1..Ports[d])
    BY <1>2, <1>3
  <1>6. <<d, q>> \in Port
    BY <1>2, <1>5, LayoutAssumption
  <1>7. Beyond(<<d, q>>) = <<c, p>>
    BY <1>2, <1>3 DEF Beyond, Facing
  <1> QED BY <1>1, <1>4, <1>6, <1>7 DEF c, p, d, q

\* There is one wagon, and it stays until the modules it stands between are joined.
OneWagon == Patient /\ \A v, w \in Wagon : v = w

\* No two ports are detected by one block.
OwnBlocks == \A e, f \in Port : BlockAt(e[1], e[2]) = BlockAt(f[1], f[2]) => e = f

\* No port in the middle faces a port in the middle of modules that lie crosswise: a
\* wagon there does not tell that they do.
NoMiddle == \A c \in Connector : Laid[c][2] => \A p \in 1..Ports[c] : Ports[c] + 1 - p # p

\* Whatever the program still sees on a connector of its list stands there, and joined
\* connectors are joined to joined ones.
WagonInv ==
  /\ \A e \in Port : e[1] \in ToSet(connectors) /\ BlockedAt(e[1], e[2]) =>
       \E w \in Wagon : over[w] # None /\ e \in {over[w], Beyond(over[w])}
  /\ \A c \in Connector : connection[c] # NotJoined =>
       connection[c].to \in Connector /\ connection[connection[c].to] # NotJoined

\* Two connectors with an occupied block each face each other, in the way
\* connect_connectors finds.
LEMMA WagonTells ==
  ASSUME ListInv, TypeOK, WagonInv, OneWagon, NoMiddle,
         NEW c \in ToSet(connectors), NEW d \in ToSet(connectors), c # d, MayConnect(c, d)
  PROVE  d = Laid[c][1] /\ (~Straight(c, d)) = Laid[c][2]
  <1>1. c \in Connector /\ d \in Connector /\ Ports[c] = Ports[d] /\ Ports[c] \in Nat
    BY LayoutAssumption DEF ListInv, ToSet, MayConnect
  <1>2. ASSUME NEW i \in 1..Ports[c], NEW j \in 1..Ports[c], BlockedAt(c, i), BlockedAt(d, j)
        PROVE  d = Laid[c][1] /\ j = IF Laid[c][2] THEN Ports[c] + 1 - i ELSE i
    <2> DEFINE e == <<c, i>>
               f == <<d, j>>
    <2>1. e \in Port /\ f \in Port
      <3>1. e \in {c} \X (1..Ports[c]) /\ f \in {d} \X (1..Ports[d])
        BY <1>1
      <3> QED BY <1>1, <3>1, LayoutAssumption
    <2>2. PICK w \in Wagon : over[w] # None /\ e \in {over[w], Beyond(over[w])}
      BY <1>2, <2>1 DEF WagonInv
    <2>3. f \in {over[w], Beyond(over[w])}
      BY <1>2, <2>1 DEF WagonInv, OneWagon
    <2>4. over[w] \in Port
      BY <2>2 DEF TypeOK
    <2>5. e # f
      OBVIOUS
    <2> HIDE DEF e, f
    <2>6. f = Beyond(e)
      BY <2>2, <2>3, <2>4, <2>5, BeyondIs
    <2>7. /\ f[1] = Laid[e[1]][1]
          /\ f[2] = IF Laid[e[1]][2] THEN Ports[e[1]] + 1 - e[2] ELSE e[2]
      BY <2>1, <2>6, BeyondIs
    <2> QED BY <2>7 DEF e, f
  <1>3. Laid[c][2] \in BOOLEAN
    BY <1>1, LayoutAssumption
  <1>4. CASE Straight(c, d)
    <2>1. PICK i \in 1..Ports[c] : BlockedAt(c, i) /\ BlockedAt(d, i)
      BY <1>4 DEF Straight
    <2>2. d = Laid[c][1] /\ i = IF Laid[c][2] THEN Ports[c] + 1 - i ELSE i
      BY <1>2, <2>1
    <2>3. ~Laid[c][2]
      BY <1>1, <2>2 DEF NoMiddle
    <2> QED BY <1>3, <1>4, <2>2, <2>3
  <1>5. CASE ~Straight(c, d)
    <2>1. PICK i \in 1..Ports[c] : BlockedAt(c, i) /\ BlockedAt(d, Ports[c] + 1 - i)
      BY <1>5 DEF MayConnect, Crosswise
    <2> DEFINE j == Ports[c] + 1 - i
    <2>2. j \in 1..Ports[c]
      BY <1>1
    <2> HIDE DEF j
    <2>3. d = Laid[c][1] /\ j = IF Laid[c][2] THEN Ports[c] + 1 - i ELSE i
      BY <1>2, <2>1, <2>2 DEF j
    <2>4. j # i
      BY <1>5, <2>1 DEF Straight, j
    <2>5. Laid[c][2]
      BY <2>3, <2>4
    <2> QED BY <1>3, <1>5, <2>3, <2>5
  <1> QED BY <1>4, <1>5

\* So whatever is joined is joined as it lies.
LEMMA JoinsAsLaid ==
  ASSUME ListInv, TypeOK, WagonInv, JoinedAsLaid, OneWagon, NoMiddle, [Next]_vars
  PROVE  JoinedAsLaid'
  <1>1. CASE rails' = rails
    BY <1>1 DEF rails, JoinedAsLaid
  <1>2. CASE rails' # rails
    <2>1. PICK c, d \in Connector, x \in BOOLEAN :
            /\ JoinsTwo(c, d, x)
            /\ \/ MayConnect(c, d) /\ x = ~Straight(c, d)
               \/ d = Laid[c][1] /\ x = Laid[c][2]
      BY <1>2, RailsStep
    <2>2. c \in ToSet(connectors) /\ d \in ToSet(connectors) /\ c # d
      BY <2>1 DEF JoinsTwo
    <2>3. d = Laid[c][1] /\ x = Laid[c][2]
      BY <2>1, <2>2, WagonTells
    <2>4. c = Laid[d][1] /\ x = Laid[d][2]
      BY <2>3, LayoutAssumption
    <2>5. /\ connection'[c] = [to |-> d, crossover |-> x]
          /\ connection'[d] = [to |-> c, crossover |-> x]
          /\ \A e \in Connector \ {c, d} : connection'[e] = connection[e]
      BY <2>1, JoinsConnection, Zenon
    <2>6. connection'[c] = Joint(c) /\ connection'[d] = Joint(d)
      BY <2>3, <2>4, <2>5 DEF Joint
    <2> QED BY <2>5, <2>6 DEF JoinedAsLaid
  <1> QED BY <1>1, <1>2

\* No wagon is left at a connector of the list when it moves on.
LEMMA NoneLeft ==
  ASSUME ListInv, TypeOK, WagonInv, JoinedAsLaid, OneWagon,
         NEW w \in Wagon, NEW n \in Port, Move(w, n),
         NEW e \in Port, e[1] \in ToSet(connectors)
  PROVE  ~BlockedAt(e[1], e[2])
  <1> SUFFICES ASSUME BlockedAt(e[1], e[2]) PROVE FALSE
    OBVIOUS
  <1>1. over[w] # None /\ e \in {over[w], Beyond(over[w])}
    BY DEF WagonInv, OneWagon
  <1>2. over[w] \in Port
    BY <1>1 DEF TypeOK
  <1> DEFINE o == over[w]
  <1> HIDE DEF o
  <1>3. o \in Port /\ e \in {o, Beyond(o)} /\ connection[o[1]] # NotJoined
    BY <1>1, <1>2 DEF Move, OneWagon, o
  <1>4. o[1] \in Connector /\ Beyond(o)[1] = Laid[o[1]][1]
    BY <1>3, PortIs, BeyondIs
  <1>5. connection[o[1]].to = Laid[o[1]][1]
    BY <1>3, <1>4 DEF JoinedAsLaid, Joint
  <1>6. connection[e[1]] # NotJoined
    BY <1>3, <1>4, <1>5 DEF WagonInv
  <1> QED BY <1>6 DEF ListInv

LEMMA WagonSteps ==
  ASSUME ListInv, ListInv', TypeOK, WagonInv, JoinedAsLaid, OneWagon, OwnBlocks, [Next]_vars
  PROVE  WagonInv'
  <1> DEFINE Stands(e) == \E w \in Wagon : over[w] # None /\ e \in {over[w], Beyond(over[w])}
  <1>1. ToSet(connectors') \subseteq ToSet(connectors)
    <2>1. CASE rails' = rails
      BY <2>1 DEF rails
    <2>2. CASE rails' # rails
      BY <2>2, RailsStep DEF JoinsTwo
    <2> QED BY <2>1, <2>2
  <1>2. ASSUME NEW c \in Connector, connection'[c] # NotJoined
        PROVE  connection'[c].to \in Connector /\ connection'[connection'[c].to] # NotJoined
    <2>1. CASE rails' = rails
      BY <1>2, <2>1 DEF WagonInv, rails
    <2>2. CASE rails' # rails
      <3>1. PICK a, b \in Connector, x \in BOOLEAN : JoinsTwo(a, b, x)
        BY <2>2, RailsStep
      <3>2. /\ connection'[a] = [to |-> b, crossover |-> x]
            /\ connection'[b] = [to |-> a, crossover |-> x]
            /\ \A e \in Connector \ {a, b} : connection'[e] = connection[e]
        BY <3>1, JoinsConnection
      <3>3. connection'[a] # NotJoined /\ connection'[b] # NotJoined
        BY <3>2, LayoutAssumption DEF NotJoined
      <3>4. CASE c \in {a, b}
        BY <3>2, <3>3, <3>4
      <3>5. CASE c \notin {a, b}
        BY <1>2, <3>2, <3>3, <3>5 DEF WagonInv
      <3> QED BY <3>4, <3>5
    <2> QED BY <2>1, <2>2
  <1>3. ASSUME NEW e \in Port, e[1] \in ToSet(connectors'), BlockedAt(e[1], e[2])'
        PROVE  Stands(e)'
    <2>1. e[1] \in ToSet(connectors)
      BY <1>1, <1>3
    <2>2. CASE UNCHANGED track
      <3>1. BlockedAt(e[1], e[2])
        BY <1>3, <2>2 DEF track, BlockedAt
      <3>2. Stands(e)
        BY <2>1, <3>1 DEF WagonInv
      <3> QED BY <2>2, <3>2 DEF track
    <2>3. ASSUME NEW w \in Wagon, NEW n \in Port, Move(w, n)
          PROVE  FALSE
      <3>1. BlockedAt(e[1], e[2])
        BY <1>3, <2>3 DEF Move, BlockedAt
      <3> QED BY <2>1, <2>3, <3>1, NoneLeft
    <2>4. ASSUME NEW b \in Block, Detect(b)
          PROVE  Stands(e)'
      <3>1. over' = over /\ blocked' = [blocked EXCEPT ![b] = Occupied(b)]
        BY <2>4 DEF Detect
      <3>2. CASE BlockAt(e[1], e[2]) = b
        <4>1. Occupied(b)
          BY <1>3, <3>1, <3>2 DEF BlockedAt, TypeOK
        <4>2. PICK w \in Wagon :
                over[w] # None /\ \E h \in {over[w], Beyond(over[w])} : BlockAt(h[1], h[2]) = b
          BY <4>1 DEF Occupied, Beyond
        <4>3. over[w] \in Port
          BY <4>2 DEF TypeOK
        <4>4. PICK h \in {over[w], Beyond(over[w])} : BlockAt(h[1], h[2]) = b
          BY <4>2
        <4>5. h \in Port
          BY <4>3, <4>4, BeyondIs
        <4>6. h = e
          BY <3>2, <4>4, <4>5 DEF OwnBlocks
        <4> QED BY <3>1, <4>2, <4>4, <4>6
      <3>3. CASE BlockAt(e[1], e[2]) # b
        <4>1. BlockedAt(e[1], e[2])
          BY <1>3, <3>1, <3>3 DEF BlockedAt, TypeOK
        <4>2. Stands(e)
          BY <2>1, <4>1 DEF WagonInv
        <4> QED BY <3>1, <4>2
      <3> QED BY <3>2, <3>3
    <2> QED BY <2>2, <2>3, <2>4, Zenon
            DEF Next, vars, Test, Find, ConnectConnectors, Save, Map, StopConnecting, Request,
                Lock, Load
  <1> QED BY <1>2, <1>3 DEF WagonInv

LEMMA WagonStarts == Init => WagonInv /\ JoinedAsLaid
  <1> SUFFICES ASSUME Init PROVE WagonInv /\ JoinedAsLaid
    OBVIOUS
  <1>1. /\ connection = [c \in Connector |-> NotJoined]
        /\ blocked = [b \in Block |-> FALSE]
    BY DEF Init
  <1>2. ASSUME NEW e \in Port
        PROVE  ~BlockedAt(e[1], e[2])
    <2>1. End[e].rail \in DOMAIN Detection /\ e = <<e[1], e[2]>>
      BY PortIs, LayoutAssumption
    <2>2. BlockAt(e[1], e[2]) \in Block
      BY <2>1 DEF BlockAt, Block, Range
    <2> QED BY <1>1, <2>2 DEF BlockedAt
  <1> QED BY <1>1, <1>2 DEF WagonInv, JoinedAsLaid

\* JoinedAsLaid: one wagon that stays until its modules are joined, detected by a block of
\* its own at each port, tells how they lie, unless modules that lie crosswise have a
\* middle port, whatever detections are late and whichever client loads a setup meanwhile.
THEOREM JoinsWhatMeets == OneWagon /\ OwnBlocks /\ NoMiddle /\ Spec => []JoinedAsLaid
  <1> SUFFICES ASSUME OneWagon, OwnBlocks, NoMiddle PROVE Spec => []JoinedAsLaid
    OBVIOUS
  <1> DEFINE Inv == ListInv /\ TypeOK /\ WagonInv /\ JoinedAsLaid
  <1>2. Init => Inv
    BY ListStarts, TypeStarts, WagonStarts
  <1>3. Inv /\ [Next]_vars => Inv'
    BY ListSteps, TypeSteps, WagonSteps, JoinsAsLaid
  <1> QED BY <1>2, <1>3, PTL DEF Spec

-----------------------------------------------------------------------------
(* A setup that is loaded.                                                 *)

\* Of some connectors one is the first.
LEMMA FirstOf ==
  ASSUME NEW S, S \subseteq Connector, S # {}
  PROVE  \E c \in S : \A d \in S : ~Before(d, c)
  <1> DEFINE L == OpToRel(<, Nat)
             R == LexPairOrdering(L, L, Nat, Nat)
  <1>1. IsWellFoundedOn(L, Nat)
    BY NatLessThanWellFounded
  <1> HIDE DEF L
  <1>2. IsWellFoundedOn(R, Nat \X Nat)
    BY <1>1, WFLexPairOrdering
  <1>3. S \subseteq Nat \X Nat
    <2>1. Connector \subseteq Unit \X Nat /\ Unit \subseteq Nat
      BY LayoutAssumption
    <2> QED BY <2>1
  <1> HIDE DEF R
  <1>4. PICK c \in S : \A d \in S : <<d, c>> \notin R
    BY <1>2, <1>3, WFMin
  <1>5. ASSUME NEW d \in S, Before(d, c)
        PROVE  <<d, c>> \in R
    <2>1. /\ c \in Nat \X Nat /\ d \in Nat \X Nat
          /\ c[1] \in Nat /\ c[2] \in Nat /\ d[1] \in Nat /\ d[2] \in Nat
      BY <1>3
    <2>2. \A m, n \in Nat : <<m, n>> \in L <=> m < n
      BY DEF L, OpToRel
    <2>3. \/ <<d[1], c[1]>> \in L
          \/ d[1] = c[1] /\ <<d[2], c[2]>> \in L
      BY <1>5, <2>1, <2>2 DEF Before
    <2> QED BY <2>1, <2>3 DEF R, LexPairOrdering
  <1> QED BY <1>4, <1>5

\* All modules are on the layout.
AllOnLayout == Connector \subseteq ToSet(FindConnectors)

\* A connector is on the list until it is joined; when a client has loaded its setup all
\* are; what was saved is how they are joined as long as nothing is loaded after.
RestoreInv ==
  /\ \A c \in Connector : connection[c] = NotJoined => c \in ToSet(connectors)
  /\ loading = "done" => \A c \in Connector : connection[c] # NotJoined
  /\ saved # None => step \in {"map", "run"} /\ (loading = "idle" => saved = connection)

LEMMA RestoreSteps ==
  ASSUME ListInv, WagonInv, JoinedAsLaid, RestoreInv, ~Incomplete, [Next]_vars
  PROVE  RestoreInv'
  <1>1. /\ \A c \in Connector : connection'[c] = NotJoined => c \in ToSet(connectors')
        /\ \A c \in Connector : connection[c] # NotJoined => connection'[c] # NotJoined
    <2>1. CASE rails' = rails
      BY <2>1 DEF RestoreInv, rails
    <2>2. CASE rails' # rails
      <3>1. PICK a, b \in Connector, x \in BOOLEAN : JoinsTwo(a, b, x)
        BY <2>2, RailsStep
      <3>2. /\ connection'[a] = [to |-> b, crossover |-> x]
            /\ connection'[b] = [to |-> a, crossover |-> x]
            /\ \A e \in Connector \ {a, b} : connection'[e] = connection[e]
        BY <3>1, JoinsConnection
      <3>3. connection'[a] # NotJoined /\ connection'[b] # NotJoined
        BY <3>2, LayoutAssumption DEF NotJoined
      <3>4. ToSet(connectors') = ToSet(connectors) \ {a, b}
        BY <3>1 DEF JoinsTwo
      <3> QED BY <3>2, <3>3, <3>4 DEF RestoreInv
    <2> QED BY <2>1, <2>2
  <1>2. ASSUME loading' = "done"
        PROVE  \A c \in Connector : connection[c] # NotJoined
    <2>1. CASE loading = "done"
      BY <2>1 DEF RestoreInv
    <2>2. CASE loading # "done"
      <3>1. Load
        BY <1>2, <2>2, Zenon DEF Next, vars, client, Move, Detect, Test, Find, ConnectConnectors, Save,
           Map, StopConnecting, Request, Lock
      <3>2. \A c \in Connector : IsNext(c) => ~({c, setup[c].to} \subseteq ToSet(connectors))
        BY <1>2, <2>2, <3>1 DEF Load
      <3> DEFINE S == {c \in Connector : connection[c] = NotJoined}
      <3> SUFFICES ASSUME S # {} PROVE FALSE
        OBVIOUS
      <3>3. PICK c \in S : \A d \in S : ~Before(d, c)
        BY FirstOf
      <3>4. c \in Connector /\ connection[c] = NotJoined /\ IsNext(c)
        BY <3>3 DEF IsNext
      <3> HIDE DEF S
      <3>5. setup[c] = Joint(c)
        BY <3>4, SetupSays DEF ListInv
      <3> DEFINE d == Laid[c][1]
      <3>6. setup[c].to = d /\ d \in Connector /\ Joint(d).to = c
        BY <3>4, <3>5, LayoutAssumption DEF Joint
      <3> HIDE DEF d
      <3>7. connection[d] = NotJoined
        BY <3>4, <3>6 DEF JoinedAsLaid, WagonInv
      <3>8. {c, setup[c].to} \subseteq ToSet(connectors)
        BY <3>4, <3>6, <3>7 DEF RestoreInv
      <3> QED BY <3>2, <3>4, <3>8
    <2> QED BY <2>1, <2>2
  <1>3. saved' # None =>
          step' \in {"map", "run"} /\ (loading' = "idle" => saved' = connection')
    <2>1. CASE Save
      BY <2>1 DEF Save, rails, client, RestoreInv
    <2>2. CASE Map
      BY <2>2 DEF Map, rails, client, RestoreInv
    <2>3. CASE Load
      BY <2>3 DEF Load, algorithm, RestoreInv
    <2>4. CASE Test
      BY <2>4 DEF Test, RestoreInv
    <2>5. CASE Find
      BY <2>5 DEF Find, RestoreInv
    <2>6. CASE ConnectConnectors
      BY <2>6 DEF ConnectConnectors, RestoreInv
    <2>7. CASE Request
      BY <2>7 DEF Request, algorithm, RestoreInv
    <2>8. CASE Lock
      BY <2>8 DEF Lock, algorithm, RestoreInv
    <2>9. CASE UNCHANGED <<rails, algorithm, client>>
      BY <2>9 DEF rails, algorithm, client, RestoreInv
    <2> QED BY <2>1, <2>2, <2>3, <2>4, <2>5, <2>6, <2>7, <2>8, <2>9, Zenon
            DEF Next, vars, Move, Detect, StopConnecting
  <1> QED BY <1>1, <1>2, <1>3 DEF RestoreInv

\* LoadRestores: under the same conditions, with all modules on the layout, a complete setup
\* joins all that are not joined yet as they were, and is what a session with wagons saves.
THEOREM SetupsRestore ==
  OneWagon /\ OwnBlocks /\ NoMiddle /\ AllOnLayout /\ ~Incomplete /\ Spec => []LoadRestores
  <1> SUFFICES ASSUME OneWagon, OwnBlocks, NoMiddle, AllOnLayout, ~Incomplete
               PROVE  Spec => []LoadRestores
    OBVIOUS
  <1> DEFINE Inv == ListInv /\ TypeOK /\ WagonInv /\ JoinedAsLaid /\ RestoreInv
  <1>1. Inv => LoadRestores
    <2> SUFFICES ASSUME Inv PROVE LoadRestores
      OBVIOUS
    <2>1. \A c \in Connector : setup[c] = Joint(c)
      BY SetupSays DEF ListInv
    <2>2. setup = [c \in Connector |-> setup[c]] /\ connection = [c \in Connector |-> connection[c]]
      BY DEF ListInv, Setups
    <2>3. connectors = <<>> => \A c \in Connector : connection[c] # NotJoined
      BY DEF RestoreInv, ToSet
    <2>4. \A c \in Connector : connection[c] # NotJoined => connection[c] = setup[c]
      BY <2>1 DEF JoinedAsLaid
    <2> QED BY <2>2, <2>3, <2>4 DEF RestoreInv, LoadRestores
  <1>2. Init => Inv
    <2>1. Init => RestoreInv
      BY DEF Init, RestoreInv, AllOnLayout
    <2> QED BY <2>1, ListStarts, TypeStarts, WagonStarts
  <1>3. Inv /\ [Next]_vars => Inv'
    BY ListSteps, TypeSteps, WagonSteps, JoinsAsLaid, RestoreSteps
  <1> QED BY <1>1, <1>2, <1>3, PTL DEF Spec

-----------------------------------------------------------------------------
(* The links become pointers.                                              *)

\* LinksMapped: unless a client loads a setup while the algorithm thread ends the joining,
\* all rails lead where they are linked to when it runs.
THEOREM RunsMapped == ~Preempted /\ Spec => []LinksMapped
  <1> SUFFICES ASSUME ~Preempted PROVE Spec => []LinksMapped
    OBVIOUS
  <1> DEFINE Ends == state = "Run" => step = "run" /\ loading \notin {"wait", "load"}
             Inv == Ends /\ LinksMapped
  <1>1. Init => Inv
    BY DEF Init, LinksMapped
  <1>2. Inv /\ [Next]_vars => Inv'
    <2> SUFFICES ASSUME Inv, [Next]_vars PROVE Inv'
      OBVIOUS
    <2>1. CASE Map
      BY <2>1 DEF Map, Undisturbed, rails, client, LinksMapped
    <2>2. CASE Load
      BY <2>2 DEF Load, algorithm, LinksMapped
    <2>3. CASE ConnectConnectors
      BY <2>3 DEF ConnectConnectors, LinksMapped
    <2>4. CASE Test \/ Find \/ Save
      BY <2>4 DEF Test, Find, Save, LinksMapped
    <2>5. CASE Request \/ Lock
      BY <2>5 DEF Request, Lock, rails, algorithm, LinksMapped
    <2>6. CASE UNCHANGED <<rails, algorithm, client, state>>
      BY <2>6 DEF rails, algorithm, client, LinksMapped
    <2> QED BY <2>1, <2>2, <2>3, <2>4, <2>5, <2>6, Zenon
            DEF Next, vars, Move, Detect, StopConnecting
  <1> QED BY <1>1, <1>2, PTL DEF Spec
=============================================================================
