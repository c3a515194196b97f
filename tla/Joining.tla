------------------------------- MODULE Joining -------------------------------
(***************************************************************************)
(* Joining the modules of a layout (algorithm/blockconnector.cpp,          *)
(* switchboard/blockconnector.cpp, Connect_Rails in core.cpp).  Somebody   *)
(* puts a wagon over the gap between two modules; the algorithm thread     *)
(* sees two connectors whose blocks are occupied, joins them and links the *)
(* rails of their ports to each other.  When all are joined it saves the   *)
(* setup, turns the links into pointers (LinkAndMap) and starts to run.    *)
(* A client may load a setup that was saved before instead (cts.cpp).      *)
(*                                                                         *)
(* A connector is <<unit, number>>; its ports are numbered 1..Ports[c], and*)
(* each is the end of a block or a leg of a switch.                        *)
(***************************************************************************)
EXTENDS Integers, Sequences, SequencesExt, Functions

CONSTANTS
  Unit,       \* the units the program has a configuration of
  OnLayout,   \* Unit::on_layout
  Order,      \* all connectors, in the order in which find_connectors meets them
  Ports,      \* how many ports a connector has
  Rail,       \* the blocks and switches at the connectors
  End,        \* the rail and the side of it at each <<connector, port>>
  Detection,  \* the block that detects what stands on a rail
  Signalled,  \* the <<connector, port>>s with a signal for the track beyond
  Laid,       \* how the modules lie: the connector each one faces, and whether the
              \*   ports do so crosswise
  Wagon,      \* the wagons, each long enough for one gap
  Patient,    \* wagons stay where they are until the modules are joined
  Preempted,  \* threads interleave while a client loads a setup
  Incomplete, \* the setup may have been saved when joining was stopped
  None

Connector == DOMAIN Ports
Block == Range(Detection)
Port == DOMAIN End

VARIABLES
  link,        \* the RailLinks at the rails' sides
  signal,      \* Signal::block_link
  connection,  \* Unit::connection: the connector joined, and crossover
  connectors,  \* SYS->LC.connectors
  blocked,     \* Block::blocked
  over,        \* the port each wagon stands over, or None
  step,        \* what the algorithm thread does next
  found,       \* the indices find_connectable returned
  state,       \* SYS->LC.state
  linked,      \* SYS->modules_linked
  mapped,      \* RailLink::p of the links
  setup,       \* the setup a client may load: Unit::connection when it was saved
  loading,     \* what the client's thread does
  saved        \* the connections the setup that was saved holds, or None

rails == <<link, signal, connection, connectors>>
track == <<blocked, over>>
algorithm == <<step, found, mapped, saved>>
client == <<setup, loading>>
vars == <<rails, track, algorithm, state, linked, client>>

\* A rail has one end at a connector at most: find_connectors sees no more.
Sides(e) == IF e.side \in {"next", "prev"} THEN {"next", "prev"} ELSE {"app", "str", "div"}
RailSide == UNION {{e.rail} \X Sides(e) : e \in Range(End)}
AtConnector == {<<e.rail, e.side>> : e \in Range(End)}

NotJoined == [to |-> None, crossover |-> FALSE]
Joint(c) == [to |-> Laid[c][1], crossover |-> Laid[c][2]]
Open == [type |-> "C", to |-> None]
Inside == [type |-> "R", to |-> None]

----------------------------------------------------------------------------
FindConnectors == SelectSeq(Order, LAMBDA c : c[1] \in OnLayout)

BlockAt(c, p) == Detection[End[<<c, p>>].rail]

\* The wagon that stands over port p of c is on both sides of the gap.
Facing(c, p) ==
  <<Laid[c][1], IF Laid[c][2] THEN Ports[c] + 1 - p ELSE p>>
Occupied(b) ==
  \E w \in Wagon : over[w] # None
    /\ \E x \in {over[w], Facing(over[w][1], over[w][2])} : BlockAt(x[1], x[2]) = b

\* What holds of every layout: each connector is on the list once, faces another
\* one with as many ports, and has the end of another rail at each of its ports.
ASSUME LayoutAssumption ==
  /\ Unit \subseteq Nat /\ Connector \subseteq Unit \X Nat
  /\ None \notin Connector /\ None \notin Port
  /\ FindConnectors \in Seq(Connector) /\ IsInjective(FindConnectors)
  /\ \A c \in Connector : Ports[c] \in Nat
  /\ Port = UNION {{c} \X (1..Ports[c]) : c \in Connector}
  /\ End \in [Port -> [rail : Rail, side : {"next", "prev", "app", "str", "div"}]]
  /\ \A e, f \in Port : End[e].rail = End[f].rail => e = f
  /\ DOMAIN Detection = Rail
  /\ Signalled \subseteq Port
  /\ Laid \in [Connector -> Connector \X BOOLEAN]
  /\ \A c \in Connector :
       /\ Laid[c][1] # c /\ Ports[Laid[c][1]] = Ports[c]
       /\ Laid[Laid[c][1]] = <<c, Laid[c][2]>>

\* What an earlier session saved: every joint, or those joined when it was stopped.
Setups ==
  {[c \in Connector |-> IF c \in cs THEN Joint(c) ELSE NotJoined] :
     cs \in IF Incomplete THEN {ds \in SUBSET Connector : \A c \in ds : Laid[c][1] \in ds}
                         ELSE {Connector}}

Init ==
  /\ link = [x \in RailSide |-> IF x \in AtConnector THEN Open ELSE Inside]
  /\ signal = [e \in Signalled |-> Open]
  /\ connection = [c \in Connector |-> NotJoined]
  /\ connectors = FindConnectors
  /\ blocked = [b \in Block |-> FALSE]
  /\ over = [w \in Wagon |-> None]
  /\ step = "test" /\ found = <<>>
  /\ state = "Connecting" /\ linked = FALSE
  /\ mapped = [x \in DOMAIN link |-> None]
  /\ setup \in Setups
  /\ loading = "idle"
  /\ saved = None

----------------------------------------------------------------------------
\* The wagons and their detection

\* A wagon is put over a gap, or is pushed to another one.
Move(w, e) ==
  /\ state = "Connecting"
  /\ connection[e[1]] = NotJoined
  /\ (Patient /\ over[w] # None) => connection[over[w][1]] # NotJoined
  /\ over' = [over EXCEPT ![w] = e]
  /\ UNCHANGED <<rails, blocked, algorithm, state, linked, client>>

\* Block::setDetection, some time after.
Detect(b) ==
  /\ state = "Connecting"
  /\ blocked[b] # Occupied(b)
  /\ blocked' = [blocked EXCEPT ![b] = Occupied(b)]
  /\ UNCHANGED <<rails, over, algorithm, state, linked, client>>

----------------------------------------------------------------------------
\* BlockConnector::connect

IsBlock(e) == End[e].side \in {"next", "prev"}
LinkTo(f) == [type |-> CASE IsBlock(f) -> "R" [] End[f].side = "app" -> "S" [] OTHER -> "s",
              to |-> End[f].rail]

\* Mutant: a block is always linked at next.
WrittenNext(e, f) == IF IsBlock(e) THEN "next" ELSE End[e].side

\* Of a switch that meets a block with its point end, str is written.
WrittenSide(e, f) == IF End[e].side = "app" /\ IsBlock(f) THEN "str" ELSE End[e].side

OppositePort(n, crossover, i) == IF crossover THEN n + 1 - i ELSE i

\* Every rail is linked to the one at the opposite port, and a signal to the
\* rail beyond.
Connect(c, d, crossover) ==
  LET ends == {e \in Port : e[1] \in {c, d}}
      facing(e) == <<IF e[1] = c THEN d ELSE c, OppositePort(Ports[c], crossover, e[2])>>
      written(e) == <<End[e].rail, WrittenSide(e, facing(e))>>
  IN /\ link' = [x \in DOMAIN link |->
                   IF \E e \in ends : written(e) = x
                   THEN LinkTo(facing(CHOOSE e \in ends : written(e) = x)) ELSE link[x]]
     /\ signal' = [e \in Signalled |-> IF e \in ends THEN LinkTo(facing(e)) ELSE signal[e]]
     /\ connection' = [connection EXCEPT ![c] = [to |-> d, crossover |-> crossover],
                                         ![d] = [to |-> c, crossover |-> crossover]]

\* Mutant: the second is looked for where it was.
ErasedUnshifted(s, i, j) == RemoveAt(RemoveAt(s, i), IF j < Len(s) THEN j ELSE j - 1)

\* Both connectors leave the list, the second where the first has moved it to.
Erased(s, i, j) == RemoveAt(RemoveAt(s, i), IF i < j THEN j - 1 ELSE j)

----------------------------------------------------------------------------
\* Connect_Rails, the algorithm thread

BlockedAt(c, p) == blocked[BlockAt(c, p)]

\* Does the algorithm thread wait until a client has loaded its setup?
Undisturbed == ~Preempted => loading \notin {"wait", "load"}

\* Mutant: only the first port of a connector is looked at.
ConnectableFirst == {i \in DOMAIN connectors : BlockedAt(connectors[i], 1)}

\* The connectors on the list with an occupied block.
Connectable ==
  {i \in DOMAIN connectors : \E p \in 1..Ports[connectors[i]] : BlockedAt(connectors[i], p)}

\* The condition of the loop; then the thread waits for a block in the queue.
Test ==
  /\ step = "test"
  /\ Undisturbed
  /\ step' = IF state = "Connecting" /\ ~linked THEN "find" ELSE "save"
  /\ UNCHANGED <<rails, track, found, mapped, saved, state, linked, client>>

\* find_connectable: the first two of them.
Find ==
  /\ step = "find"
  /\ Undisturbed /\ loading # "load"
  /\ \/ \E i, j \in Connectable :
          /\ i < j /\ \A k \in Connectable : k <= j => k \in {i, j}
          /\ found' = <<i, j>> /\ step' = "connect"
     \/ /\ \A i, j \in Connectable : i = j
        /\ found' = <<>>
        /\ step' = IF connectors = <<>> THEN "save" ELSE "test"
  /\ UNCHANGED <<rails, track, mapped, saved, state, linked, client>>

\* Mutant: straight whenever both are occupied.
StraightAnyhow(c, d) == \E i, j \in 1..Ports[c] : BlockedAt(c, i) /\ BlockedAt(d, j)

\* connect_connectors: the wagon tells how the ports lie, if it still stands there.
Straight(c, d) == \E i \in 1..Ports[c] : BlockedAt(c, i) /\ BlockedAt(d, i)
Crosswise(c, d) == \E i \in 1..Ports[c] : BlockedAt(c, i) /\ BlockedAt(d, Ports[c] + 1 - i)
MayConnect(c, d) ==
  /\ Ports[c] = Ports[d] /\ c[1] # d[1]
  /\ Straight(c, d) \/ Crosswise(c, d)

ConnectConnectors ==
  /\ step = "connect"
  /\ LET i == found[1]
         j == found[2]
         c == connectors[i]
         d == connectors[j]
     IN IF MayConnect(c, d)
        THEN Connect(c, d, ~Straight(c, d)) /\ connectors' = Erased(connectors, i, j)
        ELSE UNCHANGED rails
  /\ step' = IF connectors' = <<>> THEN "save" ELSE "test"
  /\ found' = <<>>
  /\ UNCHANGED <<track, mapped, saved, state, linked, client>>

\* Nothing is saved when a client has a setup loaded.
Save ==
  /\ step = "save"
  /\ Undisturbed
  /\ saved' = IF state = "Connecting" THEN connection ELSE saved
  /\ linked' = TRUE
  /\ step' = "map"
  /\ UNCHANGED <<rails, track, found, mapped, state, client>>

\* SIM_Connect_Rail_links and InitProcess.
Map ==
  /\ step = "map"
  /\ Undisturbed
  /\ mapped' = [x \in DOMAIN link |-> link[x].to]
  /\ step' = "run"
  /\ state' = "Run"
  /\ UNCHANGED <<rails, track, found, saved, linked, client>>

----------------------------------------------------------------------------
\* The clients

\* Track_Scan_Progress of an administrator: stop connecting.
StopConnecting ==
  /\ ~linked
  /\ state = "Connecting"
  /\ linked' = TRUE
  /\ UNCHANGED <<rails, track, algorithm, state, client>>

\* WS_cts_Track_Layout_Load: the state is set before processMutex is taken.
Request ==
  /\ loading = "idle"
  /\ state = "Connecting"
  /\ state' = "Loading"
  /\ loading' = "wait"
  /\ UNCHANGED <<rails, track, algorithm, linked, setup>>

Lock ==
  /\ loading = "wait"
  /\ step # "connect"
  /\ loading' = "load"
  /\ UNCHANGED <<rails, track, algorithm, state, linked, setup>>

\* BlockConnectorSetup::load goes through the connectors unit by unit: this is
\* the first that is not joined yet.
Before(c, d) == c[1] < d[1] \/ (c[1] = d[1] /\ c[2] < d[2])
IsNext(c) ==
  /\ connection[c] = NotJoined
  /\ \A d \in Connector : Before(d, c) => connection[d] # NotJoined

Index(s, c) == CHOOSE i \in DOMAIN s : s[i] = c

\* It is joined as in the setup; when it or the other is not on the list (of a
\* unit that is not on the layout, or not joined in the setup) the loading ends.
Load ==
  /\ loading = "load"
  /\ \/ \E c \in Connector :
          LET d == setup[c].to
          IN /\ IsNext(c) /\ {c, d} \subseteq ToSet(connectors)
             /\ Connect(c, d, setup[c].crossover)
             /\ connectors' = Erased(connectors, Index(connectors, c), Index(connectors, d))
             /\ UNCHANGED loading
     \/ /\ \A c \in Connector : IsNext(c) => ~({c, setup[c].to} \subseteq ToSet(connectors))
        /\ loading' = "done"
        /\ UNCHANGED rails
  /\ UNCHANGED <<track, algorithm, state, linked, setup>>

----------------------------------------------------------------------------
Next ==
  \/ \E w \in Wagon, e \in Port : Move(w, e)
  \/ \E b \in Block : Detect(b)
  \/ Test \/ Find \/ ConnectConnectors \/ Save \/ Map
  \/ StopConnecting \/ Request \/ Lock \/ Load

Spec == Init /\ [][Next]_vars

\* The threads run, detections arrive, and somebody goes on putting the wagons
\* over the gaps; no client has to do anything.
FairSpec ==
  /\ Spec
  /\ WF_vars(Test) /\ WF_vars(Find) /\ WF_vars(ConnectConnectors) /\ WF_vars(Save) /\ WF_vars(Map) /\ WF_vars(Lock) /\ WF_vars(Load)
  /\ \A b \in Block : WF_vars(Detect(b))
  /\ WF_vars(\E w \in Wagon, e \in Port : Move(w, e))

----------------------------------------------------------------------------
TypeOK ==
  /\ link \in [RailSide -> [type : {"C", "R", "S", "s"}, to : Rail \cup {None}]]
  /\ signal \in [Signalled -> [type : {"C", "R", "S", "s"}, to : Rail \cup {None}]]
  /\ connection \in [Connector -> [to : Connector \cup {None}, crossover : BOOLEAN]]
  /\ connectors \in Seq(Connector)
  /\ blocked \in [Block -> BOOLEAN]
  /\ over \in [Wagon -> Port \cup {None}]
  /\ step \in {"test", "find", "connect", "save", "map", "run"}
  /\ Len(found) = 2 <=> step = "connect"
  /\ state \in {"Connecting", "Loading", "Run"} /\ linked \in BOOLEAN
  /\ loading \in {"idle", "wait", "load", "done"}

\* One wagon that is left where it is until the modules are joined: only
\* connectors that face each other are joined, and the right way round.
JoinedAsLaid == \A c \in Connector : connection[c] \in {NotJoined, Joint(c)}

\* Wherever two connectors are joined, the rails at each pair of ports that
\* face each other lead to one another, and a signal there to the rail beyond;
\* a connector is on the list until it is joined.
PortsLinked ==
  \A e \in Port : connection[e[1]] # NotJoined =>
    LET f == <<connection[e[1]].to, OppositePort(Ports[e[1]], connection[e[1]].crossover, e[2])>>
    IN /\ e[1] \notin ToSet(connectors)
       /\ link[<<End[e].rail, End[e].side>>] = LinkTo(f)
       /\ e \in Signalled => signal[e] = LinkTo(f)

\* A setup that is loaded joins again what was joined when it was saved, and
\* what a later session with the same modules saves is the same, unless that
\* was stopped.
LoadRestores ==
  /\ loading = "done" => \A c \in Connector : setup[c] # NotJoined => connection[c] = setup[c]
  /\ (saved # None /\ connectors = <<>> /\ loading = "idle" /\ ~Incomplete) => saved = setup

\* When the algorithm runs, all links are pointers to what they name.
LinksMapped == state = "Run" => \A x \in DOMAIN link : mapped[x] = link[x].to

\* Joining comes to an end, and the program runs with all modules joined, as
\* long as wagons are put over the gaps or a setup is loaded, and nobody stops it.
AllJoined ==
  [](linked => connectors = <<>>)
    => <>[](state = "Run" /\ \A c \in Connector : connection[c] # NotJoined)
=============================================================================
