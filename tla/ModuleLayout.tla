---------------------------- MODULE ModuleLayout ----------------------------
(***************************************************************************)
(* How a page draws the modules of the layout next to each other           *)
(* (canvas_module in canvas.js, the layout messages in socket.js).  While  *)
(* modules are joined the server tells the administrators' pages of both   *)
(* modules (WS_stc_Partial_Layout), and all pages of the whole layout when *)
(* it is done (WS_stc_Track_Layout) and of the modules when they connect   *)
(* (newClientCallback in server.cpp).                                      *)
(*                                                                         *)
(* A page turns and moves a module so that its anchor comes to lie on that *)
(* of the module it is joined to, and with it all modules that hang on it. *)
(* Directions are quarter turns, r of the code being half a turn.          *)
(***************************************************************************)
EXTENDS Integers, Sequences, SequencesExt, FiniteSets, Functions, TLC

CONSTANTS
  Module,     \* the ids of the modules
  Anchors,    \* the anchors of a module: place and direction
  Laid,       \* the anchor <<module, number>> that each anchor is joined to
  Preempted,  \* TRUE: the algorithm thread may be delayed before it sets modules_linked
  Overlap,    \* TRUE: the joining may end while a page is sent its modules
  MaxDrops    \* bound: how often the page loses its connection

Anchor == UNION {{m} \X DOMAIN Anchors[m] : m \in Module}
NoUnit == 0

VARIABLES
  connection,  \* Unit::connection: the module joined at each anchor
  joining,     \* Connect_Rails: connecting, told, linked (SYS->modules_linked)
  sending,     \* the modules the server is about to send to the page that connects
  toPage,      \* what is under way to the page
  admin,       \* the page is logged in: it gets the messages to administrators
  modules,     \* the page's modules: place, connection_link, connected
  drops

server == <<connection, joining, sending, admin>>
vars == <<server, toPage, modules, drops>>

Undisturbed == ~Preempted => joining # "told"

InOrder == SortSeq(SetToSeq(Module), <)

Init ==
  /\ connection = [m \in Module |-> [i \in DOMAIN Anchors[m] |-> NoUnit]]
  /\ joining = "connecting"
  /\ sending = InOrder
  /\ toPage = <<>>
  /\ admin = FALSE
  /\ modules = <<>>
  /\ drops = 0

----------------------------------------------------------------------------
\* The server

\* BlockConnector::connect of two anchors that face each other.
Join(a) ==
  LET b == Laid[a]
      joined == [connection EXCEPT ![a[1]][a[2]] = b[1], ![b[1]][b[2]] = a[1]]
      update(m) == [op |-> "update", module |-> m, link |-> joined[m]]
  IN /\ joining = "connecting"
     /\ connection[a[1]][a[2]] = NoUnit
     /\ connection' = joined
     /\ toPage' = IF admin THEN toPage \o <<update(a[1]), update(b[1])>> ELSE toPage
     /\ UNCHANGED <<joining, sending, admin, modules, drops>>

Layout == [op |-> "layout", link |-> connection]

\* The end of Connect_Rails: all pages are told, then the modules are linked.
Tell ==
  /\ joining = "connecting"
  /\ \A a \in Anchor : connection[a[1]][a[2]] # NoUnit
  /\ ~Overlap => sending = <<>>
  /\ joining' = "told"
  /\ toPage' = Append(toPage, Layout)
  /\ UNCHANGED <<connection, sending, admin, modules, drops>>

SetLinked ==
  /\ joining = "told"
  /\ joining' = "linked"
  /\ UNCHANGED <<connection, sending, toPage, admin, modules, drops>>

\* Mutant: a page that connects is sent the modules, but not how they are joined.
SendAlone ==
  /\ sending # <<>>
  /\ Undisturbed
  /\ sending' = Tail(sending)
  /\ toPage' = Append(toPage, [op |-> "module", module |-> Head(sending)])
  /\ UNCHANGED <<connection, joining, admin, modules, drops>>

\* newClientCallback: one module after the other, then the layout if it is linked.
SendModule ==
  /\ sending # <<>>
  /\ Undisturbed
  /\ sending' = Tail(sending)
  /\ toPage' = toPage \o <<[op |-> "module", module |-> Head(sending)]>>
                      \o (IF Len(sending) = 1 /\ joining = "linked" THEN <<Layout>> ELSE <<>>)
  /\ UNCHANGED <<connection, joining, admin, modules, drops>>

\* The client's thread reads its messages, the login among them, after that.
Login ==
  /\ sending = <<>>
  /\ ~admin
  /\ admin' = TRUE
  /\ UNCHANGED <<connection, joining, sending, toPage, modules, drops>>

\* The connection is lost and made again, without the login.
Reconnect ==
  /\ drops < MaxDrops
  /\ drops' = drops + 1
  /\ toPage' = <<>>
  /\ sending' = InOrder
  /\ admin' = FALSE
  /\ UNCHANGED <<connection, joining, modules>>

----------------------------------------------------------------------------
\* The page.  A handler that fails half-way leaves what it has done: its state
\* is the modules and whether it has thrown.

\* A new canvas_module, before it is part of the layout.
Fresh(m) ==
  [x |-> 0, y |-> 300 * m, r |-> 0, link |-> <<>>, connected |-> [i \in DOMAIN Anchors[m] |-> FALSE]]

\* rotated_point: x and y turned by q quarters, and moved.
Turned(a, q) ==
  CASE q = 0 -> [x |-> a.x, y |-> a.y]
    [] q = 1 -> [x |-> a.y, y |-> -a.x]
    [] q = 2 -> [x |-> -a.x, y |-> -a.y]
    [] q = 3 -> [x |-> -a.y, y |-> a.x]

PointAt(m, place, i) ==
  LET t == Turned(Anchors[m][i], place.r) IN [x |-> place.x + t.x, y |-> place.y + t.y]

\* The direction opposite to anchor i of module m.
Opposite(m, place, i) == (place.r + Anchors[m][i].r + 2) % 4

\* Where module n, turned by r, has to lie for its anchor j to be at anchor i of m.
Lying(m, place, i, n, j, r) ==
  LET point == PointAt(m, place, i)
      t == Turned(Anchors[n][j], r)
  IN [x |-> point.x - t.x, y |-> point.y - t.y, r |-> r]

Beside(m, place, i, n, j) ==
  Lying(m, place, i, n, j, (Opposite(m, place, i) + Anchors[n][j].r) % 4)

\* As above, but a module that faces m already is not turned.
Joining(ms, m, i, n, j) ==
  IF Opposite(m, ms[m], i) = ms[n].r + Anchors[n][j].r
  THEN Lying(m, ms[m], i, n, j, ms[n].r)
  ELSE Beside(m, ms[m], i, n, j)

\* The first anchor of module n at which the page has m (indexOf); 0: none.
LinkTo(ms, n, m) ==
  LET at == {j \in DOMAIN ms[n].link : ms[n].link[j] = m}
  IN IF at = {} THEN 0 ELSE CHOOSE j \in at : \A k \in at : j <= k

\* canvas_module.move: the module and all that hang on it but prev and origin.
\* A module that does not know m as its neighbour makes it throw.
RECURSIVE Move(_, _, _, _, _, _)
Move(s, m, place, origin, prev, depth) ==
  LET placed == [s EXCEPT !.modules[m] = place @@ @]
      hangs(acc, i) ==
        /\ i \in DOMAIN acc.modules[m].link
        /\ acc.modules[m].connected[i]
        /\ acc.modules[m].link[i] # prev
      next(acc, n, i, j) ==
        CASE j = 0 -> [acc EXCEPT !.thrown = TRUE]
          [] n = origin -> acc
          [] OTHER -> Move(acc, n, Beside(m, acc.modules[m], i, n, j), origin, m, depth + 1)
      carry(acc, i) ==
        IF acc.thrown \/ ~hangs(acc, i) THEN acc
        ELSE LET n == acc.modules[m].link[i] IN next(acc, n, i, LinkTo(acc.modules, n, m))
  IN IF depth > 10 THEN placed
     ELSE FoldLeft(carry, placed, [i \in DOMAIN Anchors[m] |-> i])

\* canvas_module.connect: the modules at the anchors that are not connected yet
\* are moved to it, if they have it as their neighbour too.
Connect(s, m) ==
  LET moved(acc, i, n, j) ==
        Move(acc, n, Joining(acc.modules, m, i, n, j), m, NoUnit, 0)
      flagged(acc, i, n, j) ==
        IF acc.thrown THEN acc
        ELSE [acc EXCEPT !.modules[n].connected[j] = TRUE, !.modules[m].connected[i] = TRUE]
      at(acc, i, n) ==
        IF n \notin DOMAIN acc.modules \/ LinkTo(acc.modules, n, m) = 0 THEN acc
        ELSE LET j == LinkTo(acc.modules, n, m) IN flagged(moved(acc, i, n, j), i, n, j)
      step(acc, i) ==
        IF acc.thrown \/ acc.modules[m].connected[i] THEN acc
        ELSE at(acc, i, acc.modules[m].link[i])
  IN FoldLeft(step, s, [i \in DOMAIN Anchors[m] |-> i])

\* What Track_Layout_Update and Track_Layout_Config do for one module.
Update(s, m, link) ==
  CASE s.thrown -> s
    [] m \notin DOMAIN s.modules -> [s EXCEPT !.thrown = TRUE]
    [] ToSet(link) = {NoUnit} -> [s EXCEPT !.modules[m].link = link]
    [] OTHER -> Connect([s EXCEPT !.modules[m].link = link], m)

\* Canvas.fit: the modules that hang together, and fitOptimize: their first one
\* is moved to a place of its own, and the others with it.
RECURSIVE Group(_, _)
Group(ms, found) ==
  LET more == {ms[m].link[i] : <<m, i>> \in {a \in Anchor : a[1] \in found /\ a[2] \in DOMAIN ms[a[1]].link
                                                           /\ ms[a[1]].connected[a[2]]}}
  IN IF more \subseteq found THEN found ELSE Group(ms, found \cup more)

Fit(s) ==
  LET shown(ms) == {m \in DOMAIN ms : ms[m].link # <<>>}
      first(ms) == {m \in shown(ms) : \A n \in shown(ms) : m \in Group(ms, {n}) => m <= n}
      put(acc, m) ==
        IF acc.thrown \/ m \notin first(s.modules) THEN acc
        ELSE Move(acc, m, [x |-> 0, y |-> 1000 * m], m, NoUnit, 0)
  IN FoldLeft(put, s, InOrder)

Handled(msg) ==
  LET s == [modules |-> modules, thrown |-> FALSE]
  IN IF msg.op = "module"
     THEN [s EXCEPT !.modules = (msg.module :> Fresh(msg.module)) @@ @]
     ELSE Fit(IF msg.op = "update" THEN Update(s, msg.module, msg.link)
              ELSE FoldLeft(LAMBDA acc, m : Update(acc, m, msg.link[m]), s, InOrder))

Receive ==
  /\ toPage # <<>>
  /\ toPage' = Tail(toPage)
  /\ modules' = Handled(Head(toPage)).modules
  /\ UNCHANGED <<server, drops>>

----------------------------------------------------------------------------
Next ==
  \/ \E a \in Anchor : Join(a)
  \/ Tell \/ SetLinked \/ SendModule \/ Login \/ Reconnect \/ Receive

Spec == Init /\ [][Next]_vars

TypeOK ==
  /\ joining \in {"connecting", "told", "linked"}
  /\ DOMAIN modules \subseteq Module
  /\ \A m \in DOMAIN modules :
       /\ modules[m].r \in 0..3
       /\ DOMAIN modules[m].connected = DOMAIN Anchors[m]

\* Two anchors lie on each other and face each other.
Meet(a, b) ==
  LET m == modules[a[1]]
      n == modules[b[1]]
  IN /\ PointAt(a[1], m, a[2]) = PointAt(b[1], n, b[2])
     /\ (m.r + Anchors[a[1]][a[2]].r - n.r - Anchors[b[1]][b[2]].r) % 4 = 2

Takes(a) == a[1] \in DOMAIN modules /\ modules[a[1]].connected[a[2]]

\* Where the page takes two modules for connected it draws them so, in whatever
\* order they were joined, and whatever was moved, turned and sent again since
\* (canvas_module.move carries all modules that hang on the one it moves).
AnchorsMeet == \A a \in Anchor : (Takes(a) /\ Takes(Laid[a])) => Meet(a, Laid[a])

\* A page that has received everything draws the whole layout, also if its
\* connection was lost while the modules were joined (newClientCallback).
LayoutShown ==
  (joining = "linked" /\ sending = <<>> /\ toPage = <<>>)
     => \A a \in Anchor : Takes(a) /\ Meet(a, Laid[a])
=============================================================================
