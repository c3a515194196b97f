---------------------------- MODULE WebMessages ----------------------------
(***************************************************************************)
(* Browsers and the websocket server: connecting and reconnecting, the     *)
(* open messages about trains nobody has linked yet, and linking them.     *)
(*                                                                         *)
(* A page (socket.js, messages.js, train.js) keeps its websocket, a timer  *)
(* that reconnects, the list of messages it got, those it draws, and       *)
(* which engine or train set is linked to which train.  The                *)
(* server (server.cpp, stc.cpp, cts.cpp) has MessageList, the algorithm    *)
(* thread that makes messages, one thread per client, and the accept       *)
(* thread that brings a new client up to date.  Channels are FIFO; what is *)
(* in them is lost with the connection.                                    *)
(***************************************************************************)
EXTENDS Integers, Sequences, FiniteSets

CONSTANTS
  Browser,     \* the pages
  Train,       \* trains the algorithm finds, by their follow_id
  Engines,     \* the slots of Train.engines and RSManager->Engines
  Sets,        \* the slots of Train.trains and RSManager->TrainSets
  Slots,       \* the length of MessageList
  MaxClients,  \* MAX_WEB_CLIENTS
  MaxDrops,    \* bound: how often connections are lost or refused
  MaxBacklog,  \* bound: messages under way to a page when a link is requested
  Preempted,   \* other threads run while a message is made or a client joins
  None         \* no train, message, client: undefined or null

Id == 0..(Slots - 1)
Unit == {"E"} \X Engines \cup {"T"} \X Sets
Message == [id : Id, train : Train]
Disconnected == [id |-> 0, train |-> None]

\* What the algorithm thread is making, and how far the accept thread is with a client
Made == [id : Id, train : Train, sent : BOOLEAN]
Greeting ==
  [page : Browser, next : {"handshake", "messages", "send", "libraries", "links", "crashed"},
   at : 0..Slots, left : SUBSET Train]

\* MessageList has a slot; nothing is something.
MessagesAssumption ==
  /\ Slots \in Nat \ {0}
  /\ \A S \in {Train, Unit, Message, Made, Greeting} : None \notin S

VARIABLES
  list,       \* MessageList: is a slot in use, and the data it was last given
  counter,    \* MessageCounter
  making,     \* WS_stc_NewTrain under way: the message and what was done of it
  found,      \* trains the algorithm made a message for
  linked,     \* the unit of each train, or None
  clients,    \* Server::clients, oldest first
  joining,    \* newClientCallback under way: the client and what comes next
  listening,  \* is the listening socket still open
  ws,         \* a page's websocket
  timers,     \* how many timeouts of a page will call __connect__
  connected,  \* websocket.connected of a page
  messages,   \* Messages.messages of a page, and is it an array yet
  drawn,      \* the elements of the page's list of messages
  units,      \* railtrainid of each engine and train set of a page
  toPage, toServer,   \* what is under way between a page and its client thread
  drops

serverVars == <<list, counter, making, found, linked>>
socketVars == <<clients, joining, listening>>
linkVars == <<ws, timers, connected>>
pageVars == <<messages, drawn, units>>
channels == <<toPage, toServer>>
vars == <<serverVars, socketVars, linkVars, pageVars, channels, drops>>

----------------------------------------------------------------------------
\* The page.  Messages.messages is {} until the first clear and [] from then
\* on; only of an array does remove() see the length.  Of what was stored only the
\* indices matter here (at).

Blank == [array |-> FALSE, at |-> {0}]

\* The first index of the array at which nothing was ever stored.
Hole(m) == CHOOSE i \in 0..Slots : i \notin m.at /\ \A j \in 0..(i - 1) : j \in m.at

\* $.each() hands clear() an undefined element, whose remove() throws.
ClearThrows(m) == m.array /\ \E i \in m.at : i > Hole(m)

\* What is drawn still once clear() has gone through the messages or thrown.
Uncleared(m, d) ==
  {x \in d : IF ClearThrows(m) THEN x.id >= Hole(m) ELSE x.id \notin m.at}

\* add() draws the message in place of the element that has its number.
Draw(d, m) == {x \in d : x.id # m.id} \cup {m}

Found(m, id) == m.array /\ id \in m.at

\* Mutant: whatever became of the link.
RemovedAnyway(m, d, id, ret) ==
  IF Found(m, id) THEN {x \in d : x.id # id} ELSE d

\* remove() finds a message by its number; one about a new train is kept when
\* linking failed.
Removed(m, d, id, ret) ==
  IF Found(m, id) /\ ret = 1 THEN {x \in d : x.id # id} ELSE d

\* Train_Control.link: type 1 is a train set.
LinkUnit(kind, id) == <<IF kind = 1 THEN "T" ELSE "E", id>>
Linked(u, msg) ==
  LET x == LinkUnit(msg.kind, msg.unit)
  IN IF x \in DOMAIN u THEN [u EXCEPT ![x] = msg.train] ELSE u

Unlinked == [x \in Unit |-> None]

----------------------------------------------------------------------------
\* The server's sockets.  A client gets broadcasts from its handshake on.

Live(b) == {i \in DOMAIN clients : clients[i].page = b /\ clients[i].up}
Gets(i) == clients[i].connected /\ clients[i].greeted

\* send_all() of the messages ms: a write to a socket whose page has gone
\* disconnects the client.
Reached(b) == \E i \in Live(b) : Gets(i)
SendAll(ms, base) == [b \in Browser |-> IF Reached(b) THEN base[b] \o ms ELSE base[b]]
AfterWrites ==
  [i \in DOMAIN clients |->
     [clients[i] EXCEPT !.connected = @ /\ (clients[i].greeted => clients[i].up)]]

NewMsg(m) == [op |-> "NewMessage", msg |-> m]
ClearMsg(id, ret) == [op |-> "ClearMessage", id |-> id, ret |-> ret]
LinkMsg(t, k, u) == [op |-> "LinkTrain", train |-> t, kind |-> k, unit |-> u]

\* The server crashes while a client joins (SendLink).
Running == ~(joining # None /\ joining.next = "crashed")

\* A client joins and has yet to get the last of the open messages.
Greets == joining # None /\ joining.next \in {"handshake", "messages", "send"}

\* While a message is made or a client joins nothing else runs but Drop, unless
\* threads preempt each other; when that ends in a crash, the pages go on.
Undisturbed == ~Preempted => making = None /\ (Running => joining = None)

----------------------------------------------------------------------------
Init ==
  /\ list = [i \in Id |-> [used |-> FALSE, data |-> None]]
  /\ counter = 0
  /\ making = None
  /\ found = {}
  /\ linked = [t \in Train |-> None]
  /\ clients = <<>>
  /\ joining = None
  /\ listening = TRUE
  /\ ws = [b \in Browser |-> "none"]
  /\ timers = [b \in Browser |-> 1]
  /\ connected = [b \in Browser |-> FALSE]
  /\ messages = [b \in Browser |-> Blank]
  /\ drawn = [b \in Browser |-> {Disconnected}]
  /\ units = [b \in Browser |-> Unlinked]
  /\ toPage = [b \in Browser |-> <<>>]
  /\ toServer = [b \in Browser |-> <<>>]
  /\ drops = 0

----------------------------------------------------------------------------
\* The algorithm thread finds a train: WS_init_Message takes the next free
\* slot, the message is broadcast, and only then WS_add_Message stores it.

NextSlot ==
  LET i == CHOOSE n \in 0..(Slots - 1) :
             /\ ~list[(counter + n) % Slots].used
             /\ \A j \in 0..(n - 1) : list[(counter + j) % Slots].used
  IN (counter + i) % Slots

InitMessage(t) ==
  /\ Running
  /\ making = None
  /\ Undisturbed
  /\ t \notin found
  /\ \E i \in Id : ~list[i].used
  /\ making' = [id |-> NextSlot, train |-> t, sent |-> FALSE]
  /\ list' = [list EXCEPT ![NextSlot].used = TRUE]
  /\ counter' = (NextSlot + 1) % Slots
  /\ found' = found \cup {t}
  /\ UNCHANGED <<linked, socketVars, linkVars, pageVars, channels, drops>>

Making == [id |-> making.id, train |-> making.train]

SendMessage ==
  /\ Running
  /\ making # None
  /\ ~making.sent
  /\ making' = [making EXCEPT !.sent = TRUE]
  /\ toPage' = SendAll(<<NewMsg(Making)>>, toPage)
  /\ clients' = AfterWrites
  /\ UNCHANGED <<list, counter, found, linked, joining, listening, linkVars, pageVars, toServer, drops>>

AddMessage ==
  /\ Running
  /\ making # None
  /\ making.sent
  /\ making' = None
  /\ list' = [list EXCEPT ![making.id].data = Making]
  /\ UNCHANGED <<counter, found, linked, socketVars, linkVars, pageVars, channels, drops>>

----------------------------------------------------------------------------
\* The accept thread.

NewClient(b) == [page |-> b, up |-> TRUE, connected |-> TRUE, greeted |-> FALSE]

\* Server::loop takes the page's socket; with too many clients it closes the
\* socket it listens on instead.
Accept(b) ==
  /\ ws[b] = "connecting"
  /\ Live(b) = {}
  /\ listening
  /\ joining = None
  /\ Undisturbed
  /\ IF Len(clients) < MaxClients
     THEN /\ clients' = Append(clients, NewClient(b))
          /\ joining' = [page |-> b, next |-> "handshake", at |-> 0, left |-> {}]
          /\ UNCHANGED listening
     ELSE /\ listening' = FALSE
          /\ UNCHANGED <<clients, joining>>
  /\ UNCHANGED <<serverVars, linkVars, pageVars, channels, drops>>

Mine == CHOOSE i \in DOMAIN clients :
          clients[i].page = joining.page /\ \A j \in DOMAIN clients :
             clients[j].page = joining.page => j <= i

\* The newest client object of the page that joins; a write to it when the
\* page has gone disconnects it.
SendMine(ms) ==
  /\ toPage' = IF clients[Mine].up THEN [toPage EXCEPT ![joining.page] = @ \o ms] ELSE toPage
  /\ clients' = [clients EXCEPT ![Mine].connected = @ /\ clients[Mine].up]

\* The handshake is answered; the page's onopen comes before all messages.
Handshake ==
  /\ joining # None
  /\ joining.next = "handshake"
  /\ joining' = [joining EXCEPT !.next = "messages"]
  /\ clients' = [clients EXCEPT ![Mine].greeted = TRUE]
  /\ ws' = IF clients[Mine].up THEN [ws EXCEPT ![joining.page] = "open"] ELSE ws
  /\ toPage' = IF clients[Mine].up THEN [toPage EXCEPT ![joining.page] = <<[op |-> "open"]>>] ELSE toPage
  /\ UNCHANGED <<serverVars, listening, timers, connected, pageVars, toServer, drops>>

\* WS_send_open_Messages: look at one slot after the other ...
TestSlot ==
  /\ joining # None
  /\ joining.next = "messages"
  /\ joining' = IF joining.at = Slots THEN [joining EXCEPT !.next = "libraries"]
                ELSE IF list[joining.at].used THEN [joining EXCEPT !.next = "send"]
                ELSE [joining EXCEPT !.at = @ + 1]
  /\ UNCHANGED <<serverVars, clients, listening, linkVars, pageVars, channels, drops>>

\* ... and send its data, as long as what was stored last.
SendSlot ==
  /\ joining # None
  /\ joining.next = "send"
  /\ joining' = [joining EXCEPT !.next = "messages", !.at = @ + 1]
  /\ SendMine(IF list[joining.at].data = None THEN <<>> ELSE <<NewMsg(list[joining.at].data)>>)
  /\ UNCHANGED <<serverVars, listening, linkVars, pageVars, toServer, drops>>

\* The libraries, from which the page builds Train.engines and Train.trains anew.
SendLibraries ==
  /\ joining # None
  /\ joining.next = "libraries"
  /\ joining' = [joining EXCEPT !.next = "links", !.left = Train]
  /\ SendMine(<<[op |-> "libraries"]>>)
  /\ UNCHANGED <<serverVars, listening, linkVars, pageVars, toServer, drops>>

\* Then all trains, to all clients: type 0 for a train set, 1 for an engine.  A
\* train that is not linked has no engine to read the number of: the server crashes.
TypeOnJoin(u) == IF u[1] = "T" THEN 0 ELSE 1
SendLink(t) ==
  /\ joining # None
  /\ joining.next = "links"
  /\ t \in joining.left
  /\ IF t \in found /\ linked[t] = None
     THEN /\ joining' = [joining EXCEPT !.next = "crashed"]
          /\ UNCHANGED <<toPage, clients>>
     ELSE /\ joining' = [joining EXCEPT !.left = @ \ {t}]
          /\ IF linked[t] = None
             THEN UNCHANGED <<toPage, clients>>
             ELSE /\ toPage' = SendAll(<<LinkMsg(t, TypeOnJoin(linked[t]), linked[t][2])>>, toPage)
                  /\ clients' = AfterWrites
  /\ UNCHANGED <<serverVars, listening, linkVars, pageVars, toServer, drops>>

Joined ==
  /\ joining # None
  /\ joining.next = "links"
  /\ joining.left = {}
  /\ joining' = None
  /\ UNCHANGED <<serverVars, clients, listening, linkVars, pageVars, channels, drops>>

\* A list without the members of a set
Without(cs, S) ==
  LET left[n \in 0..Len(cs)] ==
        IF n = 0 THEN <<>> ELSE IF cs[n] \in S THEN left[n - 1] ELSE Append(left[n - 1], cs[n])
  IN left[Len(cs)]

\* Server::ClearUnusedSockets, of a client that has finished joining.
ClearUnused ==
  /\ joining = None
  /\ Undisturbed
  /\ \E i \in DOMAIN clients : ~clients[i].connected
  /\ clients' = Without(clients, {c \in {clients[i] : i \in DOMAIN clients} : ~c.connected})
  /\ UNCHANGED <<serverVars, joining, listening, linkVars, pageVars, channels, drops>>

----------------------------------------------------------------------------
\* A client's thread: WS_cts_LinkTrain.  A train is linked once, to a unit
\* no train uses.

CanLink(t, u) == linked[t] = None /\ \A s \in Train : linked[s] # u
TypeOf(u) == IF u[1] = "T" THEN 1 ELSE 0

LinkTrain(b) ==
  /\ Running
  /\ toServer[b] # <<>>
  /\ Undisturbed
  /\ \E i \in Live(b) : clients[i].connected
  /\ toServer' = [toServer EXCEPT ![b] = Tail(@)]
  /\ LET q == Head(toServer[b])
     IN IF CanLink(q.train, q.unit)
        THEN /\ linked' = [linked EXCEPT ![q.train] = q.unit]
             /\ list' = [list EXCEPT ![q.id].used = FALSE]
             /\ toPage' = SendAll(<<LinkMsg(q.train, TypeOf(q.unit), q.unit[2]), ClearMsg(q.id, 1)>>, toPage)
        ELSE /\ toPage' = SendAll(<<ClearMsg(q.id, 0)>>, toPage)
             /\ UNCHANGED <<linked, list>>
  /\ clients' = AfterWrites
  /\ UNCHANGED <<counter, making, found, joining, listening, linkVars, pageVars, drops>>

----------------------------------------------------------------------------
\* The page's websocket.

\* A timeout: __connect__.
Connect(b) ==
  /\ timers[b] > 0
  /\ Undisturbed
  /\ timers' = [timers EXCEPT ![b] = @ - 1]
  /\ ws' = [ws EXCEPT ![b] = "connecting"]
  /\ UNCHANGED <<serverVars, socketVars, connected, pageVars, channels, drops>>

\* Mutant: only of a page that was connected.
RetryConnected(b) ==
  timers' = IF connected[b] THEN [timers EXCEPT ![b] = @ + 1] ELSE timers

\* on_disconnect: __connect__ after some seconds.
Retry(b) == timers' = [timers EXCEPT ![b] = @ + 1]

\* onclose of a page that was connected: the callbacks, then the timeout;
\* when a callback throws, the rest of on_disconnect is left out.
OnDisconnect(b) ==
  /\ ws' = [ws EXCEPT ![b] = "closed"]
  /\ IF connected[b] /\ ClearThrows(messages[b])
     THEN /\ drawn' = [drawn EXCEPT ![b] = Uncleared(messages[b], @)]
          /\ UNCHANGED <<timers, connected, messages>>
     ELSE /\ Retry(b)
          /\ connected' = [connected EXCEPT ![b] = FALSE]
          /\ IF connected[b]
             THEN /\ messages' = [messages EXCEPT ![b] = [array |-> TRUE, at |-> {0}]]
                  /\ drawn' = [drawn EXCEPT ![b] = Draw(Uncleared(messages[b], @), Disconnected)]
             ELSE UNCHANGED <<messages, drawn>>

\* The connection is lost, or could not be made; a crash of the server closes them
\* all, and no more are made.
Drop(b) ==
  /\ ws[b] \in {"connecting", "open"}
  /\ Running => drops < MaxDrops
  /\ drops' = IF Running THEN drops + 1 ELSE drops
  /\ OnDisconnect(b)
  /\ clients' = [i \in DOMAIN clients |-> [clients[i] EXCEPT !.up = @ /\ clients[i].page # b]]
  /\ toPage' = [toPage EXCEPT ![b] = <<>>]
  /\ toServer' = [toServer EXCEPT ![b] = <<>>]
  /\ UNCHANGED <<serverVars, joining, listening, units>>

\* on_connect: the Disconnected message goes.
OnConnect(b) ==
  /\ connected' = [connected EXCEPT ![b] = TRUE]
  /\ drawn' = [drawn EXCEPT ![b] = Uncleared(messages[b], @)]
  /\ messages' = [messages EXCEPT ![b] = IF ClearThrows(@) THEN @ ELSE [array |-> TRUE, at |-> {}]]
  /\ UNCHANGED units

\* __recv__ of the handlers that concern messages and links.
OnMessage(b, m) ==
  CASE m.op = "NewMessage" ->
         /\ messages' = [messages EXCEPT ![b].at = @ \cup {m.msg.id}]
         /\ drawn' = [drawn EXCEPT ![b] = Draw(@, m.msg)]
         /\ UNCHANGED <<units, connected>>
    [] m.op = "ClearMessage" ->
         /\ drawn' = [drawn EXCEPT ![b] = Removed(messages[b], @, m.id, m.ret)]
         /\ UNCHANGED <<messages, units, connected>>
    [] m.op = "LinkTrain" ->
         /\ units' = [units EXCEPT ![b] = Linked(@, m)]
         /\ UNCHANGED <<messages, drawn, connected>>
    [] m.op = "libraries" ->
         /\ units' = [units EXCEPT ![b] = Unlinked]
         /\ UNCHANGED <<messages, drawn, connected>>
    [] OTHER -> OnConnect(b)

Receive(b) ==
  /\ toPage[b] # <<>>
  /\ Undisturbed
  /\ OnMessage(b, Head(toPage[b]))
  /\ toPage' = [toPage EXCEPT ![b] = Tail(@)]
  /\ UNCHANGED <<serverVars, socketVars, ws, timers, toServer, drops>>

----------------------------------------------------------------------------
\* The user of a page opens the dialog of a message and links its train; the
\* request may be late.  What is sent while the page is not connected is dropped.
RequestLink(b, m, u) ==
  /\ m \in drawn[b] \ {Disconnected}
  /\ Undisturbed
  /\ toServer[b] = <<>>                               \* bound: one request per page,
  /\ \A p \in Browser : Len(toPage[p]) <= MaxBacklog   \* none to a page that lags
  /\ connected[b] /\ ws[b] = "open"
  /\ toServer' = [toServer EXCEPT ![b] = <<[id |-> m.id, train |-> m.train, unit |-> u]>>]
  /\ UNCHANGED <<serverVars, socketVars, linkVars, pageVars, toPage, drops>>

----------------------------------------------------------------------------
Joins ==
  \/ Handshake \/ TestSlot \/ SendSlot \/ SendLibraries
  \/ \E t \in Train : SendLink(t)
  \/ Joined

Next ==
  \/ \E t \in Train : InitMessage(t)
  \/ SendMessage
  \/ AddMessage
  \/ \E b \in Browser : Accept(b)
  \/ Joins
  \/ ClearUnused
  \/ \E b \in Browser : LinkTrain(b)
  \/ \E b \in Browser : Connect(b)
  \/ \E b \in Browser : Drop(b)
  \/ \E b \in Browser : Receive(b)
  \/ \E b \in Browser, m \in Message, u \in Unit : RequestLink(b, m, u)

Spec == Init /\ [][Next]_vars

\* Timeouts fire, threads run and messages arrive; nobody has to find, link
\* or click anything, and no connection has to be lost.
FairSpec ==
  /\ Spec
  /\ WF_vars(SendMessage) /\ WF_vars(AddMessage) /\ WF_vars(Joins) /\ WF_vars(ClearUnused)
  /\ \A b \in Browser :
       WF_vars(Accept(b)) /\ WF_vars(LinkTrain(b)) /\ WF_vars(Connect(b)) /\ WF_vars(Receive(b))

----------------------------------------------------------------------------
TypeOK ==
  /\ list \in [Id -> [used : BOOLEAN, data : Message \cup {None}]]
  /\ counter \in Id
  /\ found \subseteq Train
  /\ linked \in [Train -> Unit \cup {None}]
  /\ listening \in BOOLEAN
  /\ ws \in [Browser -> {"none", "connecting", "open", "closed"}]
  /\ timers \in [Browser -> Nat]
  /\ connected \in [Browser -> BOOLEAN]
  /\ \A b \in Browser : drawn[b] \subseteq Message \cup {Disconnected}
  /\ units \in [Browser -> [Unit -> Train \cup {None}]]
  /\ Len(clients) <= MaxClients

\* Nothing is under way to the page of b, no message is made, and nobody who joins
\* has yet to get the open ones.
AtRest(b) ==
  /\ making = None /\ ~Greets
  /\ ws[b] = "open" /\ toPage[b] = <<>> /\ connected[b]

\* A page that has received everything shows a message for exactly the trains
\* found and not yet linked, whichever page linked them, however often the
\* connection was lost, and whether or not the server goes on to crash (Messages,
\* WS_send_open_Messages, WS_clear_message).
ShowsOpen ==
  \A b \in Browser : AtRest(b) =>
    /\ {m.train : m \in drawn[b]} = {t \in found : linked[t] = None}
    /\ \A m \in drawn[b] : list[m.id] = [used |-> TRUE, data |-> m]

\* A page that lost its connection gets another, unless Messages.clear threw
\* on a hole in its list, the server closed its own listening socket, or it
\* crashed on a train nobody has linked as some page joined (StaysUp).
ComesBack ==
  \A b \in Browser :
    (ws[b] = "closed" /\ ~ClearThrows(messages[b])) ~> (ws[b] = "open" \/ ~listening \/ ~Running)

\* "Send all linked trains" (server.cpp, newClientCallback): a page may join
\* whatever trains are linked, and the server goes on.
StaysUp == Running

\* "Send all linked trains" (server.cpp, newClientCallback): a page that has
\* received everything knows the train of each engine and train set.
LinksKnown ==
  \A b \in Browser : joining = None /\ AtRest(b) =>
    \A u \in Unit : \A t \in Train : units[b][u] = t <=> linked[t] = u
=============================================================================
