------------------------------ MODULE MCPages ------------------------------
(***************************************************************************)
(* What the pages and the websocket server do together: the emergency stop,*)
(* the messages about new trains, driving a train, and the library of      *)
(* rolling stock.                                                          *)
(*                                                                         *)
(* The four share no variable, so a step of one changes nothing that the   *)
(* properties of another speak of: each behaviour here picks one of them,  *)
(* and the others stay as they are at first.                               *)
(***************************************************************************)
EXTENDS EmergencyStop, FiniteSets

CONSTANTS
  Train, Nobody, Preempted,               \* the trains, none of them; the threads
  Slots, Engines, TrainSets, MaxTries,    \* of the messages
  Driver, Speed, Fingers, MaxTouches,     \* of driving
  Address, Fails, MaxClicks, MaxRestarts  \* of the library

VARIABLES
  part,
  list, counter, making, found, linked, clients, greeting, listening, ws, retries, online, messages,
  drawn, units, toPages, fromPages, losses,
  train, state, fingers, handlers, timers, current, commands, updates, speed, dir, turning,
  subscribed, turned, touches, telling,
  stock, data, points, DCC, use, assigned, file, down, made, moved, thread, requests, lists, lib,
  dialog, clicks, restarts

messagesVars ==
  <<list, counter, making, found, linked, clients, greeting, listening, ws, retries, online, messages,
    drawn, units, toPages, fromPages, losses>>
controlVars ==
  <<train, state, fingers, handlers, timers, current, commands, updates, speed, dir, turning,
    subscribed, turned, touches, telling>>
stockVars ==
  <<stock, data, points, DCC, use, assigned, file, down, made, moved, thread, requests, lists, lib,
    dialog, clicks, restarts>>

Messages == INSTANCE WebMessages WITH
  Browser <- Page, Sets <- TrainSets, MaxClients <- Cardinality(Page),
  MaxDrops <- MaxTries, MaxBacklog <- 1, None <- Nobody, joining <- greeting, timers <- retries,
  connected <- online, toPage <- toPages, toServer <- fromPages, drops <- losses

\* What the theorem about the messages assumes.
ASSUME WebAssumption == Messages!MessagesAssumption

Control == INSTANCE TrainControl WITH
  MaxEvents <- MaxTouches, MaxBacklog <- 1, None <- Nobody,
  toServer <- commands, toPage <- updates, events <- touches

\* What the theorems about driving assume.
ASSUME DrivingAssumption == Control!ControlAssumption

\* What the server implements in driving while its threads do not preempt each other.
told == Control!told
Driven == INSTANCE Driving WITH
  MaxEvents <- MaxTouches, MaxBacklog <- 1, None <- Nobody,
  toServer <- commands, toPage <- told, events <- touches

\* Two engines of one address, and a train set of the second engine.
MCSaved ==
  LET a == CHOOSE a \in Address : TRUE
  IN [E |-> <<[item |-> <<"E", 1>>, data |-> a], [item |-> <<"E", 2>>, data |-> a]>>,
      C |-> <<>>,
      T |-> <<[item |-> <<"T", 1>>, data |-> <<"E", 2>>]>>]

Library == INSTANCE RollingStock WITH
  Saved <- MCSaved, Editor <- Driver, MaxBacklog <- 1, None <- Nobody, toServer <- requests, toPage <- lists

\* What the theorems about the library assume.
ASSUME StockAssumption == Library!LibraryAssumption

PagesInit ==
  /\ part \in {"messages", "stop", "control", "stock"}
  /\ Init /\ Messages!Init /\ Control!Init /\ Library!Init
  /\ connected => part = "stop"

PagesNext ==
  \/ /\ part = "stop" /\ Next
     /\ UNCHANGED <<part, messagesVars, controlVars, stockVars>>
  \/ /\ part = "messages" /\ Messages!Next
     /\ UNCHANGED <<part, vars, controlVars, stockVars>>
  \/ /\ part = "control" /\ Control!Next
     /\ UNCHANGED <<part, vars, messagesVars, stockVars>>
  \/ /\ part = "stock" /\ Library!Next
     /\ UNCHANGED <<part, vars, messagesVars, controlVars>>

all == <<part, vars, messagesVars, controlVars, stockVars>>

PagesSpec == PagesInit /\ [][PagesNext]_all

\* The fairness of WebMessages and of EmergencyStop, each while it is its turn, as
\* far as ComesBack and EchoEnds need it: it is enough that some thread of the server
\* goes on, and that pages and server get on with the echoes of a stop.
Fair(p, A) == part = p /\ A
PagesFairSpec ==
  /\ PagesSpec
  /\ WF_messagesVars(Fair("messages", Messages!SendMessage \/ Messages!AddMessage \/ Messages!Joins))
  /\ WF_messagesVars(Fair("messages", Messages!ClearUnused))
  /\ \A p \in Page :
       /\ WF_messagesVars(Fair("messages", Messages!Accept(p)))
       /\ WF_messagesVars(Fair("messages", Messages!Connect(p)))
  /\ WF_vars(Fair("stop", \E p \in Page : Receive(p) \/ Serve(p) \/ Command(p)))

----------------------------------------------------------------------------
\* The properties of the other parts than EmergencyStop.  A page that has received
\* everything shows exactly the open messages of the server (messages.js,
\* WS_send_open_Messages).
ShowsOpen == Messages!ShowsOpen

\* The websocket of a page comes back (on_disconnect, Server::loop).
ComesBack == part = "messages" => Messages!ComesBack

\* A page sends speeds only while a slider of it is held (train.js).
HeldSends == Control!HeldSends

\* A page that has received all shows the speed of the trains its user only
\* watches (WS_stc_UpdateTrain), and of those its user drives.
WatchersFollow == Control!WatchersFollow
DriversFollow == Control!DriversFollow

\* A page that has received every list shows the items before the first removed
\* one under the ids the server has for them, with its data (stc.cpp, socket.js).
ShownByIds == Library!ShownByIds

\* The engines such a page shows are in the file (Manager::writeFile).
ShownIsKept == Library!ShownIsKept

\* At most one engine of an address is in use, and getEngineDCC finds it, as long
\* as no engine is changed or removed (Train::link, subDCCEngine).
AddressOwned == Library!AddressOwned
=============================================================================
