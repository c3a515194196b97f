----------------------------- MODULE MCTrackside -----------------------------
(***************************************************************************)
(* How the program and the pages get to know the layout: the bus of the    *)
(* nodes, which tells what modules there are and what their inputs are,    *)
(* the joining of these modules (the row of Layouts), and their drawing    *)
(* by a page (the ring).                                                   *)
(*                                                                         *)
(* The three share no variable, so a step of one changes nothing that the  *)
(* properties of another speak of: each behaviour here picks one of them,  *)
(* and the others stay as they are at first.                               *)
(***************************************************************************)
EXTENDS Joining, Layouts

CONSTANTS
  Node, ListBytes, Stale, Interrupted, RestartIn, RebootIn, MaxRestarts, MaxReboots, MaxChanges,
  MaxLine, MaxPending,                                 \* of the bus
  Module, Anchors, Placed, Delayed, Overlap, MaxDrops  \* of the drawing

VARIABLES
  part,
  input, tx, txdata, main, loaded, rx, toBus, devices, pos, scanning, line, buffer, units, known,
  phase, restarts, reboots, changes,
  neighbours, joining, sending, drawings, admin, modules, drops

busVars ==
  <<input, tx, txdata, main, loaded, rx, toBus, devices, pos, scanning, line, buffer, units, known,
    phase, restarts, reboots, changes>>

drawingVars == <<neighbours, joining, sending, drawings, admin, modules, drops>>

Bus == INSTANCE NodeBus WITH Preempted <- Interrupted, found <- units

Layout == INSTANCE ModuleLayout WITH
  Laid <- Placed, Preempted <- Delayed, connection <- neighbours, toPage <- drawings

TracksideInit ==
  /\ part \in {"bus", "joining", "drawing"}
  /\ Init /\ Bus!Init /\ Layout!Init

TracksideNext ==
  \/ /\ part = "bus" /\ Bus!Next
     /\ UNCHANGED <<part, vars, drawingVars>>
  \/ /\ part = "joining" /\ Next
     /\ UNCHANGED <<part, busVars, drawingVars>>
  \/ /\ part = "drawing" /\ Layout!Next
     /\ UNCHANGED <<part, vars, busVars>>

TracksideSpec == TracksideInit /\ [][TracksideNext]_<<part, vars, busVars, drawingVars>>

\* The fairness of NodeBus and of Joining, each while it is its turn.
Fair(p, A) == part = p /\ A
TracksideFairSpec ==
  /\ TracksideSpec
  /\ \A n \in Node :
       /\ WF_busVars(Fair("bus", Bus!StoreCount(n)))
       /\ WF_busVars(Fair("bus", Bus!ReadMessage(n)))
       /\ WF_busVars(Fair("bus", Bus!Identified(n)))
  /\ WF_busVars(Fair("bus", Bus!Poll)) /\ WF_busVars(Fair("bus", Bus!RequestAll))
  /\ SF_busVars(Fair("bus", Bus!TryTransmit)) /\ WF_busVars(Fair("bus", Bus!Receive))
  /\ WF_busVars(Fair("bus", Bus!DevReset)) /\ WF_busVars(Fair("bus", Bus!RequestInputs))
  /\ WF_vars(Fair("joining", Test)) /\ WF_vars(Fair("joining", Find))
  /\ WF_vars(Fair("joining", ConnectConnectors))
  /\ WF_vars(Fair("joining", Save)) /\ WF_vars(Fair("joining", Map))
  /\ WF_vars(Fair("joining", Lock)) /\ WF_vars(Fair("joining", Load))
  /\ \A b \in Block : WF_vars(Fair("joining", Detect(b)))
  /\ WF_vars(Fair("joining", \E w \in Wagon, e \in Port : Move(w, e)))

----------------------------------------------------------------------------
\* The properties of the parts; those of the joining are JoinedAsLaid, PortsLinked
\* and LoadRestores of its module.  What a node sees is known to the program when the
\* bus is quiet (InitFindModules, UART_ReadInput).
InputsKnown == Bus!InputsKnown

\* A page that has been sent everything draws the layout the server has (canvas.js,
\* WS_stc_SubmoduleLayout), and every module beside the one it is joined to.
LayoutShown == Layout!LayoutShown
AnchorsMeet == Layout!AnchorsMeet

\* The bus comes to rest after every start and every change (InitFindModules,
\* request_registered, NotifyInputChange).
BusSettles == part = "bus" => Bus!Settles

\* The joining ends with all connectors joined (Connect_Rails).
AllAreJoined == part = "joining" => AllJoined
=============================================================================
