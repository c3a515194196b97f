--------------------------- MODULE EmergencyStop ---------------------------
(***************************************************************************)
(* The STOP button (emergency.js): the pages, which toggle it and show it, *)
(* the server's client threads (cts.cpp), which broadcast it and command   *)
(* the Z21, and the Z21's thread in the server (Z21.cpp), which broadcasts *)
(* what the Z21 reports of the track power.                                *)
(*                                                                         *)
(* A page that is told of a stop it does not show yet sends one of its own *)
(* (set("Em", false) passes "Em" as ws), so every page echoes a stop.      *)
(* Broadcasts are made under m_websocket_send and reach all pages in one   *)
(* order; the pages are connected all the time.                            *)
(***************************************************************************)
EXTENDS Integers, Sequences

CONSTANTS
  Page,       \* the pages
  MaxEvents,  \* bound: how often the button is clicked, or the track power is
              \*   switched at the Z21 itself
  MaxBacklog, \* bound: messages under way on each channel while there is a Z21
  MaxEchoes   \* bound: the same without one, more than there ever are

\* What a page asks for, and what it is told: WSopc_EmergencyStop (and
\* ShortCircuitStop, which a page takes for the same) and WSopc_ClearEmergency.
Op == {"stop", "clear"}

VARIABLES
  enabled,    \* Emergency.enabled of each page
  toServer,   \* what each page has sent
  toPage,     \* what was broadcast and each page has not received yet
  command,    \* the request whose broadcast a client thread has made already
  connected,  \* Z21_Client::connected
  toZ21,      \* track power commands under way to the Z21
  power,      \* the track power
  fromZ21,    \* the Z21's broadcasts under way to the server
  last,       \* the last message broadcast to the pages
  events

pages == <<enabled, toServer>>
z21 == <<connected, toZ21, power, fromZ21>>
bounds == <<events>>
vars == <<pages, toPage, command, z21, last, bounds>>

Init ==
  /\ enabled = [p \in Page |-> FALSE]
  /\ toServer = [p \in Page |-> <<>>]
  /\ toPage = [p \in Page |-> <<>>]
  /\ command = [p \in Page |-> "none"]
  /\ connected \in BOOLEAN
  /\ toZ21 = <<>>
  /\ power = TRUE
  /\ fromZ21 = <<>>
  /\ last = "clear"
  /\ events = 0

----------------------------------------------------------------------------
\* The pages

\* Without a Z21 the echoes end before there are MaxEchoes of them.
Backlog == IF connected THEN MaxBacklog ELSE MaxEchoes

Room(p) == Len(toServer[p]) < Backlog

\* Mutant: sends though it is set already.
SetAgain(p, ws) ==
  /\ enabled' = [enabled EXCEPT ![p] = TRUE]
  /\ toServer' = [toServer EXCEPT ![p] = IF ws THEN Append(@, "stop") ELSE @]

\* Emergency.set and unset: nothing when the page is in that state already.
Set(p, ws) ==
  /\ enabled' = [enabled EXCEPT ![p] = TRUE]
  /\ toServer' = [toServer EXCEPT ![p] = IF ~enabled[p] /\ ws THEN Append(@, "stop") ELSE @]

Unset(p, ws) ==
  /\ enabled' = [enabled EXCEPT ![p] = FALSE]
  /\ toServer' = [toServer EXCEPT ![p] = IF enabled[p] /\ ws THEN Append(@, "clear") ELSE @]

\* A click on the button.
Toggle(p) ==
  /\ events < MaxEvents
  /\ Room(p)
  /\ IF enabled[p] THEN Unset(p, TRUE) ELSE Set(p, TRUE)
  /\ events' = events + 1
  /\ UNCHANGED <<toPage, command, z21, last>>

\* The page receives a broadcast; only that of a stop is echoed.
Receive(p) ==
  /\ toPage[p] # <<>>
  /\ Room(p)
  /\ IF Head(toPage[p]) = "stop" THEN Set(p, TRUE) ELSE Unset(p, FALSE)
  /\ toPage' = [toPage EXCEPT ![p] = Tail(@)]
  /\ UNCHANGED <<command, z21, last, bounds>>

----------------------------------------------------------------------------
\* The server

Broadcast(op) ==
  /\ \A p \in Page : Len(toPage[p]) < Backlog
  /\ toPage' = [p \in Page |-> Append(toPage[p], op)]
  /\ last' = op

\* Mutant: the page that asked is not told.
ServeOthers(p) ==
  /\ toServer[p] # <<>>
  /\ command[p] = "none"
  /\ \A q \in Page : Len(toPage[q]) < Backlog
  /\ last' = Head(toServer[p])
  /\ toPage' = [q \in Page |-> IF q = p THEN toPage[q] ELSE Append(toPage[q], Head(toServer[p]))]
  /\ command' = [command EXCEPT ![p] = Head(toServer[p])]
  /\ toServer' = [toServer EXCEPT ![p] = Tail(@)]
  /\ UNCHANGED <<enabled, z21, bounds>>

\* WS_cts_SetEmergencyStop and WS_cts_ClearEmergency in the thread of a
\* page's client: first all pages are told ...
Serve(p) ==
  /\ toServer[p] # <<>>
  /\ command[p] = "none"
  /\ Broadcast(Head(toServer[p]))
  /\ command' = [command EXCEPT ![p] = Head(toServer[p])]
  /\ toServer' = [toServer EXCEPT ![p] = Tail(@)]
  /\ UNCHANGED <<enabled, z21, bounds>>

\* ... then the Z21 is: of a stop that the power is to be on, of a clear that
\* it is to be off (Z21_Release_EmergencyStop sends 0x81, Z21_Set_... 0x80).
PowerFor(op) == op = "stop"

Command(p) ==
  /\ command[p] # "none"
  /\ Len(toZ21) < MaxBacklog
  /\ command' = [command EXCEPT ![p] = "none"]
  /\ toZ21' = IF connected THEN Append(toZ21, PowerFor(command[p])) ELSE toZ21
  /\ UNCHANGED <<pages, toPage, connected, power, fromZ21, last, bounds>>

\* Mutant: the power is not reported on again.
OpForOff(on) == "stop"

\* Z21_Client::parse: the power is off (or shorted), or on again.
OpFor(on) == IF on THEN "clear" ELSE "stop"

Report ==
  /\ fromZ21 # <<>>
  /\ Broadcast(OpFor(Head(fromZ21)))
  /\ fromZ21' = Tail(fromZ21)
  /\ UNCHANGED <<pages, command, connected, toZ21, power, bounds>>

----------------------------------------------------------------------------
\* The Z21, as its emulator does it: every command is answered with a
\* broadcast of the power it sets.

SetPower ==
  /\ toZ21 # <<>>
  /\ Len(fromZ21) < MaxBacklog
  /\ power' = Head(toZ21)
  /\ toZ21' = Tail(toZ21)
  /\ fromZ21' = Append(fromZ21, Head(toZ21))
  /\ UNCHANGED <<pages, toPage, command, connected, last, bounds>>

\* The power is switched at the Z21, or goes off with a short circuit.
SwitchPower ==
  /\ connected
  /\ events < MaxEvents
  /\ Len(fromZ21) < MaxBacklog
  /\ events' = events + 1
  /\ power' = ~power
  /\ fromZ21' = Append(fromZ21, ~power)
  /\ UNCHANGED <<pages, toPage, command, connected, toZ21, last>>

----------------------------------------------------------------------------
Next ==
  \/ \E p \in Page : Toggle(p)
  \/ \E p \in Page : Receive(p)
  \/ \E p \in Page : Serve(p)
  \/ \E p \in Page : Command(p)
  \/ Report
  \/ SetPower
  \/ SwitchPower

Spec == Init /\ [][Next]_vars

\* Messages arrive and threads run; nobody has to click.
FairSpec ==
  /\ Spec
  /\ WF_vars(Report) /\ WF_vars(SetPower)
  /\ \A p \in Page : WF_vars(Receive(p)) /\ WF_vars(Serve(p)) /\ WF_vars(Command(p))

----------------------------------------------------------------------------
TypeOK ==
  /\ enabled \in [Page -> BOOLEAN]
  /\ toServer \in [Page -> Seq(Op)]
  /\ toPage \in [Page -> Seq(Op)]
  /\ command \in [Page -> Op \cup {"none"}]
  /\ connected \in BOOLEAN
  /\ toZ21 \in Seq(BOOLEAN)
  /\ power \in BOOLEAN
  /\ fromZ21 \in Seq(BOOLEAN)
  /\ last \in Op

\* Nothing of the page is under way, nor to it.
Settled(p) == toPage[p] = <<>> /\ toServer[p] = <<>>

\* Whoever clicks, and however the echoes of the pages cross: pages that
\* have received all show the same, that of the last broadcast (emergency.js).
PagesAgree == \A p \in Page : Settled(p) => enabled[p] = (last = "stop")

\* With a Z21, once its answers are in: the pages show a stop if and only if
\* the track has no power, although the commands are the wrong way round
\* (cts.cpp, Z21.cpp): a broadcast that contradicts the track is always
\* followed by the answer to its own command.
ShowsPower ==
  (connected /\ fromZ21 = <<>> /\ toZ21 = <<>> /\ \A p \in Page : command[p] = "none")
    => \A p \in Page : Settled(p) => enabled[p] = ~power

\* Without a Z21 the pages stop echoing each other.
EchoEnds == ~connected => <>[](\A p \in Page : Settled(p))

\* "Z21_TRACKPOWER_OFF" (cts.cpp, WS_cts_SetEmergencyStop): a stop that a page
\* asks for takes the power off the track.
StopCutsPower ==
  \A p \in Page : (connected /\ command[p] = "stop") ~> ~power
=============================================================================
