---------------------------- MODULE RollingStock ----------------------------
(***************************************************************************)
(* The library of rolling stock: engines, cars and train sets, which pages *)
(* create, update and delete in dialogs (modals.js, socket.js), and the    *)
(* server keeps in its arrays and in a file and tells all pages of (cts.cpp*)
(* and stc.cpp, rollingstock/manager.cpp); and the DCC addresses of the    *)
(* engines, which a train takes when it is linked (train/general.cpp).     *)
(*                                                                         *)
(* An item is <<kind, n>>: "E" an engine, "C" a car, "T" a train set.  Its *)
(* data is the DCC address of an engine, the length of a car, and of a     *)
(* train set the one unit it is made of, by kind and id.  A page knows an  *)
(* item by its place in the list it was sent, the server by its place in   *)
(* the array.  Pages stay connected, but for restarts of the program.      *)
(***************************************************************************)
EXTENDS Integers, Sequences, FiniteSets

CONSTANTS
  Page,         \* the pages
  Address,      \* DCC addresses, and lengths of cars
  Train,        \* the trains that engines and train sets are linked to
  Saved,        \* the file at first: the items of each kind and their data
  Fails,        \* whether the pictures that come with an item may be missing
  Preempted,    \* threads run between the steps of a client's thread
  Editor,       \* bound: the pages that open dialogs
  MaxClicks,    \* bound: requests of all pages
  MaxBacklog,   \* bound: requests of a page under way
  MaxRestarts,  \* bound: restarts of the program
  None

Kind == {"E", "C", "T"}

\* What the theorems about the library assume: None is no item.
LibraryAssumption == Address # {} /\ None \notin Kind \X Nat

VARIABLES
  stock,     \* Manager::Engines, Cars and TrainSets
  data,      \* the data of every item there ever was
  points,    \* the item a train set points to, and the engines it drives
  DCC,       \* Manager::DCC: E, engineUsed and uniqueEngine of each address
  use,       \* the engines with Engine::use
  assigned,  \* the trains that are linked
  file,      \* the rolling stock file
  down,      \* the program has crashed
  made,      \* the highest number of an item of each kind
  moved,     \* history: engines edited or removed while in use
  thread,    \* what a client's thread is about to do
  toServer, toPage,
  lib,       \* Train.engines, cars and trains of a page
  dialog,    \* the dialog a page has open
  clicks, restarts

library == <<stock, data, points, DCC, file, made, moved>>
links == <<use, assigned>>
bounds == <<clicks, restarts>>
vars == <<library, links, down, thread, toServer, toPage, lib, dialog, bounds>>

Idle == [step |-> "rest"]
Closed == [kind |-> None]

\* The members of a list, the least number of a set, and a list without the first
\* place of one of its members: as in SequencesExt and FiniteSetsExt, whose many
\* other operators the theorems have no use for.
ToSet(list) == {list[i] : i \in DOMAIN list}
Min(S) == CHOOSE n \in S : \A m \in S : n <= m
RemoveFirst(list, e) ==
  LET i == Min({j \in DOMAIN list : list[j] = e})
  IN SubSeq(list, 1, i - 1) \o SubSeq(list, i + 1, Len(list))

\* A list without the members of a set
Without(list, S) ==
  LET left[n \in 0..Len(list)] ==
        IF n = 0 THEN <<>> ELSE IF list[n] \in S THEN left[n - 1] ELSE Append(left[n - 1], list[n])
  IN left[Len(list)]

\* What is written to the file and sent to pages: removed items leave no gap.
Entries(items, of) ==
  LET kept == Without(items, {None})
  IN [n \in DOMAIN kept |-> [item |-> kept[n], data |-> of[kept[n]]]]

\* getEngine, getCar: what an array holds at an id
At(items, id) == IF id \in DOMAIN items THEN items[id] ELSE None

\* setComposition: the unit of a train set is found by its id.
Pointed(s, unit) == At(s[unit[1]], unit[2])
Driven(unit, item) == IF unit[1] = "E" /\ item # None THEN <<item>> ELSE <<>>

\* addDCC and removeDCC; the number of places that were taken never shrinks.
AddDCC(d, e, a) == [d EXCEPT ![a].E = Append(@, e)]
RemoveDCC(d, e, a) ==
  IF e \in ToSet(d[a].E) THEN [d EXCEPT ![a].E = Append(RemoveFirst(@, e), None)] ELSE d

-----------------------------------------------------------------------------
(* The program starts *)

Items(f) == [k \in Kind |-> [n \in DOMAIN f[k] |-> f[k][n].item]]
DataOf(f) ==
  [i \in UNION {ToSet(Items(f)[k]) : k \in Kind} |-> (CHOOSE x \in ToSet(f[i[1]]) : x.item = i).data]
Sets(f) == ToSet(Items(f)["T"])
LoadedDCC(f) ==
  [a \in Address |->
    [E |-> Without(Items(f)["E"], {e \in ToSet(Items(f)["E"]) : DataOf(f)[e] # a}),
     engineUsed |-> FALSE, uniqueEngine |-> 1]]
LoadedPoints(f) ==
  [t \in Sets(f) |->
    LET unit == DataOf(f)[t]
        item == Pointed(Items(f), unit)
    IN [p |-> item, engines |-> Driven(unit, item)]]

Init ==
  /\ file = Saved
  /\ stock = Items(Saved) /\ data = DataOf(Saved)
  /\ points = LoadedPoints(Saved) /\ DCC = LoadedDCC(Saved)
  /\ made = [k \in Kind |-> Len(Saved[k])]
  /\ use = {} /\ assigned = {} /\ moved = {}
  /\ down = FALSE
  /\ thread = [p \in Page |-> Idle]
  /\ toServer = [p \in Page |-> <<>>] /\ toPage = [p \in Page |-> <<>>]
  /\ lib = [p \in Page |-> Saved]
  /\ dialog = [p \in Page |-> Closed]
  /\ clicks = 0 /\ restarts = 0

\* The program is started again, and the pages connect and are sent the lists.
Restart ==
  /\ restarts < MaxRestarts
  /\ stock' = Items(file) /\ data' = DataOf(file)
  /\ points' = LoadedPoints(file) /\ DCC' = LoadedDCC(file)
  /\ use' = {} /\ assigned' = {} /\ moved' = {}
  /\ down' = FALSE
  /\ thread' = [p \in Page |-> Idle]
  /\ toServer' = [p \in Page |-> <<>>] /\ toPage' = [p \in Page |-> <<>>]
  /\ lib' = [p \in Page |-> file]
  /\ restarts' = restarts + 1
  /\ UNCHANGED <<file, made, dialog, clicks>>

-----------------------------------------------------------------------------
(* The pages *)

Undisturbed == ~down /\ (~Preempted => \A p \in Page : thread[p] = Idle)

\* Train_Configurator: an item of the list is known by its place; a new one has none.
Shown(p, k, id) == IF id = 0 THEN None ELSE lib[p][k][id]

\* A dialog is opened: for a new item (id 0) or for one of the list.
Open(p, k, id) ==
  /\ Undisturbed
  /\ p \in Editor /\ dialog[p] = Closed /\ clicks < MaxClicks
  /\ dialog' = [dialog EXCEPT ![p] = [kind |-> k, id |-> id, shown |-> Shown(p, k, id)]]
  /\ UNCHANGED <<library, links, down, thread, toServer, toPage, lib, bounds>>

\* A unit of a train set as its dialog draws it, and sends it: an engine that
\* the page does not know becomes the car in that place.
Drawn(p, unit) ==
  IF unit[1] = "E" /\ unit[2] \in DOMAIN lib[p]["E"] THEN unit ELSE <<"C", unit[2]>>

\* What the form of the dialog may hold; a train set is made of a unit that the
\* page knows.
Form(p) ==
  LET drawn == IF dialog[p].id = 0 THEN {} ELSE {Drawn(p, dialog[p].shown.data)}
      units == drawn \cup ({"E", "C"} \X (DOMAIN lib[p]["E"] \cup DOMAIN lib[p]["C"]))
  IN IF dialog[p].kind # "T" THEN Address ELSE {u \in units : u[2] \in DOMAIN lib[p][u[1]]}

\* What a button sends.  The dialog of a new item has one to delete too, whose
\* empty id is sent as that of the first item.
Request(d, op, form) ==
  [op |-> op, kind |-> d.kind, id |-> IF d.id = 0 THEN 1 ELSE d.id, data |-> form, shown |-> d.shown]

\* Create and Update of an engine wait for an answer; other buttons hide the dialog.
Click(p, op, form) ==
  LET d == dialog[p]
  IN /\ Undisturbed
     /\ d # Closed /\ clicks < MaxClicks /\ Len(toServer[p]) < MaxBacklog
     /\ op = "create" => d.id = 0
     /\ op = "edit" => d.id # 0
     /\ op = "delete" <=> form = None
     /\ toServer' = [toServer EXCEPT ![p] = Append(@, Request(d, op, form))]
     /\ dialog' = IF d.kind = "E" /\ op # "delete" THEN dialog ELSE [dialog EXCEPT ![p] = Closed]
     /\ clicks' = clicks + 1
     /\ UNCHANGED <<library, links, down, thread, toPage, lib, restarts>>

\* The dialog is closed by its cross.
Dismiss(p) ==
  /\ Undisturbed
  /\ dialog[p] # Closed
  /\ dialog' = [dialog EXCEPT ![p] = Closed]
  /\ UNCHANGED <<library, links, down, thread, toServer, toPage, lib, bounds>>

\* Train_Control.link_request: an engine or a train set for a train
RequestLink(p, t, k, id) ==
  /\ Undisturbed /\ clicks < MaxClicks /\ Len(toServer[p]) < MaxBacklog
  /\ toServer' = [toServer EXCEPT ![p] =
       Append(@, [op |-> "link", kind |-> k, id |-> id, data |-> t, shown |-> lib[p][k][id]])]
  /\ clicks' = clicks + 1
  /\ UNCHANGED <<library, links, down, thread, toPage, lib, dialog, restarts>>

\* A list replaces that of the page.
Replace(p, m) == lib' = [lib EXCEPT ![p][m.kind] = m.list] /\ UNCHANGED dialog

\* An answer hides the dialog that is open, whichever it is, unless it says no.
Hide(p, m) ==
  /\ dialog' = IF m.yes THEN [dialog EXCEPT ![p] = Closed] ELSE dialog
  /\ UNCHANGED lib

Receive(p) ==
  LET m == Head(toPage[p])
  IN /\ Undisturbed
     /\ toPage[p] # <<>>
     /\ toPage' = [toPage EXCEPT ![p] = Tail(@)]
     /\ IF m.op = "list" THEN Replace(p, m) ELSE Hide(p, m)
     /\ UNCHANGED <<library, links, down, thread, toServer, bounds>>

-----------------------------------------------------------------------------
(* The server: the thread of the client a request came from *)

Written(s, d) == [k \in Kind |-> Entries(s[k], d)]

Answer(p, yes) == toPage' = [toPage EXCEPT ![p] = Append(@, [op |-> "answer", yes |-> yes])]

Goes(p, t) == thread' = [thread EXCEPT ![p] = t]

\* Mutant: the file is left as it was.
PublishUnwritten(p, k) == UNCHANGED file /\ Goes(p, [step |-> "build", kind |-> k])

\* The file is written, the list of a kind is next.
Publish(p, k) == file' = Written(stock', data') /\ Goes(p, [step |-> "build", kind |-> k])
Refuse(p) == UNCHANGED file /\ Goes(p, Idle)

\* A null pointer is followed.
Crash == down' = TRUE /\ UNCHANGED <<library, links, thread, toPage>>

Up == UNCHANGED <<down, links>>

\* WS_cts_AddEnginetoLib, WS_cts_AddCartoLib: a missing picture is found after
\* the item has been stored.
Create(p, m, pictures) ==
  LET new == <<m.kind, made[m.kind] + 1>>
  IN /\ m.kind \in {"E", "C"}
     /\ made' = [made EXCEPT ![m.kind] = @ + 1]
     /\ stock' = [stock EXCEPT ![m.kind] = Append(@, new)]
     /\ data' = [i \in {new} \cup DOMAIN data |-> IF i = new THEN m.data ELSE data[i]]
     /\ DCC' = IF m.kind = "E" THEN AddDCC(DCC, new, m.data) ELSE DCC
     /\ Answer(p, pictures)
     /\ IF pictures THEN Publish(p, m.kind) ELSE Refuse(p)
     /\ UNCHANGED <<points, moved>> /\ Up

\* WS_cts_AddTraintoLib: the new train set is stored nowhere.
CreateSet(p, m) ==
  /\ m.kind = "T"
  /\ UNCHANGED <<stock, data, points, DCC, made, moved, toPage>> /\ Up
  /\ Publish(p, "T")

\* WS_cts_Edit_Engine
EditEngine(p, m, pictures) ==
  LET e == At(stock["E"], m.id)
  IN /\ m.kind = "E"
     /\ IF e = None THEN Crash
        ELSE /\ data' = [data EXCEPT ![e] = m.data]
             /\ DCC' = AddDCC(RemoveDCC(DCC, e, data[e]), e, m.data)
             /\ moved' = moved \cup ({e} \cap use)
             /\ Answer(p, pictures)
             /\ UNCHANGED <<stock, points, made>> /\ Up
             /\ IF pictures THEN Publish(p, "E") ELSE Refuse(p)

\* WS_cts_Edit_Car
EditCar(p, m, pictures) ==
  LET c == At(stock["C"], m.id)
  IN /\ m.kind = "C"
     /\ Answer(p, c # None /\ pictures)
     /\ data' = IF c = None THEN data ELSE [data EXCEPT ![c] = m.data]
     /\ UNCHANGED <<stock, points, DCC, made, moved>> /\ Up
     /\ IF c # None /\ pictures THEN Publish(p, "C") ELSE Refuse(p)

\* WS_cts_Edit_Train: the composition is replaced, the engines that are driven
\* are not.
EditSet(p, m) ==
  LET t == At(stock["T"], m.id)
  IN /\ m.kind = "T"
     /\ IF t = None THEN Crash
        ELSE /\ data' = [data EXCEPT ![t] = m.data]
             /\ points' = [points EXCEPT ![t].p = Pointed(stock, m.data)]
             /\ UNCHANGED <<stock, DCC, made, moved, toPage>> /\ Up
             /\ Publish(p, "T")

\* The same three with remove.  Only engines are written and told of, and their
\* answer is none that a page knows.
DeleteEngine(p, m) ==
  LET e == At(stock["E"], m.id)
  IN /\ m.kind = "E"
     /\ IF e = None THEN Crash
        ELSE /\ stock' = [stock EXCEPT !["E"][m.id] = None]
             /\ DCC' = RemoveDCC(DCC, e, data[e])
             /\ moved' = moved \cup ({e} \cap use)
             /\ UNCHANGED <<data, points, made, toPage>> /\ Up
             /\ Publish(p, "E")

DeleteOther(p, m) ==
  /\ m.kind # "E"
  /\ stock' = IF At(stock[m.kind], m.id) = None THEN stock ELSE [stock EXCEPT ![m.kind][m.id] = None]
  /\ IF m.kind = "C" THEN Answer(p, At(stock["C"], m.id) # None) ELSE UNCHANGED toPage
  /\ UNCHANGED <<data, points, DCC, made, moved>> /\ Up
  /\ Refuse(p)

\* getEngineDCC and subDCCEngine
EngineDCC(a) == IF DCC[a].engineUsed THEN DCC[a].E[DCC[a].uniqueEngine] ELSE None
SubDCCEngine(e) ==
  LET d == DCC[data[e]]
      at == {j \in DOMAIN d.E : d.E[j] = e}
  IN IF d.engineUsed \/ at = {} THEN DCC
     ELSE [DCC EXCEPT ![data[e]].engineUsed = TRUE, ![data[e]].uniqueEngine = Min(at)]

\* Mutant: the address is not looked at.
RefusesUsed(engines) == \E e \in ToSet(engines) : e \in use

Refuses(engines) == \E e \in ToSet(engines) : e \in use \/ EngineDCC(data[e]) # None

\* WS_cts_LinkTrain and the first half of Train::link.  The name of what is
\* linked is read first, then the engines of a train set, which may be freed
\* memory, and its units, one of which may be null.
Link(p, m) ==
  LET item == At(stock[m.kind], m.id)
      engines == IF m.kind = "E" THEN <<item>> ELSE points[item].engines
      free == m.data \notin assigned
      freed == ~(ToSet(engines) \subseteq ToSet(stock["E"]))
      null == m.kind = "T" /\ points[item].p = None
  IN \/ /\ item # None => free /\ (freed \/ (null /\ ~Refuses(engines)))
        /\ Crash
     \/ /\ item # None
        /\ free => freed \/ Refuses(engines)
        /\ Goes(p, Idle) /\ UNCHANGED <<library, links, down, toPage>>
     \/ /\ item # None /\ free /\ ~freed /\ ~null /\ ~Refuses(engines)
        /\ Goes(p, [step |-> "take", train |-> m.data, engines |-> engines])
        /\ UNCHANGED <<library, links, down, toPage>>

Serve(p) ==
  LET m == Head(toServer[p])
  IN /\ ~down /\ Undisturbed
     /\ thread[p] = Idle /\ toServer[p] # <<>>
     /\ toServer' = [toServer EXCEPT ![p] = Tail(@)]
     /\ \/ /\ m.op = "create"
           /\ \/ \E pictures \in {TRUE, ~Fails} : Create(p, m, pictures)
              \/ CreateSet(p, m)
        \/ /\ m.op = "edit"
           /\ \/ \E pictures \in {TRUE, ~Fails} : EditEngine(p, m, pictures) \/ EditCar(p, m, pictures)
              \/ EditSet(p, m)
        \/ /\ m.op = "delete"
           /\ DeleteEngine(p, m) \/ DeleteOther(p, m)
        \/ /\ m.op = "link"
           /\ Link(p, m)
     /\ UNCHANGED <<lib, dialog, bounds>>

\* The second half of Train::link: the engines are locked.
Take(p) ==
  LET t == thread[p]
  IN /\ ~down
     /\ t.step = "take"
     /\ IF ~(ToSet(t.engines) \subseteq ToSet(stock["E"])) THEN Crash
        ELSE /\ Goes(p, Idle)
             /\ assigned' = assigned \cup {t.train}
             /\ use' = use \cup ToSet(t.engines)
             /\ DCC' = IF t.engines = <<>> THEN DCC ELSE SubDCCEngine(Head(t.engines))
             /\ UNCHANGED <<stock, data, points, file, made, moved, down, toPage>>
     /\ UNCHANGED <<toServer, lib, dialog, bounds>>

\* WS_stc_EnginesLib, WS_stc_CarsLib and WS_stc_TrainSetsLib: the list is built,
\* then send_all takes the mutex and sends it to every page.
Build(p) ==
  LET k == thread[p].kind
  IN /\ ~down
     /\ thread[p].step = "build"
     /\ Goes(p, [step |-> "send", kind |-> k, list |-> Entries(stock[k], data)])
     /\ UNCHANGED <<library, links, down, toServer, toPage, lib, dialog, bounds>>

\* Mutant: only the page that asked is told.
SendBack(p) ==
  LET t == thread[p]
  IN /\ ~down
     /\ t.step = "send"
     /\ Goes(p, Idle)
     /\ toPage' = [toPage EXCEPT ![p] = Append(@, [op |-> "list", kind |-> t.kind, list |-> t.list])]
     /\ UNCHANGED <<library, links, down, toServer, lib, dialog, bounds>>

Send(p) ==
  LET t == thread[p]
  IN /\ ~down
     /\ t.step = "send"
     /\ Goes(p, Idle)
     /\ toPage' = [q \in Page |-> Append(toPage[q], [op |-> "list", kind |-> t.kind, list |-> t.list])]
     /\ UNCHANGED <<library, links, down, toServer, lib, dialog, bounds>>
-----------------------------------------------------------------------------
Next ==
  \/ Restart
  \/ \E p \in Page :
       \/ \E k \in Kind : \E id \in {0} \cup DOMAIN lib[p][k] : Open(p, k, id)
       \/ \E op \in {"create", "edit", "delete"} : \E form \in Form(p) \cup {None} : Click(p, op, form)
       \/ Dismiss(p)
       \/ \E t \in Train, k \in {"E", "T"} : \E id \in DOMAIN lib[p][k] : RequestLink(p, t, k, id)
       \/ Receive(p) \/ Serve(p) \/ Take(p) \/ Build(p) \/ Send(p)

Spec == Init /\ [][Next]_vars

-----------------------------------------------------------------------------
(* Properties *)

Settled(p) ==
  ~down /\ toPage[p] = <<>> /\ \A q \in Page : thread[q] = Idle

\* A page knows an item by its place in the list, the server by its place in an
\* array that keeps the places of removed items: a page that has received every
\* list shows the items before the first removed one under the ids the server
\* has for them, with the data it has (stc.cpp, socket.js).
ShownByIds ==
  \A p \in Page : Settled(p) =>
    \A k \in Kind : \A n \in DOMAIN stock[k] :
      None \notin ToSet(SubSeq(stock[k], 1, n)) =>
        n \in DOMAIN lib[p][k] /\ lib[p][k][n] = [item |-> stock[k][n], data |-> data[stock[k][n]]]

\* The engines such a page shows are in the file, and with a program that is
\* started again: no change that was shown is lost (Manager::writeFile).
ShownIsKept == \A p \in Page : Settled(p) => lib[p]["E"] = file["E"]

\* At an address from which no engine was removed, and with no engine changed
\* while a train has it, at most one engine is in use; its address is taken and
\* getEngineDCC finds it (Train::link, subDCCEngine).
AddressOwned ==
  moved = {} /\ ~down =>
    \A a \in Address :
      LET owners == {e \in use : data[e] = a}
      IN None \notin ToSet(DCC[a].E) /\ (\A p \in Page : thread[p] = Idle) =>
           owners = {EngineDCC(a)} \ {None}

\* No two trains drive engines of one address.
OneEngineEach == \A e, f \in use : data[e] = data[f] => e = f

\* A request is about the item the page showed with it, and a request to delete
\* about one that was shown.
MeansTheSame ==
  \A p \in Page :
    LET m == Head(toServer[p])
    IN toServer[p] # <<>> /\ thread[p] = Idle /\ m.op # "create" =>
         m.shown # None /\ At(stock[m.kind], m.id) = m.shown.item

\* The program does not crash.
ServerUp == ~down

\* A train set drives the engine that it is composed of.
DrivesComposition == \A t \in ToSet(stock["T"]) \ {None} : points[t].engines = Driven(data[t], points[t].p)

\* Train sets keep their units when the program is started again.
SetsKeepStock ==
  [][restarts' # restarts => \A t \in ToSet(stock["T"]) \cap DOMAIN points' : points'[t].p = points[t].p]_vars

\* An answer to a request closes no other dialog than that it was sent from.
OwnClosed ==
  [][\A p \in Page : dialog[p] # Closed /\ dialog'[p] = Closed /\ clicks' = clicks /\ toPage'[p] # toPage[p]
       => dialog[p].kind = "E"]_vars
=============================================================================
