# PiRail: a verification development

PiRail drives a model railway: it is told by detection inputs which blocks of
track are occupied, keeps track of the trains, gives every block an aspect like
a signal, finds and reserves a way over the switches and controls the speed of
the trains.  It is made of three programs: one in C++ that runs all this, web
pages in JavaScript that watch and command it over websockets, and the firmware
of the nodes that sit in the modules of the layout.  This directory models the
parts of the three that decide whether trains meet, get lost or stand for ever,
whether the program knows its layout, and whether the pages show what the
program has.  Paths below are those of the repository; `core.cpp` and the like
are under `src/src/`, headers under `src/lib/`, `socket.js` and the like under
`src/web/scripts/`, the firmware under `src/avr/`.

1. [The system](#the-system)
2. [Modules](#modules)
3. [Runs](#runs)
4. [Proofs](#proofs)
5. [Disagreements between the code and its documents](#disagreements)
6. [Where the models are coarser](#where-the-models-are-coarser)
7. [Not modelled](#not-modelled)
8. [Plan](#plan)

## The system

### Threads and locks

| Thread | Loop | Takes |
|---|---|---|
| algorithm | `Algorithm::Run`, `BlockTick`, `TrainTick` (`algorithm/component.cpp`): takes a block from a queue, processes it, then the trains this queued | `processMutex` during `processBlock` |
| scheduler | `Scheduler::thread` (`scheduler/scheduler.cpp`): runs the functions of the events that are due: the speed event of each train, `Train_ContinueCheck` every two seconds, keep-alive of the Z21, `ClearUnusedSockets` | `EventMutex` while it runs the functions; `Train_ContinueCheck` takes `processMutex` too |
| UART | reads RNet messages; a detection changes `Block::blocked` and queues the block (`IO.cpp`) | the mutex of a queue |
| websocket clients | one thread per browser: throw switches, set speeds, link trains (`websocket/cts.cpp`) | `processMutex` in part of what they do |
| Z21 | receives from the command station, tells the pages of the track power | |
| accept | `Server::loop` (`websocket/server.cpp`): accepts a browser and sends it what it must know | |
| a page | one thread: callbacks of its websocket, timers and the user | |
| a node, the master node | a main loop and the interrupts of its bus and serial port | |

What the threads share is protected in part only.  Blocks, switches, paths and
trains are read and written without a lock by the scheduler and client threads
(`Train::Continue`, the tests of `Switch::setState`, `changeSpeed`, `setSpeed`);
the counter of a `Queue` is written outside its mutex; a scheduled event is
searched for outside `EventMutex`; the rolling stock has no lock at all.

### Components

| Component | State | Operations | What makes it correct |
|---|---|---|---|
| Queues (`utils/queue.h`, `algorithm/queue`) | ring, `Beginning`, `End`, `Items`, semaphore, mutex | `AddOnce`, `Get`, `waitGet`, `put`, `puttemp`, `cpytmp` | a FIFO that loses nothing; a block waits once; the counter agrees with the ring |
| Layout (`switchboard/rail.cpp`, `links.cpp`, `switch.cpp`) | links, `Block::dir`, cached lists N and P, aspect and reversed aspect, `reservedBy`, `Switch::state` | list search, `setState`, `reserve`, `dereserve`, `reverse`, `Switch::setState` | points do not move under a train or against a reservation |
| Aspects (`rail_state`, `core.cpp`) | aspects of a block and of those behind it | `rail_state`, `ApplyRailState` | a train is stopped before an occupied block or wrong points |
| Paths (`path.cpp`) | blocks, `Entrance`, `Exit`, `reservedTrains`, `trains` | `reserve`, `dereserve`, `reverse`, `trainEnter`, `trainExit` | blocks of a path lie one way; blocks and trains agree on what is reserved |
| Switch solver (`switchsolver.cpp`) | none of its own | `findPath`, `setPath`, `setWrong`, `dereservePath`, `reservePath`, `solve` | a way that was found is free, set and held by one train; trains do not wait for each other for good |
| Train following (`train_following`, `train/general.cpp`, `traindetection.cpp`) | `Block::train`, `expectedTrain`, `Train::B`, `blocks`, `TrainDetectable` | `processBlock`, `move`, `releaseBlock`, `stepForward`, `setExpectedTrain` | every detection is given to the train that caused it |
| Train speed (`train/speed.cpp`) | `SpeedState`, `speed`, target, reason, timer, the speed event | `changeSpeed`, `setSpeed`, `setStopped`, `reverse`, the tick | what is asked for is done; a stopped train stands; a waiting train goes on |
| Scheduler | vector of events, `disabled`, `next_interval`, `EventMutex`, condition | `addEvent`, `removeEvent`, `enableEvent`, `disableEvent`, `stop`, the thread | an event runs, in time, and only while it exists; the thread ends |
| Stations, signals, MSSwitches, polarity | parked and occupied flags over parents and children, signal aspects, polarity of groups | `occupy`, `release`, `setStoppedTrain`, `Signal::set`, `flip` | parent and children agree; a signal shows no more than its block |
| Module joining (`blockconnector.cpp`, `unit.cpp`) | ends of modules, links of their rails, `SYS->LC.state`, setups | `find_connectors`, `find_connectable`, `connect`, loading, saving, `LinkAndMap` | ends are joined as the modules lie, in every order; a saved setup gives the same layout; start-up ends |
| Routes and path finding | list of instructions of a train | `PathFinding::find`, `RouteAssign` | a route leads to its destination |
| Rolling stock (`rollingstock/*`, `config/RollingConfig.cpp`) | arrays of engines, cars and train sets, DCC addresses, the file | create, change, remove, link | a request is about the item its page showed; one engine in use per address; what is shown is kept |
| Websocket server (`websocket/*`) | clients, `MessageList`, subscriptions | accept, handshake, `newClientCallback`, broadcasts, `ClearUnusedSockets` | a page that is up to date shows what the server has |
| Pages (`socket.js`, `messages.js`, `emergency.js`, `train.js`, `canvas.js`, `modals.js`) | websocket, messages, sliders, drawing, dialogs | connect again, add and remove, toggle, drive, move, click | the same, and a page does what its user asked, once |
| Z21 (`Z21.cpp`) | connected, track power | commands, reports | power and pages agree |
| UART, RNet, nodes (`uart/*`, `IO.cpp`, `avr/*`) | buffers, `txdata`, `devices_list`, inputs | poll, parse, restart | inputs are known once the bus is quiet |

How they interact: a detection is queued (queues); the algorithm thread gives it
to a train (train following), looks ahead and solves the switches (solver,
paths), computes aspects (layout) and asks for a speed (train speed), which the
scheduler thread carries out; standing trains are tried again by
`Train_ContinueCheck` in the scheduler thread; clients throw switches and set
speeds in between.  Before that, at the start, the nodes are found over the bus,
and the ends of their modules are joined.  Beside it, whatever changes is
broadcast to the pages, each of which keeps a copy of it.

The hard behaviours are listed one by one, with their lines, under `hazards` in
`PROJECT.json`.  They are: updates lost between threads that do not share a
lock; a test made under one lock and used under another or none
(`Train::ContinueCheck` and `Continue`, `Switch::setState`, `removeEvent`);
detections that come while the queues still hold work; a chain of legal calls
after which a train is expected where it is not; wakeups and requests that are
lost; locks taken in two orders; rings, step counts and lists at their ends;
messages of the server and of a page that cross, and an identity that means one
thing in a page and another in the server when they do; connections, nodes and
the program itself going down half-way.

## Modules

| Module | Models | Composes |
|---|---|---|
| `RingQueue` | `Queue<T>`, one method at a time, as operators on a record | |
| `BoundedFifo` | what users of a queue rely on (abstract) | |
| `AlgorQueue` | the queues of the algorithm, with `put`, `puttemp` and `cpytmp` interleaved | `RingQueue`, refines `BoundedFifo` |
| `SharedQueue` | `Queue<T>`, one memory access at a time | |
| `Rail` | blocks, switches, lists, aspects, reservations | |
| `RailState` | `rail_state` and `ApplyRailState` | `Rail` |
| `SwitchSolver` | paths, `Switch::setState`, the solver | `RailState` |
| `TrainFollowing` | `processBlock`, the look-ahead, what `train_control` decides | `SwitchSolver` |
| `Interlocking` | the threads and the trains around all that | `TrainFollowing` |
| `TrainSpeed` | the state machine of speed | |
| `Scheduler` | thread, events and locks, and the threads of websocket clients it joins | |
| `NodeBus` | nodes, master node, bus, serial port, UART thread | |
| `Joining` | the joining of modules, saved setups, `LinkAndMap` | |
| `WebMessages` | browsers and server: connections, open messages, linking | |
| `EmergencyStop` | the STOP button, the server and the track power | |
| `Driving` | sliders and timers of a page, what requests do to a train; with a server that tells of it at once (abstract) | |
| `TrainControl` | the threads of the server that change trains and tell of them | `Driving`, refines its `AtOnce` |
| `ModuleLayout` | how a page places and turns the modules | |
| `RollingStock` | dialogs of a page, the library, its file, DCC addresses | |
| `Layouts` | three units in a row; a ring, and a corner | |
| `MCAlgorQueue`, `MCInterlocking`, `MCJunction`, `MCSingleTrack`, `MCScheduler`, `MCJoining`, `MCRollingStock` | instances for TLC | |
| `MCTrainSpeed`, `MCSchedulerOnline` | two settings of one module | `TrainSpeed`; `Scheduler` |
| `MCPages` | the four parts that pages and server share | `EmergencyStop`, `WebMessages`, `TrainControl` (and `Driving` as what it implements), `RollingStock` |
| `MCTrackside` | how the program and the pages get to know the layout | `NodeBus`, `Joining`, `ModuleLayout` |
| `AlgorQueueProofs`, `SharedQueueProofs`, `InterlockingProofs`, `TrainSpeedProofs`, `SchedulerProofs`, `JoiningProofs` | theorems about one module | |
| `PagesProofs` | theorems about the stop, driving, the library and the open messages, of `MCPages` | `MCPages` |
| `Loops` | induction over the turns of a loop, for `InterlockingProofs` and `PagesProofs` | |

**Queues.**  A ring is a record of the members of `Queue`; `Insert`, `AddOnce`,
`Acquire` and `Get` are its methods.  In `AlgorQueue` a method is one step and
the loops over methods are several.  In `SharedQueue` a step is one access to
the shared members: producers hold the mutex, the consumer does not, and `++` and
`--` of `Items` are a load and a store, because the build does not optimise and
`Items` is not atomic.

**Rail to TrainFollowing.**  These modules hold no variables.  The objects of the
program are one record, the world `w`, and each method of the code is an operator
from the world before it to the world after it, so a handler that calls ten
methods is a composition of ten operators, in the order of the code.  A C++
pointer is a model value, a null pointer is `None`.  Where the code would follow a
null pointer, invent a train for a detection nobody expected, or process a block
without end, `w.fault` says so, and the program ends there.  Abstracted are
lengths (small integers, in proportion to the 100 cm of a group of aspects and the
600 cm of a search), speeds (only: driven, braked for a signal, braked for the end
of the way) and names.

**Interlocking.**  Its variables are the world and, outside it, where the trains
really are (`pos`), whether `BlockTick` or `TrainTick` runs, and where the
scheduler and client threads are.  One action takes one block or one train from
its queue and processes it (the code holds `processMutex` for that long).
`Train_ContinueCheck` is three steps: the check under the mutex, and the two
halves of `Continue`, which run without it.  A client's throw is two: the tests
before the mutex, and what follows under it.  `Enter` and `Leave` move a real train
over a joint and deliver the detection: a driven train is always carried on, into
whatever is ahead and over points that lie against it; `Brakes` ends a braking
before the end of the block, which is what the braking distances are for.  The
trains know nothing of the program's idea of direction: `Path::reverse` turns that,
not `Engine::dir`.

Two constants say how much the threads may disturb each other, because most of
what holds, holds only up to a point:

- `Prompt`: the algorithm empties its queues before a train moves on or another
  thread begins something.  With `Prompt = FALSE` the algorithm is only held to
  have processed what the same train caused last (`Followed`).
- `Preempted`: other threads run between the steps of `Continue` and of a throw.

`Braking` is the set of braking distances from which one is picked at every look
ahead; `MaxThrows` bounds the throws of clients.  `go` in `TickTrains` leaves open
whether `train_control` starts a standing train or brakes to a lower speed instead
of to a stand.

**TrainSpeed.**  One train.  `T` has the fields of `Train` that `speed.cpp` reads
and writes, and `engine`, the speed the engine was really given.  `changeSpeed` is
split where it first records the request and then switches on `SpeedState`; the
tick is split where it sets the state, disables the event and applies the speed.
The braking curve is left out: a change takes any number of up to `Steps` steps
through any speeds between the old and the new one.  `Clients` adds
`WS_cts_SetTrainSpeed`, `Preempted` the interleaving within ticks and requests.

**Scheduler.**  One action per access to shared state of the thread
(`Top` ... `Wake`), of the users of events and of `stop`.  Time is relative: `due[e]`
is how long it is until `next_interval`, and a tick passes only while the thread
sleeps, since its own steps are short next to the shortest interval.  `Owners` are
the users that add and remove their event, `Holders` those that do so while they
hold `processMutex`, `Stops` allows the main thread to stop the scheduler.  With
`Serves` the websocket server is there: its event, `ClearUnusedSockets`, joins the
thread of a client that has lost its connection, with `EventMutex` held, and that
thread may be about to throw a switch and wait for `processMutex`.

**NodeBus.**  Up to the serial port a message is one element of a queue, since the
bus carries one at a time and a poll waits for its answer; from there it is a
string of bytes, because where packets begin, how long they are and whether their
checksum is right is what can go wrong when either side starts anew.  A node
counts its messages in `txdata` with an increment that the bus interrupt may cut in
two (`main`, `loaded`).  The master polls what it heard of (`devices_list`), one
bit per node, and a node polled once too often sends old bytes of its buffer
(`Stale`).  `phase` is how far `InitFindModules` is.

**Joining.**  `link` is the `RailLink` at each side of a block or leg of a switch,
`connection` what `Unit` keeps of it, `connectors` the list the algorithm thread
works off.  A wagon over a gap (`Move`) occupies the blocks at both ends, each
detected in its own time (`Detect`).  `Test`, `Find`, `ConnectConnectors`, `Save` and
`Map` are the algorithm thread; `Lock` and `Load` the client that loads a setup.
Crosswise ports (`crossover`), a unit that lies the other way round and a gap that
ends in a switch are in the row of `Layouts`.

**WebMessages.**  A page has a websocket, timeouts that connect again, the array of
messages, the elements it draws, and its idea of which unit is linked to which
train; the server has the slots of `MessageList`.  `WS_stc_NewTrain` takes a slot,
sends and stores in three steps (`making`), and `newClientCallback` brings a client up
to date in steps of its own (`joining`), the last of which follow the engine of every train.
A train whose message is open has none: the server crashes (`SendLink`), every
connection is lost (`Drop`), and the pages go on trying.  The two queues between a page and its
client thread keep their order and are lost with the connection.

**EmergencyStop.**  A page that is told of a stop sends one itself unless it shows
it already.  The server broadcasts what a page asks for and then commands the
Z21; the Z21's thread broadcasts what the Z21 reports.  The commands are the
wrong way round (`PowerFor`), as in the code.

**Driving and TrainControl.**  A finger on a slider binds a handler and starts a timeout
that sends the speed and starts itself again; lifting a finger clears the one that
`Train_Control.timer` names.  What `setSpeed` makes of the request is `TrainSpeed`'s.  That
is `Driving`, together with an abstract server, which changes a train and tells all that
have subscribed in one step (`AtOnce`).  The code's server is `TrainControl`: a thread
(`Serve`, that of a client; `Change`, the scheduler's) changes the train, and then
`WS_stc_UpdateTrain` reads it (`Build`) and goes through the clients, but for the one that
asked, and sends what it read to those that have subscribed by then (`Send`), in any
order, with no lock.  `telling` holds the calls to be made, in the order of each thread.
With `Preempted` the threads come between each other's steps; without, pages and network
go on while a thread tells, but no other thread of the server.

**ModuleLayout.**  A page keeps for each module its place and turn, the modules it
is joined to, and which joints it has taken up (`connected`).  `canvas_module.move` and
`connect` are the operators `Move` and `Connect`; `Move` carries all that hangs on the
module, and `thrown` says that an exception left a handler half-way.  Directions
are quarter turns; distances only need to be different.

**RollingStock.**  An item is its kind and a number no other has, so that what a
page means and what the server hits can be compared: a page knows an item by its
place in the list it was sent, the server by its place in an array with holes.
The data of an item is what the properties tell apart: the address of an engine,
the unit of a train set (one; more would only repeat it), the length of a car.  A
client's thread changes the stock and writes the file (`Serve`), builds the list
(`Build`) and sends it to all (`Send`); `Train::link` tests and takes engines in two
steps (`Link`, `Take`).  Following a null or freed pointer is `Crash`; what a freed
pointer would still show is not modelled further.  `Restart` reads the file anew.

**Sums.**  `MCPages`, `MCTrackside`, `MCTrainSpeed` and `MCSchedulerOnline` put several
parts into one instance.  The parts share no variable and no thread's step in the
code reaches from one into another in a way the properties tell, so each
behaviour picks a part (`part`, `setting`) and leaves the others as they are at
first: TLC checks every part in full, and the reachable states add up instead of
multiplying.  Where parts do meet, in the speed of a train (`TrainControl` and
`TrainSpeed`) and in the linking of trains (`WebMessages` and `RollingStock`), each
takes from the other what its own properties need, and says so.

## Runs

All run with `tlc -config X.cfg M`.  With two workers `trackside` takes about two
minutes, `pages` and `scheduler` one, each of the others less.

| Run | Instance | What it shows |
|---|---|---|
| `algor_queue` | 2 blocks, 2 callers, rings of 3 and 2 slots | both rings stay consistent over any number of laps, the one is a FIFO (refinement of `BoundedFifo`), and they refuse exactly what they hold as long as the occupied slots do not wrap |
| `algor_queue_copies` | 3 blocks, 1 caller | *violated:* `cpytmp` loses a block after a lap |
| `shared_queue` | 2 producers, 1 consumer, 4 puts into 3 slots | updates of `Items` are lost, but the consumer never reads ahead or out of turn |
| `interlocking` | a loop with a two-track station, 2 trains, 1 throw by a client | `NeverLost`, `PointsHeld`, `ReservedPointsHeld`, `StartsIntoClear` |
| `interlocking_ahead` | the loop with a main line of two paths, 3 trains, long braking distances, other threads between the steps of `Continue` | trains wait, brake, park and go on, with `NoCollision`, `FrontKnown`, `TrainsLocated`, `ReservationsAgree`, and `NoGridlock` under fairness |
| `interlocking_reserved` | the loop, threads preempt each other | *violated:* points of a reserved block are thrown by a client |
| `junction_busy` | a throat of two switches on one detection block, trains from both sides, throws, everything preempted | nobody runs on another's reservation (`NoIntrusion`), and the blocks of a path lie one way, however often it is turned (`PathsAligned`) |
| `train_speed` | speeds 0..2, two distances, up to 2 steps; preempted, or with clients | preempted: a change never runs out of steps, a train in a stopped state stands, a running train is expected and not parked; with clients: every change ends |
| `scheduler` | 2 users, continue event of 2 ticks, the scheduler may be stopped; or the algorithm thread and a websocket client | the right event is removed, a lost wakeup costs less than the interval of the continue event, and that one keeps running, also when clients are joined |
| `scheduler_deadlock` | one user adds and removes its event inside `processMutex` | *violated:* the two threads wait for each other |
| `pages` | 2 pages; 2 trains, 2 engines and a set | a page that has received everything shows the open messages, the stop, the power, the speeds it watches and the stock of the server; only a slider that is held goes on sending; what it shows of engines is kept over a crash; its websocket comes back unless the server is gone; echoes end; an address has one engine in use.  The threads of the server do not preempt each other |
| `trackside` | 2 nodes, a restart of the program and of a node; 3 units, 1 wagon, a saved setup; a ring of 4 modules | inputs are known once the bus is quiet, and it gets quiet; ends are joined as the modules lie, their rails linked to each other, from wagons and from a setup alike, and all are joined; a page that has received everything draws the layout |

**Bounds.**  Queue: wrapping needs more puts than slots, duplicates need two
blocks, a race needs two callers; the rings are small so that all of it happens
within a few calls, and nothing bounds the number of laps.  `MaxPuts` bounds the
history counters of `SharedQueue` and is one more than its slots, so that the ring
wraps.  Interlocking: two trains are enough for every conflict over a block, a
switch or a path, and the third of `interlocking_ahead` fills the loop, so that
one train has to brake for the next and wait; the layouts are the smallest in which a train is overtaken in a
station, meets another one in a throat, or faces one over a single track; the loop
has no end, so behaviours are unbounded, except for `MaxThrows`.  `Steps` and `SwitchSteps` are how far a walk over the layout can go before it
comes to a rail for the third time, after which it would never end; they cut
nothing off.  `ReprocessBound`
(4) is how often `BlockTick` may process one block again before this counts as
endless.  `SearchLength` 4 and `GroupLength` 1 keep the proportions of 600 and 100
cm to the lengths of the blocks.  TrainSpeed: with `MaxSpeed = 2` there is a speed
between standing and full speed, and with `Steps = 2` a step that is not the last.
Scheduler: the intervals 1, 2 and 3 put the continue event between the others,
and times older than `Latest` are not told apart.  NodeBus: two nodes are polled
in turn; `ListBytes` is 2 instead of 32, which keeps a node's own packet and the
list apart by their lengths; one restart of the program while it runs and one of
a node while it starts, two changes of inputs; `MaxLine` 0 holds a poll back until
the program has read what came, `MaxPending` 2 a change of an input until the node
has room.  Joining: three units have a gap on either side of one of them, so that
an end can be taken for another's; one wagon, because two at once do join what
does not lie together (below).  WebMessages: two pages, two trains, two slots, so
that slots are used again; one lost or refused connection (`MaxTries`).
EmergencyStop: two clicks or switches of power (`MaxEvents`), two messages under way
with a Z21 (`MaxBacklog`), where echoes may go on for ever; without one the longest
queue that comes about is five, so that `MaxEchoes` 6 bounds nothing.
Driving: one page drives and one watches, three touches; a timer fires when nothing is
under way (`MaxBacklog`) and the server has told what it had to (`Next` of
`TrainControl`).  ModuleLayout: a
ring is the smallest layout in which a module is reached from two sides, and with
turning loops it has to be turned over on the way; one reconnect.  RollingStock:
two clicks of one page while the other watches, one request under way, one
restart, two engines of one address and an address that is free; the library
starts with what two clicks alone would not build.

**Deadlock** is not checked where the system may really stop: in `shared_queue`
because puts are bounded, in the interlocking runs because all trains may be parked
or a fault ends the program, in the scheduler runs because the scheduler ends when
it is stopped, and `stop` may never return (see below); in `pages` and `trackside`
because users, nodes and wagons come to rest when nothing is left to do.

**Fairness.**  Interlocking: the algorithm thread takes what is queued, a train
that is driven gets on, a check that was begun ends (weak), and
`Train_ContinueCheck`, which the scheduler repeats every two seconds for every
train, comes at a time when a train may go on if such times come again and again
(strong).  The conditions are written out as the guards of the actions instead of
`ENABLED`, which would evaluate the whole algorithm twice.  TrainSpeed: the
scheduler runs an enabled event, a thread ends the call it has begun (weak);
nothing is assumed of clients, signals and requests.  Scheduler: each thread takes
its steps and gets a mutex that is released again and again (strong, as the
scheduler of the operating system makes it); a client's thread does the same with
its throw and ends when its connection is gone (weak); nothing is assumed of when
users begin.  Pages: the server accepts, each page tries again, and some thread of
the server goes on (weak); of the echoes only that some page or thread gets on with
them, whichever; nothing is assumed of users, and nothing of how long a connection
lasts.
NodeBus: main loops and the polling go on (weak), and the master, between polls,
comes to send what the program asked for (strong: it looks every time round).
Joining: the algorithm thread goes on, an occupied block is detected, and somebody
keeps pushing the wagon over a gap (weak): without that, modules are never
joined, and `AllAreJoined` says no more than that the program does its part.

**How far the interlocking properties reach.**  They are properties of the code
*under the stated disturbance*; this is where they end:

- With `Prompt = FALSE` three trains do not keep `NoCollision`.  `Set_Changed`
  gives the blocks around a thrown switch a clear aspect until each is processed
  again (`core.cpp:239`); if the speed event ticks in that time, it takes the brakes
  off a train that brakes for one of them (`speed.cpp:329`), and nothing puts them on
  again.
- `FrontKnown` and `TrainsLocated` hold in `interlocking_ahead`, where a train
  brakes from so far that its way is solved before it reaches the points
  (`Braking` of 3 and more).  With short braking distances (`InterlockingOpen.cfg`),
  a train that comes to points set against it is expected nowhere and its front is
  lost.
- `NoCollision` holds in `interlocking_ahead` without clients.  On the loop a throw
  right ahead of a train leads it off the way it was expected on, its detection is
  given to the other train, and from then on all bets are off; `interlocking`
  therefore checks of such runs only what does hold.
- `StartsIntoClear` holds as long as `Train::Continue` is not interrupted
  (`InterlockingOpen.cfg` with `Preempted = TRUE`).

**How far the other properties reach.**  `ShownByIds` speaks of the items before the
first one that was removed: behind it pages and server number differently
(`MeansTheSame`).  It needs pictures that are there and one thread at a time
(`Fails`, `Preempted` FALSE); `RollingStockOpen.cfg` says what comes of the others.
`ShownIsKept` speaks of engines, because removed cars and sets are neither written
nor told.  `AddressOwned` speaks of addresses from which no engine was removed.
`WatchersFollow` speaks of trains nobody turned, and of threads that do not preempt each other: otherwise two of them send
their updates in the other order than they changed the speed, and the older one stays.
`ShowsOpen` and `ComesBack` are checked on behaviours in which the server crashes too, on a page that
joins while a train is not linked: until all connections are lost, `ShowsOpen` holds of the
pages that are left, and `ComesBack` excuses a page that nobody is there for.  `LayoutShown` holds if the
algorithm thread is not delayed between the broadcast of the layout and
`modules_linked`, and if a page is not being sent the modules just then.
`JoinedAsLaid` needs a single wagon, and no middle port where modules lie crosswise.  `InputsKnown` holds over a restart of the program
from its run, and of a node before the program looks for nodes (`RestartIn`,
`RebootIn`); with one in the middle of the search, or of a node later, it does not.

## Proofs

`tlapm` checks the following for every value of the constants that meets the named
assumptions, all of which TLC evaluates in the runs too.

**`AlgorQueueProofs`** (for any capacities of at least 1, any blocks, any lists
`Around` and any callers).  `TypeCorrect` and `Consistent` come from
`Inv == TypeOK /\ RingsConsistent`, which is inductive: each method takes a
consistent record of its type to another one (`InsertOK`, `AddOnceOK`, `GetOK`), and
every step of the system leaves each ring alone or applies one method to it
(`StepOfQueues`).  The heart is `NextSlot`: the slot after the last occupied one is
none of them, over the wrap of the indices.  `ImplementsFifo` is the refinement of
`BoundedFifo` by `pending <- Contents(queue)`.  `AcceptedOnce` says of the same steps
what `AddOnce` refuses: before the wrap, the slots it scans modulo `MAX` are the
occupied ones (`AddOnceSees`).  After it they are not, which is the first
disagreement below.

**`SharedQueueProofs`** (any finite set of consumers, any producers, any capacity).
`ConsumersStayBehind`: however the unsynchronised `Items` goes wrong, no more is
read than was written.  Neither fact is inductive without the tokens: `Paid` says
that each item written pays for one token, posted, in a consumer's hand, used, or
owed by the producer that is about to post it; `OneInside` that the debtor is the
one that holds the mutex.  `ReadsInTurn` needs that there is one consumer
(`OneConsumer`; in the program only the algorithm thread calls `get`): `Beginning` is
written without a lock, so `Turns` ties it to the number of items taken, and to the
line the consumer is in, between the read and the wrap.

**`InterlockingProofs`** (any layout that meets `RailAssumption` and
`InterlockingAssumption`, any trains, clients, braking distances and throws, and with
`Prompt` and `Preempted` as one likes unless a theorem says otherwise).  It is about what
the program, of all the code in `Rail` to `Interlocking`, may do to points, paths and
reservations.

- `Holding`: no points move under a train.  `HoldingReserved`: the points of a reserved
  block are thrown by no client, and by the solver only for the train that holds it.
  Both need `~Preempted`, because `interlocking_reserved` shows what comes between a
  client's test and its throw.  `OnlyClientsMove` says that this is all that can go wrong:
  however the threads preempt each other, and although `Train::Continue` works without the
  mutex on a way it found earlier, no step but a client's throw moves points under a train.
- `Aligning`: whatever turns a path, for whichever train, turns it as a whole: its blocks
  lie one way, from its entrance to its exit, and both lead out of it.
- `HeldIsRecorded`: a train has on its own list every block that is reserved for it, so
  that nothing stays reserved when it parks and frees what it holds.  This is half of
  `ReservationsAgree`.

The invariant is `Inv == Sound(w) /\ Located /\ Threads`.  `Located` ties the detections to
the real trains: a block is occupied exactly if a train is in it, which makes a test of
`blocked` one of where trains are.  `Threads` says what a thread remembers between two of
its steps, and that where threads are not preempted a client's test still holds when
it throws.  `Sound` is about the world: types (`Typed`: of every list, pointer and queue
what the calls rely on), `Recorded` and, for `Aligning` and `HoldingReserved`, `Aligned`.

A step of the algorithm is a composition of some dozens of operators, so the proof
goes by what a call may change, and there are three kinds.  It *keeps* the points,
reservations and orientations and changes aspects, lists, expectations or queues
(`Keeps`: the search of lists, `rail_state`, `Set_Changed`).  It *follows* trains and frees
occupied blocks but throws and turns nothing (`Follows`: `train_following`).  Or it *steers* a
train (`Steers`: the solver, `Path::reverse`, `Continue`): it throws points in blocks that are
free and held by nobody else, takes and gives back reservations of that train only,
and turns paths as a whole.  Each operator has a lemma that says which it is, each kind is
closed under composition, and each keeps the promise of `Reliable`: no points move in an
occupied block or in one another train holds.  `StepKinds` puts the steps of `Next` together:
one is reliable, or moves a train under the detection, or is a client's throw.  That
`setPath` sets what `findPath` found for a world before `dereservePath`, and goes on after
a switch refused to be thrown, needs no argument: what it may do is decided by the tests
of `Switch::setState` alone.

The loops and recursive searches of the code are recursive functions here, with the
bounds `Steps` and `SwitchSteps`.  What such a loop does is proved by induction over its
turns: `Kept` in `Loops` is that induction for any step and any claim, proved from the
well-founded order of the naturals, and `InterlockingProofs` has an instance of it for
each loop, with the claim as its `Good`.

Its assumptions are what a layout in the program has.  `RailAssumption`: finitely many
blocks and switches, whose ends and ports lead to what exists; every switch has a
detection block; a block where a train may stop has a path, which `findPath` and
`reservePath` follow unasked (`switchsolver.cpp:321`, `:778`).  `InterlockingAssumption`: trains
start in a block, and the way out of a path leads through both of its ends, so no path
is a ring (`Path::find`, `path.cpp:187`, goes on from block to block, 1000 at most).
`PathsApart`, which `Aligning` and `HoldingReserved` need: switches are detected by `NOSTOP`
blocks, and those have a path of their own at most (`path.cpp:180`, `:197`).  If a path
could hold the block of a switch, reserving and turning a block on its own
(`Turn`, `ReserveOver`) would leave the rest of the path as it was.

**`TrainSpeedProofs`** (any `MaxSpeed`, `Steps` and distances).  `TypeCorrect` holds
whatever clients ask.  `Stands` and `Expected` need that there are none (`~Clients`; with
them both are violated, below), but not that threads let each other finish: they
hold under `Preempted`, where a tick and a call of the algorithm thread or of
`Train_ContinueCheck` run between each other's steps.
`IInv == TypeOK /\ Scheduling /\ Starting /\ Expecting /\ Ending /\ Standing`.  A tick
sets the state before it applies the last speed, so that a stopped train stands
has to be weakened to what the tick has begun (`Ending`, `Standing`).  That a running
train is expected is the harder one.  A parked train must not be given speed by a
call that tested its state before it was parked: a call that is about to start a
change has set a target the train does not stop at, which keeps it from being
parked (`Starting`, `Scheduling`); a call that is about to update one does not, but
the train it leaves in `"update"` has no event enabled and stays where it is
(`Parked`).

**`SchedulerProofs`** (any finite set of users, any intervals, any number of lost
wakeups).  `TypeCorrect` and `ProcessMutexExcludes` say that both mutexes exclude, and
that the loop of the thread stays within the vector of events whatever is added
and removed meanwhile.  `removeEvent` looks for the index of its event outside
`EventMutex` and erases under it; `EventsStay` says that it is still the same event,
and so that an event stays until its own thread removes it.  The invariant is
`Found`, and it needs that no two threads can be removing at once (`OneRemover`:
there is one that does, or all do so inside `processMutex`, which
`ProcessMutexExcludes` is needed for).  Otherwise `OwnRemoved` is violated, below.
`LateAtMost`: an enabled event is late by less than the interval of the continue
event.  A wakeup may be lost, so the argument rests on what bounds the sleep
without one: `Continues` says that the continue event is always there and enabled and
that the thread never sleeps beyond its time, `InTime` how late the other events may
be at each point of the loop and of the sleep.

**`PagesProofs`** (any pages, trains, speeds, touches, addresses, items, clicks, switches of
power, restarts, slots for messages, lost connections and messages under way).  The
theorems about driving, the library and the open messages are about `PagesSpec`, the
specification that is run; those about the stop are about `Spec` of `EmergencyStop`, which
`MCPages` extends and shares the variables of.  The share of `TrainControl`,
`RollingStock` or `WebMessages` in each step of `PagesSpec` is a step of it or none
(`Drives`, `LibraryDrives`, `MessagesDrive`).

Of the stop, `Agreed` and `PowerShown` come from
`IInv == TypeOK /\ LastUnderWay /\ PagesAgree /\ LastReport /\ PowerTold`.  What a page
shows is only known once it has received everything, so the invariant has to speak
of what is under way: the last message to each page is the last that was
broadcast (`LastUnderWay`), the last report of the Z21 tells its power (`LastReport`),
and when nothing is asked of the Z21 any more, the pages were told of its power
last (`PowerTold`).  That holds although the server commands the wrong power,
because every command is answered by a report, and every report is broadcast.

Of driving, `OnlyHeld`: with one finger at a time (`Fingers = 1`; with two `HeldSends` is
violated, below), only a slider that is held goes on sending.  `Sliding` adds that the
handlers are bound exactly while a finger is down and that the timeout that runs is the
one that is cleared.

`TellsAtOnce`: without preemption (`~Preempted`) the server of `TrainControl` implements
the abstract one of `Driving`, with what a page has been told, or is yet to be of the calls
under way, for what is on its way to it (`told`).  A change of a train is then the
step that tells all at once, and each `Build`, `Send` and `Return` a stutter.  For that
`Teller` says that the calls under way are of one thread, two at most, and that what was
built of a train is still what it does (`CallOK`).  That is what fails under preemption.  `WatchersTold` is proved of the abstract server and comes
over by the refinement, because with nothing under way `told` is what the pages
have been sent: whoever only watches shows the speed.  What a page
shows while messages are under way is decided by the last of them about the train
(`Latest`), or by the subscription whose answer is still to come (`Follows`); and it
needs that a train nobody turned gets no speed that nobody is told of, which holds
because everything a page knows of its direction, and everything under way, agrees
with the server (`Straight`).

Of the library, `AddressesOwned`: at an address from which no engine was removed at most
one engine is in use, the one that the address says is.  `engineUsed` and `uniqueEngine`
only name a place in the list of the address, so `Owned` has to say that the place exists
and that the engine there is the one with `Engine::use`; `Registered`, that each engine of
the arrays is in the list of its address, or a change of address would not be seen;
`Taking`, that an engine which `Train::link` found free still is when it takes it.
This is where `~Preempted` comes in (`Alone`): otherwise two threads find the same
address free.  A change of address or a removal moves the engines of the list, and from
there on an address proves nothing (`Untouched`, `moved`), which is what the property
leaves out.

`IdsShown` and `EnginesKept`: a page that has received everything shows the items before
the first removed one under the ids of the server, and of the engines what the file has.
What a page will show is decided by the last list on its way (`Learns`), so the invariant
is `ListsRight`: the list a thread has built is right about the array as it is, and unless
a thread is about to tell all, each page knows a list that is right or is about to learn
one.  With `KeptFile`, the file always has the engines of the array.  A list stays right
only if nothing changes between its building and its sending, and is sent at all only if
the request does not fail half-way, so both theorems need `~Preempted` and `~Fails`; with
either of them TLC finds `ShownByIds` violated (below).  The types of all this
(`LibraryTyped`) are more than types: no item is in the arrays twice, in the wrong one, or
newer than the last that was made (`LibraryOK`), also after the file was read back
(`Loads`), where the recursive function `Without` closes the gaps (`WithoutKeeps`, by
induction with `Loops`).

Of the open messages, `OpenShown`: a page that has received everything shows a message for
exactly the trains that were found and not linked, with one element each, whichever page
linked them and however often connections were lost.  What a page will show in a slot is decided by
the last message under way that is about it (`Shows`); `AllDue` says that this is what the
server owes the page: what is in the slot, the message being made once it was sent, or
nothing yet of a slot the accept thread has not come to.  `ComesBack` is about the same
behaviours but liveness, and stays with TLC.  Under `AllDue` lie three invariants.
`SocketsInv`: a page's websocket is open exactly if the server has a client of it that was
greeted and whose connection is there, and the client being greeted is the last of the
list, the only live one of its page, also after `ClearUnusedSockets` closed the gaps.
`SlotsInv`: a slot in use holds a message of a train that was found and not linked, no train
has two, and each such train has one or is having it made.  `PagesInv`: what is under way
starts with the opening of the websocket while the page is not connected, and what it says
and what is drawn was made by the server.  Between the slot being taken, the message sent and its data
stored, none of this holds for a page that joins in between (`stc.cpp:518`), so the
theorem needs `~Preempted`, and TLC finds `ShowsOpen` violated without it (below).  A crash
of the server (`SendLink`) disturbs nothing of this: it comes when the page that joins has
been sent all open messages (`Greets`), the server does nothing from there on, and the pages
receive what was under way or lose it with their connections.

**`JoiningProofs`** (any layout that meets `LayoutAssumption`, any wagons, and threads
that preempt each other).  All properties of `Joining` but that it ends.  `ListInv` is
what they rest on: a connector is on the list once and until it is joined, and the
indices `find_connectable` returned still name the same connectors when
`connect_connectors` uses them, because a client takes the mutex only between the two.
So each step leaves the rails alone or joins two connectors on the list (`RailsStep`),
and they are both erased, whichever came first (`ErasedOK`).  `RailsMeet`: the rails of
joined connectors lead to each other, unless points meet a block (`PointsApart`).
`JoinsWhatMeets`: one wagon (`OneWagon`) with a block of its own at each port (`OwnBlocks`)
tells how modules lie, although detections come late: whatever the program still sees
at a connector that is not joined is the wagon (`WagonInv`), since it moved on only when
the connectors it left were off the list (`NoneLeft`).  The proof failed at first: a wagon
over a middle port does not tell straight from crosswise, so it needs `NoMiddle`, and TLC
confirms the counterexample (below).  `SetupsRestore`: a complete setup joins what the
wagons had joined, all of it, whatever was joined before it was loaded; the loading goes
by the least connector that is open, which exists because the order is well-founded
(`FirstOf`).  `RunsMapped`: all links are pointers when the algorithm runs, if no client
loads meanwhile.

The assumptions are what the code has: capacities and intervals are positive,
threads are different from each other and from nobody, speed 0 exists, a layout has
each connector once and each faces another one, the library has an address and no item
is the null pointer (`LibraryAssumption`), `MessageList` has a slot and no message is the
absence of one (`MessagesAssumption`).  `OneConsumer`, `OneRemover`, `~Clients`,
`Fingers = 1`, `~Preempted` and `~Fails`, and of the joining `OneWagon`, `NoMiddle`,
`PointsApart` and `~Incomplete` are hypotheses of single theorems, each because TLC finds the property
violated without it; `OwnBlocks` and `AllOnLayout` are what the layout in the runs has.

**Only model-checked**: everything about liveness (`NoGridlock`, `ClientsEnd`,
`TrainsChecked`, `ComesBack`, `EchoEnds`, `BusSettles`, `AllAreJoined`), which the prover does
not reach.  Of the interlocking, what rests on where trains are expected:
`NeverLost`, `FrontKnown`, `TrainsLocated` and with them `NoCollision`, `NoIntrusion` and
`StartsIntoClear` hold for layouts, braking distances and promptness as in the runs and
not in general ("How far the interlocking properties reach"), so a theorem would first
need the condition on a layout that makes them hold.  Nor is the other half of
`ReservationsAgree` inductive: where a train comes in, `train_following` frees the first
reservation of the block, whoever it was for, and leaves it on that train's list
(`DereserveFirst`); that this was the train that came is again a matter of where trains
are expected.  What a page draws (`LayoutShown`) and what is made of the bytes of a node
(`InputsKnown`) are not proved: both work through data with recursive operators.

## Disagreements

Three runs above are violated.  The code disagrees with what its own documents say
of it, or with what its pages and users must assume, in more places; each has a
configuration that shows it, whose comment names what to change for the others.

| Configuration, module | Property | The code | What is said of it |
|---|---|---|---|
| `AlgorQueueCopies`, `MCAlgorQueue` | `CpytmpCopies` | `AddOnce` scans modulo `MAX`, the ring has `MAX + 1` slots (`queue.h:73`), so after a lap a block is compared with a slot it has left and dropped | `lib/algorithm/queue.h:38`: "Copies temp to queue" |
| `InterlockingReserved`, `MCInterlocking` | `ReservedPointsHeld` | `Switch::setState` tests the block before it takes the mutex and not again under it (`switch.cpp:286`) | `rail.h:133`: "if reserved no switches can be thrown" |
| `SchedulerDeadlock`, `MCScheduler` | `ContinueRuns` | the thread takes `EventMutex`, then `processMutex`; `processBlock` holds that when it adds a train's event (`scheduler.cpp:90`, `core.cpp:60`) | `manager.cpp:19`: "Do the train continue check every 2 seconds" |
| the same, `Owners = {}`, `Stops = TRUE` | `StopEnds` | `stop` joins the thread while it holds `EventMutex` (`scheduler.cpp:66`) | `baan.cpp:103`: "Stop all" |
| `SharedQueue`, with this invariant too | `GetReturns` | a lost `--Items` leaves `Get` waiting for the semaphore of an empty queue (`queue.h:128`) | `test/src/algorithm.cpp:188`: `get` of an empty queue returns 0 |
| `InterlockingOpen`, `MCInterlocking` | `WaitingGoesOn` | a train that waits inside the path it has reserved is refused the exit of that path, by its own reservation (`switchsolver.cpp:321`) | `general.cpp:843`: "Check if trains can accelerate when they are stationary" |
| the same | `FrontKnown` | `setExpectedTrain` sets `expectedSet` although points lie against the train and no block ahead is told (`traindetection.cpp:141`) | `train.h:115`: "FrontBlock" |
| the same, `Preempted = TRUE` | `StartsIntoClear` | `Continue` solves without the mutex `ContinueCheck` held, and the train is started whatever came of it (`general.cpp:819`) | `general.cpp:729`: "FindPath will fail if: ... The next block is blocked" |
| `SingleTrackRefused`, `MCSingleTrack` | `RefusedIsClosed` | `switchWrongState` takes part in the forward aspect only (`core.cpp:634`) | `rail.h:150`: "Set block to DANGER/CAUTION if switch cannot be aligned properly" |
| `TrainSpeedOpen`, `TrainSpeed`, with `Clients = FALSE`, `Preempted = TRUE`, under `FairSpec` | `ChangeEnds` | the tick sets `DRIVING` and then disables the event, also that of a change begun in between (`speed.cpp:335`) | `speed.cpp:121`: "Change speed over a given distance" |
| the same, also with `Preempted = FALSE` | `GoesOn` | a request in `STOPPING_WAIT` is only recorded, and the same one of `Train_ContinueCheck` is then a duplicate (`speed.cpp:157`) | `general.cpp:843` |
| `TrainSpeedOpen`, `TrainSpeed` | `SpeedIsReal` | `T->speed` is written before `setSpeed` refuses it (`cts.cpp:402`) | `train.h:122`: "Real speed" |
| the same | `RunsExpected` | a test of two constants is always true, so a parked train becomes `DRIVING` (`cts.cpp:399`) | `station.h:35`: "There is a train stopped on the station blocks" |
| the same | `StoppedStands` | the speed is set again after `reverse` has stopped the train (`cts.cpp:421`) | `train.h:85`: "Stopped but ready to reverse" |
| `SchedulerDeadlock`, `MCScheduler`, with `Owners = {algorithm, z21}`, under `Spec` | `OwnRemoved` | the index is found outside the mutex (`scheduler.cpp:219`) | `train.h:125` |
| the same | `OnTime` | a signal before the wait is lost (`scheduler.cpp:119`) | `speed.cpp:344`: "Set stopped after 1.5 sec" |
| the same | `NotEarly` | `disabled` is cleared before `next_interval` is set (`scheduler.cpp:133`) | `speed.cpp:100` |
| `SchedulerDeadlock`, `MCScheduler`, with `Serves = TRUE` | `JoinsEnd` | a client's thread is joined with `EventMutex` held, while it waits for `processMutex`, whose holder waits for `EventMutex` (`server.cpp:174`) | |
| `WebMessagesOpen`, `WebMessages` | `ShowsOpen` | a message is broadcast before it is stored, and its slot taken before that (`stc.cpp:518`), so a page that connects in between has it twice, never, or gets an older one | |
| the same, also with `Preempted = FALSE` | `StaysUp` | a page that connects is sent the number of the engine of every train, and one that nobody has linked has none (`general.cpp:27`): a null pointer is followed (`server.cpp:250`) | `server.cpp:236`: "Send all linked trains" |
| the same, also with `Preempted = FALSE` | `LinksKnown` | a page that connects again is not told of links made meanwhile | |
| `MCTrackside`, with `Delayed = TRUE` | `LayoutShown` | a page that connects between the broadcast of the layout and `modules_linked` is never sent it (`core.cpp:1189`) | |
| the same, with `Overlap = TRUE` | `LayoutShown` | it is sent while the modules are: `indexOf` gives -1 and `move` throws (`canvas.js:2086`) | |
| the same, corner layout | `AnchorsMeet` | the direction of the neighbour's anchor is added instead of subtracted, which is the same for straight modules only (`canvas.js:2087`) | |
| `PagesOpen`, `MCPages`, under `PagesFairSpec` | `StopCutsPower` | a stop sends the byte for power on (`cts.cpp:243`) | `cts.cpp:241`: "Z21_TRACKPOWER_OFF" |
| `PagesOpen`, `MCPages`, under `PagesSpec` | `DriversFollow` | an update that another page's request caused reaches a page after its own request, whose answer it is not sent (`stc.cpp:226`) | |
| the same, `Preempted = TRUE` | `WatchersFollow` | an update is built and sent without a lock, so that of two threads, clients' or the scheduler's, the one that built the older speed may send last (`stc.cpp:224`) | |
| the same, `Fingers = 2` | `HeldSends` | two fingers start two timeouts and one is cleared (`train.js:281`) | |
| `JoiningOpen`, `MCJoining` | `LinksMapped` | a setup is loaded after the links were mapped (`cts.cpp:921`) | |
| the same, `Preempted = FALSE`, `Incomplete = TRUE` | `LoadRestores` | a setup that was saved before all was joined is loaded as if complete | |
| the same, `Wagon = {v, w}` | `JoinedAsLaid` | two wagons at once join ends that do not face each other (`blockconnector.cpp:187`) | |
| the same, with `MiddlePorts` | `JoinedAsLaid` | a wagon over the middle port of modules that lie crosswise joins them straight (`blockconnector.cpp:186`) | `blockconnector.cpp:193`: "Crossover connection 1<>n" |
| the same, `End <- PointsEnd` | `PortsLinked` | the point end of a switch is linked at `str` (`switchboard/blockconnector.cpp:117`) | |
| `MCTrackside`, with `RebootIn = {"run"}` | `InputsKnown` | the two bytes a node sends when it starts are taken for the head of the list of nodes and swallow the next message (`uart.cpp:165`) | |
| `RollingStockOpen`, `MCRollingStock` | `MeansTheSame` | behind a removed item pages and server number differently (`stc.cpp:315`), and Delete in the dialog of a new item removes the first one (`socket.js`) | |
| the same | `ServerUp` | an id that is no item's any more, and a train set of removed stock, are followed (`cts.cpp`, `trainset.cpp`) | |
| the same | `DrivesComposition` | a train set that is edited keeps its old `engines` (`cts.cpp:886`) | |
| the same | `SetsKeepStock` | the file closes the gaps of the arrays but keeps the ids in train sets (`RollingConfig.cpp:138`) | |
| the same | `OwnClosed` | an answer hides whatever dialog is open (`socket.js:719`) | |
| the same, `MaxClicks = 3` or `Preempted = TRUE` | `OneEngineEach` | `removeDCC` moves engines and not `uniqueEngine`; `link` tests and takes apart (`manager.cpp:191`, `general.cpp:524`) | |
| the same, `Fails = TRUE`, or `Preempted = TRUE` and two editors | `ShownByIds` | an engine whose picture is missing stays in the array (`cts.cpp:719`); the older of two lists may be sent last (`stc.cpp:358`) | |

Things met on the way that no property is about: a new train set is stored
nowhere and built of no stock (`cts.cpp:848`, `trainset.cpp:50`); the icon's name in a
list is taken to be as long as the picture's (`socket.js:848`); cars and train sets that are
removed are neither written nor told (`cts.cpp:598`); `contains(NB[0])` puts `PB[0]`
(`core.cpp:233`).  Out of reach of the models are the checksum of a half-filled
byte (`RNetTX.cpp:56`), the full ring of the serial port (`circularbuffer.cpp:63`), a
timeout stored in an unsigned byte (`Z21.cpp:184`), the clock that is asked for its
resolution (`client.cpp:304`), switches thrown without the mutex
(`throw_multiple_switches`, `switch.cpp:413`; `MSSwitch::setState`, `msswitch.cpp:321`) and clients erased
from the vector others walk (`server.cpp:178`).

## Where the models are coarser

Steps and conditions of the code that a model merges or leaves out, in modules
that otherwise follow it, and why that decides no property here:

| Definition | The code | In the model |
|---|---|---|
| `Rail`, `AddOnce` | scans modulo `MAX` and refuses when full (`queue.h:66`) | an exact test for a duplicate; the ring is `RingQueue`'s, and `algor_queue_copies` shows what it loses |
| `Rail`, `Beyond` | the look-ahead takes `Switch::NextList_Block`, the search for one block `Next_Block` | one operator for the links both follow |
| `Rail`, `Reversed` | a block in state `RESERVED_SWITCH` is not turned (`rail.cpp:312`) | left out; no code sets that state |
| `SwitchSolver`, `Throw` | `puttemp` and `cpytmp` follow the throw (`switch.cpp:320`) | one step; another thread sees the points moved and the blocks queued together |
| `TrainSpeed`, `Settle` and `Finish` | each assignment (`speed.cpp:302`, `:353`), and a look at the state once more at the end (`:357`) | the groups of assignments that other threads tell apart; a change to `UPDATE` within `Finish` is left out |
| `Driving`, `Obey` | `T->speed` is written before `reverse` and `setSpeed` (`cts.cpp:402`), and `Build` reads `dir` and the two bytes of `speed` one after the other | one write and one read; without preemption nobody sees one in between, with it `WatchersFollow` is violated already |
| `Driving`, `Change` and `Turn` | the rest of a tick | `TrainSpeed` |
| `RollingStock`, `Create` | an engine refused for its picture stays without `icon_path`, of which the next list takes the length (`cts.cpp:722`, `stc.cpp:331`) | the refusal; comes about only with `Fails = TRUE`, where `ShownByIds` is violated already |
| `RollingStock`, `EditSet` | steps through the request by the 11 bytes of `RollingStockLink`, of which 3 are sent (`cts.cpp:890`) | what was meant; no property that holds is about train sets |
| `NodeBus`, `RequestInputs` | gives up after 5 seconds with `Module_Fail` (`component.cpp:103`) and takes any valid list | waits for a list that is not empty |

## Not modelled

Every component is listed in `PROJECT.json` with its status.  Of the modelled ones
these parts are left out: trains of several detectables, under manual control or on
a route; polarity groups, turntables, crossings and MSSwitches; virtual length and
yards; the feedback of switches; `throw_multiple_switches`; `initMove` and the splitting
of trains; the arithmetic of braking; the states of blocks that `Connect_Rails` sets
when joining ends; categories, functions and speed steps of rolling stock; the
connection and keep-alive of the Z21; outputs of nodes.  Stations beyond "a train is
parked here", signals and routes are not modelled yet.  Logging, drawing on the
canvas, the module editor, menus and the coding of messages and files are input
and output with no protocol of their own; `traincontrol.cpp` is a stub; `train.cpp`,
`modules.cpp` and `sim.cpp` are not part of the program any more; the emulator is a
test tool.

Of the 34,600 lines of JavaScript in `web/scripts/`, 26,000 are vendored libraries
(jQuery, Chart.js, Sortable.js), and most of the program's own 8,500 build elements
of the page or draw.  What is modelled of them is what exchanges messages and keeps
state: the connection, the messages, the stop, the sliders, the placing of modules,
and the dialogs of rolling stock.  A share of the JavaScript in lines therefore
stays small; the program that drives trains is the one in C++.

## Plan

Done: queues with proofs; interlocking, with proofs about points, paths and
reservations; speed with proofs; scheduler with the
threads of clients, with proofs; node bus; joining, with proofs; the pages, with proofs of the
stop, of driving, of the library of rolling stock and of the open messages.  Next, in this
order:

1. **Proofs**: `NoIntrusion`, and `TrainsLocated` under a condition that keeps points from
   lying against a train.
2. **Stations and signals**: `Station` (parents and children, parked trains),
   `Signal` over the aspects of blocks, `MSSwitch` beside `Switch`, polarity groups.
   Abstract specification: a station is occupied when one of its blocks is.
3. **Z21 connection**: keep-alive, the buffer and the event of the scheduler.
4. **Routes**: `PathFinding` against a reference definition on small layouts, and
   trains on routes in `Interlocking`.
