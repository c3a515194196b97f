------------------------------- MODULE NodeBus -------------------------------
(***************************************************************************)
(* How a detection gets from the track into the program.  The nodes, one   *)
(* for each unit of the layout, watch their inputs and queue a message when*)
(* one changes; the master node polls the nodes it found, one after the    *)
(* other, over the RNet bus (avr/RNet.cpp, avr/main_node.cpp) and passes   *)
(* what they say on to the serial port, where the UART thread finds the    *)
(* packets in the stream of bytes (uart/uart.cpp, uart/RNetRX.cpp) and sets*)
(* the inputs (IO.cpp).                                                     *)
(*                                                                         *)
(* A node sends whole messages to the master, so a poll is one step; a     *)
(* message to a node is one too.  From the master to the program they are  *)
(* bytes, which arrive in pieces.  Each node has one input.                *)
(***************************************************************************)
EXTENDS Integers, Sequences, SequencesExt, FiniteSets, FiniteSetsExt, Functions

CONSTANTS
  Node,         \* the addresses of the nodes, which are the ids of their units
  ListBytes,    \* the bytes of devices_list, 32 in the code
  Stale,        \* how many bytes a node with nothing to say may send when it is
                \*   polled by mistake, which old bytes of its buffer decide
  Preempted,    \* whether the interrupt of the bus may come within txdata++
  RestartIn,    \* in which phases of the program it may be restarted
  RebootIn,     \* in which of them a node may lose its power
  MaxRestarts,  \* bound: restarts of the program
  MaxReboots,   \* bound: how often a node loses its power
  MaxChanges,   \* bound: changes of the inputs
  MaxLine,      \* bound: bytes the program has not read when a node is polled
  MaxPending    \* bound: messages a node has queued when an input changes

DEV_ID == 1
ReadInput == 19
Broadcast == 255
NotComplete == 255
Seed == 170

VARIABLES
  input,        \* DebouncedData of a node
  tx, txdata,   \* the messages of a node in net.tx, and net.txdata
  main,         \* what the main loop of a node does
  loaded,       \* the value of txdata it is about to increment
  rx,           \* the messages for a node
  toBus,        \* what the program sent to the master: net.tx there
  devices,      \* devices_list of the master
  pos,          \* the node it polled last; 0 when it looks at net.tx first
  scanning,     \* whether it is in try_transmit, between the broadcast and request_all
  line,         \* the bytes on their way to the program
  buffer,       \* UART::buffer
  found,        \* Unit::on_layout of all units, or {} before modules_found
  known,        \* r_state of the port for the input of each node
  phase,        \* how far InitFindModules is
  restarts, reboots, changes

node == <<input, tx, txdata, main, loaded, rx>>
master == <<toBus, devices, pos, scanning>>
program == <<buffer, found, known, phase>>
bounds == <<restarts, reboots, changes>>
vars == <<node, master, line, program, bounds>>

Init ==
  /\ input = [n \in Node |-> 0]
  /\ tx = [n \in Node |-> <<<<DEV_ID>>>>] /\ txdata = [n \in Node |-> 1]
  /\ main = [n \in Node |-> "loop"] /\ loaded = [n \in Node |-> 0]
  /\ rx = [n \in Node |-> <<>>]
  /\ toBus = <<>> /\ devices = {} /\ pos = 0 /\ scanning = FALSE
  /\ line = <<>>
  /\ buffer = <<>> /\ found = {} /\ known = [n \in Node |-> 0] /\ phase = "start"
  /\ restarts = 0 /\ reboots = 0 /\ changes = 0

Bit(byte, i) == (byte \div 2 ^ i) % 2
Xor == [p \in (0..255) \X (0..255) |->
          SumSet({2 ^ i : i \in {j \in 0..7 : Bit(p[1], j) # Bit(p[2], j)}})]

\* The exclusive or of the seed and the bytes, and the message that ends in it.
XorAll(bytes) ==
  LET upTo[i \in 0..Len(bytes)] == IF i = 0 THEN Seed ELSE Xor[upTo[i - 1], bytes[i]]
  IN upTo[Len(bytes)]
Sealed(bytes) == Append(bytes, XorAll(bytes))

----------------------------------------------------------------------------
\* The nodes

InputMessage(value) == Sealed(<<ReadInput, 0, 1, value>>)

\* NotifyInputChange writes the message and then increments txdata, which the
\* interrupt that answers a poll decrements.
NotifyInputChange(n, value) ==
  /\ tx' = [tx EXCEPT ![n] = Append(@, InputMessage(value))]
  /\ IF Preempted THEN /\ main' = [main EXCEPT ![n] = "counting"]
                       /\ loaded' = [loaded EXCEPT ![n] = txdata[n]]
                       /\ UNCHANGED txdata
     ELSE /\ txdata' = [txdata EXCEPT ![n] = @ + 1]
          /\ UNCHANGED <<main, loaded>>

\* The debounced input changes.
Change(n) ==
  /\ main[n] = "loop" /\ changes < MaxChanges /\ Len(tx[n]) < MaxPending
  /\ input' = [input EXCEPT ![n] = 1 - @]
  /\ NotifyInputChange(n, 1 - input[n])
  /\ changes' = changes + 1
  /\ UNCHANGED <<rx, master, line, program, restarts, reboots>>

StoreCount(n) ==
  /\ main[n] = "counting"
  /\ txdata' = [txdata EXCEPT ![n] = loaded[n] + 1]
  /\ main' = [main EXCEPT ![n] = "loop"]
  /\ loaded' = [loaded EXCEPT ![n] = 0]
  /\ UNCHANGED <<input, tx, rx, master, line, program, bounds>>

\* Mutant: the DEV_ID is not counted.
ResetBusUncounted(n) ==
  /\ tx' = [tx EXCEPT ![n] = <<<<DEV_ID>>>>]
  /\ txdata' = [txdata EXCEPT ![n] = 0]
  /\ rx' = [rx EXCEPT ![n] = <<>>]

\* reset_bus of a node: it forgets what it had to say but its DEV_ID, and what
\* it was told.
ResetBus(n) ==
  /\ tx' = [tx EXCEPT ![n] = <<<<DEV_ID>>>>]
  /\ txdata' = [txdata EXCEPT ![n] = 1]
  /\ rx' = [rx EXCEPT ![n] = <<>>]

\* A node reads a message; after a reset it waits until it was polled.
ReadMessage(n) ==
  /\ main[n] = "loop" /\ rx[n] # <<>>
  /\ IF Head(rx[n]) = "reset"
     THEN ResetBus(n) /\ main' = [main EXCEPT ![n] = "identifying"] /\ UNCHANGED loaded
     ELSE NotifyInputChange(n, input[n]) /\ rx' = [rx EXCEPT ![n] = Tail(@)]
  /\ UNCHANGED <<input, master, line, program, bounds>>

Identified(n) ==
  /\ main[n] = "identifying" /\ tx[n] = <<>>
  /\ main' = [main EXCEPT ![n] = "loop"]
  /\ UNCHANGED <<input, tx, txdata, loaded, rx, master, line, program, bounds>>

\* A node loses its power and starts again, with no input seen yet.
Reboot(n) ==
  /\ reboots < MaxReboots /\ phase \in RebootIn
  /\ ResetBus(n)
  /\ input' = [input EXCEPT ![n] = 0]
  /\ main' = [main EXCEPT ![n] = "loop"]
  /\ loaded' = [loaded EXCEPT ![n] = 0]
  /\ reboots' = reboots + 1
  /\ UNCHANGED <<master, line, program, restarts, changes>>

----------------------------------------------------------------------------
\* The master

\* Whether a node that is polled sends, and what.
Answers(n) == txdata[n] > 0
Said(n) == IF tx[n] # <<>> THEN {Head(tx[n])}
           ELSE {[i \in 1..k |-> 0] : k \in Stale}
Counted(ns) == txdata' = [n \in Node |-> IF n \in ns THEN txdata[n] - 1 ELSE txdata[n]]
Spoken(ns) == tx' = [n \in Node |-> IF n \in ns /\ tx[n] # <<>> THEN Tail(tx[n]) ELSE tx[n]]

\* request_registered polls the next node of the list; after the last one the
\* loop starts again.
Poll ==
  /\ ~scanning /\ Len(line) <= MaxLine
  /\ LET next == {n \in devices : n > pos}
     IN IF next = {} THEN /\ pos # 0 /\ pos' = 0 /\ UNCHANGED <<tx, txdata, line>>
        ELSE LET n == Min(next)
             IN /\ pos' = n
                /\ IF Answers(n)
                   THEN /\ \E said \in Said(n) : line' = line \o <<n>> \o said
                        /\ Counted({n}) /\ Spoken({n})
                   ELSE UNCHANGED <<tx, txdata, line>>
  /\ UNCHANGED <<input, main, loaded, rx, toBus, devices, scanning, program, bounds>>

\* try_transmit sends the first message it was given to its node; one for a
\* node that is not on the list is dropped.
TryTransmit ==
  /\ pos = 0 /\ ~scanning /\ toBus # <<>>
  /\ toBus' = Tail(toBus)
  /\ LET to == Head(toBus)
     IN IF to = Broadcast
        THEN /\ rx' = [n \in Node |-> Append(rx[n], "reset")]
             /\ scanning' = TRUE
        ELSE /\ rx' = [n \in Node |-> IF n = to /\ n \in devices
                                      THEN Append(rx[n], "request") ELSE rx[n]]
             /\ UNCHANGED scanning
  /\ UNCHANGED <<input, tx, txdata, main, loaded, devices, pos, line, program, bounds>>

DeviceByte(ns, i) == SumSet({2 ^ (n % 8) : n \in {m \in ns : m \div 8 = i}})
DeviceList(ns) ==
  <<Broadcast>> \o Sealed(<<DEV_ID>> \o [i \in 1..ListBytes |-> DeviceByte(ns, i - 1)])

\* request_all, a second after the broadcast, in which every node has read it:
\* who answers is on the list, and what they said is dropped.
RequestAll ==
  /\ scanning
  /\ \A n \in Node : \/ main[n] = "identifying" /\ tx[n] # <<>>
                     \/ main[n] = "loop" /\ rx[n] = <<>>
  /\ LET ns == {n \in Node : Answers(n)}
     IN /\ devices' = ns
        /\ Counted(ns) /\ Spoken(ns)
        /\ line' = line \o DeviceList(ns)
  /\ scanning' = FALSE
  /\ UNCHANGED <<input, main, loaded, rx, toBus, pos, program, bounds>>

----------------------------------------------------------------------------
\* The program

\* Mutant: the checksum is not counted.
PacketLengthShort(buf) ==
  CASE Len(buf) < 2 -> NotComplete
    [] Len(buf) >= 2 /\ buf[2] = DEV_ID -> ListBytes + 3
    [] Len(buf) >= 2 /\ buf[2] = ReadInput /\ Len(buf) < 4 -> NotComplete
    [] Len(buf) >= 4 /\ buf[2] = ReadInput -> (buf[4] + 4) % 256
    [] OTHER -> 1

\* COM_Packet_Length: how long the packet at the front of the buffer is.  The
\* opcodes that nobody sends are left out.
PacketLength(buf) ==
  CASE Len(buf) < 2 -> NotComplete
    [] Len(buf) >= 2 /\ buf[2] = DEV_ID -> ListBytes + 3
    [] Len(buf) >= 2 /\ buf[2] = ReadInput /\ Len(buf) < 4 -> NotComplete
    [] Len(buf) >= 4 /\ buf[2] = ReadInput -> (buf[4] + 5) % 256
    [] OTHER -> 1

\* A packet of one byte only restores the spacing; one with a wrong checksum is
\* dropped.
Valid(packet) == Len(packet) > 1 /\ XorAll(Tail(packet)) = 0

\* What the packet does to found and known: UART_DEV_ID and UART_ReadInput.
Taken(st, packet) ==
  IF ~Valid(packet) THEN st
  ELSE IF packet[2] = DEV_ID
  THEN [st EXCEPT !.found = {n \in Node : Bit(packet[3 + n \div 8], n % 8) = 1}]
  ELSE IF packet[1] \in Node THEN [st EXCEPT !.known[packet[1]] = packet[5]] ELSE st

\* parse takes all packets that are complete.
RECURSIVE Parse(_)
Parse(st) ==
  LET length == PacketLength(st.buffer)
  IN IF length = NotComplete \/ length > Len(st.buffer) THEN st
     ELSE Parse([Taken(st, SubSeq(st.buffer, 1, length))
                   EXCEPT !.buffer = SubSeq(st.buffer, length + 1, Len(st.buffer))])

\* The UART thread reads one byte, or all there are up to 32, and parses them.
Receive ==
  /\ line # <<>>
  /\ \E k \in {1, Min({32, Len(line)})} :
       LET st == Parse([buffer |-> buffer \o SubSeq(line, 1, k), found |-> found,
                        known |-> known])
       IN /\ line' = SubSeq(line, k + 1, Len(line))
          /\ buffer' = st.buffer /\ found' = st.found /\ known' = st.known
  /\ UNCHANGED <<node, master, phase, bounds>>

\* InitFindModules resets the nodes, waits for the list and asks each unit on
\* it for its inputs.
DevReset ==
  /\ phase = "start"
  /\ phase' = "finding"
  /\ toBus' = Append(toBus, Broadcast)
  /\ UNCHANGED <<node, devices, pos, scanning, line, buffer, found, known, bounds>>

RequestInputs ==
  /\ phase = "finding" /\ found # {}
  /\ phase' = "run"
  /\ toBus' = toBus \o SetToSortSeq(found, <)
  /\ UNCHANGED <<node, devices, pos, scanning, line, buffer, found, known, bounds>>

\* The program is started again; resetDevice restarts the master too.
Restart ==
  /\ restarts < MaxRestarts /\ phase \in RestartIn
  /\ restarts' = restarts + 1
  /\ phase' = "start"
  /\ toBus' = <<>> /\ devices' = {} /\ pos' = 0 /\ scanning' = FALSE /\ line' = <<>>
  /\ buffer' = <<>> /\ found' = {} /\ known' = [n \in Node |-> 0]
  /\ UNCHANGED <<node, reboots, changes>>

Next ==
  \/ \E n \in Node : \/ Change(n) \/ StoreCount(n) \/ ReadMessage(n)
                     \/ Identified(n) \/ Reboot(n)
  \/ Poll \/ TryTransmit \/ RequestAll
  \/ Receive \/ DevReset \/ RequestInputs \/ Restart

Spec == Init /\ [][Next]_vars

\* The loops of the nodes, of the master, of the UART thread and of the start
\* of the algorithm go on.
FairSpec ==
  /\ Spec
  /\ \A n \in Node : WF_vars(StoreCount(n)) /\ WF_vars(ReadMessage(n)) /\ WF_vars(Identified(n))
  /\ WF_vars(Poll) /\ WF_vars(RequestAll) /\ SF_vars(TryTransmit)
  /\ WF_vars(Receive) /\ WF_vars(DevReset) /\ WF_vars(RequestInputs)

----------------------------------------------------------------------------
\* Properties

TypeOK ==
  /\ input \in [Node -> {0, 1}] /\ known \in [Node -> 0..255]
  /\ txdata \in [Node -> 0..255] /\ loaded \in [Node -> 0..255]
  /\ main \in [Node -> {"loop", "counting", "identifying"}]
  /\ devices \subseteq Node /\ found \subseteq Node /\ pos \in Node \cup {0}
  /\ ToSet(line) \subseteq 0..255 /\ Len(buffer) < 255
  /\ phase \in {"start", "finding", "run"}

\* Nothing is under way but what lies in the buffer of the program.
Settled ==
  /\ phase = "run" /\ toBus = <<>> /\ line = <<>>
  /\ \A n \in Node : main[n] = "loop" /\ rx[n] = <<>> /\ tx[n] = <<>> /\ txdata[n] = 0

\* Whatever was lost in a restart and however the packets were cut, once nothing
\* is under way the program knows all its units and the state of their inputs.
InputsKnown == Settled => found = Node /\ known = input

\* Every start ends with all nodes heard, and every change is told.
Settles == <>[]Settled
=============================================================================
