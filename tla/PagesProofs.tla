----------------------------- MODULE PagesProofs -----------------------------
(***************************************************************************)
(* Proofs about the pages, for any number of pages, trains, clicks and     *)
(* messages under way.  An emergency stop: all pages show the same once    *)
(* they have received all (PagesAgree), and, with a Z21, whether the track *)
(* has power (ShowsPower).  Driving: a page whose slider is not held sends *)
(* no speed, with one finger at a time (HeldSends); with threads that do   *)
(* not preempt each other the server does as if it changed a train and told*)
(* of it in one step (Driven!AtOnce), and so the pages that only watch a   *)
(* train show its speed once nothing is under way (WatchersFollow).        *)
(* The library: an engine that is in use has its address (AddressOwned),   *)
(* and a page that has received all shows what the server has, under its   *)
(* ids (ShownByIds), and what is in the file (ShownIsKept).  The messages: *)
(* a page that has received all shows one for each train that was found    *)
(* and not linked (ShowsOpen).                                             *)
(***************************************************************************)
EXTENDS MCPages, SequenceTheorems, WellFoundedInduction, TLAPS

-----------------------------------------------------------------------------
(* The emergency stop *)

(***************************************************************************)
(* The last message on its way to a page is the last that was broadcast,   *)
(* and the last report on its way to the server tells the power there is.  *)
(* Neither PagesAgree nor ShowsPower is inductive without them: both speak *)
(* only of what is left when the last of them was received.                *)
(***************************************************************************)
LastUnderWay == \A p \in Page : toPage[p] # <<>> => toPage[p][Len(toPage[p])] = last
LastReport == fromZ21 # <<>> => fromZ21[Len(fromZ21)] = power

\* With nothing asked of a Z21, all pages were told of its power last.
Z21Quiet == connected /\ fromZ21 = <<>> /\ toZ21 = <<>> /\ \A p \in Page : command[p] = "none"
PowerTold == Z21Quiet => last = OpFor(power)

IInv == TypeOK /\ LastUnderWay /\ PagesAgree /\ LastReport /\ PowerTold

\* What Tail leaves of a sequence has the same last element.
LEMMA LastOfTail ==
  ASSUME NEW S, NEW s \in Seq(S), s # <<>>
  PROVE  /\ Tail(s) \in Seq(S) /\ Head(s) \in S
         /\ Tail(s) = <<>> => Head(s) = s[Len(s)]
         /\ Tail(s) # <<>> => Tail(s)[Len(Tail(s))] = s[Len(s)]
<1>1. Len(s) \in Nat \ {0} /\ Head(s) = s[1]
  BY EmptySeq
<1>2. Tail(s) \in Seq(S) /\ Head(s) \in S /\ Len(Tail(s)) = Len(s) - 1
      /\ \A i \in 1..Len(Tail(s)) : Tail(s)[i] = s[i + 1]
  BY HeadTailProperties
<1>3. Tail(s) = <<>> => Len(s) = 1
  BY <1>1, <1>2, EmptySeq
<1>4. Tail(s) # <<>> => Len(Tail(s)) \in 1..Len(Tail(s))
  BY <1>2, EmptySeq
<1> QED
  BY <1>1, <1>2, <1>3, <1>4

LEMMA LastOfAppend ==
  ASSUME NEW S, NEW s \in Seq(S), NEW x \in S
  PROVE  /\ Append(s, x) \in Seq(S) /\ Append(s, x) # <<>>
         /\ Append(s, x)[Len(Append(s, x))] = x
  BY AppendProperties

\* The start: no stop, and the track has power (Init).
LEMMA InitIInv == Init => IInv
<1> SUFFICES ASSUME Init PROVE IInv
  OBVIOUS
<1> USE DEF Init
<1>1. TypeOK
  <2>1. <<>> \in Seq(Op) /\ <<>> \in Seq(BOOLEAN)
    BY EmptySeq
  <2>2. "none" \in Op \cup {"none"} /\ "clear" \in Op
    BY DEF Op
  <2> QED
    BY <2>1, <2>2 DEF TypeOK
<1>2. LastUnderWay /\ LastReport
  BY DEF LastUnderWay, LastReport
<1>3. PagesAgree
  <2>1. \A p \in Page : enabled[p] = FALSE
    OBVIOUS
  <2>2. (last = "stop") = FALSE
    OBVIOUS
  <2> QED
    BY <2>1, <2>2 DEF PagesAgree
<1>4. PowerTold
  BY DEF PowerTold, OpFor
<1> QED
  BY <1>1, <1>2, <1>3, <1>4 DEF IInv

\* The page's part of the invariant, and the Z21's.
PagePart == LastUnderWay /\ PagesAgree
PowerPart == LastReport /\ PowerTold

\* After a broadcast nothing is settled, and the last message under way to each
\* page is this one.
LEMMA BroadcastTells ==
  ASSUME TypeOK, NEW op \in Op, Broadcast(op)
  PROVE  toPage' \in [Page -> Seq(Op)] /\ last' \in Op /\ PagePart'
<1>1. last' = op /\ toPage' = [p \in Page |-> Append(toPage[p], op)]
  BY DEF Broadcast
<1>2. \A p \in Page : /\ toPage'[p] \in Seq(Op) /\ toPage'[p] # <<>>
                      /\ toPage'[p][Len(toPage'[p])] = op
  <2> TAKE p \in Page
  <2>1. toPage[p] \in Seq(Op) /\ toPage'[p] = Append(toPage[p], op)
    BY <1>1 DEF TypeOK
  <2> QED
    BY <2>1, LastOfAppend
<1>3. LastUnderWay' /\ PagesAgree'
  BY <1>1, <1>2 DEF LastUnderWay, PagesAgree, Settled
<1> QED
  BY <1>1, <1>2, <1>3 DEF PagePart

\* Who leaves these variables alone disturbs neither part.
LEMMA PagesStay ==
  ASSUME PagePart, UNCHANGED <<enabled, toServer, toPage, last>>
  PROVE  PagePart'
  BY DEF PagePart, LastUnderWay, PagesAgree, Settled

LEMMA PowerStays ==
  ASSUME PowerPart, UNCHANGED <<command, z21, last>>
  PROVE  PowerPart'
  BY DEF PowerPart, LastReport, PowerTold, Z21Quiet, z21

\* One lemma for each action.  A click leaves the page with something to send.
LEMMA ToggleIInv ==
  ASSUME IInv, NEW p \in Page, Toggle(p)
  PROVE  IInv'
<1> DEFINE op == IF enabled[p] THEN "clear" ELSE "stop"
<1>1. /\ enabled' = [enabled EXCEPT ![p] = ~enabled[p]]
      /\ toServer' = [toServer EXCEPT ![p] = Append(toServer[p], op)]
  <2>1. CASE enabled[p]
    BY <2>1 DEF Toggle, Unset, IInv, TypeOK
  <2>2. CASE ~enabled[p]
    BY <2>2 DEF Toggle, Set, IInv, TypeOK
  <2> QED
    BY <2>1, <2>2
<1>2. UNCHANGED <<toPage, command, z21, last>>
  BY DEF Toggle
<1>3. Append(toServer[p], op) \in Seq(Op) /\ Append(toServer[p], op) # <<>>
  <2>1. op \in Op /\ toServer[p] \in Seq(Op)
    BY DEF IInv, TypeOK, Op
  <2> HIDE DEF op
  <2> QED
    BY <2>1, LastOfAppend
<1>4. TypeOK'
  BY <1>1, <1>2, <1>3 DEF IInv, TypeOK, z21
<1>5. LastUnderWay'
  BY <1>2 DEF IInv, LastUnderWay
<1>6. PagesAgree'
  <2> SUFFICES ASSUME NEW q \in Page, Settled(q)'
               PROVE  enabled'[q] = (last' = "stop")
    BY DEF PagesAgree
  <2>1. q # p /\ Settled(q)
    BY <1>1, <1>2, <1>3 DEF Settled, IInv, TypeOK
  <2>2. enabled'[q] = enabled[q]
    BY <1>1, <2>1 DEF IInv, TypeOK
  <2> QED
    BY <1>2, <2>1, <2>2 DEF IInv, PagesAgree
<1>7. PowerPart'
  BY <1>2, PowerStays DEF IInv, PowerPart
<1> QED
  BY <1>4, <1>5, <1>6, <1>7 DEF IInv, PowerPart

\* A message is received: when it was the last on its way, it was the last of
\* all, and the page now shows what it says.
LEMMA ReceiveIInv ==
  ASSUME IInv, NEW p \in Page, Receive(p)
  PROVE  IInv'
<1> DEFINE op == Head(toPage[p])
<1>1. /\ toPage[p] \in Seq(Op) /\ toPage[p] # <<>> /\ toServer[p] \in Seq(Op)
      /\ toPage' = [toPage EXCEPT ![p] = Tail(@)]
      /\ UNCHANGED <<command, z21, last>>
  BY DEF Receive, IInv, TypeOK
<1>2. /\ Tail(toPage[p]) \in Seq(Op) /\ op \in Op
      /\ Tail(toPage[p]) = <<>> => op = last
      /\ Tail(toPage[p]) # <<>> => Tail(toPage[p])[Len(Tail(toPage[p]))] = last
  BY <1>1, LastOfTail DEF IInv, LastUnderWay
<1>3. /\ enabled' = [enabled EXCEPT ![p] = (op = "stop")]
      /\ toServer' \in [Page -> Seq(Op)]
      /\ \A q \in Page \ {p} : toServer'[q] = toServer[q]
  <2>1. CASE op = "stop"
    <3>1. Append(toServer[p], "stop") \in Seq(Op)
      BY <1>1, LastOfAppend DEF Op
    <3> QED
      BY <2>1, <3>1 DEF Receive, Set, IInv, TypeOK
  <2>2. CASE op # "stop"
    BY <2>2 DEF Receive, Unset, IInv, TypeOK
  <2> QED
    BY <2>1, <2>2
<1>4. TypeOK'
  BY <1>1, <1>2, <1>3 DEF IInv, TypeOK, z21
<1>5. LastUnderWay'
  BY <1>1, <1>2 DEF IInv, TypeOK, LastUnderWay
<1>6. PagesAgree'
  <2> SUFFICES ASSUME NEW q \in Page, Settled(q)'
               PROVE  enabled'[q] = (last' = "stop")
    BY DEF PagesAgree
  <2>1. CASE q = p
    <3>1. op = last
      BY <1>1, <1>2, <2>1 DEF Settled, IInv, TypeOK
    <3> QED
      BY <1>1, <1>3, <2>1, <3>1 DEF IInv, TypeOK
  <2>2. CASE q # p
    <3>1. Settled(q) /\ enabled'[q] = enabled[q]
      BY <1>1, <1>3, <2>2 DEF Settled, IInv, TypeOK
    <3> QED
      BY <1>1, <3>1 DEF IInv, PagesAgree
  <2> QED
    BY <2>1, <2>2
<1>7. PowerPart'
  BY <1>1, PowerStays DEF IInv, PowerPart
<1> QED
  BY <1>4, <1>5, <1>6, <1>7 DEF IInv, PowerPart

\* A client thread broadcasts what its page asked for, and owes the Z21 its
\* command from then on.
LEMMA ServeIInv ==
  ASSUME IInv, NEW p \in Page, Serve(p)
  PROVE  IInv'
<1>1. toServer[p] \in Seq(Op) /\ toServer[p] # <<>>
  BY DEF Serve, IInv, TypeOK
<1>2. Head(toServer[p]) \in Op /\ Tail(toServer[p]) \in Seq(Op)
  BY <1>1, LastOfTail
<1>3. toPage' \in [Page -> Seq(Op)] /\ last' \in Op /\ PagePart'
  BY <1>2, BroadcastTells DEF Serve, IInv
<1>4. TypeOK'
  BY <1>2, <1>3 DEF Serve, IInv, TypeOK, z21
<1>5. command'[p] # "none"
  BY <1>2 DEF Serve, IInv, TypeOK, Op
<1>6. PowerPart'
  BY <1>5 DEF Serve, IInv, PowerPart, LastReport, PowerTold, Z21Quiet, z21
<1> QED
  BY <1>3, <1>4, <1>6 DEF IInv, PagePart, PowerPart

\* The Z21 is commanded: with one, that is on its way then.
LEMMA CommandIInv ==
  ASSUME IInv, NEW p \in Page, Command(p)
  PROVE  IInv'
<1>1. PowerFor(command[p]) \in BOOLEAN /\ toZ21 \in Seq(BOOLEAN)
  BY DEF PowerFor, IInv, TypeOK
<1>2. /\ Append(toZ21, PowerFor(command[p])) \in Seq(BOOLEAN)
      /\ Append(toZ21, PowerFor(command[p])) # <<>>
  BY <1>1, LastOfAppend
<1>3. TypeOK'
  BY <1>2 DEF Command, IInv, TypeOK, pages
<1>4. PagePart'
  BY PagesStay DEF Command, IInv, PagePart, pages
<1>5. PowerPart'
  BY <1>2 DEF Command, IInv, PowerPart, LastReport, PowerTold, Z21Quiet
<1> QED
  BY <1>3, <1>4, <1>5 DEF IInv, PagePart, PowerPart

\* A report is broadcast: the last one tells the power there is.
LEMMA ReportIInv ==
  ASSUME IInv, Report
  PROVE  IInv'
<1>1. fromZ21 \in Seq(BOOLEAN) /\ fromZ21 # <<>>
  BY DEF Report, IInv, TypeOK
<1>2. /\ Tail(fromZ21) \in Seq(BOOLEAN) /\ Head(fromZ21) \in BOOLEAN
      /\ Tail(fromZ21) = <<>> => Head(fromZ21) = power
      /\ Tail(fromZ21) # <<>> => Tail(fromZ21)[Len(Tail(fromZ21))] = power
  BY <1>1, LastOfTail DEF IInv, LastReport
<1>3. OpFor(Head(fromZ21)) \in Op
  BY DEF OpFor, Op
<1>4. toPage' \in [Page -> Seq(Op)] /\ last' \in Op /\ PagePart'
  BY <1>3, BroadcastTells DEF Report, IInv
<1>5. TypeOK'
  BY <1>2, <1>4 DEF Report, IInv, TypeOK, pages
<1>6. LastReport'
  BY <1>2 DEF Report, LastReport
<1>7. PowerTold'
  BY <1>2 DEF Report, Broadcast, PowerTold, Z21Quiet
<1> QED
  BY <1>4, <1>5, <1>6, <1>7 DEF IInv, PagePart

\* The power changes at the Z21, which reports it.
LEMMA PowerIInv ==
  ASSUME IInv, NEW on \in BOOLEAN,
         power' = on, fromZ21' = Append(fromZ21, on), toZ21' \in Seq(BOOLEAN),
         UNCHANGED <<pages, toPage, command, connected, last>>
  PROVE  IInv'
<1>1. /\ fromZ21' \in Seq(BOOLEAN) /\ fromZ21' # <<>>
      /\ fromZ21'[Len(fromZ21')] = power'
  BY LastOfAppend DEF IInv, TypeOK
<1>2. TypeOK'
  BY <1>1 DEF IInv, TypeOK, pages
<1>3. PagePart'
  BY PagesStay DEF IInv, PagePart, pages
<1>4. LastReport' /\ PowerTold'
  BY <1>1 DEF LastReport, PowerTold, Z21Quiet
<1> QED
  BY <1>2, <1>3, <1>4 DEF IInv, PagePart

LEMMA StepIInv == IInv /\ [Next]_vars => IInv'
<1> SUFFICES ASSUME IInv, [Next]_vars PROVE IInv'
  OBVIOUS
<1>1. ASSUME NEW p \in Page, Toggle(p) PROVE IInv'
  BY <1>1, ToggleIInv
<1>2. ASSUME NEW p \in Page, Receive(p) PROVE IInv'
  BY <1>2, ReceiveIInv
<1>3. ASSUME NEW p \in Page, Serve(p) PROVE IInv'
  BY <1>3, ServeIInv
<1>4. ASSUME NEW p \in Page, Command(p) PROVE IInv'
  BY <1>4, CommandIInv
<1>5. CASE Report
  BY <1>5, ReportIInv
<1>6. CASE SetPower
  <2>1. Head(toZ21) \in BOOLEAN /\ Tail(toZ21) \in Seq(BOOLEAN)
    BY <1>6, LastOfTail DEF SetPower, IInv, TypeOK
  <2> QED
    BY <1>6, <2>1, PowerIInv DEF SetPower
<1>7. CASE SwitchPower
  <2>1. (~power) \in BOOLEAN /\ toZ21' \in Seq(BOOLEAN)
    BY <1>7 DEF SwitchPower, IInv, TypeOK
  <2> QED
    BY <1>7, <2>1, PowerIInv DEF SwitchPower
<1>8. CASE UNCHANGED vars
  BY <1>8, PagesStay, PowerStays DEF vars, pages, z21, IInv, TypeOK, PagePart, PowerPart
<1> QED
  BY <1>1, <1>2, <1>3, <1>4, <1>5, <1>6, <1>7, <1>8 DEF Next

LEMMA AlwaysIInv == Spec => []IInv
<1> QED
  BY InitIInv, StepIInv, PTL DEF Spec

----------------------------------------------------------------------------
\* What is sent and shown keeps its type, for any number of pages.
THEOREM StopTyped == Spec => []TypeOK
<1>1. IInv => TypeOK
  BY DEF IInv
<1> QED
  BY <1>1, AlwaysIInv, PTL

\* Pages that have received everything show the same, whoever clicked and
\* however the echoes of the pages crossed (emergency.js, cts.cpp).
THEOREM Agreed == Spec => []PagesAgree
<1>1. IInv => PagesAgree
  BY DEF IInv
<1> QED
  BY <1>1, AlwaysIInv, PTL

\* With a Z21 that has answered all commands they show a stop if and only if
\* the track has no power (cts.cpp, Z21.cpp).
THEOREM PowerShown == Spec => []ShowsPower
<1>1. ASSUME IInv PROVE ShowsPower
  <2> SUFFICES ASSUME Z21Quiet, NEW p \in Page, Settled(p)
               PROVE  enabled[p] = ~power
    BY DEF ShowsPower, Z21Quiet
  <2>1. enabled[p] = (last = "stop") /\ last = OpFor(power) /\ power \in BOOLEAN
    BY <1>1 DEF IInv, PagesAgree, PowerTold, TypeOK
  <2> QED
    BY <2>1 DEF OpFor
<1> QED
  BY <1>1, AlwaysIInv, PTL

(***************************************************************************)
(* Driving.  Neither property is inductive.  The timeouts of a page are    *)
(* counted by its fingers only because the handlers are bound exactly while*)
(* one is down, and because the timeout that runs is the one that is       *)
(* cleared.  What a page shows, while messages are under way, is decided by*)
(* the last message about the train, or by the subscription that is still  *)
(* to be answered; and a train nobody has turned gets no speed that nobody *)
(* is told of, since all that is known and under way agrees on its         *)
(* direction.                                                              *)
(***************************************************************************)

-----------------------------------------------------------------------------
(* Sequences of messages about trains                                      *)

\* The last message about t in line has the speed v, or there is none and v is
\* what was known of it before.
Latest(line, t, before, v) ==
  \/ \E i \in 1..Len(line) :
       /\ line[i].train = t /\ line[i].speed = v
       /\ \A j \in 1..Len(line) : j > i => line[j].train # t
  \/ before = v /\ \A i \in 1..Len(line) : line[i].train # t

\* One more message does not change that, unless it is about t.
LEMMA LatestAppend ==
  ASSUME NEW line \in Seq(Driven!ToPage), NEW m \in Driven!ToPage, NEW t, NEW before, NEW v,
         IF m.train = t THEN m.speed = v ELSE Latest(line, t, before, v)
  PROVE  Latest(Append(line, m), t, before, v)
<1> DEFINE longer == Append(line, m)
<1>1. /\ Len(line) \in Nat /\ Len(longer) = Len(line) + 1
      /\ longer[Len(line) + 1] = m
      /\ \A i \in 1..Len(line) : longer[i] = line[i]
  BY LenProperties, AppendProperties
<1> HIDE DEF longer
<1>2. \A i \in 1..Len(longer) : i \in 1..Len(line) \/ i = Len(line) + 1
  BY <1>1
<1>3. CASE m.train = t
  <2>1. Len(longer) \in 1..Len(longer) /\ longer[Len(longer)] = m
    BY <1>1
  <2>2. \A j \in 1..Len(longer) : ~(j > Len(longer))
    BY <1>1
  <2> QED BY <1>3, <2>1, <2>2 DEF Latest, longer
<1>4. CASE m.train # t /\ before = v /\ \A i \in 1..Len(line) : line[i].train # t
  <2>1. \A i \in 1..Len(longer) : longer[i].train # t
    BY <1>1, <1>2, <1>4
  <2> QED BY <1>4, <2>1 DEF Latest, longer
<1>5. ASSUME m.train # t, NEW i \in 1..Len(line), line[i].train = t, line[i].speed = v,
             \A j \in 1..Len(line) : j > i => line[j].train # t
      PROVE  Latest(longer, t, before, v)
  <2>1. i \in 1..Len(longer) /\ longer[i].train = t /\ longer[i].speed = v
    BY <1>1, <1>5
  <2>2. \A j \in 1..Len(longer) : j > i => longer[j].train # t
    BY <1>1, <1>2, <1>5
  <2> QED BY <2>1, <2>2 DEF Latest
<1> QED BY <1>3, <1>4, <1>5 DEF Latest, longer

\* The page that reads the first message knows what it said.
LEMMA LatestTail ==
  ASSUME NEW line \in Seq(Driven!ToPage), line # <<>>, NEW t, NEW before, NEW v,
         Latest(line, t, before, v),
         NEW after, after = IF Head(line).train = t THEN Head(line).speed ELSE before
  PROVE  Latest(Tail(line), t, after, v)
<1> DEFINE rest == Tail(line)
<1>1. /\ Len(line) \in Nat \ {0} /\ Len(rest) = Len(line) - 1 /\ Head(line) = line[1]
      /\ \A i \in 1..Len(rest) : rest[i] = line[i + 1]
  BY HeadTailProperties, EmptySeq
<1> HIDE DEF rest
<1>2. \A i \in 1..Len(rest) : i + 1 \in 1..Len(line)
  BY <1>1
<1>3. CASE before = v /\ \A i \in 1..Len(line) : line[i].train # t
  <2>1. 1 \in 1..Len(line)
    BY <1>1
  <2>2. after = v
    BY <1>1, <1>3, <2>1
  <2>3. \A i \in 1..Len(rest) : rest[i].train # t
    BY <1>1, <1>2, <1>3
  <2> QED BY <2>2, <2>3 DEF Latest, rest
<1>4. ASSUME NEW i \in 1..Len(line), line[i].train = t, line[i].speed = v,
             \A j \in 1..Len(line) : j > i => line[j].train # t
      PROVE  Latest(rest, t, after, v)
  <2>1. CASE i = 1
    <3>1. after = v
      BY <1>1, <1>4, <2>1
    <3>2. \A j \in 1..Len(rest) : j + 1 \in 1..Len(line) /\ j + 1 > i
      BY <1>1, <2>1
    <3>3. \A j \in 1..Len(rest) : rest[j].train # t
      BY <1>1, <1>4, <3>2
    <3> QED BY <3>1, <3>3 DEF Latest
  <2>2. CASE i # 1
    <3>1. i - 1 \in 1..Len(rest) /\ rest[i - 1] = line[i]
      BY <1>1, <2>2
    <3>2. \A j \in 1..Len(rest) : j > i - 1 => j + 1 \in 1..Len(line) /\ j + 1 > i
      BY <1>1
    <3>3. \A j \in 1..Len(rest) : j > i - 1 => rest[j].train # t
      BY <1>1, <1>4, <3>2
    <3> QED BY <1>4, <3>1, <3>3 DEF Latest
  <2> QED BY <2>1, <2>2
<1> QED BY <1>3, <1>4 DEF Latest, rest

\* A page that has read everything shows the speed.
LEMMA LatestRead ==
  ASSUME NEW t, NEW before, NEW v, Latest(<<>>, t, before, v)
  PROVE  before = v
BY DEF Latest

-----------------------------------------------------------------------------
(* Sequences that get longer and shorter *)

\* A part of a sequence
LEMMA Part ==
  ASSUME NEW S, NEW s \in Seq(S), NEW m \in Int, NEW n \in Int, 1 <= m, m <= n + 1, n <= Len(s)
  PROVE  SubSeq(s, m, n) \in Seq(S) /\ Len(SubSeq(s, m, n)) = n - m + 1
<1>1. Len(s) \in Nat /\ \A j \in 1..Len(s) : s[j] \in S
  BY LenProperties, ElementOfSeq
<1>2. \A j \in m..n : s[j] \in S
  BY <1>1
<1> DEFINE piece == SubSeq(s, m, n)
<1>3. piece \in Seq(S) /\ Len(piece) = IF m <= n THEN n - m + 1 ELSE 0
  BY <1>2, SubSeqProperties
<1> HIDE DEF piece
<1>4. Len(piece) = n - m + 1
  BY <1>3
<1> QED BY <1>3, <1>4 DEF piece

\* Front and RemoveAt of a sequence that is not empty
LEMMA Shorter ==
  ASSUME NEW S, NEW s \in Seq(S), NEW i \in 1..Len(s)
  PROVE  /\ Control!Front(s) \in Seq(S) /\ Len(Control!Front(s)) = Len(s) - 1
         /\ Control!RemoveAt(s, i) \in Seq(S) /\ Len(Control!RemoveAt(s, i)) = Len(s) - 1
<1> DEFINE n == Len(s)
           f == SubSeq(s, 1, n - 1)
           a == SubSeq(s, 1, i - 1)
           b == SubSeq(s, i + 1, n)
<1>1. n \in Nat /\ i \in Int /\ 1 <= i /\ i <= n
  BY LenProperties
<1> HIDE DEF n, f, a, b
<1>2. f \in Seq(S) /\ Len(f) = n - 1 - 1 + 1
  <2> DEFINE k == n - 1
  <2>1. k \in Int /\ 1 \in Int /\ 1 <= 1 /\ 1 <= k + 1 /\ k <= Len(s)
    BY <1>1 DEF n
  <2> HIDE DEF k
  <2>2. SubSeq(s, 1, k) \in Seq(S) /\ Len(SubSeq(s, 1, k)) = k - 1 + 1
    BY <2>1, Part
  <2> QED BY <2>2 DEF f, k
<1>3. a \in Seq(S) /\ Len(a) = i - 1 - 1 + 1
  <2>1. i - 1 \in Int /\ 1 <= i - 1 + 1 /\ i - 1 <= n
    BY <1>1
  <2> QED BY <1>1, <2>1, Part DEF a, n
<1>4. b \in Seq(S) /\ Len(b) = n - (i + 1) + 1
  <2>1. i + 1 \in Int /\ 1 <= i + 1 /\ i + 1 <= n + 1 /\ n <= n /\ n \in Int
    BY <1>1
  <2> QED BY <1>1, <2>1, Part DEF b, n
<1>5. a \o b \in Seq(S) /\ Len(a \o b) = Len(a) + Len(b)
  BY <1>3, <1>4, ConcatProperties
<1> DEFINE c == a \o b
<1> HIDE DEF c
<1>6. c \in Seq(S) /\ Len(c) = n - 1
  <2>1. Len(c) = (i - 1 - 1 + 1) + (n - (i + 1) + 1)
    BY <1>3, <1>4, <1>5 DEF c
  <2> QED BY <1>1, <1>5, <2>1 DEF c
<1>7. Control!Front(s) = f /\ Control!RemoveAt(s, i) = c
  BY DEF Control!Front, Control!RemoveAt, f, a, b, c, n
<1>8. Len(f) = n - 1
  BY <1>1, <1>2
<1> QED BY <1>2, <1>6, <1>7, <1>8 DEF n

\* Append to a sequence
LEMMA Longer ==
  ASSUME NEW S, NEW s \in Seq(S), NEW e \in S
  PROVE  Append(s, e) \in Seq(S) /\ Len(Append(s, e)) = Len(s) + 1 /\ Append(s, e) # <<>>
<1>1. Append(s, e) \in Seq(S) /\ Len(Append(s, e)) = Len(s) + 1 /\ Len(s) \in Nat
  BY AppendProperties, LenProperties
<1>2. Len(Append(s, e)) # 0
  BY <1>1
<1> QED BY <1>1, <1>2, EmptySeq
-----------------------------------------------------------------------------
(* Sequences of anything                                                   *)

Line(s) == Len(s) \in Nat /\ s = [i \in 1..Len(s) |-> s[i]]

LEMMA LineOfSeq ==
  ASSUME NEW S, NEW s \in Seq(S)
  PROVE  Line(s) /\ DOMAIN s = 1..Len(s)
<1>1. Len(s) \in Nat /\ DOMAIN s = 1..Len(s)
  BY LenProperties
<1>2. s = [i \in 1..Len(s) |-> s[i]]
  BY <1>1
<1> QED BY <1>1, <1>2 DEF Line

LEMMA SeqOfLine ==
  ASSUME NEW s, Line(s), NEW S, \A i \in 1..Len(s) : s[i] \in S
  PROVE  s \in Seq(S)
<1> DEFINE n == Len(s)
           f == [i \in 1..n |-> s[i]]
<1>1. n \in Nat /\ \A i \in 1..n : s[i] \in S
  BY DEF Line
<1>2. f \in Seq(S)
  <2> HIDE DEF n
  <2> QED BY <1>1, IsASeq
<1>3. s = f
  BY DEF Line
<1> QED BY <1>2, <1>3

LEMMA EmptyLine == Line(<<>>) /\ Len(<<>>) = 0
<1>1. <<>> \in Seq({})
  BY EmptySeq
<1> QED BY <1>1, LineOfSeq

LEMMA LineAppend ==
  ASSUME NEW s, Line(s), NEW x
  PROVE  /\ Line(Append(s, x)) /\ Len(Append(s, x)) = Len(s) + 1
         /\ DOMAIN Append(s, x) = 1..(Len(s) + 1) /\ DOMAIN s = 1..Len(s)
         /\ \A i \in 1..Len(s) : Append(s, x)[i] = s[i]
         /\ Append(s, x)[Len(s) + 1] = x
<1> DEFINE S == {s[i] : i \in 1..Len(s)} \cup {x}
<1>1. s \in Seq(S)
  BY SeqOfLine
<1>2. x \in S
  OBVIOUS
<1> HIDE DEF S
<1>3. /\ Append(s, x) \in Seq(S) /\ Len(Append(s, x)) = Len(s) + 1
      /\ \A i \in 1..Len(s) : Append(s, x)[i] = s[i]
      /\ Append(s, x)[Len(s) + 1] = x
  BY <1>1, <1>2, AppendProperties
<1>4. Line(Append(s, x)) /\ DOMAIN Append(s, x) = 1..Len(Append(s, x)) /\ DOMAIN s = 1..Len(s)
  BY <1>1, <1>3, LineOfSeq
<1> QED BY <1>3, <1>4

LEMMA LineTail ==
  ASSUME NEW s, Line(s), s # <<>>
  PROVE  /\ Line(Tail(s)) /\ Len(Tail(s)) = Len(s) - 1 /\ 1 \in DOMAIN s /\ Head(s) = s[1]
         /\ DOMAIN s = 1..Len(s) /\ DOMAIN Tail(s) = 1..(Len(s) - 1)
         /\ \A i \in DOMAIN Tail(s) : i + 1 \in DOMAIN s /\ Tail(s)[i] = s[i + 1]
<1> DEFINE S == {s[i] : i \in 1..Len(s)}
<1>1. s \in Seq(S)
  BY SeqOfLine
<1> HIDE DEF S
<1>2. Len(s) \in Nat \ {0} /\ Head(s) = s[1] /\ DOMAIN s = 1..Len(s)
  BY <1>1, EmptySeq, LenProperties
<1>3. /\ Tail(s) \in Seq(S) /\ Len(Tail(s)) = Len(s) - 1
      /\ \A i \in 1..Len(Tail(s)) : Tail(s)[i] = s[i + 1]
  BY <1>1, HeadTailProperties
<1>4. Line(Tail(s)) /\ DOMAIN Tail(s) = 1..Len(Tail(s))
  BY <1>3, LineOfSeq
<1> QED BY <1>2, <1>3, <1>4

LEMMA LineOf ==
  ASSUME NEW n \in Nat, NEW f, f = [i \in 1..n |-> f[i]]
  PROVE  Line(f) /\ Len(f) = n /\ DOMAIN f = 1..n
<1> DEFINE S == {f[i] : i \in 1..n}
<1>1. f \in Seq(S)
  <2> DEFINE g == [i \in 1..n |-> f[i]]
  <2>1. \A i \in 1..n : f[i] \in S
    OBVIOUS
  <2> HIDE DEF S
  <2>2. g \in Seq(S)
    BY <2>1, IsASeq
  <2> QED BY <2>2
<1> HIDE DEF S
<1>2. Line(f) /\ DOMAIN f = 1..Len(f) /\ Len(f) \in Nat
  BY <1>1, LineOfSeq DEF Line
<1>3. DOMAIN f = 1..n
  OBVIOUS
<1>4. Len(f) = n
  <2>1. n \in 1..n \/ n = 0
    OBVIOUS
  <2>2. Len(f) \in 1..Len(f) \/ Len(f) = 0
    BY <1>2
  <2> QED BY <1>2, <1>3, <2>1, <2>2
<1> QED BY <1>2, <1>4

-----------------------------------------------------------------------------
(* The sliders *)

\* TypeOK of the sliders and timers
SliderOK ==
  /\ fingers \in [Page -> 0..Fingers]
  /\ handlers \in [Page -> SUBSET Control!Box]
  /\ timers \in [Page -> Seq(Control!Box)]
  /\ current \in [Page -> BOOLEAN]
  /\ \A p \in Page : current[p] => timers[p] # <<>>

\* With one finger at a time, the handlers are bound exactly while it is down,
\* and Train_Control.timer is the timeout that runs.
Sliding ==
  \A p \in Page :
    /\ Len(timers[p]) <= fingers[p]
    /\ fingers[p] # 0 <=> handlers[p] # {}
    /\ timers[p] # <<>> => current[p]

\* The share that driving has in a step of the pages is a step of driving or none.
LEMMA Drives == PagesSpec => Control!Spec
<1>1. PagesInit => Control!Init BY DEF PagesInit
<1>2. [PagesNext]_all => [Control!Next]_(Control!vars)
  BY Zenon DEF PagesNext, all, controlVars, Control!vars, Control!drivingVars, Control!view, Control!slider,
    Control!timer, Control!server, Control!bounds
<1> QED BY <1>1, <1>2, PTL DEF PagesSpec, Control!Spec

\* Only these steps change a slider or a timer.
LEMMA SliderSteps ==
  ASSUME [Control!Next]_(Control!vars)
  PROVE  \/ \E p \in Page, b \in Control!Box, v \in Speed : Control!Press(p, b, v)
         \/ \E p \in Page : Control!Release(p)
         \/ \E p \in Page : \E i \in DOMAIN timers[p] : Control!TimeOut(p, i)
         \/ UNCHANGED <<Control!slider, Control!timer>>
BY Zenon DEF Control!Next, Control!UserOrPage, Control!Times, Control!vars, Control!drivingVars, Control!Move,
  Control!Stop, Control!SetDir, Control!Select, Control!Update, Control!Serve, Control!Change, Control!Turn,
  Control!Build, Control!Send, Control!Return

LEMMA PressSlider ==
  ASSUME Control!ControlAssumption, SliderOK, NEW p \in Page, NEW b \in Control!Box, NEW v \in Speed, Control!Press(p, b, v)
  PROVE  SliderOK' /\ (Fingers = 1 /\ Sliding => Sliding')
<1> USE DEF SliderOK
<1>1. /\ Append(timers[p], b) \in Seq(Control!Box) /\ Append(timers[p], b) # <<>>
      /\ Len(Append(timers[p], b)) = Len(timers[p]) + 1
  BY Longer
<1>2. fingers[p] < Fingers /\ fingers[p] \in 0..Fingers /\ fingers[p] + 1 \in 0..Fingers
  BY DEF Control!ControlAssumption, Control!Press
<1>3. /\ fingers' = [fingers EXCEPT ![p] = fingers[p] + 1]
      /\ handlers' = [handlers EXCEPT ![p] = handlers[p] \cup {b}]
      /\ timers' = [timers EXCEPT ![p] = Append(timers[p], b)]
      /\ current' = [current EXCEPT ![p] = TRUE]
  BY DEF Control!Press
<1>4. SliderOK'
  BY <1>1, <1>2, <1>3
<1>5. ASSUME Fingers = 1, Sliding  PROVE Sliding'
  <2>1. SUFFICES ASSUME NEW q \in Page
                 PROVE  /\ Len(timers'[q]) <= fingers'[q]
                        /\ fingers'[q] # 0 <=> handlers'[q] # {}
                        /\ timers'[q] # <<>> => current'[q]
    BY DEF Sliding
  <2>2. CASE q = p
    <3>1. fingers'[p] = 1 /\ handlers'[p] # {} /\ current'[p]
      BY <1>2, <1>3, <1>5
    <3>2. Len(timers[p]) <= 0 /\ Len(timers[p]) \in Nat
      BY <1>2, <1>5, LenProperties DEF Sliding
    <3>3. timers'[p] = Append(timers[p], b)
      BY <1>3
    <3> QED BY <1>1, <2>2, <3>1, <3>2, <3>3
  <2>3. CASE q # p
    BY <1>3, <1>5, <2>3 DEF Sliding
  <2> QED BY <2>2, <2>3
<1> QED BY <1>4, <1>5

LEMMA ReleaseSlider ==
  ASSUME Control!ControlAssumption, SliderOK, NEW p \in Page, Control!Release(p)
  PROVE  SliderOK' /\ (Fingers = 1 /\ Sliding => Sliding')
<1> USE DEF SliderOK
<1>1. fingers[p] > 0 /\ fingers[p] \in 0..Fingers /\ fingers[p] - 1 \in 0..Fingers
  BY DEF Control!ControlAssumption, Control!Release
<1>2. /\ fingers' = [fingers EXCEPT ![p] = fingers[p] - 1]
      /\ handlers' = [handlers EXCEPT ![p] = {}]
  BY DEF Control!Release
<1>3. CASE handlers[p] = {}
  <2>1. UNCHANGED <<timers, current>>
    BY <1>3 DEF Control!Release
  <2>2. ASSUME Sliding PROVE FALSE
    <3>1. fingers[p] # 0 <=> handlers[p] # {}
      BY <2>2 DEF Sliding
    <3>2. fingers[p] # 0
      BY <1>1
    <3> QED BY <1>3, <3>1, <3>2
  <2>3. fingers' \in [Page -> 0..Fingers] /\ handlers' \in [Page -> SUBSET Control!Box]
    BY <1>1, <1>2
  <2>4. SliderOK'
    BY <2>1, <2>3
  <2> QED BY <2>2, <2>4
<1>4. CASE handlers[p] # {}
  <2> DEFINE rest == IF current[p] THEN Control!Front(timers[p]) ELSE timers[p]
  <2>1. /\ timers' = [timers EXCEPT ![p] = rest]
        /\ current' = [current EXCEPT ![p] = FALSE]
    BY <1>4 DEF Control!Release
  <2>2. rest \in Seq(Control!Box) /\ (current[p] => Len(rest) = Len(timers[p]) - 1)
    <3>1. CASE current[p]
      <4>1. Len(timers[p]) \in 1..Len(timers[p])
        <5>1. Len(timers[p]) \in Nat /\ Len(timers[p]) # 0
          BY <3>1, LenProperties, EmptySeq
        <5> QED BY <5>1
      <4> QED BY <3>1, <4>1, Shorter
    <3> QED BY <3>1
  <2> HIDE DEF rest
  <2>3. SliderOK'
    BY <1>1, <1>2, <2>1, <2>2
  <2>4. ASSUME Fingers = 1, Sliding  PROVE Sliding'
    <3>1. SUFFICES ASSUME NEW q \in Page
                   PROVE  /\ Len(timers'[q]) <= fingers'[q]
                          /\ fingers'[q] # 0 <=> handlers'[q] # {}
                          /\ timers'[q] # <<>> => current'[q]
      BY DEF Sliding
    <3>2. CASE q = p
      <4>1. fingers'[p] = 0 /\ handlers'[p] = {} /\ timers'[p] = rest
        BY <1>1, <1>2, <2>1, <2>4
      <4>2. Len(rest) <= 0
        <5>1. CASE current[p]
          <6>1. Len(timers[p]) <= 1 /\ Len(timers[p]) \in Nat
            BY <1>1, <2>4, LenProperties DEF Sliding
          <6> QED BY <2>2, <5>1, <6>1
        <5>2. CASE ~current[p]
          BY <2>4, <5>2, EmptySeq DEF Sliding, rest
        <5> QED BY <5>1, <5>2
      <4>3. rest = <<>>
        <5>1. Len(rest) \in Nat
          BY <2>2, LenProperties
        <5>2. Len(rest) = 0
          BY <4>2, <5>1
        <5> QED BY <2>2, <5>2, EmptySeq
      <4> QED BY <3>2, <4>1, <4>2, <4>3
    <3>3. CASE q # p
      <4>1. UNCHANGED <<fingers[q], handlers[q], timers[q], current[q]>>
        BY <1>2, <2>1, <3>3
      <4> QED BY <2>4, <4>1 DEF Sliding
    <3> QED BY <3>2, <3>3
  <2> QED BY <2>3, <2>4
<1> QED BY <1>3, <1>4

LEMMA TimeOutSlider ==
  ASSUME SliderOK, NEW p \in Page, NEW i \in DOMAIN timers[p], Control!TimeOut(p, i)
  PROVE  SliderOK' /\ (Fingers = 1 /\ Sliding => Sliding')
<1> USE DEF SliderOK
<1> DEFINE b == timers[p][i]
           others == Control!RemoveAt(timers[p], i)
           n == Len(timers[p])
<1>1. n \in Nat /\ i \in 1..n /\ b \in Control!Box
  BY LenProperties, ElementOfSeq
<1>2. others \in Seq(Control!Box) /\ Len(others) = n - 1
  BY <1>1, Shorter
<1>3. Append(others, b) \in Seq(Control!Box) /\ Len(Append(others, b)) = Len(others) + 1 /\ Append(others, b) # <<>>
  BY <1>1, <1>2, Longer
<1>4. UNCHANGED Control!slider
  BY DEF Control!TimeOut
<1>5. \/ /\ timers' = [timers EXCEPT ![p] = others]
         /\ current' = [current EXCEPT ![p] = current[p] /\ i # n]
      \/ /\ timers' = [timers EXCEPT ![p] = Append(others, b)]
         /\ current' = [current EXCEPT ![p] = TRUE]
  BY DEF Control!TimeOut
<1>6. n = Len(timers[p])
  OBVIOUS
<1> HIDE DEF b, others, n
<1>7. CASE /\ timers' = [timers EXCEPT ![p] = others]
           /\ current' = [current EXCEPT ![p] = current[p] /\ i # n]
  <2>1. i # n => others # <<>>
    <3>1. i # n => Len(others) # 0
      BY <1>1, <1>2
    <3> QED BY <1>2, <3>1, EmptySeq
  <2>2. SliderOK'
    <3>1. timers' \in [Page -> Seq(Control!Box)]
      BY <1>2, <1>7
    <3>2. current' \in [Page -> BOOLEAN]
      BY <1>7
    <3>3. ASSUME NEW q \in Page, current'[q]  PROVE timers'[q] # <<>>
      BY <1>7, <2>1, <3>3
    <3> QED BY <1>4, <3>1, <3>2, <3>3 DEF Control!slider
  <2>3. ASSUME Fingers = 1, Sliding  PROVE Sliding'
    <3>1. n <= 1
      <4>1. n <= fingers[p] /\ fingers[p] \in 0..1
        BY <1>6, <2>3 DEF Sliding
      <4> QED BY <1>1, <4>1
    <3>2. Len(others) = 0 /\ others = <<>>
      BY <1>1, <1>2, <3>1, EmptySeq
    <3>3. ASSUME NEW q \in Page
          PROVE  /\ Len(timers'[q]) <= fingers'[q]
                 /\ fingers'[q] # 0 <=> handlers'[q] # {}
                 /\ timers'[q] # <<>> => current'[q]
      BY <1>4, <1>7, <2>3, <3>2 DEF Sliding, Control!slider
    <3> QED BY <3>3 DEF Sliding
  <2> QED BY <2>2, <2>3
<1>8. CASE /\ timers' = [timers EXCEPT ![p] = Append(others, b)]
           /\ current' = [current EXCEPT ![p] = TRUE]
  <2> DEFINE again == Append(others, b)
  <2>1. again \in Seq(Control!Box) /\ Len(again) = Len(timers[p]) /\ again # <<>>
    BY <1>1, <1>2, <1>3, <1>6
  <2>2. timers' = [timers EXCEPT ![p] = again]
    BY <1>8
  <2> HIDE DEF again
  <2>3. SliderOK'
    BY <1>4, <1>8, <2>1, <2>2 DEF Control!slider
  <2>4. ASSUME Sliding, NEW q \in Page
        PROVE  /\ Len(timers'[q]) <= fingers'[q]
               /\ fingers'[q] # 0 <=> handlers'[q] # {}
               /\ timers'[q] # <<>> => current'[q]
    BY <1>4, <1>8, <2>1, <2>2, <2>4 DEF Control!slider, Sliding
  <2> QED BY <2>3, <2>4 DEF Sliding
<1> QED BY <1>5, <1>7, <1>8

LEMMA SliderKept ==
  ASSUME Control!ControlAssumption, SliderOK, [Control!Next]_(Control!vars)
  PROVE  SliderOK' /\ (Fingers = 1 /\ Sliding => Sliding')
<1>1. CASE UNCHANGED <<Control!slider, Control!timer>>
  BY <1>1 DEF SliderOK, Sliding, Control!slider, Control!timer
<1> QED BY <1>1, SliderSteps, PressSlider, ReleaseSlider, TimeOutSlider

\* With one finger at a time, a page whose slider nobody holds sends no speed any
\* more, and one whose slider is held has one timeout that does.
THEOREM OnlyHeld ==
  ASSUME Fingers = 1
  PROVE  PagesSpec => []HeldSends
<1> USE DrivingAssumption
<1>1. Control!Init => SliderOK /\ Sliding
  <2>1. <<>> \in Seq(Control!Box) /\ Len(<<>>) = 0 /\ 0 \in 0..Fingers
    BY DEF Control!ControlAssumption
  <2> QED BY <2>1 DEF Control!Init, Control!DrivingInit, SliderOK, Sliding
<1>2. SliderOK /\ Sliding /\ [Control!Next]_(Control!vars) => (SliderOK /\ Sliding)'
  BY SliderKept
<1>3. SliderOK /\ Sliding => HeldSends
  BY DEF Sliding, HeldSends, Control!HeldSends
<1> QED BY <1>1, <1>2, <1>3, Drives, PTL DEF Control!Spec

-----------------------------------------------------------------------------
(* What the server does is done in one step                                *)

(***************************************************************************)
(* While the threads of the server do not preempt each other, only one of  *)
(* them tells of trains, of two at most, and no train changes meanwhile:   *)
(* what it has built or will build of a train is what the train does now.  *)
(* With what is yet to be sent to it (told) a page was told of every change*)
(* in the step that made it.                                               *)
(***************************************************************************)
CallOK(c) ==
  /\ c = [thread |-> c.thread, train |-> c.train, msg |-> c.msg, left |-> c.left]
  /\ c.left \subseteq Page
  /\ c.msg # Nobody => c.msg = Control!UpdateOf(c.train, speed, dir)
Calls ==
  /\ Line(telling) /\ Len(telling) <= 2
  /\ \A i \in DOMAIN telling : CallOK(telling[i]) /\ telling[i].thread = telling[1].thread
Underway == updates = [p \in Page |-> updates[p]] /\ \A p \in Page : Line(updates[p])
Subscribers == subscribed = [p \in Page |-> subscribed[p]] /\ \A p \in Page : Nobody \notin subscribed[p]

Teller == Calls /\ Underway /\ Subscribers

\* The line of a page that is told of the train of a call yet, and all lines then
ToldOf(line, c, p, subs, speeds, dirs) ==
  IF p \in c.left /\ c.train \in subs[p] THEN Append(line, Control!UpdateOf(c.train, speeds, dirs)) ELSE line
ToldBy(lines, calls, subs, speeds, dirs) ==
  LET hear(line, p, i) == IF i \in DOMAIN calls THEN ToldOf(line, calls[i], p, subs, speeds, dirs) ELSE line
  IN [p \in Page |-> hear(hear(lines[p], p, 1), p, 2)]

LEMMA ToldNow ==
  /\ told = ToldBy(updates, telling, subscribed, speed, dir)
  /\ told' = ToldBy(updates', telling', subscribed', speed', dir')
BY DEF told, Control!told, Control!Heard, ToldBy, ToldOf

LEMMA NoCalls ==
  ASSUME NEW lines, lines = [p \in Page |-> lines[p]], NEW subs, NEW speeds, NEW dirs
  PROVE  ToldBy(lines, <<>>, subs, speeds, dirs) = lines
<1>1. \A i : i \notin DOMAIN <<>>
  OBVIOUS
<1> QED BY <1>1 DEF ToldBy

LEMMA OneCall ==
  ASSUME NEW calls, Line(calls), Len(calls) = 1, NEW lines, NEW subs, NEW speeds, NEW dirs
  PROVE  ToldBy(lines, calls, subs, speeds, dirs) = [p \in Page |-> ToldOf(lines[p], calls[1], p, subs, speeds, dirs)]
<1>1. 1 \in DOMAIN calls /\ 2 \notin DOMAIN calls
  BY DEF Line
<1> QED BY <1>1 DEF ToldBy

LEMMA TwoCalls ==
  ASSUME NEW calls, Line(calls), Len(calls) = 2, NEW lines, NEW subs, NEW speeds, NEW dirs
  PROVE  ToldBy(lines, calls, subs, speeds, dirs) =
           [p \in Page |-> ToldOf(ToldOf(lines[p], calls[1], p, subs, speeds, dirs), calls[2], p, subs, speeds, dirs)]
<1>1. 1 \in DOMAIN calls /\ 2 \in DOMAIN calls
  BY DEF Line
<1> QED BY <1>1 DEF ToldBy

LEMMA HowMany ==
  ASSUME Calls
  PROVE  telling = <<>> \/ Len(telling) = 1 \/ Len(telling) = 2
<1> DEFINE S == {telling[i] : i \in 1..Len(telling)}
<1>1. telling \in Seq(S)
  BY SeqOfLine DEF Calls
<1> HIDE DEF S
<1>2. Len(telling) = 0 => telling = <<>>
  BY <1>1, EmptySeq
<1> QED BY <1>2 DEF Calls, Line

LEMMA NothingToTell ==
  ASSUME Teller, telling = <<>>
  PROVE  told = updates
BY ToldNow, NoCalls DEF Teller, Underway

\* A step that leaves the trains and what is told of them
LEMMA SameTold ==
  ASSUME Teller, UNCHANGED <<telling, updates, Control!server>>
  PROVE  Teller' /\ told' = told
<1>1. UNCHANGED <<speed, dir, subscribed>>
  BY DEF Control!server
<1> QED BY <1>1, ToldNow DEF Teller, Calls, CallOK, Underway, Subscribers

\* To tell of a train: the first call, and one after it
LEMMA FirstCall ==
  ASSUME NEW c
  PROVE  Line(Append(<<>>, c)) /\ Len(Append(<<>>, c)) = 1 /\ Append(<<>>, c)[1] = c
<1>1. Append(<<>>, c) = <<c>>
  OBVIOUS
<1>2. Len(<<c>>) = 1 /\ <<c>>[1] = c /\ <<c>> = [i \in 1..1 |-> <<c>>[i]]
  OBVIOUS
<1> QED BY <1>1, <1>2 DEF Line

LEMMA SecondCall ==
  ASSUME NEW s, Line(s), NEW c
  PROVE  Len(s) = 1 =>
           Line(Append(s, c)) /\ Len(Append(s, c)) = 2 /\ Append(s, c)[1] = s[1] /\ Append(s, c)[2] = c
<1>1. Line(Append(s, c)) /\ Len(Append(s, c)) = Len(s) + 1
  BY LineAppend
<1>2. \A i \in 1..Len(s) : Append(s, c)[i] = s[i]
  BY LineAppend
<1>3. Append(s, c)[Len(s) + 1] = c
  BY LineAppend
<1> HIDE DEF Line
<1> DEFINE more == Append(s, c)
           n == Len(s)
<1> HIDE DEF more, n
<1>4. n = 1 => 1 \in 1..n /\ n + 1 = 2
  OBVIOUS
<1> QED BY <1>1, <1>2, <1>3, <1>4 DEF more, n

\* A change of train t that all but some are told of
LEMMA TellsAll ==
  ASSUME Teller, telling = <<>>, NEW th, NEW t, NEW but,
         telling' = Control!Calling(telling, th, t, but), UNCHANGED <<updates, subscribed>>
  PROVE  Teller' /\ told' = Driven!Tell(t, subscribed, but)
<1> DEFINE c == [thread |-> th, train |-> t, msg |-> Nobody, left |-> Page \ but]
<1>1. told = updates /\ updates = [p \in Page |-> updates[p]]
  BY NothingToTell DEF Teller, Underway
<1>2. told' = ToldBy(updates, telling', subscribed, speed', dir')
  BY ToldNow
<1>3. Underway' /\ Subscribers' /\ \A p \in Page : Nobody \notin subscribed[p]
  BY DEF Teller, Underway, Subscribers
<1>4. CASE t = Nobody
  <2>1. telling' = <<>>
    BY <1>4 DEF Control!Calling
  <2>2. Calls'
    BY <2>1, EmptyLine DEF Calls
  <2>3. told' = updates
    BY <1>1, <1>2, <2>1, NoCalls
  <2>4. Driven!Tell(t, subscribed, but) = [p \in Page |-> updates[p]]
    BY <1>1, <1>3, <1>4 DEF Driven!Tell
  <2> QED BY <1>1, <1>3, <2>2, <2>3, <2>4 DEF Teller
<1>5. CASE t # Nobody
  <2>1. Line(telling') /\ Len(telling') = 1 /\ telling'[1] = c
    <3>1. telling' = Append(<<>>, c)
      BY <1>5 DEF Control!Calling
    <3> HIDE DEF c
    <3> QED BY <3>1, FirstCall
  <2>2. told' = [p \in Page |-> ToldOf(updates[p], c, p, subscribed, speed', dir')]
    BY <1>2, <2>1, OneCall
  <2>3. told' = Driven!Tell(t, subscribed, but)
    BY <1>1, <2>2 DEF ToldOf, Driven!Tell, Driven!UpdateOf, Control!UpdateOf
  <2>4. CallOK(c)' /\ DOMAIN telling' = {1}
    BY <2>1 DEF CallOK, Line
  <2> HIDE DEF c
  <2>5. Calls'
    BY <2>1, <2>4 DEF Calls
  <2> QED BY <1>3, <2>3, <2>5 DEF Teller
<1> QED BY <1>4, <1>5

LEMMA SpeedAsOne ==
  ASSUME Teller, telling = <<>>, NEW p \in Page, NEW m, Control!SetTrainSpeed(p, m), UNCHANGED updates
  PROVE  Teller' /\ Driven!SpeedAtOnce(p, m)
<1>1. Driven!Obey(m) /\ UNCHANGED subscribed /\ telling' = Control!Calling(telling, p, m.train, {p})
  BY DEF Control!SetTrainSpeed, Control!Obey, Driven!Obey
<1> QED BY <1>1, TellsAll DEF Driven!SpeedAtOnce

LEMMA SubscribeAsOne ==
  ASSUME Teller, telling = <<>>, NEW p \in Page, NEW m, Control!TrainSubscribe(p, m), UNCHANGED updates
  PROVE  Teller' /\ Driven!SubscribeAtOnce(p, m)
<1> DEFINE t == m.trains[1]
           u == m.trains[2]
           one == Control!Calling(telling, p, t, {})
           c == [thread |-> p, train |-> t, msg |-> Nobody, left |-> Page \ {}]
           d == [thread |-> p, train |-> u, msg |-> Nobody, left |-> Page \ {}]
           line(q) == Driven!Updated(Driven!Updated(updates[q], subscribed'[q], t), subscribed'[q], u)
           new(l, x, q) == ToldOf(l, x, q, subscribed', speed', dir')
<1>1. /\ Driven!Subscribe(p, m) /\ telling' = Control!Calling(one, p, u, {})
      /\ subscribed' = [subscribed EXCEPT ![p] = {m.trains[b] : b \in Control!Box} \ {Nobody}]
  BY DEF Control!TrainSubscribe, Control!Subscribe, Driven!Subscribe, Control!Box, Driven!Box
<1>2. told = updates /\ updates = [q \in Page |-> updates[q]]
  BY NothingToTell DEF Teller, Underway
<1>3. told' = ToldBy(updates, telling', subscribed', speed', dir')
  BY ToldNow
<1>4. Subscribers' /\ Underway'
  BY <1>1 DEF Teller, Subscribers, Underway
<1>5. ASSUME NEW q \in Page, NEW l
      PROVE  /\ Driven!Updated(l, subscribed'[q], t) = IF t = Nobody THEN l ELSE new(l, c, q)
             /\ Driven!Updated(l, subscribed'[q], u) = IF u = Nobody THEN l ELSE new(l, d, q)
  BY DEF ToldOf, Driven!Updated, Driven!UpdateOf, Control!UpdateOf
<1>6. CallOK(c)' /\ CallOK(d)' /\ c.thread = p /\ d.thread = p
  BY DEF CallOK
<1>7. Line(telling)
  BY DEF Teller, Calls
<1>8. SUFFICES Calls' /\ told' = [q \in Page |-> line(q)]
  BY <1>1, <1>2, <1>4 DEF Driven!SubscribeAtOnce, Teller
<1>9. CASE t = Nobody /\ u = Nobody
  <2>1. telling' = <<>>
    BY <1>1, <1>9 DEF Control!Calling
  <2>2. Calls'
    BY <2>1, EmptyLine DEF Calls
  <2>3. told' = updates
    BY <1>2, <1>3, <2>1, NoCalls
  <2> QED BY <1>2, <1>5, <1>9, <2>2, <2>3
<1>10. CASE t = Nobody /\ u # Nobody
  <2>1. Line(telling') /\ Len(telling') = 1 /\ telling'[1] = d
    <3>1. one = <<>>
      BY <1>10 DEF Control!Calling
    <3>2. telling' = Append(<<>>, d)
      BY <1>1, <1>10, <3>1 DEF Control!Calling
    <3> HIDE DEF d
    <3> QED BY <3>2, FirstCall
  <2> HIDE DEF c, d
  <2>2. told' = [q \in Page |-> new(updates[q], d, q)]
    BY <1>3, <2>1, OneCall
  <2>3. Calls'
    BY <1>6, <2>1 DEF Calls, Line
  <2> QED BY <1>5, <1>10, <2>2, <2>3
<1>11. CASE t # Nobody
  <2>1. Line(one) /\ Len(one) = 1 /\ one[1] = c
    <3>1. one = Append(<<>>, c)
      BY <1>11 DEF Control!Calling
    <3> HIDE DEF one, c
    <3> QED BY <3>1, FirstCall
  <2> HIDE DEF one
  <2>2. CASE u = Nobody
    <3>1. telling' = one
      BY <1>1, <2>2 DEF Control!Calling
    <3> HIDE DEF c, d
    <3>2. told' = [q \in Page |-> new(updates[q], c, q)]
      BY <1>3, <2>1, <3>1, OneCall
    <3>3. Line(telling') /\ Len(telling') = 1 /\ telling'[1] = c /\ DOMAIN telling' = {1}
      <4>1. DOMAIN one = 1..Len(one)
        BY <2>1 DEF Line
      <4>2. 1..1 = {1}
        OBVIOUS
      <4> QED BY <2>1, <3>1, <4>1, <4>2
    <3>4. Calls'
      BY <1>6, <3>3 DEF Calls
    <3> QED BY <1>5, <1>11, <2>2, <3>2, <3>4
  <2>3. CASE u # Nobody
    <3>1. Line(telling') /\ Len(telling') = 2 /\ telling'[1] = c /\ telling'[2] = d
      <4>1. telling' = Append(one, d)
        BY <1>1, <2>3 DEF Control!Calling
      <4> HIDE DEF c, d
      <4> QED BY <2>1, <4>1, SecondCall
    <3> HIDE DEF c, d
    <3>2. told' = [q \in Page |-> new(new(updates[q], c, q), d, q)]
      BY <1>3, <3>1, TwoCalls
    <3>3. DOMAIN telling' = {1, 2}
      BY <3>1 DEF Line
    <3>4. Calls'
      BY <1>6, <3>1, <3>3 DEF Calls
    <3> QED BY <1>5, <1>11, <2>3, <3>2, <3>4
  <2> QED BY <2>2, <2>3
<1> QED BY <1>9, <1>10, <1>11

LEMMA ServeAsOne ==
  ASSUME ~Preempted, Teller, NEW p \in Page, Control!Serve(p)
  PROVE  Teller' /\ Driven!ServeAtOnce(p)
<1> DEFINE m == Head(commands[p])
<1>1. /\ telling = <<>> /\ UNCHANGED updates /\ commands[p] # <<>>
      /\ commands' = [commands EXCEPT ![p] = Tail(commands[p])]
      /\ IF m.op = "speed" THEN Control!SetTrainSpeed(p, m) ELSE Control!TrainSubscribe(p, m)
      /\ UNCHANGED <<Driven!view, Driven!slider, Driven!timer, Driven!bounds>>
  BY DEF Control!Serve, Control!Free, Control!view, Control!slider, Control!timer, Control!bounds,
         Driven!view, Driven!slider, Driven!timer, Driven!bounds
<1>2. Teller' /\ IF m.op = "speed" THEN Driven!SpeedAtOnce(p, m) ELSE Driven!SubscribeAtOnce(p, m)
  <2> HIDE DEF m
  <2> QED BY <1>1, SpeedAsOne, SubscribeAsOne
<1> QED BY <1>1, <1>2 DEF Driven!ServeAtOnce

LEMMA ChangeAsOne ==
  ASSUME Control!ControlAssumption, ~Preempted, Teller, NEW t \in Train, NEW v \in Speed, Control!Change(t, v)
  PROVE  Teller' /\ Driven!ChangeAtOnce(t, v)
<1>1. /\ telling = <<>> /\ UNCHANGED <<updates, subscribed>> /\ Driven!Step(t, v)
      /\ telling' = Control!Calling(telling, Nobody, t, {}) /\ t # Nobody
      /\ UNCHANGED <<Driven!view, Driven!slider, Driven!timer, commands, turned>>
  BY DEF Control!ControlAssumption, Control!Change, Control!Free, Control!Step, Driven!Step, Control!view,
         Control!slider, Control!timer, Driven!view, Driven!slider, Driven!timer
<1> QED BY <1>1, TellsAll DEF Driven!ChangeAtOnce

LEMMA TurnAsOne ==
  ASSUME ~Preempted, Teller, NEW t \in Train, Control!Free(Nobody), Control!Turn(t), UNCHANGED telling
  PROVE  Teller' /\ Driven!Turn(t)
<1>1. telling = <<>> /\ UNCHANGED <<updates, subscribed>>
  BY DEF Control!Free, Control!Turn
<1>2. Teller'
  BY <1>1, EmptyLine DEF Teller, Calls, Underway, Subscribers
<1>3. told' = told
  BY <1>1, <1>2, ToldNow, NoCalls DEF Teller, Underway
<1> QED BY <1>2, <1>3 DEF Control!Turn, Driven!Turn, Control!view, Control!slider, Control!timer, Control!bounds,
       Driven!view, Driven!slider, Driven!timer, Driven!bounds

\* A page that receives what is on its way, with what it is yet to be told after it
LEMMA TailToldOf ==
  ASSUME NEW line, Line(line), line # <<>>, NEW c, NEW p, NEW subs, NEW speeds, NEW dirs,
         NEW longer, longer = ToldOf(line, c, p, subs, speeds, dirs)
  PROVE  /\ Line(longer) /\ longer # <<>> /\ Head(longer) = Head(line)
         /\ Tail(longer) = ToldOf(Tail(line), c, p, subs, speeds, dirs)
<1> DEFINE m == Control!UpdateOf(c.train, speeds, dirs)
           S == {line[i] : i \in 1..Len(line)}
<1>1. line \in Seq(S)
  BY SeqOfLine
<1> HIDE DEF m, S
<1>2. /\ Line(Append(line, m)) /\ Head(Append(line, m)) = Head(line)
      /\ Tail(Append(line, m)) = Append(Tail(line), m)
  BY <1>1, LineAppend, HeadTailAppend
<1>3. Append(line, m) # <<>>
  <2>1. Len(Append(line, m)) = Len(line) + 1 /\ Len(line) \in Nat
    BY LineAppend DEF Line
  <2> QED BY <2>1, EmptyLine
<1> QED BY <1>2, <1>3 DEF ToldOf, m

LEMMA ReceiveTold ==
  ASSUME Teller, NEW p \in Page, updates[p] # <<>>, updates' = [updates EXCEPT ![p] = Tail(@)],
         UNCHANGED <<telling, Control!server>>
  PROVE  /\ Teller' /\ told[p] # <<>> /\ Head(told[p]) = Head(updates[p])
         /\ told' = [told EXCEPT ![p] = Tail(@)]
<1> DEFINE new(l, i, q) == ToldOf(l, telling[i], q, subscribed, speed, dir)
<1>1. UNCHANGED <<speed, dir, subscribed>> /\ Line(updates[p]) /\ updates = [q \in Page |-> updates[q]]
  BY DEF Control!server, Teller, Underway
<1>2. Teller'
  <2>1. Underway'
    BY <1>1, LineTail DEF Teller, Underway
  <2> QED BY <1>1, <2>1 DEF Teller, Calls, CallOK, Subscribers
<1>3. told = ToldBy(updates, telling, subscribed, speed, dir) /\ told' = ToldBy(updates', telling, subscribed, speed, dir)
  BY <1>1, ToldNow
<1>4. updates'[p] = Tail(updates[p]) /\ \A q \in Page \ {p} : updates'[q] = updates[q]
  BY <1>1
<1>5. SUFFICES /\ told = [q \in Page |-> told[q]] /\ told' = [q \in Page |-> told'[q]]
               /\ told[p] # <<>> /\ Head(told[p]) = Head(updates[p]) /\ told'[p] = Tail(told[p])
               /\ \A q \in Page \ {p} : told'[q] = told[q]
  BY <1>2
<1>6. Line(telling)
  BY DEF Teller, Calls
<1>7. CASE telling = <<>>
  <2>1. told = updates /\ told' = updates'
    BY <1>1, <1>2, <1>3, <1>7, NoCalls DEF Teller, Underway
  <2> QED BY <1>1, <1>4, <2>1
<1>8. CASE Len(telling) = 1
  <2>1. told = [q \in Page |-> new(updates[q], 1, q)] /\ told' = [q \in Page |-> new(updates'[q], 1, q)]
    <3> HIDE DEF new
    <3>1. ASSUME NEW lines
          PROVE  ToldBy(lines, telling, subscribed, speed, dir) = [q \in Page |-> new(lines[q], 1, q)]
      BY <1>6, <1>8, OneCall DEF new
    <3> QED BY <1>3, <3>1
  <2>2. /\ new(updates[p], 1, p) # <<>> /\ Head(new(updates[p], 1, p)) = Head(updates[p])
        /\ Tail(new(updates[p], 1, p)) = new(updates'[p], 1, p)
    BY <1>1, <1>4, TailToldOf
  <2> HIDE DEF new
  <2> QED BY <1>4, <2>1, <2>2
<1>9. CASE Len(telling) = 2
  <2> DEFINE one == new(updates[p], 1, p)
  <2>1. /\ told = [q \in Page |-> new(new(updates[q], 1, q), 2, q)]
        /\ told' = [q \in Page |-> new(new(updates'[q], 1, q), 2, q)]
    <3> HIDE DEF new
    <3>1. ASSUME NEW lines
          PROVE  ToldBy(lines, telling, subscribed, speed, dir) = [q \in Page |-> new(new(lines[q], 1, q), 2, q)]
      BY <1>6, <1>9, TwoCalls DEF new
    <3> QED BY <1>3, <3>1
  <2>2. /\ Line(one) /\ one # <<>> /\ Head(one) = Head(updates[p])
        /\ Tail(one) = new(updates'[p], 1, p)
    BY <1>1, <1>4, TailToldOf
  <2> HIDE DEF one
  <2>3. /\ new(one, 2, p) # <<>> /\ Head(new(one, 2, p)) = Head(one)
        /\ Tail(new(one, 2, p)) = new(Tail(one), 2, p)
    BY <2>2, TailToldOf
  <2>4. /\ told[p] = new(one, 2, p) /\ told'[p] = new(Tail(one), 2, p)
        /\ \A q \in Page \ {p} : told'[q] = told[q]
    <3> HIDE DEF new
    <3>1. \A q \in Page : told[q] = new(new(updates[q], 1, q), 2, q) /\ told'[q] = new(new(updates'[q], 1, q), 2, q)
      BY <2>1
    <3>2. told[p] = new(one, 2, p) /\ told'[p] = new(Tail(one), 2, p)
      BY <2>2, <3>1 DEF one
    <3>3. \A q \in Page \ {p} : told'[q] = told[q]
      BY <1>4, <3>1
    <3> QED BY <3>2, <3>3
  <2>5. told = [q \in Page |-> told[q]] /\ told' = [q \in Page |-> told'[q]]
    <3> HIDE DEF new
    <3> QED BY <2>1
  <2> HIDE DEF new
  <2> QED BY <2>2, <2>3, <2>4, <2>5
<1> QED BY <1>7, <1>8, <1>9, HowMany DEF Teller

\* Only the first call of the thread that has any goes on.
LEMMA TheFirst ==
  ASSUME Calls, NEW i \in DOMAIN telling, Control!First(i)
  PROVE  i = 1 /\ 1 \in DOMAIN telling /\ DOMAIN telling = 1..Len(telling) /\ Len(telling) \in {1, 2} /\ CallOK(telling[1])
<1>1. DOMAIN telling = 1..Len(telling) /\ Len(telling) \in Nat /\ Len(telling) <= 2
  BY DEF Calls, Line
<1>2. i # 1 => 1 \in 1..(i - 1)
  BY <1>1
<1>3. i = 1
  BY <1>2 DEF Calls, Control!First
<1> QED BY <1>1, <1>3 DEF Calls

\* The step of one call, which leaves what the other pages are told yet
LEMMA CallKept ==
  ASSUME Calls, 1 \in DOMAIN telling, NEW c, telling' = [telling EXCEPT ![1] = c],
         CallOK(c), c.thread = telling[1].thread, UNCHANGED <<speed, dir>>
  PROVE  /\ Calls' /\ Len(telling') = Len(telling) /\ telling'[1] = c
         /\ Len(telling) = 2 => telling'[2] = telling[2]
<1>1. DOMAIN telling = 1..Len(telling) /\ Len(telling) \in Nat
  BY DEF Calls, Line
<1>2. telling' = [i \in 1..Len(telling) |-> telling'[i]]
  BY <1>1
<1>3. Line(telling') /\ Len(telling') = Len(telling) /\ DOMAIN telling' = 1..Len(telling)
  BY <1>1, <1>2, LineOf
<1>4. \A i \in 1..Len(telling) : telling'[i] = IF i = 1 THEN c ELSE telling[i]
  BY <1>1
<1>5. \A i \in 1..Len(telling) : CallOK(telling[i])' /\ telling'[i].thread = telling'[1].thread
  BY <1>1, <1>4 DEF Calls, CallOK
<1> QED BY <1>1, <1>3, <1>4, <1>5 DEF Calls

LEMMA BuildAsNone ==
  ASSUME Teller, NEW i \in DOMAIN telling, Control!Build(i)
  PROVE  Teller' /\ told' = told
<1> DEFINE c == [telling[1] EXCEPT !.msg = Control!UpdateOf(telling[1].train, speed, dir)]
<1>1. /\ 1 \in DOMAIN telling /\ Len(telling) \in {1, 2} /\ CallOK(telling[1])
      /\ telling' = [telling EXCEPT ![1] = c]
      /\ UNCHANGED <<updates, speed, dir, subscribed>>
  BY TheFirst DEF Teller, Control!Build, Control!drivingVars, Control!server
<1>2. CallOK(c) /\ c.thread = telling[1].thread /\ c.train = telling[1].train /\ c.left = telling[1].left
  BY <1>1 DEF CallOK
<1> HIDE DEF c
<1>3. /\ Calls' /\ Len(telling') = Len(telling) /\ telling'[1] = c
      /\ Len(telling) = 2 => telling'[2] = telling[2]
  BY <1>1, <1>2, CallKept DEF Teller
<1>4. /\ Line(telling) /\ Line(telling')
      /\ told = ToldBy(updates, telling, subscribed, speed, dir)
      /\ told' = ToldBy(updates, telling', subscribed, speed, dir)
  BY <1>1, <1>3, ToldNow DEF Teller, Calls
<1>5. told' = told
  <2>1. \A p \in Page : \A l : ToldOf(l, c, p, subscribed, speed, dir) = ToldOf(l, telling[1], p, subscribed, speed, dir)
    BY <1>2 DEF ToldOf
  <2>2. CASE Len(telling) = 1
    <3>1. /\ told = [p \in Page |-> ToldOf(updates[p], telling[1], p, subscribed, speed, dir)]
          /\ told' = [p \in Page |-> ToldOf(updates[p], c, p, subscribed, speed, dir)]
      BY <1>3, <1>4, <2>2, OneCall
    <3> QED BY <2>1, <3>1
  <2>3. CASE Len(telling) = 2
    <3> DEFINE second(l, p) == ToldOf(l, telling[2], p, subscribed, speed, dir)
    <3>1. /\ told = [p \in Page |-> second(ToldOf(updates[p], telling[1], p, subscribed, speed, dir), p)]
          /\ told' = [p \in Page |-> second(ToldOf(updates[p], c, p, subscribed, speed, dir), p)]
      BY <1>3, <1>4, <2>3, TwoCalls
    <3> HIDE DEF second
    <3> QED BY <2>1, <3>1
  <2> QED BY <1>1, <2>2, <2>3
<1> QED BY <1>1, <1>3, <1>5 DEF Teller, Underway, Subscribers

LEMMA SendAsNone ==
  ASSUME Teller, NEW i \in DOMAIN telling, NEW p \in Page, Control!Send(i, p)
  PROVE  Teller' /\ told' = told
<1> DEFINE b == telling[1]
           c == [b EXCEPT !.left = @ \ {p}]
           new(l, x, q) == ToldOf(l, x, q, subscribed, speed, dir)
<1>1. /\ 1 \in DOMAIN telling /\ Len(telling) \in {1, 2} /\ CallOK(b) /\ p \in b.left
      /\ b.msg = Control!UpdateOf(b.train, speed, dir)
      /\ telling' = [telling EXCEPT ![1] = c]
      /\ updates' = IF b.train \in subscribed[p] THEN [updates EXCEPT ![p] = Append(@, b.msg)] ELSE updates
      /\ UNCHANGED <<speed, dir, subscribed>>
  BY TheFirst DEF Teller, CallOK, Control!Send, Control!server
<1>2. CallOK(c) /\ c.thread = b.thread /\ c.train = b.train /\ c.left = b.left \ {p}
  <2>1. c = [thread |-> b.thread, train |-> b.train, msg |-> b.msg, left |-> b.left \ {p}]
    <3> DEFINE th == b.thread
               t == b.train
               m == b.msg
               l == b.left
    <3>1. b = [thread |-> th, train |-> t, msg |-> m, left |-> l]
      BY <1>1 DEF CallOK
    <3> HIDE DEF b, th, t, m, l
    <3>2. [b EXCEPT !.left = l \ {p}] = [thread |-> th, train |-> t, msg |-> m, left |-> l \ {p}]
      BY <3>1
    <3> QED BY <3>2 DEF th, t, m, l
  <2>2. b.left \ {p} \subseteq Page
    BY <1>1 DEF CallOK
  <2> HIDE DEF b, c
  <2> QED BY <1>1, <2>1, <2>2 DEF CallOK
<1> HIDE DEF c
<1>3. /\ Calls' /\ Len(telling') = Len(telling) /\ telling'[1] = c
      /\ Len(telling) = 2 => telling'[2] = telling[2]
  BY <1>1, <1>2, CallKept DEF Teller
<1>4. /\ updates' = [q \in Page |-> updates'[q]]
      /\ updates'[p] = IF b.train \in subscribed[p] THEN Append(updates[p], b.msg) ELSE updates[p]
      /\ \A q \in Page \ {p} : updates'[q] = updates[q]
  BY <1>1 DEF Teller, Underway
<1>5. Underway'
  <2>1. \A q \in Page : Line(updates[q])
    BY DEF Teller, Underway
  <2>2. Line(updates'[p])
    BY <1>4, <2>1, LineAppend
  <2> QED BY <1>4, <2>1, <2>2 DEF Underway
<1>6. ASSUME NEW q \in Page PROVE new(updates'[q], c, q) = new(updates[q], b, q)
  BY <1>1, <1>2, <1>4 DEF ToldOf
<1>7. /\ Line(telling) /\ Line(telling')
      /\ told = ToldBy(updates, telling, subscribed, speed, dir)
      /\ told' = ToldBy(updates', telling', subscribed, speed, dir)
  BY <1>1, <1>3, ToldNow DEF Teller, Calls
<1>8. told' = told
  <2>1. CASE Len(telling) = 1
    <3>1. told = [q \in Page |-> new(updates[q], b, q)] /\ told' = [q \in Page |-> new(updates'[q], c, q)]
      BY <1>3, <1>7, <2>1, OneCall
    <3> HIDE DEF new
    <3> QED BY <1>6, <3>1
  <2>2. CASE Len(telling) = 2
    <3>1. /\ told = [q \in Page |-> new(new(updates[q], b, q), telling[2], q)]
          /\ told' = [q \in Page |-> new(new(updates'[q], c, q), telling[2], q)]
      BY <1>3, <1>7, <2>2, TwoCalls
    <3> HIDE DEF new
    <3> QED BY <1>6, <3>1
  <2> QED BY <1>1, <2>1, <2>2
<1> QED BY <1>1, <1>3, <1>5, <1>8 DEF Teller, Subscribers

LEMMA ReturnAsNone ==
  ASSUME Teller, NEW i \in DOMAIN telling, Control!Return(i)
  PROVE  Teller' /\ told' = told
<1> DEFINE n == Len(telling)
           new(l, x, q) == ToldOf(l, x, q, subscribed, speed, dir)
<1>1. /\ DOMAIN telling = 1..n /\ n \in {1, 2} /\ telling[1].left = {}
      /\ telling' = Control!RemoveAt(telling, 1) /\ UNCHANGED <<updates, speed, dir, subscribed>>
  BY TheFirst DEF Teller, Control!Return, Control!drivingVars, Control!server
<1>2. telling' = Tail(telling) /\ telling # <<>>
  <2> DEFINE S == {telling[k] : k \in 1..Len(telling)}
  <2>1. telling \in Seq(S)
    BY SeqOfLine DEF Teller, Calls
  <2>2. telling # <<>>
    BY <1>1, EmptyLine
  <2> HIDE DEF S
  <2>3. Control!RemoveAt(telling, 1) = SubSeq(telling, 1, 0) \o SubSeq(telling, 2, Len(telling))
    BY DEF Control!RemoveAt
  <2>4. SubSeq(telling, 1, 0) = <<>> /\ SubSeq(telling, 2, Len(telling)) = Tail(telling) /\ Tail(telling) \in Seq(S)
    BY <2>1, <2>2, SubSeqEmpty, TailIsSubSeq, HeadTailProperties
  <2> QED BY <1>1, <2>2, <2>3, <2>4, ConcatEmptySeq
<1>3. /\ Line(telling') /\ Len(telling') = n - 1 /\ DOMAIN telling' = 1..(n - 1)
      /\ n = 2 => telling'[1] = telling[2]
  <2>1. Line(telling)
    BY DEF Teller, Calls
  <2>2. /\ Line(telling') /\ Len(telling') = n - 1 /\ DOMAIN telling' = 1..(n - 1)
        /\ \A k \in DOMAIN telling' : telling'[k] = telling[k + 1]
    BY <1>2, <2>1, LineTail
  <2> HIDE DEF n
  <2>3. n = 2 => 1 \in 1..(n - 1) /\ 1 + 1 = 2
    OBVIOUS
  <2> QED BY <2>2, <2>3
<1>4. Calls'
  BY <1>1, <1>3 DEF Teller, Calls, CallOK
<1>5. \A q \in Page : \A l : new(l, telling[1], q) = l
  BY <1>1 DEF ToldOf
<1>6. told' = told
  <2>1. CASE n = 1
    <3>1. told = [q \in Page |-> new(updates[q], telling[1], q)]
      BY <2>1, ToldNow, OneCall DEF Teller, Calls
    <3>2. told = [q \in Page |-> updates[q]]
      BY <1>5, <3>1
    <3>3. telling' = <<>>
      BY <1>4, <1>3, <2>1 DEF Calls, Line
    <3>4. told' = updates
      BY <1>1, <3>3, ToldNow, NoCalls DEF Teller, Underway
    <3> QED BY <3>2, <3>4 DEF Teller, Underway
  <2>2. CASE n = 2
    <3>1. /\ told = [q \in Page |-> new(new(updates[q], telling[1], q), telling[2], q)]
          /\ told' = [q \in Page |-> new(updates[q], telling[2], q)]
      BY <1>1, <1>3, <2>2, ToldNow, OneCall, TwoCalls DEF Teller, Calls
    <3> HIDE DEF new
    <3> QED BY <1>5, <3>1
  <2> QED BY <1>1, <2>1, <2>2
<1> QED BY <1>1, <1>4, <1>6 DEF Teller, Underway, Subscribers

-----------------------------------------------------------------------------
(* What a page does, it does the same                                      *)

LEMMA PageAsOne ==
  ASSUME Teller, Control!UserOrPage, UNCHANGED telling
  PROVE  Teller' /\ Driven!UserOrPage
<1> USE DEF Control!Box, Driven!Box
<1>1. ASSUME NEW p \in Page, Control!Update(p) PROVE Teller' /\ Driven!Update(p)
  <2>1. /\ Teller' /\ told[p] # <<>> /\ Head(told[p]) = Head(updates[p])
        /\ told' = [told EXCEPT ![p] = Tail(@)]
    BY <1>1, ReceiveTold DEF Control!Update
  <2> QED BY <1>1, <2>1 DEF Control!Update, Driven!Update, Control!slider, Control!timer, Control!server, Control!bounds,
       Driven!slider, Driven!timer, Driven!server, Driven!bounds
<1> DEFINE Other ==
      \/ \E p \in Page, b \in Control!Box, v \in Speed : Control!Press(p, b, v)
      \/ \E p \in Page, v \in Speed : Control!Move(p, v)
      \/ \E p \in Page : Control!Release(p)
      \/ \E p \in Page, b \in Control!Box : Control!Stop(p, b)
      \/ \E p \in Page, b \in Control!Box, d \in {0, 1} : Control!SetDir(p, b, d)
      \/ \E p \in Page, b \in Control!Box, t \in Train : Control!Select(p, b, t)
<1>2. ASSUME Other PROVE Teller' /\ told' = told
  <2>1. UNCHANGED <<updates, Control!server>>
    BY Zenon, <1>2 DEF Control!Press, Control!Move, Control!Release, Control!Stop, Control!SetDir, Control!Select
  <2> QED BY <2>1, SameTold
<1>3. ASSUME told' = told, NEW p \in Page, NEW b \in Control!Box, NEW v \in Speed, Control!Press(p, b, v)
      PROVE  Driven!Press(p, b, v)
  BY <1>3 DEF Control!Press, Driven!Press, Control!SetSpeed, Driven!SetSpeed, Control!server, Driven!server
<1>4. ASSUME told' = told, NEW p \in Page, NEW v \in Speed, Control!Move(p, v) PROVE Driven!Move(p, v)
  BY Zenon, <1>4 DEF Control!Move, Driven!Move, Control!SetSpeed, Driven!SetSpeed, Control!server, Driven!server,
    Control!slider, Driven!slider, Control!timer, Driven!timer
<1>5. ASSUME told' = told, NEW p \in Page, Control!Release(p) PROVE Driven!Release(p)
  BY Zenon, <1>5 DEF Control!Release, Driven!Release, Control!Front, Driven!Front, Control!Requests, Driven!Requests,
    Control!Request, Driven!Request, Control!view, Driven!view, Control!server, Driven!server, Control!bounds, Driven!bounds
<1>6. ASSUME told' = told, NEW p \in Page, NEW b \in Control!Box, Control!Stop(p, b) PROVE Driven!Stop(p, b)
  BY <1>6 DEF Control!Stop, Driven!Stop, Control!SetSpeed, Driven!SetSpeed, Control!Requests, Driven!Requests,
    Control!Request, Driven!Request, Control!server, Driven!server, Control!slider, Driven!slider, Control!timer, Driven!timer
<1>7. ASSUME told' = told, NEW p \in Page, NEW b \in Control!Box, NEW d \in {0, 1}, Control!SetDir(p, b, d)
      PROVE  Driven!SetDir(p, b, d)
  BY <1>7 DEF Control!SetDir, Driven!SetDir, Control!Requests, Driven!Requests,
    Control!Request, Driven!Request, Control!server, Driven!server, Control!slider, Driven!slider, Control!timer, Driven!timer
<1>8. ASSUME told' = told, NEW p \in Page, NEW b \in Control!Box, NEW t \in Train, Control!Select(p, b, t)
      PROVE  Driven!Select(p, b, t)
  BY <1>8 DEF Control!Select, Driven!Select, Control!server, Driven!server, Control!slider, Driven!slider, Control!timer, Driven!timer
<1>9. CASE Other
  BY <1>2, <1>3, <1>4, <1>5, <1>6, <1>7, <1>8, <1>9 DEF Driven!UserOrPage
<1> QED BY <1>1, <1>9 DEF Control!UserOrPage, Driven!UserOrPage

LEMMA TimesAsOne ==
  ASSUME Teller, telling = <<>>, Control!Times, UNCHANGED telling
  PROVE  Teller' /\ Driven!Times
<1>1. told = updates
  BY NothingToTell
<1>2. ASSUME NEW p \in Page, NEW i \in DOMAIN timers[p], Control!TimeOut(p, i)
      PROVE  Teller' /\ Driven!TimeOut(p, i)
  <2>1. Teller' /\ told' = told
    BY <1>2, SameTold DEF Control!TimeOut
  <2> QED BY Zenon, <1>1, <1>2, <2>1 DEF Control!TimeOut, Driven!TimeOut, Control!RemoveAt, Driven!RemoveAt,
       Control!Requests, Driven!Requests, Control!Request, Driven!Request, Control!view, Driven!view,
       Control!server, Driven!server, Control!slider, Driven!slider, Control!bounds, Driven!bounds
<1> QED BY <1>2 DEF Control!Times, Driven!Times

LEMMA TellerAtFirst ==
  ASSUME Control!Init
  PROVE  Teller /\ Driven!DrivingInit
<1>1. telling = <<>> /\ updates = [p \in Page |-> <<>>] /\ subscribed = [p \in Page |-> {}]
  BY DEF Control!Init, Control!DrivingInit
<1>2. Teller
  BY <1>1, EmptyLine DEF Teller, Calls, Underway, Subscribers
<1>3. told = updates
  BY <1>1, <1>2, NothingToTell
<1> QED BY <1>2, <1>3 DEF Control!Init, Control!DrivingInit, Driven!DrivingInit, Control!Box, Driven!Box

LEMMA TellerKept ==
  ASSUME Control!ControlAssumption, ~Preempted, Teller, [Control!Next]_(Control!vars)
  PROVE  Teller' /\ [Driven!DrivingNext]_(Driven!drivingVars)
<1>1. ASSUME UNCHANGED <<Control!view, Control!slider, Control!timer, commands, Control!server, Control!bounds>>,
             told' = told
      PROVE  UNCHANGED Driven!drivingVars
  BY Zenon, <1>1 DEF Control!view, Control!slider, Control!timer, Control!server, Control!bounds,
    Driven!drivingVars, Driven!view, Driven!slider, Driven!timer, Driven!server, Driven!bounds
<1>2. CASE UNCHANGED Control!vars
  <2>1. Teller' /\ told' = told
    BY <1>2, SameTold DEF Control!vars, Control!drivingVars
  <2> QED BY <1>1, <1>2, <2>1 DEF Control!vars, Control!drivingVars
<1>3. ASSUME NEW i \in DOMAIN telling, Control!Build(i) PROVE Teller' /\ [Driven!DrivingNext]_(Driven!drivingVars)
  BY <1>1, <1>3, BuildAsNone DEF Control!Build, Control!drivingVars
<1>4. ASSUME NEW i \in DOMAIN telling, NEW p \in Page, Control!Send(i, p) PROVE Teller' /\ [Driven!DrivingNext]_(Driven!drivingVars)
  BY <1>1, <1>4, SendAsNone DEF Control!Send
<1>5. ASSUME NEW i \in DOMAIN telling, Control!Return(i) PROVE Teller' /\ [Driven!DrivingNext]_(Driven!drivingVars)
  BY <1>1, <1>5, ReturnAsNone DEF Control!Return, Control!drivingVars
<1>6. ASSUME Control!UserOrPage, UNCHANGED telling PROVE Teller' /\ Driven!DrivingNext
  BY <1>6, PageAsOne DEF Driven!DrivingNext
<1>7. ASSUME telling = <<>>, Control!Times, UNCHANGED telling PROVE Teller' /\ Driven!DrivingNext
  BY <1>7, TimesAsOne DEF Driven!DrivingNext
<1>8. ASSUME NEW p \in Page, Control!Serve(p) PROVE Teller' /\ Driven!DrivingNext
  BY <1>8, ServeAsOne DEF Driven!DrivingNext
<1>9. ASSUME NEW t \in Train, NEW v \in Speed, Control!Change(t, v) PROVE Teller' /\ Driven!DrivingNext
  BY <1>9, ChangeAsOne DEF Driven!DrivingNext
<1>10. ASSUME NEW t \in Train, Control!Free(Nobody), Control!Turn(t), UNCHANGED telling PROVE Teller' /\ Driven!DrivingNext
  BY <1>10, TurnAsOne DEF Driven!DrivingNext
<1> QED BY <1>2, <1>3, <1>4, <1>5, <1>6, <1>7, <1>8, <1>9, <1>10 DEF Control!Next

\* As long as its threads do not preempt each other, the server changes a train and tells
\* of it as if it did both in one step (WS_cts_SetTrainSpeed, WS_stc_UpdateTrain).
THEOREM TellsAtOnce ==
  ASSUME ~Preempted
  PROVE  PagesSpec => Driven!AtOnce
<1> USE DrivingAssumption
<1>1. Control!Init => Teller /\ Driven!DrivingInit
  BY TellerAtFirst
<1>2. Teller /\ [Control!Next]_(Control!vars) => Teller' /\ [Driven!DrivingNext]_(Driven!drivingVars)
  BY TellerKept
<1> QED BY <1>1, <1>2, Drives, PTL DEF Control!Spec, Driven!AtOnce

-----------------------------------------------------------------------------
(* The direction of trains that nobody turned                              *)

\* The messages page p may have under way while T are the trains that were turned:
\* a page whose user only watches subscribes, and all other trains go forward.
Sent(p, T) ==
  {m \in Driven!ToServer : (p \notin Driver => m.op = "subscribe") /\ (m.op = "speed" => m.train \in T \/ m.dir = 0)}
Told(T) == {m \in Driven!ToPage : m.train \in T \/ m.dir = 0}

Lines == \A p \in Page : commands[p] \in Seq(Sent(p, turned)) /\ told[p] \in Seq(Told(turned))

Shown == \A p \in Page, t \in Train : t \in turned \/ state[p][t].dir = 0

Forward == \A t \in Train : t \in turned \/ (dir[t] = 0 /\ t \notin turning)

\* The sliders of a page whose user only watches are not touched.
Idle == \A p \in Page : p \in Driver \/ (fingers[p] = 0 /\ handlers[p] = {} /\ timers[p] = <<>>)

\* TypeOK of the page and of the server
ViewOK ==
  /\ train \in [Page -> [Driven!Box -> Train \cup {Nobody}]]
  /\ state \in [Page -> [Train -> [speed : Speed, dir : {0, 1}]]]
ServerOK ==
  /\ speed \in [Train -> Speed]
  /\ dir \in [Train -> {0, 1}]
  /\ turning \subseteq Train
  /\ subscribed \in [Page -> SUBSET Train]
LinesOK ==
  /\ commands = [p \in Page |-> commands[p]]
  /\ told = [p \in Page |-> told[p]]

Ahead == ViewOK /\ ServerOK /\ LinesOK /\ Shown /\ Forward /\ Lines

Straight == SliderOK /\ Idle /\ Ahead

\* Messages that may be under way may be so when more trains are turned.
LEMMA MoreTurned ==
  ASSUME NEW T, NEW U, T \subseteq U, NEW p
  PROVE  /\ Seq(Sent(p, T)) \subseteq Seq(Sent(p, U)) /\ Seq(Told(T)) \subseteq Seq(Told(U))
         /\ Seq(Sent(p, T)) \subseteq Seq(Driven!ToServer) /\ Seq(Told(T)) \subseteq Seq(Driven!ToPage)
<1>1. Sent(p, T) \subseteq Sent(p, U) /\ Sent(p, T) \subseteq Driven!ToServer
  BY DEF Sent
<1>2. Told(T) \subseteq Told(U) /\ Told(T) \subseteq Driven!ToPage
  BY DEF Told
<1> QED BY <1>1, <1>2, SeqMonotonic

\* What is typed and under way is of the types of TypeOK.
LEMMA StraightTyped ==
  ASSUME Straight
  PROVE  Driven!DrivingTypeOK
<1>1. commands \in [Page -> Seq(Driven!ToServer)] /\ told \in [Page -> Seq(Driven!ToPage)]
  <2>1. \A p \in Page : commands[p] \in Seq(Driven!ToServer) /\ told[p] \in Seq(Driven!ToPage)
    BY MoreTurned DEF Straight, Ahead, Lines
  <2> QED BY <2>1 DEF Straight, Ahead, LinesOK
<1> QED BY <1>1 DEF Straight, Ahead, Driven!DrivingTypeOK, ViewOK, SliderOK, ServerOK, Driven!Box, Control!Box

\* A page that drives asks for a train as it has it.
LEMMA Asked ==
  ASSUME NEW p \in Page, p \in Driver, NEW b \in Driven!Box, NEW T, NEW st,
         train[p][b] = Nobody \/ /\ train[p][b] \in Train
                                 /\ st[train[p][b]].speed \in Speed
                                 /\ st[train[p][b]].dir \in {0, 1}
                                 /\ train[p][b] \in T \/ st[train[p][b]].dir = 0
  PROVE  Driven!Requests(p, st, b) \in Seq(Sent(p, T))
<1>1. CASE train[p][b] = Nobody
  BY <1>1, EmptySeq DEF Driven!Requests
<1>2. CASE train[p][b] # Nobody
  <2> DEFINE m == Driven!Request(st, train[p][b])
  <2>1. m \in Driven!ToServer
    BY <1>2 DEF Driven!Request, Driven!ToServer
  <2>2. m.op = "speed" /\ m.train = train[p][b] /\ m.dir = st[train[p][b]].dir
    BY DEF Driven!Request
  <2>3. m \in Sent(p, T)
    BY <1>2, <2>1, <2>2 DEF Sent
  <2>4. Driven!Requests(p, st, b) = <<m>>
    BY <1>2 DEF Driven!Requests
  <2> QED BY <2>3, <2>4
<1> QED BY <1>1, <1>2

\* Everybody subscribed is told, unless left out.
LEMMA AllTold ==
  ASSUME Lines, LinesOK, NEW t \in Train, NEW but, speed'[t] \in Speed, dir'[t] \in {0, 1},
         t \in turned \/ dir'[t] = 0, told' = Driven!Tell(t, subscribed, but)
  PROVE  /\ \A p \in Page : told'[p] \in Seq(Told(turned))
         /\ told' = [p \in Page |-> told'[p]]
<1> DEFINE m == Driven!UpdateOf(t, speed', dir')
<1>1. m \in Told(turned)
  BY DEF Driven!UpdateOf, Told, Driven!ToPage
<1>2. ASSUME NEW p \in Page  PROVE told'[p] \in Seq(Told(turned))
  <2>1. told[p] \in Seq(Told(turned)) /\ Append(told[p], m) \in Seq(Told(turned))
    BY <1>1, AppendProperties DEF Lines
  <2>2. told'[p] = Append(told[p], m) \/ told'[p] = told[p]
    BY DEF Driven!Tell
  <2> QED BY <2>1, <2>2
<1>3. told' = [p \in Page |-> told'[p]]
  BY DEF Driven!Tell
<1> QED BY <1>2, <1>3

LEMMA IdleKept ==
  ASSUME Idle, SliderOK, [Control!Next]_(Control!vars)
  PROVE  Idle'
<1>1. ASSUME NEW p \in Page, NEW b \in Control!Box, NEW v \in Speed, Control!Press(p, b, v)  PROVE Idle'
  BY <1>1 DEF Idle, Control!Press, SliderOK
<1>2. ASSUME NEW p \in Page, Control!Release(p)  PROVE Idle'
  <2>1. p \in Driver
    BY <1>2 DEF Idle, Control!Release, SliderOK
  <2>2. \A q \in Page \ {p} : UNCHANGED <<fingers[q], handlers[q], timers[q]>>
    BY <1>2 DEF Control!Release, SliderOK
  <2> QED BY <2>1, <2>2 DEF Idle
<1>3. ASSUME NEW p \in Page, NEW i \in DOMAIN timers[p], Control!TimeOut(p, i)  PROVE Idle'
  <2>1. p \in Driver
    BY <1>3 DEF Idle
  <2>2. \A q \in Page \ {p} : UNCHANGED <<fingers[q], handlers[q], timers[q]>>
    BY <1>3 DEF Control!TimeOut, Control!slider, SliderOK
  <2> QED BY <2>1, <2>2 DEF Idle
<1>4. CASE UNCHANGED <<Control!slider, Control!timer>>
  BY <1>4 DEF Idle, Control!slider, Control!timer
<1> QED BY <1>1, <1>2, <1>3, <1>4, SliderSteps

\* A page has another line to send.
LEMMA SendsMore ==
  ASSUME Lines, LinesOK, NEW p \in Page, NEW T, turned \subseteq T, turned' = T,
         NEW line \in Seq(Sent(p, T)), commands' = [commands EXCEPT ![p] = line],
         told' = told
  PROVE  (Lines /\ LinesOK)'
<1>1. \A q \in Page : commands[q] \in Seq(Sent(q, T)) /\ told[q] \in Seq(Told(T))
  BY MoreTurned DEF Lines
<1>2. \A q \in Page : commands'[q] \in Seq(Sent(q, T)) /\ told'[q] \in Seq(Told(T))
  BY <1>1 DEF LinesOK
<1>3. commands' = [q \in Page |-> commands'[q]] /\ told' = [q \in Page |-> told'[q]]
  BY DEF LinesOK
<1> QED BY <1>2, <1>3 DEF Lines, LinesOK

\* A slider or a button gives trains of the boxes another speed.
LEMMA SetSpeedAhead ==
  ASSUME ViewOK, Shown, NEW p \in Page, NEW bs, NEW v \in Speed, Driven!SetSpeed(p, bs, v), UNCHANGED <<train, turned>>
  PROVE  /\ (ViewOK /\ Shown)'
         /\ \A t \in Train : state'[p][t].dir = state[p][t].dir
<1>1. state' = [state EXCEPT ![p] =
        [t \in Train |-> IF \E b \in bs : train[p][b] = t THEN [state[p][t] EXCEPT !.speed = v] ELSE state[p][t]]]
  BY DEF Driven!SetSpeed
<1>2. ASSUME NEW t \in Train
      PROVE  /\ [state[p][t] EXCEPT !.speed = v] \in [speed : Speed, dir : {0, 1}]
             /\ [state[p][t] EXCEPT !.speed = v].dir = state[p][t].dir
  BY DEF ViewOK
<1>3. ASSUME NEW t \in Train
      PROVE  state'[p][t] \in [speed : Speed, dir : {0, 1}] /\ state'[p][t].dir = state[p][t].dir
  BY <1>1, <1>2 DEF ViewOK
<1>4. \A q \in Page \ {p} : state'[q] = state[q]
  BY <1>1 DEF ViewOK
<1>5. ViewOK'
  <2>1. state'[p] \in [Train -> [speed : Speed, dir : {0, 1}]]
    <3>1. DOMAIN state'[p] = Train /\ state'[p] = [t \in Train |-> state'[p][t]]
      BY <1>1 DEF ViewOK
    <3> QED BY <1>3, <3>1
  <2>2. state' = [state EXCEPT ![p] = state'[p]]
    BY <1>1 DEF ViewOK
  <2> QED BY <2>1, <2>2 DEF ViewOK
<1>6. Shown'
  BY <1>3, <1>4 DEF Shown
<1> QED BY <1>3, <1>5, <1>6

\* What a page would ask with another direction or speed of it.
LEMMA AskedState ==
  ASSUME NEW p \in Page, NEW b \in Driven!Box, train \in [Page -> [Driven!Box -> Train \cup {Nobody}]], p \in Driver, NEW T,
         NEW st \in [Train -> [speed : Speed, dir : {0, 1}]], \A t \in Train : t \in T \/ st[t].dir = 0
  PROVE  Driven!Requests(p, st, b) \in Seq(Sent(p, T))
<1>1. train[p][b] \in Train \cup {Nobody}
  OBVIOUS
<1> QED BY <1>1, Asked

\* A slider that is touched: Press and Move
LEMMA TouchAhead ==
  ASSUME Straight, NEW p \in Page, NEW bs, NEW v \in Speed, Driven!SetSpeed(p, bs, v),
         UNCHANGED <<train, commands, told, Driven!server, turned>>
  PROVE  Ahead'
<1>2. (ViewOK /\ Shown)'
  BY SetSpeedAhead DEF Straight, Ahead
<1>3. (ServerOK /\ LinesOK /\ Forward /\ Lines)'
  BY DEF Straight, Ahead, ServerOK, LinesOK, Forward, Lines, Driven!server
<1> QED BY <1>2, <1>3 DEF Ahead

LEMMA ReleaseAhead ==
  ASSUME Straight, NEW p \in Page, Driven!Release(p)
  PROVE  Ahead'
<1>1. UNCHANGED <<Driven!view, told, Driven!server, turned>>
  BY DEF Driven!Release, Driven!bounds
<1>2. (ViewOK /\ ServerOK /\ Shown /\ Forward)'
  BY <1>1 DEF Straight, Ahead, ViewOK, ServerOK, Shown, Forward, Driven!view, Driven!server
<1>3. (Lines /\ LinesOK)'
  <2>1. CASE handlers[p] = {}
    <3>1. UNCHANGED commands
      BY <2>1 DEF Driven!Release
    <3> QED BY <1>1, <3>1 DEF Straight, Ahead, Lines, LinesOK
  <2>2. CASE handlers[p] # {}
    <3> DEFINE twice(b) == IF b \in handlers[p] THEN Driven!Requests(p, state[p], b) \o Driven!Requests(p, state[p], b) ELSE <<>>
               S == Sent(p, turned)
    <3>1. \A b \in Driven!Box : Driven!Requests(p, state[p], b) \in Seq(S)
      <4>1. p \in Driver
        BY <2>2 DEF Straight, Idle
      <4>2. state[p] \in [Train -> [speed : Speed, dir : {0, 1}]] /\ \A t \in Train : t \in turned \/ state[p][t].dir = 0
        BY DEF Straight, Ahead, ViewOK, Shown
      <4> QED BY <4>1, <4>2, AskedState DEF Straight, Ahead, ViewOK
    <3>2. \A b \in Driven!Box : twice(b) \in Seq(S)
      BY <3>1, ConcatProperties, EmptySeq
    <3>3. 1 \in Driven!Box /\ 2 \in Driven!Box
      BY DEF Driven!Box
    <3>4. commands[p] \in Seq(S)
      BY DEF Straight, Ahead, Lines
    <3>5. commands' = [commands EXCEPT ![p] = commands[p] \o twice(1) \o twice(2)]
      BY <2>2 DEF Driven!Release
    <3> HIDE DEF twice, S
    <3>6. commands[p] \o twice(1) \o twice(2) \in Seq(S)
      <4>1. commands[p] \o twice(1) \in Seq(S)
        BY <3>2, <3>3, <3>4, ConcatProperties
      <4> QED BY <3>2, <3>3, <4>1, ConcatProperties
    <3> DEFINE line == commands[p] \o twice(1) \o twice(2)
    <3>7. commands' = [commands EXCEPT ![p] = line] /\ line \in Seq(S)
      BY <3>5, <3>6
    <3> HIDE DEF line
    <3> QED BY <1>1, <3>7, SendsMore DEF Straight, Ahead, S
  <2> QED BY <2>1, <2>2
<1> QED BY <1>2, <1>3 DEF Ahead

LEMMA TimeOutAhead ==
  ASSUME Straight, NEW p \in Page, NEW i \in DOMAIN timers[p], Driven!TimeOut(p, i)
  PROVE  Ahead'
<1>1. UNCHANGED <<Driven!view, told, Driven!server, turned>>
  BY DEF Driven!TimeOut, Driven!bounds
<1>2. (ViewOK /\ ServerOK /\ Shown /\ Forward)'
  BY <1>1 DEF Straight, Ahead, ViewOK, ServerOK, Shown, Forward, Driven!view, Driven!server
<1>3. (Lines /\ LinesOK)'
  <2>1. CASE UNCHANGED commands
    BY <1>1, <2>1 DEF Straight, Ahead, Lines, LinesOK
  <2>2. CASE ~UNCHANGED commands
    <3> DEFINE b == timers[p][i]
    <3>1. b \in Driven!Box /\ p \in Driver
      BY LenProperties, ElementOfSeq DEF Straight, SliderOK, Idle, Driven!Box, Control!Box
    <3>2. commands' = [commands EXCEPT ![p] = commands[p] \o Driven!Requests(p, state[p], b)]
      BY <2>2 DEF Driven!TimeOut
    <3> HIDE DEF b
    <3>3. Driven!Requests(p, state[p], b) \in Seq(Sent(p, turned))
      <4>1. state[p] \in [Train -> [speed : Speed, dir : {0, 1}]] /\ \A t \in Train : t \in turned \/ state[p][t].dir = 0
        BY DEF Straight, Ahead, ViewOK, Shown
      <4> QED BY <3>1, <4>1, AskedState DEF Straight, Ahead, ViewOK
    <3> DEFINE line == commands[p] \o Driven!Requests(p, state[p], b)
    <3>4. line \in Seq(Sent(p, turned)) /\ commands' = [commands EXCEPT ![p] = line]
      BY <3>2, <3>3, ConcatProperties DEF Straight, Ahead, Lines
    <3> HIDE DEF line
    <3> QED BY <1>1, <3>4, SendsMore DEF Straight, Ahead
  <2> QED BY <2>1, <2>2
<1> QED BY <1>2, <1>3 DEF Ahead

LEMMA StopAhead ==
  ASSUME Control!ControlAssumption, Straight, NEW p \in Page, NEW b \in Driven!Box, Driven!Stop(p, b)
  PROVE  Ahead'
<1>1. /\ p \in Driver /\ Driven!SetSpeed(p, {b}, 0) /\ UNCHANGED <<train, told, Driven!server, turned>>
      /\ commands' = [commands EXCEPT ![p] = commands[p] \o Driven!Requests(p, state'[p], b)]
  BY DEF Driven!Stop
<1>2. (ViewOK /\ Shown)' 
  BY <1>1, SetSpeedAhead DEF Control!ControlAssumption, Straight, Ahead
<1>3. Driven!Requests(p, state'[p], b) \in Seq(Sent(p, turned))
  <2>1. state'[p] \in [Train -> [speed : Speed, dir : {0, 1}]] /\ \A t \in Train : t \in turned \/ state'[p][t].dir = 0
    BY <1>1, <1>2 DEF ViewOK, Shown
  <2> QED BY <1>1, <2>1, AskedState DEF Straight, Ahead, ViewOK
<1>4. (ServerOK /\ Forward)'
  BY <1>1 DEF Straight, Ahead, ServerOK, Forward, Driven!server
<1>5. (Lines /\ LinesOK)'
  <2> DEFINE line == commands[p] \o Driven!Requests(p, state'[p], b)
  <2>1. line \in Seq(Sent(p, turned)) /\ commands' = [commands EXCEPT ![p] = line]
    BY <1>1, <1>3, ConcatProperties DEF Straight, Ahead, Lines
  <2> HIDE DEF line
  <2> QED BY <1>1, <2>1, SendsMore DEF Straight, Ahead
<1> QED BY <1>2, <1>4, <1>5 DEF Ahead

LEMMA SetDirAhead ==
  ASSUME Straight, NEW p \in Page, NEW b \in Driven!Box, NEW d \in {0, 1}, Driven!SetDir(p, b, d)
  PROVE  Ahead'
<1> DEFINE t == train[p][b]
           T == turned \cup {t}
<1>1. t \in Train
  BY DEF Driven!SetDir, Straight, Ahead, ViewOK
<1>2. /\ p \in Driver /\ turned' = T /\ UNCHANGED <<train, told, Driven!server>>
      /\ state' = [state EXCEPT ![p][t].dir = d]
      /\ commands' = [commands EXCEPT ![p] = commands[p] \o Driven!Requests(p, state'[p], b) \o Driven!Requests(p, state'[p], b)]
  BY DEF Driven!SetDir
<1>3. state[p][t] \in [speed : Speed, dir : {0, 1}]
  BY <1>1 DEF Straight, Ahead, ViewOK
<1>4. [state[p][t] EXCEPT !.dir = d] \in [speed : Speed, dir : {0, 1}]
  BY <1>3
<1> HIDE DEF t, T
<1>5. state'[p] = [state[p] EXCEPT ![t] = [state[p][t] EXCEPT !.dir = d]] /\ state' = [state EXCEPT ![p] = state'[p]]
  BY <1>1, <1>2 DEF Straight, Ahead, ViewOK
<1>6. ViewOK'
  BY <1>1, <1>2, <1>4, <1>5 DEF Straight, Ahead, ViewOK
<1>7. Shown'
  <2>1. ASSUME NEW q \in Page, NEW u \in Train  PROVE u \in T \/ state'[q][u].dir = 0
    <3>1. CASE u = t
      BY <3>1 DEF T
    <3>2. CASE u # t
      <4>1. u \in turned \/ state[q][u].dir = 0
        BY DEF Straight, Ahead, Shown
      <4>2. state'[q][u] = state[q][u]
        BY <1>5, <3>2 DEF Straight, Ahead, ViewOK
      <4> QED BY <4>1, <4>2 DEF T
    <3> QED BY <3>1, <3>2
  <2> QED BY <1>2, <2>1 DEF Shown
<1>8. (ServerOK /\ Forward)'
  BY <1>2 DEF Straight, Ahead, ServerOK, Forward, Driven!server, T
<1>9. (Lines /\ LinesOK)'
  <2> DEFINE r == Driven!Requests(p, state'[p], b)
  <2>1. r \in Seq(Sent(p, T))
    <3>1. state'[p] \in [Train -> [speed : Speed, dir : {0, 1}]] /\ \A u \in Train : u \in T \/ state'[p][u].dir = 0
      BY <1>2, <1>6, <1>7 DEF ViewOK, Shown
    <3> QED BY <1>2, <3>1, AskedState DEF Straight, Ahead, ViewOK
  <2>2. commands' = [commands EXCEPT ![p] = commands[p] \o r \o r]
    BY <1>2
  <2> HIDE DEF r
  <2>3. turned \subseteq T
    BY DEF T
  <2>4. commands[p] \in Seq(Sent(p, T))
    BY <2>3, MoreTurned DEF Straight, Ahead, Lines
  <2> DEFINE line == commands[p] \o r \o r
  <2>5. commands[p] \o r \in Seq(Sent(p, T))
    BY <2>1, <2>4, ConcatProperties
  <2>6. line \in Seq(Sent(p, T)) /\ commands' = [commands EXCEPT ![p] = line]
    BY <2>1, <2>2, <2>5, ConcatProperties
  <2> HIDE DEF line
  <2> QED BY <1>2, <2>3, <2>6, SendsMore DEF Straight, Ahead
<1> QED BY <1>6, <1>7, <1>8, <1>9 DEF Ahead

LEMMA SelectAhead ==
  ASSUME Straight, NEW p \in Page, NEW b \in Driven!Box, NEW t \in Train, Driven!Select(p, b, t)
  PROVE  Ahead'
<1> DEFINE m == [op |-> "subscribe", trains |-> [train[p] EXCEPT ![b] = t]]
           line == Append(commands[p], m)
<1>1. /\ train' = [train EXCEPT ![p][b] = t] /\ UNCHANGED <<state, told, Driven!server, turned>>
      /\ commands' = [commands EXCEPT ![p] = line]
  BY DEF Driven!Select
<1>2. m \in Sent(p, turned)
  <2>1. [train[p] EXCEPT ![b] = t] \in [Driven!Box -> Train \cup {Nobody}]
    BY DEF Straight, Ahead, ViewOK
  <2>2. m \in Driven!ToServer
    BY <2>1 DEF Driven!ToServer
  <2> QED BY <2>2 DEF Sent
<1>3. line \in Seq(Sent(p, turned))
  BY <1>2, AppendProperties DEF Straight, Ahead, Lines
<1> HIDE DEF line
<1>4. (Lines /\ LinesOK)'
  BY <1>1, <1>3, SendsMore DEF Straight, Ahead
<1>5. (ViewOK /\ Shown)'
  BY <1>1 DEF Straight, Ahead, ViewOK, Shown
<1>6. (ServerOK /\ Forward)'
  BY <1>1 DEF Straight, Ahead, ServerOK, Forward, Driven!server
<1> QED BY <1>4, <1>5, <1>6 DEF Ahead

LEMMA UpdateAhead ==
  ASSUME Straight, NEW p \in Page, Driven!Update(p)
  PROVE  Ahead'
<1> DEFINE m == Head(told[p])
           rest == Tail(told[p])
           new == [speed |-> m.speed, dir |-> m.dir]
<1>1. /\ told[p] # <<>> /\ UNCHANGED <<train, commands, Driven!server, turned>>
      /\ told' = [told EXCEPT ![p] = rest]
      /\ state' = state \/ state' = [state EXCEPT ![p][m.train] = new]
  BY DEF Driven!Update, Driven!bounds
<1>2. m \in Told(turned) /\ rest \in Seq(Told(turned))
  BY <1>1, HeadTailProperties DEF Straight, Ahead, Lines
<1>3. m.train \in Train /\ new \in [speed : Speed, dir : {0, 1}] /\ (m.train \in turned \/ new.dir = 0)
  BY <1>2 DEF Told, Driven!ToPage
<1> HIDE DEF m, rest, new
<1>4. (ViewOK /\ Shown)'
  <2>1. CASE state' = state
    BY <1>1, <2>1 DEF Straight, Ahead, ViewOK, Shown
  <2>2. CASE state' = [state EXCEPT ![p][m.train] = new]
    <3>1. state' = [state EXCEPT ![p] = [state[p] EXCEPT ![m.train] = new]]
      BY <2>2 DEF Straight, Ahead, ViewOK
    <3>2. [state[p] EXCEPT ![m.train] = new] \in [Train -> [speed : Speed, dir : {0, 1}]]
      BY <1>3 DEF Straight, Ahead, ViewOK
    <3>3. ViewOK'
      BY <1>1, <3>1, <3>2 DEF Straight, Ahead, ViewOK
    <3>4. ASSUME NEW q \in Page, NEW u \in Train  PROVE u \in turned \/ state'[q][u].dir = 0
      <4>1. state'[q][u] = state[q][u] \/ (u = m.train /\ state'[q][u] = new)
        BY <3>1 DEF Straight, Ahead, ViewOK
      <4> QED BY <1>3, <4>1 DEF Straight, Ahead, Shown
    <3> QED BY <1>1, <3>3, <3>4 DEF Shown
  <2> QED BY <1>1, <2>1, <2>2
<1>5. (ServerOK /\ Forward)'
  BY <1>1 DEF Straight, Ahead, ServerOK, Forward, Driven!server
<1>6. (Lines /\ LinesOK)'
  BY <1>1, <1>2 DEF Straight, Ahead, Lines, LinesOK
<1> QED BY <1>4, <1>5, <1>6 DEF Ahead

\* A page gets the answer to a subscription of somebody: it may be none.
LEMMA UpdatesTold ==
  ASSUME NEW T, NEW S, NEW u, NEW line \in Seq(Told(T)),
         u \in S => Driven!UpdateOf(u, speed', dir') \in Told(T)
  PROVE  Driven!Updated(line, S, u) \in Seq(Told(T))
BY AppendProperties DEF Driven!Updated

LEMMA SubscribeAhead ==
  ASSUME Straight, NEW p \in Page, NEW m \in Sent(p, turned), m.op = "subscribe",
         Driven!SubscribeAtOnce(p, m), UNCHANGED turned
  PROVE  /\ (ServerOK /\ Forward)'
         /\ \A q \in Page : told'[q] \in Seq(Told(turned))
         /\ told' = [q \in Page |-> told'[q]]
<1>1. m.trains \in [Driven!Box -> Train \cup {Nobody}]
  BY DEF Sent, Driven!ToServer
<1>2. UNCHANGED <<speed, dir, turning>>
  BY DEF Driven!SubscribeAtOnce, Driven!Subscribe
<1>3. subscribed' \in [Page -> SUBSET Train]
  <2>1. {m.trains[b] : b \in Driven!Box} \ {Nobody} \subseteq Train
    BY <1>1
  <2> QED BY <2>1 DEF Driven!SubscribeAtOnce, Driven!Subscribe, Straight, Ahead, ServerOK
<1>4. (ServerOK /\ Forward)'
  BY <1>2, <1>3 DEF Straight, Ahead, ServerOK, Forward
<1>5. ASSUME NEW u \in Train  PROVE Driven!UpdateOf(u, speed', dir') \in Told(turned)
  BY <1>2, <1>5 DEF Driven!UpdateOf, Told, Driven!ToPage, Straight, Ahead, ServerOK, Forward
<1>6. ASSUME NEW q \in Page  PROVE told'[q] \in Seq(Told(turned))
  <2> DEFINE one == Driven!Updated(told[q], subscribed'[q], m.trains[1])
             two == Driven!Updated(one, subscribed'[q], m.trains[2])
  <2>1. \A u \in subscribed'[q] : Driven!UpdateOf(u, speed', dir') \in Told(turned)
    BY <1>3, <1>5
  <2>2. one \in Seq(Told(turned))
    BY <2>1, UpdatesTold DEF Straight, Ahead, Lines
  <2> HIDE DEF one
  <2>3. two \in Seq(Told(turned))
    BY <2>1, <2>2, UpdatesTold
  <2>4. told'[q] = two
    BY DEF Driven!SubscribeAtOnce, one
  <2> QED BY <2>3, <2>4
<1>7. told' = [q \in Page |-> told'[q]]
  <2> DEFINE line(q) == Driven!Updated(Driven!Updated(told[q], subscribed'[q], m.trains[1]), subscribed'[q], m.trains[2])
  <2>1. told' = [q \in Page |-> line(q)]
    BY DEF Driven!SubscribeAtOnce
  <2> HIDE DEF line
  <2> QED BY <2>1
<1> QED BY <1>4, <1>6, <1>7

LEMMA SetTrainSpeedAhead ==
  ASSUME Control!ControlAssumption, Straight, NEW p \in Page, NEW m \in Sent(p, turned), m.op = "speed",
         Driven!SpeedAtOnce(p, m), UNCHANGED turned
  PROVE  /\ (ServerOK /\ Forward)'
         /\ \A q \in Page : told'[q] \in Seq(Told(turned))
         /\ told' = [q \in Page |-> told'[q]]
<1> DEFINE t == m.train
<1>1. t \in Train /\ m.speed \in Speed /\ m.dir \in {0, 1} /\ (t \in turned \/ m.dir = 0)
  BY DEF Sent, Driven!ToServer
<1>2. /\ \E v \in {0, m.speed} : speed' = [speed EXCEPT ![t] = v]
      /\ dir' = dir \/ (m.dir # dir[t] /\ dir' = [dir EXCEPT ![t] = m.dir])
      /\ turning' = turning \/ (m.dir # dir[t] /\ turning' = turning \cup {t})
      /\ told' = Driven!Tell(t, subscribed, {p}) /\ UNCHANGED subscribed
  BY DEF Driven!SpeedAtOnce, Driven!Obey
<1> HIDE DEF t
<1>3. m.dir # dir[t] => t \in turned
  BY <1>1 DEF Straight, Ahead, Forward
<1>4. ServerOK'
  <2>1. speed' \in [Train -> Speed]
    BY <1>1, <1>2 DEF Control!ControlAssumption, Straight, Ahead, ServerOK
  <2>2. dir' \in [Train -> {0, 1}] /\ turning' \subseteq Train
    BY <1>1, <1>2 DEF Straight, Ahead, ServerOK
  <2> QED BY <1>2, <2>1, <2>2 DEF Straight, Ahead, ServerOK
<1>5. Forward'
  <2>1. ASSUME NEW u \in Train, u \notin turned  PROVE dir'[u] = 0 /\ u \notin turning'
    <3>1. dir[u] = 0 /\ u \notin turning
      BY <2>1 DEF Straight, Ahead, Forward
    <3>2. u = t => UNCHANGED <<dir, turning>>
      BY <1>2, <1>3, <2>1
    <3> QED BY <1>2, <3>1, <3>2 DEF Straight, Ahead, ServerOK
  <2> QED BY <2>1 DEF Forward
<1>6. speed'[t] \in Speed /\ dir'[t] \in {0, 1} /\ (t \in turned \/ dir'[t] = 0)
  BY <1>1, <1>4, <1>5 DEF ServerOK, Forward
<1> QED BY <1>1, <1>2, <1>4, <1>5, <1>6, AllTold DEF Straight, Ahead

LEMMA ServeAhead ==
  ASSUME Control!ControlAssumption, Straight, NEW p \in Page, Driven!ServeAtOnce(p)
  PROVE  Ahead'
<1> DEFINE m == Head(commands[p])
           rest == Tail(commands[p])
<1>1. /\ commands[p] # <<>> /\ UNCHANGED <<Driven!view, turned>>
      /\ commands' = [commands EXCEPT ![p] = rest]
      /\ IF m.op = "speed" THEN Driven!SpeedAtOnce(p, m) ELSE Driven!SubscribeAtOnce(p, m)
  BY DEF Driven!ServeAtOnce, Driven!bounds
<1>2. m \in Sent(p, turned) /\ rest \in Seq(Sent(p, turned))
  BY <1>1, HeadTailProperties DEF Straight, Ahead, Lines
<1>3. m.op \in {"speed", "subscribe"}
  BY <1>2 DEF Sent, Driven!ToServer
<1> HIDE DEF m, rest
<1>4. /\ (ServerOK /\ Forward)'
      /\ \A q \in Page : told'[q] \in Seq(Told(turned))
      /\ told' = [q \in Page |-> told'[q]]
  <2>1. CASE m.op = "speed"
    BY <1>1, <1>2, <2>1, SetTrainSpeedAhead
  <2>2. CASE m.op = "subscribe"
    BY <1>1, <1>2, <2>2, SubscribeAhead
  <2> QED BY <1>3, <2>1, <2>2
<1>5. (ViewOK /\ Shown)'
  BY <1>1 DEF Straight, Ahead, ViewOK, Shown, Driven!view
<1>6. /\ \A q \in Page : commands'[q] \in Seq(Sent(q, turned))
      /\ commands' = [q \in Page |-> commands'[q]]
  BY <1>1, <1>2 DEF Straight, Ahead, Lines, LinesOK
<1>7. (Lines /\ LinesOK)'
  BY <1>1, <1>4, <1>6 DEF Lines, LinesOK
<1> QED BY <1>4, <1>5, <1>7 DEF Ahead

LEMMA ChangeAhead ==
  ASSUME Straight, NEW t \in Train, NEW v \in Speed, Driven!ChangeAtOnce(t, v)
  PROVE  Ahead'
<1>1. /\ speed' = [speed EXCEPT ![t] = v] /\ told' = Driven!Tell(t, subscribed, {})
      /\ UNCHANGED <<dir, turning, subscribed, train, state, commands, turned>>
  BY DEF Driven!ChangeAtOnce, Driven!Step, Driven!view
<1>2. (ViewOK /\ Shown /\ ServerOK /\ Forward)'
  BY <1>1 DEF Straight, Ahead, ViewOK, Shown, ServerOK, Forward
<1>3. speed'[t] \in Speed /\ dir'[t] \in {0, 1} /\ (t \in turned \/ dir'[t] = 0)
  BY <1>1, <1>2 DEF ServerOK, Forward
<1>4. (Lines /\ LinesOK)'
  BY <1>1, <1>3, AllTold DEF Straight, Ahead, Lines, LinesOK
<1> QED BY <1>2, <1>4 DEF Ahead

LEMMA TurnAhead ==
  ASSUME Control!ControlAssumption, Straight, NEW t \in Train, Driven!Turn(t)
  PROVE  Ahead'
<1>1. /\ t \in turning /\ speed' = [speed EXCEPT ![t] = 0] /\ dir' = [dir EXCEPT ![t] = 1 - dir[t]]
      /\ turning' = turning \ {t} /\ UNCHANGED <<subscribed, train, state, commands, told, turned>>
  BY DEF Driven!Turn, Driven!view, Driven!bounds
<1>2. t \in turned
  BY <1>1 DEF Straight, Ahead, Forward
<1>3. dir[t] \in {0, 1} /\ 1 - dir[t] \in {0, 1}
  BY DEF Straight, Ahead, ServerOK
<1>4. ServerOK'
  BY <1>1, <1>3 DEF Control!ControlAssumption, Straight, Ahead, ServerOK
<1>5. Forward'
  BY <1>1, <1>2 DEF Straight, Ahead, Forward, ServerOK
<1>6. (ViewOK /\ Shown /\ Lines /\ LinesOK)'
  BY <1>1 DEF Straight, Ahead, ViewOK, Shown, Lines, LinesOK
<1> QED BY <1>4, <1>5, <1>6 DEF Ahead

\* Every step keeps the trains nobody turned going forward.
LEMMA StraightKept ==
  ASSUME Control!ControlAssumption, Straight, [Control!Next]_(Control!vars), [Driven!DrivingNext]_(Driven!drivingVars)
  PROVE  Straight'
<1>1. SliderOK' /\ Idle'
  BY SliderKept, IdleKept DEF Straight
<1>2. Ahead'
  <2>1. ASSUME NEW p \in Page, NEW b \in Driven!Box, NEW v \in Speed, Driven!Press(p, b, v)  PROVE Ahead'
    BY <2>1, TouchAhead DEF Driven!Press
  <2>2. ASSUME NEW p \in Page, NEW v \in Speed, Driven!Move(p, v)  PROVE Ahead'
    BY <2>2, TouchAhead DEF Driven!Move
  <2>3. CASE UNCHANGED Driven!drivingVars
    BY <2>3 DEF Straight, Ahead, ViewOK, Shown, ServerOK, Forward, Lines, LinesOK, Driven!drivingVars,
      Driven!view, Driven!server, Driven!bounds
  <2> QED BY <2>1, <2>2, <2>3, ReleaseAhead, TimeOutAhead, StopAhead, SetDirAhead, SelectAhead,
    UpdateAhead, ServeAhead, ChangeAhead, TurnAhead DEF Driven!DrivingNext,
    Driven!UserOrPage, Driven!Times
<1> QED BY <1>1, <1>2 DEF Straight

LEMMA StraightAtFirst ==
  ASSUME Control!ControlAssumption, Driven!DrivingInit
  PROVE  Straight
<1>1. \A S : <<>> \in Seq(S)
  BY EmptySeq
<1>2. SliderOK /\ Idle
  <2>1. <<>> \in Seq(Control!Box) /\ 0 \in 0..Fingers
    BY <1>1 DEF Control!ControlAssumption
  <2> QED BY <2>1 DEF Driven!DrivingInit, SliderOK, Idle
<1>3. ViewOK /\ Shown
  BY DEF Control!ControlAssumption, Driven!DrivingInit, ViewOK, Shown
<1>4. ServerOK /\ Forward
  BY DEF Control!ControlAssumption, Driven!DrivingInit, ServerOK, Forward
<1>5. Lines /\ LinesOK
  BY <1>1 DEF Driven!DrivingInit, Lines, LinesOK
<1> QED BY <1>2, <1>3, <1>4, <1>5 DEF Straight, Ahead

\* A line that gets longer was of the same things.
LEMMA WasTyped ==
  ASSUME NEW S, NEW line, Line(line), NEW c, NEW p, NEW subs, NEW speeds, NEW dirs,
         ToldOf(line, c, p, subs, speeds, dirs) \in Seq(S)
  PROVE  line \in Seq(S)
<1> DEFINE m == Control!UpdateOf(c.train, speeds, dirs)
<1>1. SUFFICES ASSUME Append(line, m) \in Seq(S) PROVE line \in Seq(S)
  BY DEF ToldOf
<1> HIDE DEF m
<1>2. /\ Len(Append(line, m)) = Len(line) + 1 /\ \A i \in 1..Len(line) : Append(line, m)[i] = line[i]
      /\ Len(line) \in Nat
  BY LineAppend DEF Line
<1>3. \A i \in 1..Len(line) : line[i] \in S
  BY <1>1, <1>2, ElementOfSeq
<1> QED BY <1>3, SeqOfLine

\* The pages, the server and what is under way between them are of their types,
\* with threads of the server that do not preempt each other.
THEOREM DrivingTyped ==
  ASSUME ~Preempted
  PROVE  PagesSpec => []Control!DrivingTypeOK
<1> USE DrivingAssumption
<1>1. Control!Init => Teller /\ Straight
  BY TellerAtFirst, StraightAtFirst
<1>2. Teller /\ Straight /\ [Control!Next]_(Control!vars) => (Teller /\ Straight)'
  BY TellerKept, StraightKept
<1>3. Teller /\ Straight => Control!DrivingTypeOK
  <2> SUFFICES ASSUME Teller, Straight PROVE Control!DrivingTypeOK
    OBVIOUS
  <2>1. Driven!DrivingTypeOK
    BY StraightTyped
  <2>2. ASSUME NEW p \in Page PROVE updates[p] \in Seq(Driven!ToPage)
    <3> DEFINE S == Driven!ToPage
               next(line, c) == ToldOf(line, c, p, subscribed, speed, dir)
    <3>0. SUFFICES updates[p] \in Seq(S)
      OBVIOUS
    <3>1. /\ told[p] \in Seq(S) /\ Line(updates[p]) /\ Line(telling)
          /\ told = ToldBy(updates, telling, subscribed, speed, dir)
      BY <2>1, ToldNow DEF Driven!DrivingTypeOK, Teller, Underway, Calls
    <3> HIDE DEF S
    <3>2. CASE telling = <<>>
      BY <3>1, <3>2, NothingToTell
    <3>3. CASE Len(telling) = 1
      <4>1. told[p] = next(updates[p], telling[1])
        BY <3>1, <3>3, OneCall
      <4> QED BY <3>1, <4>1, WasTyped
    <3>4. CASE Len(telling) = 2
      <4> DEFINE one == next(updates[p], telling[1])
      <4>1. told[p] = next(one, telling[2])
        BY <3>1, <3>4, TwoCalls
      <4>2. Line(one)
        BY <3>1, LineAppend DEF ToldOf
      <4>3. one \in Seq(S)
        <5> HIDE DEF one
        <5> QED BY <3>1, <4>1, <4>2, WasTyped
      <4> QED BY <3>1, <4>3, WasTyped
    <3>5. telling = <<>> \/ Len(telling) = 1 \/ Len(telling) = 2
      BY HowMany DEF Teller
    <3> QED BY <3>2, <3>3, <3>4, <3>5
  <2>3. updates \in [Page -> Seq(Driven!ToPage)]
    BY <2>2 DEF Teller, Underway
  <2> QED BY <2>1, <2>3 DEF Driven!DrivingTypeOK, Control!DrivingTypeOK, Driven!ToPage, Control!ToPage,
    Driven!ToServer, Control!ToServer, Driven!Box, Control!Box
<1> QED BY <1>1, <1>2, <1>3, Drives, PTL DEF Control!Spec

-----------------------------------------------------------------------------
(* What a page shows whose user only watches                               *)

\* What page p shows, or will after the messages under way to it, of the train in
\* its box b is the speed that train has.
Showing(p, b) ==
  train[p][b] \in turned \cup {Nobody} \/
    /\ train[p][b] \in subscribed[p]
    /\ Latest(told[p], train[p][b], state[p][train[p][b]].speed, speed[train[p][b]])

\* Or the page has yet to be answered, and the last it asked for is the trains of
\* its boxes.
Following(p) ==
  IF commands[p] = <<>> THEN \A b \in Driven!Box : Showing(p, b)
                        ELSE commands[p][Len(commands[p])].trains = train[p]

Follows == \A p \in Page : p \in Driver \/ Following(p)

\* What another page does, the train nobody turned being as fast as before
LEMMA Unseen ==
  ASSUME Straight, NEW p \in Page, Following(p), turned \subseteq turned',
         train'[p] = train[p], state'[p] = state[p], subscribed'[p] = subscribed[p],
         commands'[p] = commands[p], told'[p] = told[p],
         \A t \in Train : t \in turned \/ speed'[t] = speed[t]
  PROVE  Following(p)'
<1>1. CASE commands[p] # <<>>
  BY <1>1 DEF Following
<1>2. CASE commands[p] = <<>>
  <2>1. ASSUME NEW b \in Driven!Box  PROVE Showing(p, b)'
    <3>1. Showing(p, b)
      BY <1>2 DEF Following
    <3>2. CASE train[p][b] \in turned \cup {Nobody}
      BY <3>2 DEF Showing
    <3>3. CASE train[p][b] \notin turned \cup {Nobody}
      <4>1. train[p][b] \in Train
        BY <3>3 DEF Straight, Ahead, ViewOK
      <4>2. speed'[train[p][b]] = speed[train[p][b]]
        BY <3>3, <4>1
      <4>3. Latest(told[p], train[p][b], state[p][train[p][b]].speed, speed[train[p][b]])'
        BY <3>1, <3>3, <4>2 DEF Showing
      <4> QED BY <3>1, <3>3, <4>3 DEF Showing
    <3> QED BY <3>2, <3>3
  <2> QED BY <1>2, <2>1 DEF Following
<1> QED BY <1>1, <1>2

\* A train changes its speed and all that are subscribed are told, the page p too.
LEMMA Hears ==
  ASSUME Straight, Ahead', NEW p \in Page, Following(p), turned' = turned,
         NEW t \in Train, NEW but, p \notin but, told' = Driven!Tell(t, subscribed, but),
         \A u \in Train \ {t} : speed'[u] = speed[u],
         train'[p] = train[p], state'[p] = state[p], subscribed'[p] = subscribed[p],
         commands'[p] = commands[p]
  PROVE  Following(p)'
<1>1. CASE commands[p] # <<>>
  BY <1>1 DEF Following
<1>2. CASE commands[p] = <<>>
  <2>1. ASSUME NEW b \in Driven!Box  PROVE Showing(p, b)'
    <3> DEFINE u == train[p][b]
               m == Driven!UpdateOf(t, speed', dir')
               before == state[p][u].speed
               now == speed'[u]
    <3>1. Showing(p, b)
      BY <1>2 DEF Following
    <3>2. CASE u \in turned \cup {Nobody}
      BY <3>2 DEF Showing
    <3>3. CASE u \notin turned \cup {Nobody}
      <4>1. u \in Train
        BY <3>3 DEF Straight, Ahead, ViewOK
      <4>2. u \in subscribed[p] /\ Latest(told[p], u, before, speed[u])
        BY <3>1, <3>3 DEF Showing
      <4>3. told'[p] = IF t \in subscribed[p] THEN Append(told[p], m) ELSE told[p]
        BY DEF Driven!Tell
      <4>4. /\ m \in Driven!ToPage /\ m.train = t /\ m.speed = speed'[t]
            /\ told[p] \in Seq(Driven!ToPage)
        BY MoreTurned DEF Driven!UpdateOf, Driven!ToPage, Ahead, ServerOK, Straight, Lines
      <4>5. Latest(told'[p], u, before, now)
        <5>1. CASE t \in subscribed[p]
          <6>1. IF m.train = u THEN m.speed = now ELSE Latest(told[p], u, before, now)
            <7>1. CASE t = u
              BY <4>4, <7>1
            <7>2. CASE t # u
              <8>1. now = speed[u]
                BY <4>1, <7>2
              <8> QED BY <4>2, <4>4, <7>2, <8>1
            <7> QED BY <7>1, <7>2
          <6> HIDE DEF m, before, now, u
          <6>2. Latest(Append(told[p], m), u, before, now)
            BY <4>4, <6>1, LatestAppend
          <6> QED BY <4>3, <5>1, <6>2
        <5>2. CASE t \notin subscribed[p]
          <6>1. now = speed[u]
            BY <4>1, <4>2, <5>2
          <6> QED BY <4>2, <4>3, <5>2, <6>1
        <5> QED BY <5>1, <5>2
      <4>6. train'[p][b] = u /\ state'[p][u].speed = before
        OBVIOUS
      <4> QED BY <4>2, <4>5, <4>6 DEF Showing
    <3> QED BY <3>2, <3>3
  <2> QED BY <1>2, <2>1 DEF Following
<1> QED BY <1>1, <1>2

\* An answer to a subscription keeps the last message about a train the latest, and
\* is the last about the trains subscribed to.
LEMMA UpdatesKeep ==
  ASSUME NEW S, S \subseteq Train, NEW line \in Seq(Driven!ToPage), NEW u, NEW t, NEW before, NEW now,
         \A x \in S : Driven!UpdateOf(x, speed', dir') \in Driven!ToPage, Nobody \notin S,
         (t = u /\ t \in S) \/ Latest(line, t, before, now), t \in S => speed'[t] = now
  PROVE  /\ Driven!Updated(line, S, u) \in Seq(Driven!ToPage)
         /\ Latest(Driven!Updated(line, S, u), t, before, now)
<1>1. CASE u \in S
  <2> DEFINE m == Driven!UpdateOf(u, speed', dir')
  <2>1. Driven!Updated(line, S, u) = Append(line, m) /\ m \in Driven!ToPage /\ m.train = u /\ m.speed = speed'[u]
    BY <1>1 DEF Driven!Updated, Driven!UpdateOf
  <2>2. IF m.train = t THEN m.speed = now ELSE Latest(line, t, before, now)
    BY <1>1, <2>1
  <2> HIDE DEF m
  <2>3. Append(line, m) \in Seq(Driven!ToPage)
    BY <2>1, AppendProperties
  <2>4. Latest(Append(line, m), t, before, now)
    BY <1>1, <2>1, <2>2, LatestAppend
  <2> QED BY <2>1, <2>3, <2>4
<1>2. CASE u \notin S
  <2>1. Driven!Updated(line, S, u) = line
    BY <1>2 DEF Driven!Updated
  <2> QED BY <1>2, <2>1
<1> QED BY <1>1, <1>2

\* What the server tells of the trains somebody subscribes to
LEMMA AnswerTyped ==
  ASSUME Control!ControlAssumption, Straight, Ahead', NEW q \in Page
  PROVE  /\ \A x \in subscribed'[q] : Driven!UpdateOf(x, speed', dir') \in Driven!ToPage
         /\ Nobody \notin subscribed'[q] /\ subscribed'[q] \subseteq Train /\ told[q] \in Seq(Driven!ToPage)
<1>1. subscribed'[q] \subseteq Train
  BY DEF Ahead, ServerOK
<1>2. \A x \in Train : speed'[x] \in Speed /\ dir'[x] \in {0, 1}
  BY DEF Ahead, ServerOK
<1> QED BY <1>1, <1>2, MoreTurned DEF Control!ControlAssumption, Driven!UpdateOf, Driven!ToPage,
  Straight, Ahead, Lines

\* Another page subscribes.
LEMMA OtherSubscribes ==
  ASSUME Control!ControlAssumption, Straight, Ahead', NEW p \in Page, Following(p), NEW q \in Page \ {p}, NEW m,
         Driven!SubscribeAtOnce(q, m), UNCHANGED <<Driven!view, turned>>, commands'[p] = commands[p]
  PROVE  Following(p)'
<1>1. CASE commands[p] # <<>>
  BY <1>1 DEF Following, Driven!view
<1>2. CASE commands[p] = <<>>
  <2>1. ASSUME NEW b \in Driven!Box  PROVE Showing(p, b)'
    <3> DEFINE t == train[p][b]
               S == subscribed'[p]
               before == state[p][t].speed
               now == speed[t]
               one == Driven!Updated(told[p], S, m.trains[1])
               two == Driven!Updated(one, S, m.trains[2])
    <3>1. Showing(p, b)
      BY <1>2 DEF Following
    <3>2. CASE t \in turned \cup {Nobody}
      BY <3>2 DEF Showing, Driven!view
    <3>3. CASE t \notin turned \cup {Nobody}
      <4>1. t \in subscribed[p] /\ Latest(told[p], t, before, now)
        BY <3>1, <3>3 DEF Showing
      <4>2. S = subscribed[p] /\ UNCHANGED <<train, state, speed>>
        BY DEF Driven!SubscribeAtOnce, Driven!Subscribe, Straight, Ahead, ServerOK, Driven!view
      <4>3. told'[p] = two
        BY DEF Driven!SubscribeAtOnce
      <4>4. train'[p][b] = t /\ state'[p][t].speed = before /\ speed'[t] = now
        BY <4>2
      <4>5. /\ \A x \in S : Driven!UpdateOf(x, speed', dir') \in Driven!ToPage
            /\ Nobody \notin S /\ S \subseteq Train /\ told[p] \in Seq(Driven!ToPage)
        BY AnswerTyped
      <4> HIDE DEF S, t, before, now
      <4>6. one \in Seq(Driven!ToPage) /\ Latest(one, t, before, now)
        BY <4>1, <4>4, <4>5, UpdatesKeep
      <4> HIDE DEF one
      <4>7. Latest(two, t, before, now)
        BY <4>4, <4>5, <4>6, UpdatesKeep
      <4> HIDE DEF two
      <4>8. t \in S
        BY <4>1, <4>2
      <4> QED BY <4>3, <4>4, <4>7, <4>8 DEF Showing, S
    <3> QED BY <3>2, <3>3
  <2> QED BY <1>2, <2>1 DEF Following
<1> QED BY <1>1, <1>2

\* The page subscribes itself, and asks for nothing more.
LEMMA Subscribes ==
  ASSUME Control!ControlAssumption, Straight, Ahead', NEW p \in Page, NEW m, Driven!SubscribeAtOnce(p, m), UNCHANGED <<Driven!view, turned>>,
         commands'[p] = <<>>, m.trains = train[p]
  PROVE  Following(p)'
<1>1. ASSUME NEW b \in Driven!Box  PROVE Showing(p, b)'
  <2> DEFINE t == train[p][b]
             S == subscribed'[p]
             before == state[p][t].speed
             now == speed'[t]
             one == Driven!Updated(told[p], S, m.trains[1])
             two == Driven!Updated(one, S, m.trains[2])
  <2>1. train' = train /\ state' = state /\ turned' = turned
    BY DEF Driven!view
  <2>2. CASE t \in turned \cup {Nobody}
    BY <2>1, <2>2 DEF Showing
  <2>3. CASE t \notin turned \cup {Nobody}
    <3>1. t \in S
      BY <2>3 DEF Driven!SubscribeAtOnce, Driven!Subscribe, Straight, Ahead, ServerOK
    <3>2. told'[p] = two
      BY DEF Driven!SubscribeAtOnce
    <3>3. train'[p][b] = t /\ state'[p][t].speed = before
      BY <2>1
    <3>4. t = m.trains[1] \/ t = m.trains[2]
      BY DEF Driven!Box
    <3>5. /\ \A x \in S : Driven!UpdateOf(x, speed', dir') \in Driven!ToPage
          /\ Nobody \notin S /\ S \subseteq Train /\ told[p] \in Seq(Driven!ToPage)
      BY AnswerTyped
    <3>6. speed'[t] = now
      OBVIOUS
    <3> HIDE DEF S, t, before, now
    <3>7. one \in Seq(Driven!ToPage) /\ (t = m.trains[1] => Latest(one, t, before, now))
      <4>1. CASE t = m.trains[1]
        BY <3>1, <3>5, <3>6, <4>1, UpdatesKeep
      <4>2. one \in Seq(Driven!ToPage)
        BY <3>5, AppendProperties DEF Driven!Updated
      <4> QED BY <4>1, <4>2
    <3> HIDE DEF one
    <3>8. Latest(two, t, before, now)
      BY <3>1, <3>4, <3>5, <3>6, <3>7, UpdatesKeep
    <3> HIDE DEF two
    <3> QED BY <3>1, <3>2, <3>3, <3>6, <3>8 DEF Showing, S
  <2> QED BY <2>2, <2>3
<1> QED BY <1>1 DEF Following

\* The page asks for other trains.
LEMMA SelectFollows ==
  ASSUME Straight, NEW p \in Page, NEW b \in Driven!Box, NEW t \in Train, Driven!Select(p, b, t)
  PROVE  Following(p)'
<1> DEFINE m == [op |-> "subscribe", trains |-> [train[p] EXCEPT ![b] = t]]
           line == Append(commands[p], m)
<1>1. /\ train' = [train EXCEPT ![p][b] = t] /\ commands' = [commands EXCEPT ![p] = line]
      /\ commands[p] \in Seq(Driven!ToServer) /\ commands \in [Page -> Seq(Driven!ToServer)]
  BY StraightTyped DEF Driven!Select, Driven!DrivingTypeOK
<1>2. m \in Driven!ToServer
  BY DEF Driven!ToServer, Straight, Ahead, ViewOK
<1>3. line # <<>> /\ line[Len(line)] = m
  BY <1>1, <1>2, AppendProperties
<1>4. m.trains = train'[p]
  BY <1>1 DEF Straight, Ahead, ViewOK
<1> HIDE DEF m, line
<1>5. commands'[p] = line
  BY <1>1
<1> QED BY <1>3, <1>4, <1>5 DEF Following

\* The page reads what it was told.
LEMMA UpdateFollows ==
  ASSUME Straight, NEW p \in Page, Following(p), Driven!Update(p)
  PROVE  Following(p)'
<1> DEFINE m == Head(told[p])
           rest == Tail(told[p])
<1>1. /\ told[p] # <<>> /\ UNCHANGED <<train, commands, speed, subscribed, turned>>
      /\ told' = [told EXCEPT ![p] = rest]
      /\ state' = IF \E b \in Driven!Box : train[p][b] = m.train
                  THEN [state EXCEPT ![p][m.train] = [speed |-> m.speed, dir |-> m.dir]] ELSE state
  BY DEF Driven!Update, Driven!server, Driven!bounds
<1>2. told \in [Page -> Seq(Driven!ToPage)] /\ told[p] \in Seq(Driven!ToPage) /\ m \in Driven!ToPage
  BY <1>1, StraightTyped, HeadTailProperties DEF Driven!DrivingTypeOK
<1>3. CASE commands[p] # <<>>
  BY <1>1, <1>3 DEF Following
<1>4. CASE commands[p] = <<>>
  <2>1. ASSUME NEW b \in Driven!Box  PROVE Showing(p, b)'
    <3> DEFINE t == train[p][b]
               before == state[p][t].speed
               after == state'[p][t].speed
               now == speed[t]
    <3>1. Showing(p, b)
      BY <1>4 DEF Following
    <3>2. CASE t \in turned \cup {Nobody}
      BY <1>1, <3>2 DEF Showing
    <3>3. CASE t \notin turned \cup {Nobody}
      <4>1. t \in Train /\ t \in subscribed[p] /\ Latest(told[p], t, before, now)
        BY <3>1, <3>3 DEF Showing, Straight, Ahead, ViewOK
      <4>2. after = IF m.train = t THEN m.speed ELSE before
        <5>1. CASE m.train = t
          <6>1. state' = [state EXCEPT ![p][t] = [speed |-> m.speed, dir |-> m.dir]]
            BY <1>1, <5>1
          <6> QED BY <4>1, <5>1, <6>1 DEF Straight, Ahead, ViewOK
        <5>2. CASE m.train # t
          BY <1>1, <4>1, <5>2 DEF Straight, Ahead, ViewOK
        <5> QED BY <5>1, <5>2
      <4>3. told'[p] = rest /\ train'[p][b] = t /\ speed'[t] = now /\ state'[p][t].speed = after
        BY <1>1, <1>2
      <4>4. after = IF Head(told[p]).train = t THEN Head(told[p]).speed ELSE before
        BY <4>2
      <4> HIDE DEF t, before, now, after
      <4>5. Latest(Tail(told[p]), t, after, now)
        BY <1>1, <1>2, <4>1, <4>4, LatestTail
      <4> QED BY <1>1, <4>1, <4>3, <4>5 DEF Showing
    <3> QED BY <3>2, <3>3
  <2> QED BY <1>1, <1>4, <2>1 DEF Following
<1> QED BY <1>3, <1>4

\* The server reads what the page asked: to subscribe.
LEMMA ServeFollows ==
  ASSUME Control!ControlAssumption, Straight, Ahead', NEW p \in Page, p \notin Driver, Following(p), Driven!ServeAtOnce(p)
  PROVE  Following(p)'
<1> DEFINE line == commands[p]
           m == Head(line)
           rest == Tail(line)
<1>1. /\ line # <<>> /\ UNCHANGED <<Driven!view, turned>>
      /\ commands' = [commands EXCEPT ![p] = rest]
      /\ IF m.op = "speed" THEN Driven!SpeedAtOnce(p, m) ELSE Driven!SubscribeAtOnce(p, m)
  BY DEF Driven!ServeAtOnce, Driven!bounds
<1>2. commands \in [Page -> Seq(Driven!ToServer)] /\ line \in Seq(Sent(p, turned))
  BY StraightTyped DEF Driven!DrivingTypeOK, Straight, Ahead, Lines
<1>3. m.op = "subscribe"
  <2>1. m \in Sent(p, turned)
    BY <1>1, <1>2, HeadTailProperties
  <2> QED BY <2>1 DEF Sent
<1>4. Driven!SubscribeAtOnce(p, m) /\ commands'[p] = rest
  BY <1>1, <1>2, <1>3
<1>5. line[Len(line)].trains = train[p]
  BY <1>1 DEF Following
<1>6. /\ Len(line) \in Nat \ {0} /\ rest \in Seq(Sent(p, turned)) /\ Len(rest) = Len(line) - 1 /\ m = line[1]
      /\ \A i \in 1..Len(rest) : rest[i] = line[i + 1]
  BY <1>1, <1>2, HeadTailProperties, LenProperties, EmptySeq
<1> HIDE DEF line, m, rest
<1>7. CASE rest = <<>>
  <2>1. Len(line) = 1
    BY <1>6, <1>7, EmptySeq
  <2>2. m.trains = train[p]
    BY <1>5, <1>6, <2>1
  <2> QED BY <1>1, <1>4, <1>7, <2>2, Subscribes
<1>8. CASE rest # <<>>
  <2>1. Len(rest) \in Nat \ {0}
    BY <1>6, <1>8, LenProperties, EmptySeq
  <2>2. rest[Len(rest)] = line[Len(line)]
    BY <1>6, <2>1
  <2>3. train' = train
    BY <1>1 DEF Driven!view
  <2> QED BY <1>4, <1>5, <1>8, <2>2, <2>3 DEF Following
<1> QED BY <1>7, <1>8

\* The server reads what another page asked.
LEMMA ServeOther ==
  ASSUME Control!ControlAssumption, Straight, Ahead', NEW p \in Page, Following(p), NEW q \in Page \ {p}, Driven!ServeAtOnce(q)
  PROVE  Following(p)'
<1> DEFINE m == Head(commands[q])
<1>1. /\ commands[q] # <<>> /\ UNCHANGED <<Driven!view, turned>>
      /\ commands' = [commands EXCEPT ![q] = Tail(commands[q])]
      /\ IF m.op = "speed" THEN Driven!SpeedAtOnce(q, m) ELSE Driven!SubscribeAtOnce(q, m)
  BY DEF Driven!ServeAtOnce, Driven!bounds
<1>2. commands'[p] = commands[p]
  BY <1>1 DEF Straight, Ahead, LinesOK
<1>3. m \in Driven!ToServer
  BY <1>1, StraightTyped, HeadTailProperties DEF Driven!DrivingTypeOK
<1>4. m.op = "speed" => m.train \in Train
  BY <1>3 DEF Driven!ToServer
<1> HIDE DEF m
<1>5. CASE m.op = "speed"
  <2> DEFINE t == m.train
  <2>1. /\ told' = Driven!Tell(t, subscribed, {q}) /\ UNCHANGED subscribed
        /\ \E v : speed' = [speed EXCEPT ![t] = v]
    BY <1>1, <1>5 DEF Driven!SpeedAtOnce, Driven!Obey
  <2>2. t \in Train
    BY <1>4, <1>5
  <2> HIDE DEF t
  <2>3. \A u \in Train \ {t} : speed'[u] = speed[u]
    BY <2>1 DEF Straight, Ahead, ServerOK
  <2>4. train' = train /\ state' = state /\ turned' = turned
    BY <1>1 DEF Driven!view
  <2> QED BY <1>2, <2>1, <2>2, <2>3, <2>4, Hears
<1>6. CASE m.op # "speed"
  BY <1>1, <1>2, <1>6, OtherSubscribes
<1> QED BY <1>5, <1>6

\* What a page does that drives goes unseen until the server reads it.
LEMMA DriverUnseen ==
  ASSUME Straight, Ahead', NEW p \in Page, p \notin Driver, Following(p), NEW q \in Page,
         \/ \E b \in Driven!Box, v \in Speed : Driven!Press(q, b, v)
         \/ \E v \in Speed : Driven!Move(q, v)
         \/ Driven!Release(q)
         \/ \E i \in DOMAIN timers[q] : Driven!TimeOut(q, i)
         \/ \E b \in Driven!Box : Driven!Stop(q, b)
         \/ \E b \in Driven!Box, d \in {0, 1} : Driven!SetDir(q, b, d)
  PROVE  Following(p)'
<1>1. q \in Driver
  <2>1. ASSUME q \notin Driver  PROVE fingers[q] = 0 /\ timers[q] = <<>>
    BY <2>1 DEF Straight, Idle
  <2>2. ~(0 > 0) /\ DOMAIN <<>> = {}
    OBVIOUS
  <2> QED BY Zenon, <2>1, <2>2 DEF Driven!Press, Driven!Move, Driven!Release, Driven!Stop,
    Driven!SetDir
<1>2. UNCHANGED <<train, told, speed, subscribed>> /\ turned \subseteq turned'
  BY Zenon DEF Driven!Press, Driven!Move, Driven!Release, Driven!TimeOut, Driven!Stop,
    Driven!SetDir, Driven!view, Driven!server, Driven!bounds
<1>3. commands'[p] = commands[p]
  <2>1. commands' = commands \/ \E line : commands' = [commands EXCEPT ![q] = line]
    BY Zenon DEF Driven!Press, Driven!Move, Driven!Release, Driven!TimeOut, Driven!Stop,
      Driven!SetDir
  <2> QED BY Zenon, <1>1, <2>1 DEF Straight, Ahead, LinesOK
<1>4. state'[p] = state[p]
  <2>1. state' = state \/ \E known : state' = [state EXCEPT ![q] = known]
    <3>1. ASSUME NEW bs, NEW v, Driven!SetSpeed(q, bs, v)
          PROVE  \E known : state' = [state EXCEPT ![q] = known]
      BY Zenon, <3>1 DEF Driven!SetSpeed
    <3>2. ASSUME NEW b, NEW d, Driven!SetDir(q, b, d)
          PROVE  \E known : state' = [state EXCEPT ![q] = known]
      BY Zenon, <3>2 DEF Driven!SetDir
    <3> QED BY <3>1, <3>2 DEF Driven!Press, Driven!Move, Driven!Release, Driven!TimeOut,
      Driven!Stop, Driven!view
  <2> QED BY Zenon, <1>1, <2>1 DEF Straight, Ahead, ViewOK
<1> QED BY Zenon, <1>2, <1>3, <1>4, Unseen

LEMMA FollowsKept ==
  ASSUME Control!ControlAssumption, Straight, Ahead', Follows, [Driven!DrivingNext]_(Driven!drivingVars)
  PROVE  Follows'
<1> SUFFICES ASSUME NEW p \in Page, p \notin Driver, Following(p)
             PROVE  Following(p)'
  BY DEF Follows
<1>1. ASSUME NEW q \in Page, NEW b \in Driven!Box, NEW t \in Train, Driven!Select(q, b, t)  PROVE Following(p)'
  <2>1. CASE q = p
    BY <1>1, <2>1, SelectFollows
  <2>2. CASE q # p
    <3>1. UNCHANGED <<state, told, speed, subscribed, turned>>
      BY <1>1 DEF Driven!Select, Driven!server
    <3>2. train'[p] = train[p] /\ commands'[p] = commands[p]
      BY <1>1, <2>2 DEF Driven!Select, Straight, Ahead, ViewOK, LinesOK
    <3> QED BY <3>1, <3>2, Unseen
  <2> QED BY <2>1, <2>2
<1>2. ASSUME NEW q \in Page, Driven!Update(q)  PROVE Following(p)'
  <2>1. CASE q = p
    BY <1>2, <2>1, UpdateFollows
  <2>2. CASE q # p
    <3>1. UNCHANGED <<train, commands, speed, subscribed, turned>>
      BY <1>2 DEF Driven!Update, Driven!server, Driven!bounds
    <3>2. state'[p] = state[p] /\ told'[p] = told[p]
      BY <1>2, <2>2 DEF Driven!Update, Straight, Ahead, ViewOK, LinesOK
    <3> QED BY <3>1, <3>2, Unseen
  <2> QED BY <2>1, <2>2
<1>3. ASSUME NEW q \in Page, Driven!ServeAtOnce(q)  PROVE Following(p)'
  <2>1. CASE q = p
    BY <1>3, <2>1, ServeFollows
  <2>2. CASE q # p
    BY <1>3, <2>2, ServeOther
  <2> QED BY <2>1, <2>2
<1>4. ASSUME NEW t \in Train, NEW v \in Speed, Driven!ChangeAtOnce(t, v)  PROVE Following(p)'
  <2>1. /\ told' = Driven!Tell(t, subscribed, {}) /\ UNCHANGED <<train, state, subscribed, commands, turned>>
        /\ speed' = [speed EXCEPT ![t] = v]
    BY <1>4 DEF Driven!ChangeAtOnce, Driven!Step, Driven!view
  <2>2. \A u \in Train \ {t} : speed'[u] = speed[u]
    BY <2>1 DEF Straight, Ahead, ServerOK
  <2> QED BY <2>1, <2>2, Hears
<1>5. ASSUME NEW t \in Train, Driven!Turn(t)  PROVE Following(p)'
  <2>1. /\ t \in turning /\ UNCHANGED <<train, state, subscribed, commands, told, turned>>
        /\ speed' = [speed EXCEPT ![t] = 0]
    BY <1>5 DEF Driven!Turn, Driven!view, Driven!bounds
  <2>2. \A u \in Train : u \in turned \/ speed'[u] = speed[u]
    BY <2>1 DEF Straight, Ahead, ServerOK, Forward
  <2> QED BY <2>1, <2>2, Unseen
<1>6. CASE UNCHANGED Driven!drivingVars
  BY <1>6, Unseen DEF Driven!drivingVars, Driven!view, Driven!server, Driven!bounds
<1> QED BY <1>1, <1>2, <1>3, <1>4, <1>5, <1>6, DriverUnseen DEF Driven!DrivingNext, Driven!UserOrPage, Driven!Times

\* A page that has been told all shows the speed of the trains its user only watches,
\* unless somebody turned them, with threads of the server that tell of a change
\* before another makes the next.
THEOREM WatchersTold ==
  ASSUME ~Preempted
  PROVE  PagesSpec => []WatchersFollow
<1> USE DrivingAssumption
<1>1. Control!Init => Teller /\ Straight /\ Follows
  <2> SUFFICES ASSUME Control!Init PROVE Teller /\ Straight /\ Follows
    OBVIOUS
  <2>1. Teller /\ Driven!DrivingInit /\ Straight
    BY TellerAtFirst, StraightAtFirst
  <2>2. \A p \in Page, b \in Driven!Box : Showing(p, b)
    BY <2>1 DEF Driven!DrivingInit, Showing
  <2>3. \A p \in Page : commands[p] = <<>>
    BY <2>1 DEF Driven!DrivingInit
  <2> QED BY <2>1, <2>2, <2>3 DEF Follows, Following
<1>2. Teller /\ Straight /\ Follows /\ [Control!Next]_(Control!vars) => (Teller /\ Straight /\ Follows)'
  BY TellerKept, StraightKept, FollowsKept DEF Straight
<1>3. Teller /\ Straight /\ Follows => WatchersFollow
  <2> SUFFICES ASSUME Teller, Straight, Follows, Control!Quiet, NEW p \in Page \ Driver, NEW b \in Control!Box,
                      train[p][b] \notin turned \cup {Nobody}
               PROVE  state[p][train[p][b]].speed = speed[train[p][b]]
    BY DEF WatchersFollow, Control!WatchersFollow
  <2>1. commands[p] = <<>> /\ told[p] = <<>>
    BY NothingToTell DEF Control!Quiet
  <2>2. Showing(p, b)
    BY <2>1 DEF Follows, Following, Driven!Box, Control!Box
  <2>3. Latest(<<>>, train[p][b], state[p][train[p][b]].speed, speed[train[p][b]])
    BY <2>1, <2>2 DEF Showing
  <2> QED BY <2>3, LatestRead
<1> QED BY <1>1, <1>2, <1>3, Drives, PTL DEF Control!Spec

(***************************************************************************)
(* The library of rolling stock.                                           *)
(***************************************************************************)

-----------------------------------------------------------------------------
(* A list without the members of a set                                     *)

WithoutTurn(a, n, x) == IF x.list[n] \in x.set THEN a ELSE Append(a, x.list[n])

\* What is left of the first n members: the others, in order, each as often as
\* in the list; as long as none was left out, at the same places.
WithoutGood(a, n, x) ==
  /\ Line(a) /\ Len(a) <= n
  /\ {a[i] : i \in 1..Len(a)} = {x.list[i] : i \in 1..n} \ x.set
  /\ (\A i, j \in DOMAIN x.list : x.list[i] = x.list[j] /\ x.list[i] \notin x.set => i = j)
       => \A i, j \in 1..Len(a) : a[i] = a[j] => i = j
  /\ \A k \in 1..n : (\A i \in 1..k : x.list[i] \notin x.set) => k <= Len(a) /\ a[k] = x.list[k]

WithoutLoop == INSTANCE Loops WITH Step <- WithoutTurn, Good <- WithoutGood

LEMMA WithoutStep ==
  ASSUME NEW x, Line(x.list), NEW a, NEW n \in 1..Len(x.list), WithoutGood(a, n - 1, x)
  PROVE  WithoutGood(WithoutTurn(a, n, x), n, x)
<1> DEFINE y == x.list[n]
           b == Append(a, y)
<1>1. Len(x.list) \in Nat /\ DOMAIN x.list = 1..Len(x.list) /\ n \in 1..Len(x.list) /\ n - 1 \in Nat
  BY DEF Line
<1>2. /\ Line(a) /\ Len(a) <= n - 1 /\ Len(a) \in Nat
      /\ {a[i] : i \in 1..Len(a)} = {x.list[i] : i \in 1..(n - 1)} \ x.set
  BY DEF WithoutGood, Line
<1>3. (\A i, j \in DOMAIN x.list : x.list[i] = x.list[j] /\ x.list[i] \notin x.set => i = j)
       => \A i, j \in 1..Len(a) : a[i] = a[j] => i = j
  BY DEF WithoutGood
<1>4. \A k \in 1..(n - 1) : (\A i \in 1..k : x.list[i] \notin x.set) => k <= Len(a) /\ a[k] = x.list[k]
  BY DEF WithoutGood
<1>5. 1..n = 1..(n - 1) \cup {n}
  BY <1>1
<1>6. {x.list[i] : i \in 1..n} = {x.list[i] : i \in 1..(n - 1)} \cup {y}
  BY <1>5
<1>7. CASE y \in x.set
  <2>1. WithoutTurn(a, n, x) = a
    BY <1>7 DEF WithoutTurn
  <2>2. {a[i] : i \in 1..Len(a)} = {x.list[i] : i \in 1..n} \ x.set
    BY <1>2, <1>6, <1>7
  <2>3. \A k \in 1..n : (\A i \in 1..k : x.list[i] \notin x.set) => k <= Len(a) /\ a[k] = x.list[k]
    <3> SUFFICES ASSUME NEW k \in 1..n, \A i \in 1..k : x.list[i] \notin x.set
                 PROVE  k <= Len(a) /\ a[k] = x.list[k]
      OBVIOUS
    <3>1. k # n
      BY <1>1, <1>7
    <3>2. k \in 1..(n - 1)
      BY <1>1, <3>1
    <3> QED BY <1>4, <3>2
  <2>4. Len(a) <= n
    BY <1>1, <1>2
  <2> QED BY <1>2, <1>3, <2>1, <2>2, <2>3, <2>4 DEF WithoutGood
<1>8. CASE y \notin x.set
  <2>1. WithoutTurn(a, n, x) = b
    BY <1>8 DEF WithoutTurn
  <2>2. Line(b) /\ Len(b) = Len(a) + 1 /\ (\A i \in 1..Len(a) : b[i] = a[i]) /\ b[Len(a) + 1] = y
    BY <1>2, LineAppend
  <2> HIDE DEF b
  <2>3. 1..Len(b) = 1..Len(a) \cup {Len(a) + 1}
    BY <1>2, <2>2
  <2>4. {b[i] : i \in 1..Len(b)} = {a[i] : i \in 1..Len(a)} \cup {y}
    BY <2>2, <2>3
  <2>5. {b[i] : i \in 1..Len(b)} = {x.list[i] : i \in 1..n} \ x.set
    BY <1>2, <1>6, <1>8, <2>4
  <2>6. ASSUME \A i, j \in DOMAIN x.list : x.list[i] = x.list[j] /\ x.list[i] \notin x.set => i = j
        PROVE  \A i, j \in 1..Len(b) : b[i] = b[j] => i = j
    <3>1. \A i, j \in 1..Len(a) : a[i] = a[j] => i = j
      BY <1>3, <2>6
    <3>2. \A i \in 1..Len(a) : a[i] # y
      <4> SUFFICES ASSUME NEW i \in 1..Len(a), a[i] = y PROVE FALSE
        OBVIOUS
      <4>1. PICK j \in 1..(n - 1) : y = x.list[j]
        BY <1>2
      <4>2. j \in DOMAIN x.list /\ n \in DOMAIN x.list /\ j # n
        BY <1>1
      <4> QED BY <1>8, <2>6, <4>1, <4>2
    <3> QED BY <2>2, <2>3, <3>1, <3>2
  <2>7. \A k \in 1..n : (\A i \in 1..k : x.list[i] \notin x.set) => k <= Len(b) /\ b[k] = x.list[k]
    <3> SUFFICES ASSUME NEW k \in 1..n, \A i \in 1..k : x.list[i] \notin x.set
                 PROVE  k <= Len(b) /\ b[k] = x.list[k]
      OBVIOUS
    <3>1. CASE k \in 1..(n - 1)
      <4>1. k <= Len(a) /\ a[k] = x.list[k] /\ k \in 1..Len(a)
        BY <1>2, <1>4, <3>1
      <4> QED BY <1>2, <2>2, <4>1
    <3>2. CASE k = n /\ n = 1
      <4>1. Len(a) = 0
        BY <1>2, <3>2
      <4> QED BY <2>2, <3>2, <4>1
    <3>3. CASE k = n /\ n # 1
      <4>1. n - 1 \in 1..(n - 1) /\ \A i \in 1..(n - 1) : x.list[i] \notin x.set
        BY <1>1, <3>3
      <4>2. n - 1 <= Len(a)
        BY <1>4, <4>1
      <4>3. Len(a) + 1 = n
        BY <1>1, <1>2, <4>2
      <4> QED BY <1>1, <2>2, <3>3, <4>3
    <3> QED BY <1>1, <3>1, <3>2, <3>3
  <2>8. Len(b) <= n
    BY <1>1, <1>2, <2>2
  <2> QED BY <2>1, <2>2, <2>5, <2>6, <2>7, <2>8 DEF WithoutGood
<1> QED BY <1>7, <1>8

LEMMA WithoutKeeps ==
  ASSUME NEW seq, Line(seq), NEW S
  PROVE  LET a == Library!Without(seq, S)
         IN /\ Line(a) /\ Len(a) <= Len(seq)
            /\ {a[i] : i \in 1..Len(a)} = {seq[i] : i \in 1..Len(seq)} \ S
            /\ (\A i, j \in 1..Len(seq) : seq[i] = seq[j] /\ seq[i] \notin S => i = j)
                 => \A i, j \in 1..Len(a) : a[i] = a[j] => i = j
            /\ \A k \in 1..Len(seq) : (\A i \in 1..k : seq[i] \notin S) => k <= Len(a) /\ a[k] = seq[k]
<1> DEFINE x == [list |-> seq, set |-> S]
           a == Library!Without(seq, S)
           w == WithoutLoop!At(<<>>, x, Len(seq))
<1>1. a = w
  BY DEF Library!Without, WithoutLoop!At, WithoutTurn
<1>2. x.list = seq /\ x.set = S /\ Len(seq) \in Nat /\ DOMAIN seq = 1..Len(seq)
  BY DEF Line
<1> HIDE DEF x, a
<1>3. WithoutGood(<<>>, 0, x)
  BY EmptyLine DEF WithoutGood
<1>4. \A v : \A n \in 1..Len(seq) : WithoutGood(v, n - 1, x) => WithoutGood(WithoutTurn(v, n, x), n, x)
  BY <1>2, WithoutStep
<1>5. WithoutGood(w, Len(seq), x)
  BY <1>2, <1>3, <1>4, WithoutLoop!Kept
<1> HIDE DEF w
<1>6. WithoutGood(a, Len(seq), x)
  BY <1>1, <1>5
<1>7. /\ Line(a) /\ Len(a) <= Len(seq)
      /\ {a[i] : i \in 1..Len(a)} = {seq[i] : i \in 1..Len(seq)} \ S
  BY <1>2, <1>6 DEF WithoutGood
<1>8. (\A i, j \in 1..Len(seq) : seq[i] = seq[j] /\ seq[i] \notin S => i = j)
        => \A i, j \in 1..Len(a) : a[i] = a[j] => i = j
  BY <1>2, <1>6 DEF WithoutGood
<1>9. \A k \in 1..Len(seq) : (\A i \in 1..k : seq[i] \notin S) => k <= Len(a) /\ a[k] = seq[k]
  BY <1>2, <1>6 DEF WithoutGood
<1> QED BY <1>7, <1>8, <1>9 DEF a

-----------------------------------------------------------------------------
(* Arrays, and the file                                                    *)

\* The items of a kind
LibItem(k) == {k} \X (Nat \ {0})

\* No item stands twice in an array.
Single(items) ==
  \A i, j \in DOMAIN items : items[i] = items[j] /\ items[i] # Nobody => i = j

\* An array of items of kind k, made up to m, with their data
StockOK(k, items, of, m) ==
  /\ items \in Seq(LibItem(k) \cup {Nobody})
  /\ Single(items)
  /\ \A i \in Library!ToSet(items) \ {Nobody} : i[2] <= m /\ i \in DOMAIN of

\* An entry of kind k, and all those of the file
EntryOK(k, x, m) ==
  /\ x = [item |-> x.item, data |-> x.data]
  /\ x.item \in LibItem(k) /\ x.item[2] <= m
  /\ k = "E" => x.data \in Address

FileOK(k, entries, m) ==
  /\ Line(entries)
  /\ \A n \in DOMAIN entries : EntryOK(k, entries[n], m)
  /\ \A i, j \in DOMAIN entries : entries[i].item = entries[j].item => i = j

\* A list L has the items before the first removed one at their places.
ShowsFirst(L, items, of) ==
  \A n \in DOMAIN items :
    (\A m \in 1..n : items[m] # Nobody) => n \in DOMAIN L /\ L[n] = [item |-> items[n], data |-> of[items[n]]]

\* None is no item.
LEMMA NobodyNoItem ==
  ASSUME NEW k \in Library!Kind
  PROVE  Nobody \notin LibItem(k)
BY StockAssumption DEF Library!LibraryAssumption, LibItem

LEMMA StockLine ==
  ASSUME NEW k, NEW items \in Seq(LibItem(k) \cup {Nobody})
  PROVE  /\ Line(items) /\ DOMAIN items = 1..Len(items) /\ Len(items) \in Nat
         /\ \A n \in 1..Len(items) : items[n] \in LibItem(k) \cup {Nobody} /\ items[n] \in Library!ToSet(items)
         /\ Library!ToSet(items) = {items[n] : n \in 1..Len(items)}
<1>1. Line(items) /\ DOMAIN items = 1..Len(items)
  BY LineOfSeq
<1>2. \A n \in 1..Len(items) : items[n] \in LibItem(k) \cup {Nobody}
  BY ElementOfSeq
<1> QED BY <1>1, <1>2 DEF Library!ToSet, Line

\* What is written leaves out what was removed.
LEMMA EntriesKeep ==
  ASSUME NEW k, NEW items \in Seq(LibItem(k) \cup {Nobody}), Single(items), NEW of
  PROVE  LET L == Library!Entries(items, of)
         IN /\ Line(L)
            /\ \A n \in DOMAIN L : /\ L[n] = [item |-> L[n].item, data |-> of[L[n].item]]
                                   /\ L[n].item \in Library!ToSet(items) \ {Nobody}
            /\ \A i, j \in DOMAIN L : L[i].item = L[j].item => i = j
            /\ ShowsFirst(L, items, of)
<1> DEFINE kept == Library!Without(items, {Nobody})
           L == Library!Entries(items, of)
<1>1. /\ Line(items) /\ DOMAIN items = 1..Len(items) /\ Len(items) \in Nat
      /\ Library!ToSet(items) = {items[n] : n \in 1..Len(items)}
  BY StockLine
<1>2. /\ Line(kept)
      /\ {kept[i] : i \in 1..Len(kept)} = {items[i] : i \in 1..Len(items)} \ {Nobody}
      /\ \A n \in 1..Len(items) :
           (\A i \in 1..n : items[i] \notin {Nobody}) => n <= Len(kept) /\ kept[n] = items[n]
  BY Zenon, <1>1, WithoutKeeps
<1>3. (\A i, j \in 1..Len(items) : items[i] = items[j] /\ items[i] \notin {Nobody} => i = j)
        => \A i, j \in 1..Len(kept) : kept[i] = kept[j] => i = j
  BY <1>1, WithoutKeeps
<1>4. \A i, j \in 1..Len(kept) : kept[i] = kept[j] => i = j
  <2>1. \A i, j \in 1..Len(items) : items[i] = items[j] /\ items[i] \notin {Nobody} => i = j
    BY <1>1 DEF Single
  <2> QED BY <1>3, <2>1
<1>5. L = [n \in DOMAIN kept |-> [item |-> kept[n], data |-> of[kept[n]]]]
  BY DEF Library!Entries
<1>6. DOMAIN kept = 1..Len(kept) /\ Len(kept) \in Nat
  BY <1>2 DEF Line
<1> HIDE DEF kept, L
<1>7. L = [n \in 1..Len(kept) |-> [item |-> kept[n], data |-> of[kept[n]]]]
  BY <1>5, <1>6
<1>8. Len(L) = Len(kept) /\ DOMAIN L = 1..Len(kept)
  BY <1>6, <1>7
<1>9. Line(L)
  BY <1>6, <1>7, <1>8 DEF Line
<1>10. \A n \in 1..Len(kept) : L[n] = [item |-> kept[n], data |-> of[kept[n]]] /\ L[n].item = kept[n]
  BY <1>7
<1>11. \A n \in DOMAIN L : /\ L[n] = [item |-> L[n].item, data |-> of[L[n].item]]
                           /\ L[n].item \in Library!ToSet(items) \ {Nobody}
  BY <1>1, <1>2, <1>8, <1>10
<1>12. \A i, j \in DOMAIN L : L[i].item = L[j].item => i = j
  BY <1>4, <1>8, <1>10
<1>13. ShowsFirst(L, items, of)
  <2> SUFFICES ASSUME NEW n \in 1..Len(items), \A m \in 1..n : items[m] # Nobody
               PROVE  n \in DOMAIN L /\ L[n] = [item |-> items[n], data |-> of[items[n]]]
    BY <1>1 DEF ShowsFirst
  <2>1. n <= Len(kept) /\ kept[n] = items[n]
    BY <1>2
  <2>2. n \in 1..Len(kept)
    BY <1>1, <1>6, <2>1
  <2> QED BY <1>8, <1>10, <2>1, <2>2
<1> QED BY <1>9, <1>11, <1>12, <1>13 DEF L

\* It depends on the data of the items that are left.
LEMMA EntriesSame ==
  ASSUME NEW k, NEW items \in Seq(LibItem(k) \cup {Nobody}), NEW of, NEW og,
         \A i \in Library!ToSet(items) \ {Nobody} : of[i] = og[i]
  PROVE  Library!Entries(items, of) = Library!Entries(items, og)
<1> DEFINE kept == Library!Without(items, {Nobody})
<1>1. Line(items) /\ Library!ToSet(items) = {items[n] : n \in 1..Len(items)}
  BY StockLine
<1>2. Line(kept) /\ {kept[i] : i \in 1..Len(kept)} = {items[i] : i \in 1..Len(items)} \ {Nobody}
  BY <1>1, WithoutKeeps
<1>3. DOMAIN kept = 1..Len(kept)
  BY <1>2 DEF Line
<1> HIDE DEF kept
<1>4. \A n \in DOMAIN kept : of[kept[n]] = og[kept[n]]
  BY <1>1, <1>2, <1>3
<1>5. [n \in DOMAIN kept |-> [item |-> kept[n], data |-> of[kept[n]]]]
      = [n \in DOMAIN kept |-> [item |-> kept[n], data |-> og[kept[n]]]]
  BY <1>4
<1> QED BY <1>5 DEF Library!Entries, kept

\* What is written is a file again.
LEMMA WrittenOK ==
  ASSUME NEW k \in Library!Kind, NEW items, NEW of, NEW m, StockOK(k, items, of, m),
         k = "E" => \A e \in LibItem("E") \cap DOMAIN of : of[e] \in Address
  PROVE  FileOK(k, Library!Entries(items, of), m)
<1> DEFINE L == Library!Entries(items, of)
<1>1. items \in Seq(LibItem(k) \cup {Nobody}) /\ Single(items)
      /\ \A i \in Library!ToSet(items) \ {Nobody} : i[2] <= m /\ i \in DOMAIN of
  BY DEF StockOK
<1>2. /\ Line(L)
      /\ \A n \in DOMAIN L : /\ L[n] = [item |-> L[n].item, data |-> of[L[n].item]]
                             /\ L[n].item \in Library!ToSet(items) \ {Nobody}
      /\ \A i, j \in DOMAIN L : L[i].item = L[j].item => i = j
  BY <1>1, EntriesKeep
<1> HIDE DEF L
<1>3. Library!ToSet(items) \ {Nobody} \subseteq LibItem(k)
  BY <1>1, StockLine
<1>4. ASSUME NEW n \in DOMAIN L PROVE EntryOK(k, L[n], m)
  <2> DEFINE i == L[n].item
  <2>1. L[n] = [item |-> i, data |-> of[i]] /\ i \in Library!ToSet(items) \ {Nobody}
    BY <1>2
  <2>2. i \in LibItem(k) /\ i[2] <= m /\ i \in DOMAIN of
    BY <1>1, <1>3, <2>1
  <2> HIDE DEF i
  <2>3. L[n].data = of[i] /\ L[n].item = i
    BY <2>1
  <2> QED BY <2>1, <2>2, <2>3 DEF EntryOK
<1> QED BY <1>2, <1>4 DEF FileOK, L

\* A program that starts has the arrays of its file, and the data.
LEMMA Loads ==
  ASSUME NEW f, NEW m, DOMAIN f = Library!Kind, \A k \in Library!Kind : FileOK(k, f[k], m[k])
  PROVE  /\ DOMAIN Library!Items(f) = Library!Kind
         /\ \A k \in Library!Kind :
              /\ StockOK(k, Library!Items(f)[k], Library!DataOf(f), m[k])
              /\ Nobody \notin Library!ToSet(Library!Items(f)[k])
              /\ Library!Entries(Library!Items(f)[k], Library!DataOf(f)) = f[k]
         /\ \A e \in LibItem("E") \cap DOMAIN Library!DataOf(f) : Library!DataOf(f)[e] \in Address
<1> DEFINE I == Library!Items(f)
           D == Library!DataOf(f)
<1>1. DOMAIN I = Library!Kind /\ \A k \in Library!Kind : I[k] = [n \in DOMAIN f[k] |-> f[k][n].item]
  BY DEF Library!Items
<1>2. D = [i \in UNION {Library!ToSet(I[k]) : k \in Library!Kind} |-> (CHOOSE x \in Library!ToSet(f[i[1]]) : x.item = i).data]
  BY DEF Library!DataOf
<1> HIDE DEF I, D
<1>3. ASSUME NEW k \in Library!Kind
      PROVE  /\ Line(f[k]) /\ DOMAIN f[k] = 1..Len(f[k]) /\ Len(f[k]) \in Nat
             /\ DOMAIN I[k] = 1..Len(f[k])
             /\ \A n \in DOMAIN f[k] : I[k][n] = f[k][n].item /\ EntryOK(k, f[k][n], m[k])
  BY <1>1 DEF FileOK, Line
<1>4. ASSUME NEW k \in Library!Kind
      PROVE  /\ I[k] \in Seq(LibItem(k)) /\ Len(I[k]) = Len(f[k])
             /\ Library!ToSet(I[k]) = {f[k][n].item : n \in DOMAIN f[k]}
  <2>1. I[k] = [n \in 1..Len(f[k]) |-> f[k][n].item]
    BY <1>1, <1>3
  <2>2. \A n \in 1..Len(f[k]) : f[k][n].item \in LibItem(k)
    BY <1>3 DEF EntryOK
  <2>3. I[k] \in Seq(LibItem(k))
    BY <1>3, <2>1, <2>2, IsASeq
  <2>4. Len(I[k]) = Len(f[k])
    BY <1>3, <2>1
  <2>5. Library!ToSet(I[k]) = {f[k][n].item : n \in DOMAIN f[k]}
    BY <1>3 DEF Library!ToSet
  <2> QED BY <2>3, <2>4, <2>5
<1>5. ASSUME NEW k \in Library!Kind, NEW n \in DOMAIN f[k]
      PROVE  f[k][n].item \in DOMAIN D /\ D[f[k][n].item] = f[k][n].data
  <2> DEFINE i == f[k][n].item
  <2>1. i[1] = k /\ i \in Library!ToSet(I[k])
    <3>1. EntryOK(k, f[k][n], m[k])
      BY <1>3
    <3>2. i \in LibItem(k)
      BY <3>1 DEF EntryOK
    <3>3. i \in Library!ToSet(I[k])
      BY <1>4
    <3> HIDE DEF i
    <3>4. i[1] = k
      BY <3>2 DEF LibItem
    <3> QED BY <3>3, <3>4
  <2>2. \A x \in Library!ToSet(f[k]) : x.item = i => x = f[k][n]
    BY DEF FileOK, Library!ToSet
  <2>3. f[k][n] \in Library!ToSet(f[k]) /\ f[k][n].item = i
    BY DEF Library!ToSet
  <2> HIDE DEF i
  <2>4. (CHOOSE x \in Library!ToSet(f[k]) : x.item = i) = f[k][n]
    BY <2>2, <2>3
  <2>5. i \in DOMAIN D /\ D[i] = (CHOOSE x \in Library!ToSet(f[i[1]]) : x.item = i).data
    BY <1>2, <2>1
  <2> QED BY <2>1, <2>4, <2>5 DEF i
<1>6. ASSUME NEW k \in Library!Kind
      PROVE  StockOK(k, I[k], D, m[k]) /\ Nobody \notin Library!ToSet(I[k]) /\ Library!Entries(I[k], D) = f[k]
  <2>1. I[k] \in Seq(LibItem(k) \cup {Nobody})
    BY <1>4, SeqMonotonic
  <2>2. Single(I[k])
    BY <1>3 DEF Single, FileOK
  <2>3. \A i \in Library!ToSet(I[k]) : i[2] <= m[k] /\ i \in DOMAIN D /\ i \in LibItem(k)
    <3> TAKE i \in Library!ToSet(I[k])
    <3>1. PICK n \in DOMAIN f[k] : i = f[k][n].item
      BY <1>4
    <3>2. EntryOK(k, f[k][n], m[k])
      BY <1>3
    <3>3. i \in DOMAIN D
      BY <1>5, <3>1
    <3>4. i[2] <= m[k] /\ i \in LibItem(k)
      BY <3>1, <3>2 DEF EntryOK
    <3> QED BY <3>3, <3>4
  <2>4. Nobody \notin Library!ToSet(I[k])
    BY <2>3, NobodyNoItem
  <2>5. Library!Entries(I[k], D) = f[k]
    <3> DEFINE L == Library!Entries(I[k], D)
               kept == Library!Without(I[k], {Nobody})
    <3>1. Line(I[k]) /\ Len(I[k]) = Len(f[k]) /\ DOMAIN I[k] = 1..Len(f[k])
      BY <1>3, <1>4, <2>1, LineOfSeq
    <3>2. \A i \in 1..Len(f[k]) : I[k][i] \notin {Nobody}
      BY <2>4, <3>1 DEF Library!ToSet
    <3>3. Line(kept) /\ Len(kept) <= Len(f[k])
          /\ \A n \in 1..Len(f[k]) : n <= Len(kept) /\ kept[n] = I[k][n]
      BY <3>1, <3>2, WithoutKeeps
    <3>4. L = [n \in DOMAIN kept |-> [item |-> kept[n], data |-> D[kept[n]]]]
      BY DEF Library!Entries
    <3> HIDE DEF L, kept
    <3>5. Len(kept) = Len(f[k]) /\ DOMAIN kept = 1..Len(f[k])
      <4>1. Len(kept) \in Nat /\ DOMAIN kept = 1..Len(kept)
        BY <3>3 DEF Line
      <4>2. Len(f[k]) # 0 => Len(f[k]) <= Len(kept)
        BY <1>3, <3>3
      <4>3. Len(kept) = Len(f[k])
        BY <1>3, <3>3, <4>1, <4>2
      <4> QED BY <4>1, <4>3
    <3>6. \A n \in 1..Len(f[k]) : [item |-> kept[n], data |-> D[kept[n]]] = f[k][n]
      <4> TAKE n \in 1..Len(f[k])
      <4>1. n \in DOMAIN f[k] /\ kept[n] = f[k][n].item
        BY <1>3, <3>3
      <4>2. D[kept[n]] = f[k][n].data
        BY <1>5, <4>1
      <4>3. f[k][n] = [item |-> f[k][n].item, data |-> f[k][n].data]
        BY <1>3, <4>1 DEF EntryOK
      <4> QED BY <4>1, <4>2, <4>3
    <3>7. L = [n \in 1..Len(f[k]) |-> f[k][n]]
      BY <3>4, <3>5, <3>6
    <3> QED BY <1>3, <3>7 DEF Line, L
  <2> QED BY <2>1, <2>2, <2>3, <2>4, <2>5 DEF StockOK
<1>7. ASSUME NEW e \in LibItem("E") \cap DOMAIN D PROVE D[e] \in Address
  <2>1. PICK k \in Library!Kind : e \in Library!ToSet(I[k])
    BY <1>2
  <2>2. PICK n \in DOMAIN f[k] : e = f[k][n].item
    BY <1>4, <2>1
  <2>3. EntryOK(k, f[k][n], m[k]) /\ D[e] = f[k][n].data
    BY <1>3, <1>5, <2>2
  <2>4. k = "E"
    BY <2>2, <2>3 DEF EntryOK, LibItem
  <2> QED BY <2>3, <2>4 DEF EntryOK
<1> QED BY <1>1, <1>6, <1>7 DEF I, D

-----------------------------------------------------------------------------
(* The types of the library                                                *)

EngineOK(e) == e \in LibItem("E") /\ e \in DOMAIN data /\ e[2] <= made["E"]

PointOK(x) ==
  /\ DOMAIN x = {"p", "engines"}
  /\ x.engines = <<>> \/ \E e \in LibItem("E") : x.engines = <<e>>

Place == [E : Seq(LibItem("E") \cup {Nobody}), engineUsed : BOOLEAN, uniqueEngine : Nat]

StockPart ==
  /\ DOMAIN stock = Library!Kind /\ DOMAIN made = Library!Kind
  /\ \A k \in Library!Kind : made[k] \in Nat /\ StockOK(k, stock[k], data, made[k])
  /\ \A e \in LibItem("E") \cap DOMAIN data : data[e] \in Address

FilePart == DOMAIN file = Library!Kind /\ \A k \in Library!Kind : FileOK(k, file[k], made[k])
UsePart == \A e \in use : EngineOK(e)
PointsPart ==
  /\ Library!ToSet(stock["T"]) \ {Nobody} \subseteq DOMAIN points
  /\ \A t \in DOMAIN points : PointOK(points[t])
DCCPart == DCC \in [Address -> Place]

LibraryOK == StockPart /\ FilePart /\ UsePart /\ PointsPart /\ DCCPart

LEMMA KindItems ==
  ASSUME NEW k \in Library!Kind, NEW l \in Library!Kind, k # l
  PROVE  LibItem(k) \cap LibItem(l) = {}
BY DEF LibItem

\* More data, and items made since, change nothing.
LEMMA StockMore ==
  ASSUME NEW k, NEW items, NEW of, NEW m \in Nat, StockOK(k, items, of, m), k \in Library!Kind,
         NEW og, DOMAIN of \subseteq DOMAIN og, NEW n \in Nat, m <= n
  PROVE  StockOK(k, items, og, n)
<1>1. ASSUME NEW i \in Library!ToSet(items) \ {Nobody} PROVE i[2] <= n
  <2>1. i[2] <= m /\ i \in LibItem(k)
    BY StockLine DEF StockOK
  <2>2. i[2] \in Nat
    BY <2>1 DEF LibItem
  <2> QED BY <2>1, <2>2
<1> QED BY <1>1 DEF StockOK

LEMMA FileMore ==
  ASSUME NEW k, NEW entries, NEW m \in Nat, FileOK(k, entries, m), NEW n \in Nat, m <= n
  PROVE  FileOK(k, entries, n)
<1>1. ASSUME NEW i \in DOMAIN entries PROVE EntryOK(k, entries[i], n)
  <2>1. EntryOK(k, entries[i], m)
    BY DEF FileOK
  <2>2. entries[i].item[2] \in Nat
    BY <2>1 DEF EntryOK, LibItem
  <2>3. entries[i].item[2] <= n
    BY <2>1, <2>2 DEF EntryOK
  <2> QED BY <2>1, <2>3 DEF EntryOK
<1> QED BY <1>1 DEF FileOK

\* A new item has a number of its own.
LEMMA StockAppend ==
  ASSUME NEW k \in Library!Kind, NEW items, NEW of, NEW m \in Nat, StockOK(k, items, of, m),
         NEW og, DOMAIN of \cup {<<k, m + 1>>} \subseteq DOMAIN og
  PROVE  /\ StockOK(k, Append(items, <<k, m + 1>>), og, m + 1)
         /\ Library!ToSet(Append(items, <<k, m + 1>>)) = Library!ToSet(items) \cup {<<k, m + 1>>}
<1> DEFINE new == <<k, m + 1>>
           more == Append(items, new)
           S == LibItem(k) \cup {Nobody}
<1>1. new \in LibItem(k) /\ new[2] = m + 1
  BY DEF LibItem
<1>2. /\ items \in Seq(S) /\ Single(items)
      /\ \A i \in Library!ToSet(items) \ {Nobody} : i[2] <= m /\ i \in DOMAIN of
  BY DEF StockOK
<1>3. /\ Line(items) /\ DOMAIN items = 1..Len(items) /\ Len(items) \in Nat
      /\ \A n \in 1..Len(items) : items[n] \in Library!ToSet(items)
      /\ Library!ToSet(items) = {items[n] : n \in 1..Len(items)}
  BY <1>2, StockLine
<1> HIDE DEF new, S
<1>4. /\ more \in Seq(S) /\ Len(more) = Len(items) + 1
      /\ DOMAIN more = 1..(Len(items) + 1)
      /\ \A i \in 1..Len(items) : more[i] = items[i]
      /\ more[Len(items) + 1] = new
  <2>1. new \in S
    BY <1>1 DEF S
  <2>2. more \in Seq(S)
    BY <1>2, <2>1, AppendProperties
  <2> QED BY <1>3, <2>2, LineAppend
<1> HIDE DEF more
<1>5. 1..(Len(items) + 1) = 1..Len(items) \cup {Len(items) + 1}
  BY <1>3
<1>6. Library!ToSet(more) = Library!ToSet(items) \cup {new}
  BY <1>3, <1>4, <1>5 DEF Library!ToSet
<1>7. new \notin Library!ToSet(items)
  <2>1. new # Nobody
    BY <1>1, NobodyNoItem
  <2>2. ~(new[2] <= m)
    BY <1>1
  <2> QED BY <1>2, <2>1, <2>2
<1>8. Single(more)
  <2> SUFFICES ASSUME NEW i \in 1..(Len(items) + 1), NEW j \in 1..(Len(items) + 1), more[i] = more[j],
                      more[i] # Nobody
               PROVE  i = j
    BY <1>4 DEF Single
  <2>1. CASE i \in 1..Len(items) /\ j \in 1..Len(items)
    BY <1>2, <1>3, <1>4, <2>1 DEF Single
  <2>2. CASE i \notin 1..Len(items) /\ j \notin 1..Len(items)
    BY <1>5, <2>2
  <2>3. CASE i \in 1..Len(items) /\ j \notin 1..Len(items)
    BY <1>3, <1>4, <1>5, <1>7, <2>3
  <2>4. CASE i \notin 1..Len(items) /\ j \in 1..Len(items)
    BY <1>3, <1>4, <1>5, <1>7, <2>4
  <2> QED BY <2>1, <2>2, <2>3, <2>4
<1>9. ASSUME NEW i \in Library!ToSet(more) \ {Nobody} PROVE i[2] <= m + 1 /\ i \in DOMAIN og
  <2>1. CASE i = new
    BY <1>1, <2>1 DEF new
  <2>2. CASE i # new
    <3>1. i \in Library!ToSet(items) \ {Nobody}
      BY <1>6, <2>2
    <3>2. i \in LibItem(k)
      BY <1>2, <3>1, StockLine DEF S
    <3>3. i[2] \in Nat
      BY <3>2 DEF LibItem
    <3> QED BY <1>2, <3>1, <3>3
  <2> QED BY <2>1, <2>2
<1> QED BY <1>4, <1>6, <1>8, <1>9 DEF StockOK, more, new, S

\* A removed item leaves its place empty.
LEMMA StockRemove ==
  ASSUME NEW k \in Library!Kind, NEW items, NEW of, NEW m, StockOK(k, items, of, m), NEW n \in DOMAIN items,
         NEW less, less = [items EXCEPT ![n] = Nobody]
  PROVE  /\ StockOK(k, less, of, m)
         /\ Library!ToSet(less) \ {Nobody} \subseteq Library!ToSet(items) \ {Nobody}
<1> DEFINE S == LibItem(k) \cup {Nobody}
<1>1. /\ items \in Seq(S) /\ Single(items)
      /\ \A i \in Library!ToSet(items) \ {Nobody} : i[2] <= m /\ i \in DOMAIN of
  BY DEF StockOK
<1>2. DOMAIN items = 1..Len(items)
  BY <1>1, StockLine
<1>3. less \in Seq(S) /\ DOMAIN less = DOMAIN items
  <2>1. Nobody \in S
    OBVIOUS
  <2> HIDE DEF S
  <2>2. less \in Seq(S)
    BY <1>1, <1>2, <2>1, ExceptSeq
  <2>3. DOMAIN less = DOMAIN items
    OBVIOUS
  <2> QED BY <2>2, <2>3
<1>4. \A i \in DOMAIN items : less[i] = IF i = n THEN Nobody ELSE items[i]
  OBVIOUS
<1>5. Single(less)
  BY <1>1, <1>3, <1>4 DEF Single
<1>6. Library!ToSet(less) \ {Nobody} \subseteq Library!ToSet(items) \ {Nobody}
  BY <1>3, <1>4 DEF Library!ToSet
<1> QED BY <1>1, <1>3, <1>5, <1>6 DEF StockOK

\* What At returns of an array of the library.
LEMMA FoundAt ==
  ASSUME StockPart, NEW k \in Library!Kind, NEW id, Library!At(stock[k], id) # Nobody
  PROVE  LET i == Library!At(stock[k], id)
         IN /\ id \in DOMAIN stock[k] /\ i = stock[k][id]
            /\ i \in Library!ToSet(stock[k]) \ {Nobody} /\ i \in LibItem(k) /\ i \in DOMAIN data
            /\ i[2] <= made[k] /\ i[2] \in Nat
            /\ k = "E" => data[i] \in Address
<1> DEFINE i == Library!At(stock[k], id)
<1>1. id \in DOMAIN stock[k] /\ i = stock[k][id]
  BY DEF Library!At
<1>2. StockOK(k, stock[k], data, made[k])
  BY DEF StockPart
<1> HIDE DEF i
<1>3. i \in Library!ToSet(stock[k]) \ {Nobody}
  BY <1>1 DEF Library!ToSet, i
<1>4. i \in LibItem(k)
  BY <1>2, <1>3, StockLine DEF StockOK
<1>5. i[2] <= made[k] /\ i \in DOMAIN data
  BY <1>2, <1>3 DEF StockOK
<1>6. i[2] \in Nat
  BY <1>4 DEF LibItem
<1>7. k = "E" => data[i] \in Address
  BY <1>4, <1>5 DEF StockPart
<1> QED BY <1>1, <1>3, <1>4, <1>5, <1>6, <1>7 DEF i

\* The file, whether or not it is written.
LEMMA FileKept ==
  ASSUME StockPart', FilePart, StockPart, \A k \in Library!Kind : made[k] <= made'[k],
         file' = Library!Written(stock', data') \/ UNCHANGED file
  PROVE  FilePart'
<1>1. CASE UNCHANGED file
  <2> SUFFICES ASSUME NEW k \in Library!Kind PROVE FileOK(k, file[k], made'[k])
    BY <1>1 DEF FilePart
  <2>1. FileOK(k, file[k], made[k]) /\ made[k] \in Nat /\ made'[k] \in Nat /\ made[k] <= made'[k]
    BY DEF FilePart, StockPart
  <2> QED BY <2>1, FileMore
<1>2. CASE file' = Library!Written(stock', data')
  <2>1. DOMAIN file' = Library!Kind /\ \A k \in Library!Kind : file'[k] = Library!Entries(stock'[k], data')
    BY <1>2 DEF Library!Written
  <2> SUFFICES ASSUME NEW k \in Library!Kind PROVE FileOK(k, file'[k], made'[k])
    BY <2>1 DEF FilePart
  <2>2. /\ StockOK(k, stock'[k], data', made'[k])
        /\ \A e \in LibItem("E") \cap DOMAIN data' : data'[e] \in Address
    BY DEF StockPart
  <2>3. FileOK(k, Library!Entries(stock'[k], data'), made'[k])
    BY <2>2, WrittenOK
  <2> QED BY <2>1, <2>3
<1> QED BY <1>1, <1>2

-----------------------------------------------------------------------------
(* The places of the addresses                                             *)

LEMMA LeastOf ==
  ASSUME NEW S \in SUBSET Nat, S # {}
  PROVE  Library!Min(S) \in S /\ \A n \in S : Library!Min(S) <= n
<1> DEFINE R == OpToRel(<, Nat)
<1>1. IsWellFoundedOn(R, Nat)
  BY NatLessThanWellFounded
<1>2. PICK x \in S : \A y \in S : ~ (<<y, x>> \in R)
  <2> HIDE DEF R
  <2> QED BY <1>1, WFMin
<1>3. \A y \in S : x <= y
  <2> SUFFICES ASSUME NEW y \in S, y < x PROVE FALSE
    OBVIOUS
  <2>1. <<y, x>> \in R
    BY DEF OpToRel
  <2> QED BY <1>2, <2>1
<1>4. \E z \in S : \A y \in S : z <= y
  BY <1>3
<1>5. /\ (CHOOSE z \in S : \A y \in S : z <= y) \in S
      /\ \A n \in S : (CHOOSE z \in S : \A y \in S : z <= y) <= n
  BY <1>4
<1> QED BY <1>5 DEF Library!Min

LEMMA FirstRemoved ==
  ASSUME NEW S, NEW s \in Seq(S), NEW e \in Library!ToSet(s)
  PROVE  Library!RemoveFirst(s, e) \in Seq(S)
<1> DEFINE n == Len(s)
           I == {i \in DOMAIN s : s[i] = e}
           j == Library!Min(I)
           a == SubSeq(s, 1, j - 1)
           b == SubSeq(s, j + 1, n)
<1>1. n \in Nat /\ DOMAIN s = 1..n
  BY LenProperties
<1>2. I \in SUBSET Nat /\ I # {}
  BY <1>1 DEF Library!ToSet
<1>3. Library!RemoveFirst(s, e) = a \o b
  BY DEF Library!RemoveFirst
<1>4. j \in 1..n
  <2>1. j \in I
    <3> HIDE DEF I
    <3> QED BY <1>2, LeastOf
  <2> QED BY <1>1, <2>1
<1> HIDE DEF j, n
<1>5. a \in Seq(S)
  <2>1. j - 1 \in Int /\ 1 \in Int /\ 1 <= 1 /\ 1 <= (j - 1) + 1 /\ j - 1 <= n
    BY <1>1, <1>4
  <2> QED BY <2>1, Part DEF n
<1>6. b \in Seq(S)
  <2>1. j + 1 \in Int /\ n \in Int /\ 1 <= j + 1 /\ j + 1 <= n + 1 /\ n <= n
    BY <1>1, <1>4
  <2> QED BY <2>1, Part DEF n
<1>7. a \o b \in Seq(S)
  BY <1>5, <1>6, ConcatProperties
<1> HIDE DEF a, b
<1> QED BY <1>3, <1>7

\* An engine is added behind the others.
LEMMA AddedDCC ==
  ASSUME NEW d \in [Address -> Place], NEW e \in LibItem("E"), NEW a \in Address
  PROVE  LET c == Library!AddDCC(d, e, a)
         IN /\ c \in [Address -> Place]
            /\ \A b \in Address : b # a => c[b] = d[b]
            /\ c[a].E = Append(d[a].E, e)
            /\ c[a].engineUsed = d[a].engineUsed /\ c[a].uniqueEngine = d[a].uniqueEngine
<1> DEFINE c == Library!AddDCC(d, e, a)
           E == Append(d[a].E, e)
           x == [d[a] EXCEPT !.E = E]
<1>1. c = [d EXCEPT ![a] = x]
  BY DEF Library!AddDCC
<1>2. d[a] \in Place /\ d[a].E \in Seq(LibItem("E") \cup {Nobody})
  BY DEF Place
<1>3. E \in Seq(LibItem("E") \cup {Nobody})
  BY <1>2, AppendProperties
<1> HIDE DEF E
<1>4. x \in Place /\ x.E = E /\ x.engineUsed = d[a].engineUsed /\ x.uniqueEngine = d[a].uniqueEngine
  BY <1>2, <1>3 DEF Place
<1> HIDE DEF x, c
<1>5. c \in [Address -> Place] /\ c[a] = x /\ \A b \in Address : b # a => c[b] = d[b]
  BY <1>1, <1>4
<1> QED BY <1>4, <1>5 DEF c, E

\* Where an engine was removed, its place stays.
LEMMA RemovedDCC ==
  ASSUME NEW d \in [Address -> Place], NEW e, NEW a \in Address
  PROVE  LET c == Library!RemoveDCC(d, e, a)
         IN /\ c \in [Address -> Place]
            /\ \A b \in Address : b # a => c[b] = d[b]
            /\ Nobody \in Library!ToSet(c[a].E) \/ (c = d /\ e \notin Library!ToSet(d[a].E))
<1> DEFINE c == Library!RemoveDCC(d, e, a)
           S == LibItem("E") \cup {Nobody}
           less == Library!RemoveFirst(d[a].E, e)
           E == Append(less, Nobody)
           x == [d[a] EXCEPT !.E = E]
<1>1. d[a] \in Place /\ d[a].E \in Seq(S)
  BY DEF Place
<1>2. c = IF e \in Library!ToSet(d[a].E) THEN [d EXCEPT ![a] = x] ELSE d
  BY DEF Library!RemoveDCC
<1>3. CASE e \notin Library!ToSet(d[a].E)
  BY <1>2, <1>3
<1>4. CASE e \in Library!ToSet(d[a].E)
  <2>1. less \in Seq(S) /\ Nobody \in S
    BY <1>1, <1>4, FirstRemoved
  <2> HIDE DEF less, S
  <2>2. E \in Seq(S) /\ DOMAIN E = 1..Len(E) /\ Len(less) \in Nat /\ Len(E) = Len(less) + 1
        /\ E[Len(less) + 1] = Nobody
    BY <2>1, AppendProperties, LineOfSeq, LenProperties
  <2> HIDE DEF E
  <2>3. Nobody \in Library!ToSet(E)
    <3>1. Len(less) + 1 \in DOMAIN E
      BY <2>2
    <3> QED BY <2>2, <3>1 DEF Library!ToSet
  <2>4. x \in Place /\ x.E = E
    BY <1>1, <2>2 DEF Place, S
  <2> HIDE DEF x, c
  <2>5. c \in [Address -> Place] /\ c[a] = x /\ \A b \in Address : b # a => c[b] = d[b]
    BY <1>2, <1>4, <2>4
  <2> QED BY <2>3, <2>4, <2>5 DEF c
<1> QED BY <1>3, <1>4

\* The addresses and train sets of a program that starts
LEMMA LoadsPlaces ==
  ASSUME NEW f, NEW m, DOMAIN f = Library!Kind, \A k \in Library!Kind : FileOK(k, f[k], m[k])
  PROVE  /\ Library!LoadedDCC(f) \in [Address -> Place]
         /\ \A a \in Address : ~Library!LoadedDCC(f)[a].engineUsed
         /\ \A e \in Library!ToSet(Library!Items(f)["E"]), a \in Address :
              Library!DataOf(f)[e] = a => e \in Library!ToSet(Library!LoadedDCC(f)[a].E)
         /\ DOMAIN Library!LoadedPoints(f) = Library!ToSet(Library!Items(f)["T"])
         /\ \A t \in Library!ToSet(Library!Items(f)["T"]) : PointOK(Library!LoadedPoints(f)[t])
<1> DEFINE I == Library!Items(f)
           D == Library!DataOf(f)
           S == LibItem("E") \cup {Nobody}
           others(a) == {e \in Library!ToSet(I["E"]) : D[e] # a}
           E(a) == Library!Without(I["E"], others(a))
           c == Library!LoadedDCC(f)
<1>1. "E" \in Library!Kind /\ "T" \in Library!Kind /\ DOMAIN I = Library!Kind
  BY Loads DEF Library!Kind
<1>2. \A k \in Library!Kind : I[k] \in Seq(LibItem(k) \cup {Nobody}) /\ Nobody \notin Library!ToSet(I[k])
  BY Loads DEF StockOK
<1>3. c = [a \in Address |-> [E |-> E(a), engineUsed |-> FALSE, uniqueEngine |-> 1]]
  BY DEF Library!LoadedDCC
<1> HIDE DEF I, D, c
<1>4. /\ Line(I["E"]) /\ Library!ToSet(I["E"]) = {I["E"][n] : n \in 1..Len(I["E"])}
      /\ \A n \in 1..Len(I["E"]) : I["E"][n] \in S
  BY <1>1, <1>2, StockLine
<1> HIDE DEF S
<1>5. ASSUME NEW a \in Address
      PROVE  E(a) \in Seq(S) /\ Library!ToSet(E(a)) = Library!ToSet(I["E"]) \ others(a)
  <2> DEFINE s == E(a)
             O == others(a)
  <2>1. Line(s) /\ {s[i] : i \in 1..Len(s)} = {I["E"][i] : i \in 1..Len(I["E"])} \ O
    <3>1. s = Library!Without(I["E"], O)
      OBVIOUS
    <3> HIDE DEF s, O
    <3>2. Line(Library!Without(I["E"], O))
      BY <1>4, WithoutKeeps
    <3>3. {Library!Without(I["E"], O)[i] : i \in 1..Len(Library!Without(I["E"], O))} = {I["E"][i] : i \in 1..Len(I["E"])} \ O
      BY <1>4, WithoutKeeps
    <3> QED BY <3>1, <3>2, <3>3
  <2> HIDE DEF s, O
  <2>2. \A i \in 1..Len(s) : s[i] \in S
    BY <1>4, <2>1
  <2>3. s \in Seq(S)
    BY <2>1, <2>2, SeqOfLine
  <2>4. DOMAIN s = 1..Len(s)
    BY <2>1 DEF Line
  <2>5. Library!ToSet(s) = Library!ToSet(I["E"]) \ O
    BY <1>4, <2>1, <2>4 DEF Library!ToSet
  <2> QED BY <2>3, <2>5 DEF s, O
<1>6. /\ c \in [Address -> Place] /\ \A a \in Address : ~c[a].engineUsed
      /\ \A a \in Address : c[a].E = E(a)
  <2> HIDE DEF E
  <2>1. \A a \in Address : [E |-> E(a), engineUsed |-> FALSE, uniqueEngine |-> 1] \in Place
    BY <1>5 DEF Place, S
  <2> QED BY <1>3, <2>1
<1>7. ASSUME NEW e \in Library!ToSet(I["E"]), NEW a \in Address, D[e] = a
      PROVE  e \in Library!ToSet(c[a].E)
  BY <1>5, <1>6, <1>7
<1>8. /\ DOMAIN Library!LoadedPoints(f) = Library!ToSet(I["T"])
      /\ \A t \in Library!ToSet(I["T"]) : PointOK(Library!LoadedPoints(f)[t])
  <2> DEFINE unit(t) == D[t]
             item(t) == Library!Pointed(I, unit(t))
             drives(t) == Library!Driven(unit(t), item(t))
             P == Library!LoadedPoints(f)
  <2>1. P = [t \in Library!ToSet(I["T"]) |-> [p |-> item(t), engines |-> drives(t)]]
    BY DEF Library!LoadedPoints, Library!Sets, I, D
  <2>2. ASSUME NEW t \in Library!ToSet(I["T"])
        PROVE  drives(t) = <<>> \/ \E e \in LibItem("E") : drives(t) = <<e>>
    <3>1. CASE unit(t)[1] = "E" /\ item(t) # Nobody
      <4> DEFINE u == unit(t)
                 i == item(t)
      <4>1. i = Library!At(I[u[1]], u[2]) /\ u[1] = "E"
        BY <3>1 DEF Library!Pointed
      <4> HIDE DEF i, u
      <4>2. i = Library!At(I["E"], u[2]) /\ i # Nobody
        BY <3>1, <4>1 DEF i
      <4>3. i \in Library!ToSet(I["E"])
        BY <4>2 DEF Library!At, Library!ToSet
      <4>4. i \in LibItem("E")
        BY <1>4, <4>2, <4>3 DEF S
      <4>5. drives(t) = <<i>>
        BY <3>1 DEF Library!Driven, i
      <4> QED BY <4>4, <4>5
    <3>2. CASE ~(unit(t)[1] = "E" /\ item(t) # Nobody)
      BY <3>2 DEF Library!Driven
    <3> QED BY <3>1, <3>2
  <2> HIDE DEF drives, item, P
  <2>3. DOMAIN P = Library!ToSet(I["T"])
    BY <2>1
  <2>4. \A t \in Library!ToSet(I["T"]) : P[t] = [p |-> item(t), engines |-> drives(t)]
    BY <2>1
  <2>5. \A t \in Library!ToSet(I["T"]) : PointOK(P[t])
    <3> TAKE t \in Library!ToSet(I["T"])
    <3> DEFINE x == P[t]
    <3>1. x = [p |-> item(t), engines |-> drives(t)]
      BY <2>4
    <3>2. DOMAIN x = {"p", "engines"} /\ x.engines = drives(t)
      BY <3>1
    <3> HIDE DEF x
    <3> QED BY <2>2, <3>2 DEF PointOK, x
  <2> QED BY <2>3, <2>5 DEF P
<1> QED BY <1>6, <1>7, <1>8 DEF I, D, c

-----------------------------------------------------------------------------
(* Each request keeps the types of the library.                            *)

AskedOK(m) ==
  /\ m.kind \in Library!Kind
  /\ m.op \in {"create", "edit"} /\ m.kind # "T" => m.data \in Address
  /\ m.op = "link" => m.kind \in {"E", "T"}

EnginesOK(engines) == engines = <<>> \/ \E e \in LibItem("E") : engines = <<e>>

LEMMA LibrarySame ==
  ASSUME LibraryOK, UNCHANGED <<stock, data, points, DCC, file, made, use>>
  PROVE  LibraryOK'
BY DEF LibraryOK, StockPart, FilePart, UsePart, PointsPart, DCCPart, EngineOK

\* An item gets other data.
LEMMA DataChanged ==
  ASSUME StockPart, UsePart, UNCHANGED <<stock, made, use>>,
         NEW i, NEW v, data' = [data EXCEPT ![i] = v], i \in LibItem("E") => v \in Address
  PROVE  StockPart' /\ UsePart'
<1>1. DOMAIN data' = DOMAIN data /\ \A e \in DOMAIN data : data'[e] = IF e = i THEN v ELSE data[e]
  OBVIOUS
<1>2. \A k \in Library!Kind : made[k] \in Nat /\ StockOK(k, stock[k], data, made[k])
  BY DEF StockPart
<1>3. \A k \in Library!Kind : StockOK(k, stock[k], data', made[k])
  BY <1>1, <1>2 DEF StockOK
<1>4. \A e \in LibItem("E") \cap DOMAIN data' : data'[e] \in Address
  BY <1>1 DEF StockPart
<1>5. StockPart'
  BY <1>2, <1>3, <1>4 DEF StockPart
<1>6. UsePart'
  BY <1>1 DEF UsePart, EngineOK
<1> QED BY <1>5, <1>6

\* A new item
LEMMA Created ==
  ASSUME LibraryOK, NEW p, NEW m, AskedOK(m), m.op = "create", NEW pictures, Library!Create(p, m, pictures)
  PROVE  LibraryOK'
<1> DEFINE k == m.kind
           n == made[k] + 1
           new == <<k, n>>
<1>1. /\ k \in {"E", "C"} /\ k \in Library!Kind /\ m.data \in Address
      /\ made' = [made EXCEPT ![k] = n]
      /\ stock' = [stock EXCEPT ![k] = Append(stock[k], new)]
      /\ data' = [i \in {new} \cup DOMAIN data |-> IF i = new THEN m.data ELSE data[i]]
      /\ DCC' = IF k = "E" THEN Library!AddDCC(DCC, new, m.data) ELSE DCC
      /\ file' = Library!Written(stock', data') \/ UNCHANGED file
      /\ UNCHANGED <<points, use>>
  BY DEF AskedOK, Library!Create, Library!Publish, Library!Refuse, Library!Up, Library!links, Library!Kind
<1>2. /\ DOMAIN stock = Library!Kind /\ DOMAIN made = Library!Kind
      /\ \A l \in Library!Kind : made[l] \in Nat /\ StockOK(l, stock[l], data, made[l])
      /\ \A e \in LibItem("E") \cap DOMAIN data : data[e] \in Address
  BY DEF LibraryOK, StockPart
<1>3. new \in LibItem(k) /\ n \in Nat /\ made[k] <= n
  BY <1>1, <1>2 DEF LibItem
<1>4. /\ DOMAIN data' = {new} \cup DOMAIN data
      /\ \A i \in DOMAIN data : i # new => data'[i] = data[i]
      /\ data'[new] = m.data
  BY <1>1
<1>5. \A l \in Library!Kind : /\ made'[l] = IF l = k THEN n ELSE made[l]
                              /\ stock'[l] = IF l = k THEN Append(stock[k], new) ELSE stock[l]
  BY <1>1, <1>2
<1> HIDE DEF k, n
<1>6. ASSUME NEW l \in Library!Kind PROVE made'[l] \in Nat /\ made[l] <= made'[l] /\ StockOK(l, stock'[l], data', made'[l])
  <2>1. CASE l = k
    <3>1. StockOK(k, Append(stock[k], <<k, made[k] + 1>>), data', made[k] + 1)
      BY <1>1, <1>2, <1>4, StockAppend DEF n
    <3> QED BY <1>3, <1>5, <2>1, <3>1 DEF n
  <2>2. CASE l # k
    <3>1. StockOK(l, stock[l], data', made[l])
      BY <1>2, <1>4, StockMore
    <3> QED BY <1>2, <1>5, <2>2, <3>1
  <2> QED BY <2>1, <2>2
<1>7. \A e \in LibItem("E") \cap DOMAIN data' : data'[e] \in Address
  BY <1>1, <1>2, <1>4
<1>8. StockPart'
  <2>1. DOMAIN stock' = Library!Kind /\ DOMAIN made' = Library!Kind
    BY <1>1, <1>2
  <2> QED BY <1>6, <1>7, <2>1 DEF StockPart
<1>9. FilePart'
  BY <1>1, <1>6, <1>8, FileKept DEF LibraryOK
<1>10. UsePart'
  <2> SUFFICES ASSUME NEW e \in use PROVE e \in LibItem("E") /\ e \in DOMAIN data' /\ e[2] <= made'["E"]
    BY <1>1 DEF UsePart, EngineOK
  <2>1. e \in LibItem("E") /\ e \in DOMAIN data /\ e[2] <= made["E"]
    BY DEF LibraryOK, UsePart, EngineOK
  <2>2. e[2] \in Nat /\ "E" \in Library!Kind
    BY <2>1 DEF LibItem, Library!Kind
  <2>3. made["E"] \in Nat /\ made'["E"] \in Nat /\ made["E"] <= made'["E"]
    BY <1>2, <1>6, <2>2
  <2> QED BY <1>4, <2>1, <2>2, <2>3
<1>11. PointsPart'
  <2>1. stock'["T"] = stock["T"]
    BY <1>1, <1>5 DEF Library!Kind
  <2> QED BY <1>1, <2>1 DEF LibraryOK, PointsPart
<1>12. DCCPart'
  <2>1. CASE k = "E"
    BY <1>1, <1>3, <2>1, AddedDCC DEF LibraryOK, DCCPart
  <2>2. CASE k # "E"
    BY <1>1, <2>2 DEF LibraryOK, DCCPart
  <2> QED BY <2>1, <2>2
<1> QED BY <1>8, <1>9, <1>10, <1>11, <1>12 DEF LibraryOK

LEMMA NothingMade ==
  ASSUME LibraryOK, StockPart', UNCHANGED made, file' = Library!Written(stock', data') \/ UNCHANGED file
  PROVE  FilePart'
<1>1. \A k \in Library!Kind : made[k] <= made'[k]
  BY DEF LibraryOK, StockPart
<1> QED BY <1>1, FileKept DEF LibraryOK

\* The new train set that is stored nowhere
LEMMA SetCreated ==
  ASSUME LibraryOK, NEW p, NEW m, Library!CreateSet(p, m)
  PROVE  LibraryOK'
<1>1. /\ UNCHANGED <<stock, data, points, DCC, made, use>>
      /\ file' = Library!Written(stock', data')
  BY DEF Library!CreateSet, Library!Publish, Library!Up, Library!links
<1>2. StockPart' /\ UsePart' /\ PointsPart' /\ DCCPart'
  BY <1>1 DEF LibraryOK, StockPart, UsePart, PointsPart, DCCPart, EngineOK
<1>3. FilePart'
  BY <1>1, <1>2, NothingMade
<1> QED BY <1>2, <1>3 DEF LibraryOK

LEMMA EngineEdited ==
  ASSUME LibraryOK, NEW p, NEW m, AskedOK(m), m.op = "edit", NEW pictures, Library!EditEngine(p, m, pictures)
  PROVE  LibraryOK'
<1> DEFINE e == Library!At(stock["E"], m.id)
<1>1. CASE e = Nobody
  BY <1>1, LibrarySame DEF Library!EditEngine, Library!Crash, Library!library, Library!links
<1>2. CASE e # Nobody
  <2>1. /\ data' = [data EXCEPT ![e] = m.data] /\ m.data \in Address
        /\ DCC' = Library!AddDCC(Library!RemoveDCC(DCC, e, data[e]), e, m.data)
        /\ UNCHANGED <<stock, points, made, use>>
        /\ file' = Library!Written(stock', data') \/ UNCHANGED file
    BY <1>2 DEF AskedOK, Library!EditEngine, Library!Publish, Library!Refuse, Library!Up, Library!links
  <2>2. e \in LibItem("E") /\ data[e] \in Address
    BY <1>2, FoundAt DEF LibraryOK, Library!Kind
  <2> HIDE DEF e
  <2>3. StockPart' /\ UsePart'
    BY <2>1, DataChanged DEF LibraryOK
  <2>4. FilePart'
    BY <2>1, <2>3, NothingMade
  <2>5. PointsPart'
    BY <2>1 DEF LibraryOK, PointsPart
  <2>6. DCCPart'
    <3>1. Library!RemoveDCC(DCC, e, data[e]) \in [Address -> Place]
      BY <2>2, RemovedDCC DEF LibraryOK, DCCPart
    <3> QED BY <2>1, <2>2, <3>1, AddedDCC DEF DCCPart
  <2> QED BY <2>3, <2>4, <2>5, <2>6 DEF LibraryOK
<1> QED BY <1>1, <1>2

LEMMA CarEdited ==
  ASSUME LibraryOK, NEW p, NEW m, NEW pictures, Library!EditCar(p, m, pictures)
  PROVE  LibraryOK'
<1> DEFINE c == Library!At(stock["C"], m.id)
<1>1. /\ UNCHANGED <<stock, points, DCC, made, use>>
      /\ data' = IF c = Nobody THEN data ELSE [data EXCEPT ![c] = m.data]
      /\ file' = Library!Written(stock', data') \/ UNCHANGED file
  BY DEF Library!EditCar, Library!Publish, Library!Refuse, Library!Up, Library!links
<1>2. CASE c = Nobody /\ UNCHANGED file
  BY <1>1, <1>2, LibrarySame
<1>3. CASE c = Nobody
  <2>1. StockPart' /\ UsePart' /\ PointsPart' /\ DCCPart'
    BY <1>1, <1>3 DEF LibraryOK, StockPart, UsePart, PointsPart, DCCPart, EngineOK
  <2> QED BY <1>1, <2>1, NothingMade DEF LibraryOK
<1>4. CASE c # Nobody
  <2>1. c \in LibItem("C")
    BY <1>4, FoundAt DEF LibraryOK, Library!Kind
  <2>2. c \notin LibItem("E")
    BY <2>1, KindItems DEF Library!Kind
  <2> HIDE DEF c
  <2>3. StockPart' /\ UsePart'
    BY <1>1, <1>4, <2>2, DataChanged DEF LibraryOK
  <2>4. FilePart'
    BY <1>1, <2>3, NothingMade
  <2>5. PointsPart' /\ DCCPart'
    BY <1>1 DEF LibraryOK, PointsPart, DCCPart
  <2> QED BY <2>3, <2>4, <2>5 DEF LibraryOK
<1> QED BY <1>3, <1>4

LEMMA SetEdited ==
  ASSUME LibraryOK, NEW p, NEW m, Library!EditSet(p, m)
  PROVE  LibraryOK'
<1> DEFINE t == Library!At(stock["T"], m.id)
           to == Library!Pointed(stock, m.data)
<1>1. CASE t = Nobody
  BY <1>1, LibrarySame DEF Library!EditSet, Library!Crash, Library!library, Library!links
<1>2. CASE t # Nobody
  <2>1. /\ data' = [data EXCEPT ![t] = m.data]
        /\ points' = [points EXCEPT ![t].p = to]
        /\ UNCHANGED <<stock, DCC, made, use>>
        /\ file' = Library!Written(stock', data')
    BY <1>2 DEF Library!EditSet, Library!Publish, Library!Up, Library!links
  <2>2. t \in LibItem("T") /\ t \in Library!ToSet(stock["T"]) \ {Nobody}
    BY <1>2, FoundAt DEF LibraryOK, Library!Kind
  <2>3. t \notin LibItem("E")
    BY <2>2, KindItems DEF Library!Kind
  <2> HIDE DEF t, to
  <2>4. StockPart' /\ UsePart'
    BY <2>1, <2>3, DataChanged DEF LibraryOK
  <2>5. FilePart'
    BY <2>1, <2>4, NothingMade
  <2>6. PointsPart'
    <3>1. Library!ToSet(stock["T"]) \ {Nobody} \subseteq DOMAIN points /\ \A x \in DOMAIN points : PointOK(points[x])
      BY DEF LibraryOK, PointsPart
    <3>2. DOMAIN points' = DOMAIN points /\ t \in DOMAIN points
      BY <2>1, <2>2, <3>1
    <3>3. \A x \in DOMAIN points : points'[x] = IF x = t THEN [points[t] EXCEPT !.p = to] ELSE points[x]
      BY <2>1
    <3>4. PointOK([points[t] EXCEPT !.p = to])
      <4> DEFINE x == points[t]
                 y == [x EXCEPT !.p = to]
      <4>1. PointOK(x)
        BY <3>1, <3>2
      <4> HIDE DEF x
      <4>2. DOMAIN y = DOMAIN x /\ ("engines" \in DOMAIN x => y.engines = x.engines)
        OBVIOUS
      <4> HIDE DEF y
      <4>3. PointOK(y)
        BY <4>1, <4>2 DEF PointOK
      <4> QED BY <4>3 DEF y, x
    <3> QED BY <2>1, <3>1, <3>2, <3>3, <3>4 DEF PointsPart
  <2>7. DCCPart'
    BY <2>1 DEF LibraryOK, DCCPart
  <2> QED BY <2>4, <2>5, <2>6, <2>7 DEF LibraryOK
<1> QED BY <1>1, <1>2

\* An item leaves its array.
LEMMA ItemRemoved ==
  ASSUME LibraryOK, NEW k \in Library!Kind, NEW n \in DOMAIN stock[k], stock' = [stock EXCEPT ![k][n] = Nobody],
         UNCHANGED <<data, points, made, use>>
  PROVE  StockPart' /\ UsePart' /\ PointsPart'
<1> DEFINE less == [stock[k] EXCEPT ![n] = Nobody]
<1>1. /\ DOMAIN stock = Library!Kind /\ DOMAIN made = Library!Kind
      /\ \A l \in Library!Kind : made[l] \in Nat /\ StockOK(l, stock[l], data, made[l])
      /\ \A e \in LibItem("E") \cap DOMAIN data : data[e] \in Address
  BY DEF LibraryOK, StockPart
<1>2. /\ StockOK(k, less, data, made[k])
      /\ Library!ToSet(less) \ {Nobody} \subseteq Library!ToSet(stock[k]) \ {Nobody}
  <2> DEFINE l == less
  <2>1. l = [stock[k] EXCEPT ![n] = Nobody]
    OBVIOUS
  <2> HIDE DEF l
  <2>2. StockOK(k, stock[k], data, made[k]) /\ n \in DOMAIN stock[k]
    BY <1>1
  <2>3. StockOK(k, l, data, made[k])
    BY <2>1, <2>2, StockRemove
  <2>4. Library!ToSet(l) \ {Nobody} \subseteq Library!ToSet(stock[k]) \ {Nobody}
    BY <2>1, <2>2, StockRemove
  <2> QED BY <2>3, <2>4 DEF l
<1>3. DOMAIN stock' = Library!Kind /\ \A l \in Library!Kind : stock'[l] = IF l = k THEN less ELSE stock[l]
  BY <1>1
<1> HIDE DEF less
<1>4. StockPart'
  BY <1>1, <1>2, <1>3 DEF StockPart
<1>5. UsePart'
  BY DEF LibraryOK, UsePart, EngineOK
<1>6. PointsPart'
  BY <1>2, <1>3 DEF LibraryOK, PointsPart, Library!Kind
<1> QED BY <1>4, <1>5, <1>6

LEMMA EngineDeleted ==
  ASSUME LibraryOK, NEW p, NEW m, Library!DeleteEngine(p, m)
  PROVE  LibraryOK'
<1> DEFINE e == Library!At(stock["E"], m.id)
<1>1. CASE e = Nobody
  BY <1>1, LibrarySame DEF Library!DeleteEngine, Library!Crash, Library!library, Library!links
<1>2. CASE e # Nobody
  <2>1. /\ stock' = [stock EXCEPT !["E"][m.id] = Nobody]
        /\ DCC' = Library!RemoveDCC(DCC, e, data[e])
        /\ UNCHANGED <<data, points, made, use>>
        /\ file' = Library!Written(stock', data')
    BY <1>2 DEF Library!DeleteEngine, Library!Publish, Library!Up, Library!links
  <2>2. "E" \in Library!Kind /\ m.id \in DOMAIN stock["E"] /\ data[e] \in Address
    BY <1>2, FoundAt DEF LibraryOK, Library!Kind
  <2> HIDE DEF e
  <2>3. StockPart' /\ UsePart' /\ PointsPart'
    BY <2>1, <2>2, ItemRemoved
  <2>4. FilePart'
    BY <2>1, <2>3, NothingMade
  <2>5. DCCPart'
    BY <2>1, <2>2, RemovedDCC DEF LibraryOK, DCCPart
  <2> QED BY <2>3, <2>4, <2>5 DEF LibraryOK
<1> QED BY <1>1, <1>2

LEMMA OtherDeleted ==
  ASSUME LibraryOK, NEW p, NEW m, AskedOK(m), Library!DeleteOther(p, m)
  PROVE  LibraryOK'
<1>1. /\ UNCHANGED <<data, points, DCC, made, use, file>> /\ m.kind \in Library!Kind
      /\ stock' = IF Library!At(stock[m.kind], m.id) = Nobody THEN stock ELSE [stock EXCEPT ![m.kind][m.id] = Nobody]
  BY DEF AskedOK, Library!DeleteOther, Library!Refuse, Library!Up, Library!links
<1>2. CASE Library!At(stock[m.kind], m.id) = Nobody
  BY <1>1, <1>2, LibrarySame
<1>3. CASE Library!At(stock[m.kind], m.id) # Nobody
  <2>1. m.id \in DOMAIN stock[m.kind]
    BY <1>3 DEF Library!At
  <2>2. StockPart' /\ UsePart' /\ PointsPart'
    BY <1>1, <1>3, <2>1, ItemRemoved
  <2>3. FilePart'
    BY <1>1, <2>2, NothingMade
  <2> QED BY <1>1, <2>2, <2>3 DEF LibraryOK, DCCPart
<1> QED BY <1>2, <1>3

\* The engine of a train that is linked
LEMMA SubTyped ==
  ASSUME LibraryOK, NEW e \in Library!ToSet(stock["E"]) \cap LibItem("E")
  PROVE  /\ Library!SubDCCEngine(e) \in [Address -> Place] /\ EngineOK(e) /\ data[e] \in Address
<1>1. EngineOK(e) /\ data[e] \in Address
  <2>1. "E" \in Library!Kind
    BY DEF Library!Kind
  <2>2. StockOK("E", stock["E"], data, made["E"]) /\ e # Nobody
    BY <2>1, NobodyNoItem DEF LibraryOK, StockPart
  <2> QED BY <2>2 DEF StockOK, EngineOK, LibraryOK, StockPart
<1> DEFINE a == data[e]
           at == {j \in DOMAIN DCC[a].E : DCC[a].E[j] = e}
           x == [DCC[a] EXCEPT !.engineUsed = TRUE, !.uniqueEngine = Library!Min(at)]
<1>2. DCC[a] \in Place /\ DCC[a].E \in Seq(LibItem("E") \cup {Nobody})
  BY <1>1 DEF LibraryOK, DCCPart, Place
<1>3. DOMAIN DCC[a].E \subseteq Nat
  BY <1>2, StockLine
<1>4. at \in SUBSET Nat
  BY <1>3
<1>5. Library!SubDCCEngine(e) = IF DCC[a].engineUsed \/ at = {} THEN DCC ELSE [DCC EXCEPT ![a] = x]
  BY DEF Library!SubDCCEngine
<1> HIDE DEF at
<1>6. at # {} => Library!Min(at) \in Nat
  BY <1>4, LeastOf
<1>7. at # {} => x \in Place
  BY <1>2, <1>6 DEF Place
<1> HIDE DEF x, a
<1>8. a \in Address
  BY <1>1 DEF a
<1>9. Library!SubDCCEngine(e) \in [Address -> Place]
  BY <1>5, <1>7, <1>8 DEF LibraryOK, DCCPart
<1> QED BY <1>1, <1>9

LEMMA Taken ==
  ASSUME LibraryOK, NEW p, Library!Take(p), EnginesOK(thread[p].engines)
  PROVE  LibraryOK'
<1> DEFINE engines == thread[p].engines
<1>1. CASE ~(Library!ToSet(engines) \subseteq Library!ToSet(stock["E"]))
  BY <1>1, LibrarySame DEF Library!Take, Library!Crash, Library!library, Library!links
<1>2. CASE Library!ToSet(engines) \subseteq Library!ToSet(stock["E"])
  <2>1. /\ UNCHANGED <<stock, data, points, file, made>>
        /\ use' = use \cup Library!ToSet(engines)
        /\ DCC' = IF engines = <<>> THEN DCC ELSE Library!SubDCCEngine(Head(engines))
    BY <1>2 DEF Library!Take
  <2>2. StockPart' /\ FilePart' /\ PointsPart'
    BY <2>1 DEF LibraryOK, StockPart, FilePart, PointsPart
  <2>3. CASE engines = <<>>
    <3>1. Library!ToSet(engines) = {}
      BY <2>3 DEF Library!ToSet
    <3> QED BY <2>1, <2>2, <2>3, <3>1 DEF LibraryOK, UsePart, DCCPart, EngineOK
  <2>4. ASSUME NEW e \in LibItem("E"), engines = <<e>> PROVE LibraryOK'
    <3>1. Library!ToSet(engines) = {e} /\ Head(engines) = e /\ engines # <<>>
      BY <2>4 DEF Library!ToSet
    <3>2. Library!SubDCCEngine(e) \in [Address -> Place] /\ EngineOK(e)
      BY <1>2, <3>1, SubTyped
    <3>3. UsePart'
      BY <2>1, <3>1, <3>2 DEF LibraryOK, UsePart, EngineOK
    <3>4. DCCPart'
      BY <2>1, <3>1, <3>2 DEF DCCPart
    <3> QED BY <2>2, <3>3, <3>4 DEF LibraryOK
  <2> QED BY <2>3, <2>4 DEF EnginesOK
<1> QED BY <1>1, <1>2

-----------------------------------------------------------------------------
(* The types of what is under way                                          *)

ToldOK(m) == m.op \in {"list", "answer"} /\ (m.op = "list" => m.kind \in Library!Kind)

ThreadOK(t) ==
  \/ t = Library!Idle
  \/ t.step = "take" /\ EnginesOK(t.engines)
  \/ t.step \in {"build", "send"} /\ t.kind \in Library!Kind

RequestsPart ==
  /\ DOMAIN requests = Page
  /\ \A p \in Page : Line(requests[p]) /\ \A n \in DOMAIN requests[p] : AskedOK(requests[p][n])
ListsPart ==
  /\ DOMAIN lists = Page
  /\ \A p \in Page : Line(lists[p]) /\ \A n \in DOMAIN lists[p] : ToldOK(lists[p][n])
LibPart == DOMAIN lib = Page /\ \A p \in Page : DOMAIN lib[p] = Library!Kind
ThreadPart == DOMAIN thread = Page /\ \A p \in Page : ThreadOK(thread[p])
DialogPart ==
  DOMAIN dialog = Page /\ \A p \in Page : dialog[p] # Library!Closed => dialog[p].kind \in Library!Kind

FlowOK == RequestsPart /\ ListsPart /\ LibPart /\ ThreadPart /\ DialogPart

\* How a thread goes on, and what it answers
Moves(p) == UNCHANGED thread \/ \E t : ThreadOK(t) /\ thread' = [thread EXCEPT ![p] = t]
Answers(p) == UNCHANGED lists \/ \E m : ToldOK(m) /\ lists' = [lists EXCEPT ![p] = Append(lists[p], m)]

LEMMA AsksMore ==
  ASSUME RequestsPart, NEW p \in Page, NEW m, AskedOK(m), requests' = [requests EXCEPT ![p] = Append(requests[p], m)]
  PROVE  RequestsPart'
<1>1. Line(requests[p]) /\ DOMAIN requests = Page
  BY DEF RequestsPart
<1>2. \A q \in Page : requests'[q] = IF q = p THEN Append(requests[p], m) ELSE requests[q]
  BY <1>1
<1>3. Line(Append(requests[p], m)) /\ \A n \in DOMAIN Append(requests[p], m) : AskedOK(Append(requests[p], m)[n])
  <2> DEFINE s == requests[p]
             l == Append(s, m)
  <2>1. Line(s) /\ \A n \in DOMAIN s : AskedOK(s[n])
    BY DEF RequestsPart
  <2>2. /\ Line(l) /\ DOMAIN l = 1..(Len(s) + 1) /\ DOMAIN s = 1..Len(s)
        /\ (\A i \in 1..Len(s) : l[i] = s[i]) /\ l[Len(s) + 1] = m
    <3> HIDE DEF s
    <3> QED BY <2>1, LineAppend
  <2>3. Len(s) \in Nat
    BY <2>1 DEF Line
  <2> HIDE DEF s, l
  <2>4. \A n \in 1..(Len(s) + 1) : n \in 1..Len(s) \/ n = Len(s) + 1
    BY <2>3
  <2>5. \A n \in DOMAIN l : AskedOK(l[n])
    BY <2>1, <2>2, <2>4
  <2> QED BY <2>2, <2>5 DEF s, l
<1> QED BY <1>1, <1>2, <1>3 DEF RequestsPart

LEMMA AsksLess ==
  ASSUME RequestsPart, NEW p \in Page, requests[p] # <<>>, requests' = [requests EXCEPT ![p] = Tail(requests[p])]
  PROVE  RequestsPart' /\ AskedOK(Head(requests[p]))
<1> DEFINE s == requests[p]
           l == Tail(s)
<1>1. DOMAIN requests = Page /\ Line(s) /\ \A n \in DOMAIN s : AskedOK(s[n])
  BY DEF RequestsPart
<1>2. /\ Line(l) /\ 1 \in DOMAIN s /\ Head(s) = s[1]
      /\ \A i \in DOMAIN l : i + 1 \in DOMAIN s /\ l[i] = s[i + 1]
  <2>1. s # <<>>
    OBVIOUS
  <2> HIDE DEF s
  <2> QED BY <1>1, <2>1, LineTail
<1>3. \A q \in Page : requests'[q] = IF q = p THEN l ELSE requests[q]
  BY <1>1
<1> HIDE DEF s, l
<1>4. \A n \in DOMAIN l : AskedOK(l[n])
  BY <1>1, <1>2
<1>5. RequestsPart'
  BY <1>1, <1>2, <1>3, <1>4 DEF RequestsPart
<1> QED BY <1>1, <1>2, <1>5 DEF s

LEMMA ToldMore ==
  ASSUME NEW s, Line(s), \A n \in DOMAIN s : ToldOK(s[n]), NEW m, ToldOK(m)
  PROVE  Line(Append(s, m)) /\ \A n \in DOMAIN Append(s, m) : ToldOK(Append(s, m)[n])
<1> DEFINE l == Append(s, m)
<1>1. /\ Line(l) /\ DOMAIN l = 1..(Len(s) + 1) /\ DOMAIN s = 1..Len(s)
      /\ (\A i \in 1..Len(s) : l[i] = s[i]) /\ l[Len(s) + 1] = m
  BY LineAppend
<1>2. Len(s) \in Nat
  BY DEF Line
<1> HIDE DEF l
<1>3. \A n \in 1..(Len(s) + 1) : n \in 1..Len(s) \/ n = Len(s) + 1
  BY <1>2
<1>4. \A n \in DOMAIN l : ToldOK(l[n])
  BY <1>1, <1>3
<1> QED BY <1>1, <1>4 DEF l

LEMMA ToldLess ==
  ASSUME ListsPart, NEW p \in Page, lists[p] # <<>>, lists' = [lists EXCEPT ![p] = Tail(lists[p])]
  PROVE  ListsPart' /\ ToldOK(Head(lists[p]))
<1> DEFINE s == lists[p]
           l == Tail(s)
<1>1. DOMAIN lists = Page /\ Line(s) /\ \A n \in DOMAIN s : ToldOK(s[n])
  BY DEF ListsPart
<1>2. /\ Line(l) /\ 1 \in DOMAIN s /\ Head(s) = s[1]
      /\ \A i \in DOMAIN l : i + 1 \in DOMAIN s /\ l[i] = s[i + 1]
  <2>1. s # <<>>
    OBVIOUS
  <2> HIDE DEF s
  <2> QED BY <1>1, <2>1, LineTail
<1>3. \A q \in Page : lists'[q] = IF q = p THEN l ELSE lists[q]
  BY <1>1
<1> HIDE DEF s, l
<1>4. \A n \in DOMAIN l : ToldOK(l[n])
  BY <1>1, <1>2
<1>5. ListsPart'
  BY <1>1, <1>2, <1>3, <1>4 DEF ListsPart
<1> QED BY <1>1, <1>2, <1>5 DEF s

LEMMA MovesTyped ==
  ASSUME ThreadPart, ListsPart, NEW p \in Page, Moves(p), Answers(p)
  PROVE  ThreadPart' /\ ListsPart'
<1>1. ThreadPart'
  BY DEF ThreadPart, Moves
<1>2. CASE UNCHANGED lists
  BY <1>1, <1>2 DEF ListsPart
<1>3. ASSUME NEW m, ToldOK(m), lists' = [lists EXCEPT ![p] = Append(lists[p], m)] PROVE ListsPart'
  <2>1. DOMAIN lists = Page /\ Line(lists[p]) /\ \A n \in DOMAIN lists[p] : ToldOK(lists[p][n])
    BY DEF ListsPart
  <2>2. \A q \in Page : lists'[q] = IF q = p THEN Append(lists[p], m) ELSE lists[q]
    BY <1>3, <2>1
  <2>3. Line(Append(lists[p], m)) /\ \A n \in DOMAIN Append(lists[p], m) : ToldOK(Append(lists[p], m)[n])
    BY <1>3, <2>1, ToldMore
  <2> QED BY <1>3, <2>1, <2>2, <2>3 DEF ListsPart
<1> QED BY <1>1, <1>2, <1>3 DEF Answers

\* What a thread does with a file, and says
LEMMA GoesTyped ==
  ASSUME NEW p, NEW k
  PROVE  /\ k \in Library!Kind /\ Library!Publish(p, k) => Moves(p)
         /\ Library!Refuse(p) => Moves(p)
         /\ \A yes : Library!Answer(p, yes) => Answers(p)
<1>1. k \in Library!Kind => ThreadOK([step |-> "build", kind |-> k])
  BY DEF ThreadOK
<1>2. ThreadOK(Library!Idle)
  BY DEF ThreadOK
<1>3. \A yes : ToldOK([op |-> "answer", yes |-> yes])
  BY DEF ToldOK
<1>4. k \in Library!Kind /\ Library!Publish(p, k) => Moves(p)
  BY <1>1 DEF Library!Publish, Library!Goes, Moves
<1>5. Library!Refuse(p) => Moves(p)
  BY <1>2 DEF Library!Refuse, Library!Goes, Moves
<1>6. \A yes : Library!Answer(p, yes) => Answers(p)
  BY <1>3 DEF Library!Answer, Answers
<1> QED BY <1>4, <1>5, <1>6

LEMMA LinkTyped ==
  ASSUME LibraryOK, NEW p, NEW m, AskedOK(m), m.op = "link", Library!Link(p, m)
  PROVE  LibraryOK' /\ Moves(p) /\ UNCHANGED lists
<1> DEFINE item == Library!At(stock[m.kind], m.id)
           engines == IF m.kind = "E" THEN <<item>> ELSE points[item].engines
<1>1. LibraryOK' /\ UNCHANGED lists
  <2>1. UNCHANGED <<Library!library, Library!links, lists>>
    BY DEF Library!Link, Library!Crash
  <2> QED BY <2>1, LibrarySame DEF Library!library, Library!links
<1>2. CASE Library!Crash
  BY <1>1, <1>2 DEF Library!Crash, Moves
<1>3. CASE Library!Goes(p, Library!Idle)
  BY <1>1, <1>3 DEF Library!Goes, Moves, ThreadOK
<1>4. CASE item # Nobody /\ Library!Goes(p, [step |-> "take", train |-> m.data, engines |-> engines])
  <2>1. m.kind \in {"E", "T"} /\ m.kind \in Library!Kind
    BY DEF AskedOK
  <2>2. item \in LibItem(m.kind) /\ item \in Library!ToSet(stock[m.kind]) \ {Nobody}
    BY <1>4, <2>1, FoundAt DEF LibraryOK
  <2> HIDE DEF item
  <2>3. EnginesOK(engines)
    <3>1. CASE m.kind = "E"
      BY <2>2, <3>1 DEF EnginesOK
    <3>2. CASE m.kind = "T"
      <4>1. PointOK(points[item])
        BY <2>2, <3>2 DEF LibraryOK, PointsPart
      <4> QED BY <3>2, <4>1 DEF EnginesOK, PointOK
    <3> QED BY <2>1, <3>1, <3>2
  <2> HIDE DEF engines
  <2>4. ThreadOK([step |-> "take", train |-> m.data, engines |-> engines])
    BY <2>3 DEF ThreadOK
  <2> QED BY <1>1, <1>4, <2>4 DEF Library!Goes, Moves
<1> QED BY <1>2, <1>3, <1>4 DEF Library!Link

LEMMA ServeTyped ==
  ASSUME LibraryOK, FlowOK, NEW p \in Page, Library!Serve(p)
  PROVE  LibraryOK' /\ FlowOK'
<1> DEFINE m == Head(requests[p])
<1>1. /\ requests[p] # <<>> /\ requests' = [requests EXCEPT ![p] = Tail(requests[p])]
      /\ UNCHANGED <<lib, dialog>>
  BY DEF Library!Serve
<1>2. RequestsPart' /\ AskedOK(m)
  BY <1>1, AsksLess DEF FlowOK
<1>3. \/ /\ m.op = "create"
         /\ \/ \E pictures \in {TRUE, ~Fails} : Library!Create(p, m, pictures)
            \/ Library!CreateSet(p, m)
      \/ /\ m.op = "edit"
         /\ \/ \E pictures \in {TRUE, ~Fails} : Library!EditEngine(p, m, pictures) \/ Library!EditCar(p, m, pictures)
            \/ Library!EditSet(p, m)
      \/ /\ m.op = "delete"
         /\ Library!DeleteEngine(p, m) \/ Library!DeleteOther(p, m)
      \/ /\ m.op = "link"
         /\ Library!Link(p, m)
  BY DEF Library!Serve
<1> HIDE DEF m
<1>4. LibraryOK' /\ Moves(p) /\ Answers(p)
  <2>1. ASSUME m.op = "create", NEW pictures, Library!Create(p, m, pictures)
        PROVE  LibraryOK' /\ Moves(p) /\ Answers(p)
    BY <1>2, <2>1, Created, GoesTyped DEF Library!Create, AskedOK
  <2>2. CASE Library!CreateSet(p, m)
    BY <2>2, SetCreated, GoesTyped DEF Library!CreateSet, Answers, Library!Kind
  <2>3. ASSUME m.op = "edit", NEW pictures, Library!EditEngine(p, m, pictures)
        PROVE  LibraryOK' /\ Moves(p) /\ Answers(p)
    <3>1. LibraryOK'
      BY <1>2, <2>3, EngineEdited
    <3>2. Moves(p) /\ Answers(p)
      BY <2>3, GoesTyped DEF Library!EditEngine, Library!Crash, Moves, Answers, Library!Kind
    <3> QED BY <3>1, <3>2
  <2>4. ASSUME NEW pictures, Library!EditCar(p, m, pictures)
        PROVE  LibraryOK' /\ Moves(p) /\ Answers(p)
    <3>1. LibraryOK'
      BY <2>4, CarEdited
    <3>2. Moves(p) /\ Answers(p)
      BY <2>4, GoesTyped DEF Library!EditCar, Library!Kind
    <3> QED BY <3>1, <3>2
  <2>5. CASE Library!EditSet(p, m)
    <3>1. LibraryOK'
      BY <2>5, SetEdited
    <3>2. Moves(p) /\ Answers(p)
      BY <2>5, GoesTyped DEF Library!EditSet, Library!Crash, Moves, Answers, Library!Kind
    <3> QED BY <3>1, <3>2
  <2>6. CASE Library!DeleteEngine(p, m)
    <3>1. LibraryOK'
      BY <2>6, EngineDeleted
    <3>2. Moves(p) /\ Answers(p)
      BY <2>6, GoesTyped DEF Library!DeleteEngine, Library!Crash, Moves, Answers, Library!Kind
    <3> QED BY <3>1, <3>2
  <2>7. CASE Library!DeleteOther(p, m)
    <3>1. LibraryOK'
      BY <1>2, <2>7, OtherDeleted
    <3>2. Moves(p) /\ Answers(p)
      BY <2>7, GoesTyped DEF Library!DeleteOther, Answers
    <3> QED BY <3>1, <3>2
  <2>8. CASE m.op = "link" /\ Library!Link(p, m)
    BY <1>2, <2>8, LinkTyped DEF Answers
  <2> QED BY <1>3, <2>1, <2>2, <2>3, <2>4, <2>5, <2>6, <2>7, <2>8
<1>5. ThreadPart' /\ ListsPart'
  BY <1>4, MovesTyped DEF FlowOK
<1> QED BY <1>1, <1>2, <1>4, <1>5 DEF FlowOK, LibPart, DialogPart

-----------------------------------------------------------------------------
(* All other steps, and the start                                          *)

LEMMA DialogSet ==
  ASSUME DialogPart, NEW p, NEW x, dialog' = [dialog EXCEPT ![p] = x],
         x # Library!Closed => x.kind \in Library!Kind
  PROVE  DialogPart'
BY DEF DialogPart

\* What the forms of the dialogs hold
LEMMA ClickAsks ==
  ASSUME FlowOK, NEW p \in Page, NEW op \in {"create", "edit", "delete"},
         NEW form \in Library!Form(p) \cup {Nobody}, Library!Click(p, op, form)
  PROVE  AskedOK(Library!Request(dialog[p], op, form))
<1> DEFINE d == dialog[p]
           m == Library!Request(d, op, form)
<1>1. d # Library!Closed /\ (op = "delete" <=> form = Nobody)
  BY DEF Library!Click
<1>2. d.kind \in Library!Kind
  BY <1>1 DEF FlowOK, DialogPart
<1>3. m.op = op /\ m.kind = d.kind /\ m.data = form
  BY DEF Library!Request
<1>4. op # "delete" /\ d.kind # "T" => form \in Address
  BY <1>1 DEF Library!Form
<1> HIDE DEF d, m
<1>5. AskedOK(m)
  BY <1>2, <1>3, <1>4 DEF AskedOK
<1> QED BY <1>5 DEF m, d

\* Only lines, pages and dialogs change.
LEMMA PageTyped ==
  ASSUME LibraryOK, FlowOK, NEW p \in Page,
         \/ \E k \in Library!Kind : \E id \in {0} \cup DOMAIN lib[p][k] : Library!Open(p, k, id)
         \/ \E op \in {"create", "edit", "delete"} : \E form \in Library!Form(p) \cup {Nobody} : Library!Click(p, op, form)
         \/ Library!Dismiss(p)
         \/ \E t \in Train, k \in {"E", "T"} : \E id \in DOMAIN lib[p][k] : Library!RequestLink(p, t, k, id)
         \/ Library!Receive(p)
         \/ Library!Build(p)
         \/ Library!Send(p)
  PROVE  LibraryOK' /\ FlowOK'
<1>1. UNCHANGED <<Library!library, Library!links>>
  BY DEF Library!Open, Library!Click, Library!Dismiss, Library!RequestLink, Library!Receive, Library!Build, Library!Send
<1>2. LibraryOK'
  BY <1>1, LibrarySame DEF Library!library, Library!links
<1>3. ASSUME NEW k \in Library!Kind, NEW id, Library!Open(p, k, id) PROVE FlowOK'
  <2>1. UNCHANGED <<thread, requests, lists, lib>>
        /\ dialog' = [dialog EXCEPT ![p] = [kind |-> k, id |-> id, shown |-> Library!Shown(p, k, id)]]
    BY <1>3 DEF Library!Open
  <2>2. DialogPart'
    BY <2>1, DialogSet DEF FlowOK
  <2> QED BY <2>1, <2>2 DEF FlowOK, RequestsPart, ListsPart, LibPart, ThreadPart
<1>4. ASSUME NEW op \in {"create", "edit", "delete"}, NEW form \in Library!Form(p) \cup {Nobody}, Library!Click(p, op, form)
      PROVE  FlowOK'
  <2> DEFINE m == Library!Request(dialog[p], op, form)
  <2>1. UNCHANGED <<thread, lists, lib>> /\ requests' = [requests EXCEPT ![p] = Append(requests[p], m)]
        /\ (UNCHANGED dialog \/ dialog' = [dialog EXCEPT ![p] = Library!Closed])
    BY <1>4 DEF Library!Click
  <2>2. AskedOK(m)
    BY <1>4, ClickAsks
  <2> HIDE DEF m
  <2>3. RequestsPart'
    BY <2>1, <2>2, AsksMore DEF FlowOK
  <2>4. DialogPart'
    BY <2>1, DialogSet DEF FlowOK, DialogPart
  <2> QED BY <2>1, <2>3, <2>4 DEF FlowOK, ListsPart, LibPart, ThreadPart
<1>5. ASSUME Library!Dismiss(p) PROVE FlowOK'
  <2>1. UNCHANGED <<thread, requests, lists, lib>> /\ dialog' = [dialog EXCEPT ![p] = Library!Closed]
    BY <1>5 DEF Library!Dismiss
  <2>2. DialogPart'
    BY <2>1, DialogSet DEF FlowOK
  <2> QED BY <2>1, <2>2 DEF FlowOK, RequestsPart, ListsPart, LibPart, ThreadPart
<1>6. ASSUME NEW t \in Train, NEW k \in {"E", "T"}, NEW id, Library!RequestLink(p, t, k, id) PROVE FlowOK'
  <2> DEFINE m == [op |-> "link", kind |-> k, id |-> id, data |-> t, shown |-> lib[p][k][id]]
  <2>1. UNCHANGED <<thread, lists, lib, dialog>> /\ requests' = [requests EXCEPT ![p] = Append(requests[p], m)]
    BY <1>6 DEF Library!RequestLink
  <2>2. AskedOK(m)
    BY DEF AskedOK, Library!Kind
  <2> HIDE DEF m
  <2>3. RequestsPart'
    BY <2>1, <2>2, AsksMore DEF FlowOK
  <2> QED BY <2>1, <2>3 DEF FlowOK, ListsPart, LibPart, ThreadPart, DialogPart
<1>7. ASSUME Library!Receive(p) PROVE FlowOK'
  <2> DEFINE m == Head(lists[p])
  <2>1. /\ lists[p] # <<>> /\ lists' = [lists EXCEPT ![p] = Tail(lists[p])]
        /\ IF m.op = "list" THEN Library!Replace(p, m) ELSE Library!Hide(p, m)
        /\ UNCHANGED <<thread, requests>>
    BY <1>7 DEF Library!Receive
  <2>2. ListsPart' /\ ToldOK(m)
    BY <2>1, ToldLess DEF FlowOK
  <2> HIDE DEF m
  <2>3. CASE m.op = "list"
    <3>1. lib' = [lib EXCEPT ![p][m.kind] = m.list] /\ UNCHANGED dialog /\ m.kind \in Library!Kind
      BY <2>1, <2>2, <2>3 DEF Library!Replace, ToldOK
    <3>2. LibPart'
      BY <3>1 DEF FlowOK, LibPart
    <3> QED BY <2>1, <2>2, <3>1, <3>2 DEF FlowOK, RequestsPart, ThreadPart, DialogPart
  <2>4. CASE m.op # "list"
    <3>1. (UNCHANGED dialog \/ dialog' = [dialog EXCEPT ![p] = Library!Closed]) /\ UNCHANGED lib
      BY <2>1, <2>4 DEF Library!Hide
    <3>2. DialogPart'
      BY <3>1, DialogSet DEF FlowOK, DialogPart
    <3> QED BY <2>1, <2>2, <3>1, <3>2 DEF FlowOK, RequestsPart, ThreadPart, LibPart
  <2> QED BY <2>3, <2>4
<1>8. ASSUME Library!Build(p) PROVE FlowOK'
  <2> DEFINE k == thread[p].kind
             L == Library!Entries(stock[k], data)
  <2>1. UNCHANGED <<requests, lists, lib, dialog>> /\ thread[p].step = "build"
        /\ thread' = [thread EXCEPT ![p] = [step |-> "send", kind |-> k, list |-> L]]
    BY <1>8 DEF Library!Build, Library!Goes
  <2>2. k \in Library!Kind
    BY <2>1 DEF FlowOK, ThreadPart, ThreadOK, Library!Idle
  <2> HIDE DEF k, L
  <2>3. ThreadOK([step |-> "send", kind |-> k, list |-> L])
    BY <2>2 DEF ThreadOK
  <2>4. ThreadPart'
    BY <2>1, <2>3 DEF FlowOK, ThreadPart
  <2> QED BY <2>1, <2>4 DEF FlowOK, RequestsPart, ListsPart, LibPart, DialogPart
<1>9. ASSUME Library!Send(p) PROVE FlowOK'
  <2> DEFINE m == [op |-> "list", kind |-> thread[p].kind, list |-> thread[p].list]
  <2>1. UNCHANGED <<requests, lib, dialog>> /\ thread[p].step = "send"
        /\ thread' = [thread EXCEPT ![p] = Library!Idle]
        /\ lists' = [q \in Page |-> Append(lists[q], m)]
    BY <1>9 DEF Library!Send, Library!Goes
  <2>2. m.op = "list" /\ m.kind \in Library!Kind
    BY <2>1 DEF FlowOK, ThreadPart, ThreadOK, Library!Idle
  <2> HIDE DEF m
  <2>3. ToldOK(m)
    BY <2>2 DEF ToldOK
  <2>4. ThreadPart'
    BY <2>1 DEF FlowOK, ThreadPart, ThreadOK
  <2>5. ListsPart'
    <3>1. \A q \in Page : Line(lists[q]) /\ \A n \in DOMAIN lists[q] : ToldOK(lists[q][n])
      BY DEF FlowOK, ListsPart
    <3>2. \A q \in Page : Line(Append(lists[q], m)) /\ \A n \in DOMAIN Append(lists[q], m) : ToldOK(Append(lists[q], m)[n])
      BY <2>3, <3>1, ToldMore
    <3> QED BY <2>1, <3>2 DEF ListsPart
  <2> QED BY <2>1, <2>4, <2>5 DEF FlowOK, RequestsPart, LibPart, DialogPart
<1> QED BY <1>2, <1>3, <1>4, <1>5, <1>6, <1>7, <1>8, <1>9

\* The program is started again.
LEMMA RestartTyped ==
  ASSUME LibraryOK, FlowOK, Library!Restart
  PROVE  LibraryOK' /\ FlowOK'
<1>1. /\ stock' = Library!Items(file) /\ data' = Library!DataOf(file)
      /\ points' = Library!LoadedPoints(file) /\ DCC' = Library!LoadedDCC(file)
      /\ use' = {} /\ UNCHANGED <<file, made, dialog>>
      /\ thread' = [p \in Page |-> Library!Idle]
      /\ requests' = [p \in Page |-> <<>>] /\ lists' = [p \in Page |-> <<>>]
      /\ lib' = [p \in Page |-> file]
  BY DEF Library!Restart
<1>2. DOMAIN file = Library!Kind /\ \A k \in Library!Kind : FileOK(k, file[k], made[k])
  BY DEF LibraryOK, FilePart
<1>3. StockPart'
  BY <1>1, <1>2, Loads DEF StockPart, LibraryOK
<1>4. FilePart' /\ UsePart'
  BY <1>1 DEF LibraryOK, FilePart, UsePart
<1>5. DCCPart'
  BY <1>1, <1>2, LoadsPlaces DEF DCCPart
<1>6. PointsPart'
  <2> DEFINE P == Library!LoadedPoints(file)
             T == Library!ToSet(Library!Items(file)["T"])
  <2>1. DOMAIN P = T /\ \A t \in T : PointOK(P[t])
    BY <1>2, LoadsPlaces
  <2> HIDE DEF P
  <2>2. points' = P /\ T = Library!ToSet(stock'["T"])
    BY <1>1 DEF P
  <2> QED BY <2>1, <2>2 DEF PointsPart
<1>7. FlowOK'
  <2>1. RequestsPart' /\ ListsPart'
    BY <1>1, EmptyLine DEF RequestsPart, ListsPart
  <2>2. LibPart' /\ ThreadPart' /\ DialogPart'
    BY <1>1, <1>2 DEF LibPart, ThreadPart, ThreadOK, DialogPart, FlowOK
  <2> QED BY <2>1, <2>2 DEF FlowOK
<1> QED BY <1>3, <1>4, <1>5, <1>6, <1>7 DEF LibraryOK

\* The file that the program is started with
LEMMA SavedOK ==
  LET m == [k \in Library!Kind |-> Len(MCSaved[k])]
  IN DOMAIN MCSaved = Library!Kind /\ \A k \in Library!Kind : m[k] \in Nat /\ FileOK(k, MCSaved[k], m[k])
<1> DEFINE a == CHOOSE x \in Address : TRUE
           e1 == [item |-> <<"E", 1>>, data |-> a]
           e2 == [item |-> <<"E", 2>>, data |-> a]
           t1 == [item |-> <<"T", 1>>, data |-> <<"E", 2>>]
           m == [k \in Library!Kind |-> Len(MCSaved[k])]
<1>1. MCSaved = [E |-> <<e1, e2>>, C |-> <<>>, T |-> <<t1>>]
  BY DEF MCSaved
<1>2. a \in Address
  BY StockAssumption DEF Library!LibraryAssumption
<1>3. EntryOK("E", e1, 2) /\ EntryOK("E", e2, 2) /\ EntryOK("T", t1, 1) /\ e1.item # e2.item
  BY <1>2 DEF EntryOK, LibItem
<1> HIDE DEF e1, e2, t1
<1>4. Line(<<e1, e2>>) /\ Len(<<e1, e2>>) = 2 /\ Line(<<t1>>) /\ Len(<<t1>>) = 1
  BY DEF Line
<1>5. FileOK("E", <<e1, e2>>, 2)
  BY <1>3, <1>4 DEF FileOK
<1>6. FileOK("T", <<t1>>, 1)
  BY <1>3, <1>4 DEF FileOK
<1>7. FileOK("C", <<>>, 0)
  BY EmptyLine DEF FileOK
<1>8. DOMAIN MCSaved = Library!Kind /\ MCSaved["E"] = <<e1, e2>> /\ MCSaved["C"] = <<>> /\ MCSaved["T"] = <<t1>>
  BY <1>1 DEF Library!Kind
<1>9. \A k \in Library!Kind : m[k] \in Nat /\ FileOK(k, MCSaved[k], m[k])
  BY <1>4, <1>5, <1>6, <1>7, <1>8, EmptyLine DEF Library!Kind
<1> QED BY <1>8, <1>9

LEMMA StartTyped ==
  ASSUME Library!Init
  PROVE  LibraryOK /\ FlowOK
<1>1. /\ stock = Library!Items(MCSaved) /\ data = Library!DataOf(MCSaved)
      /\ points = Library!LoadedPoints(MCSaved) /\ DCC = Library!LoadedDCC(MCSaved)
      /\ use = {} /\ file = MCSaved /\ made = [k \in Library!Kind |-> Len(MCSaved[k])]
      /\ thread = [p \in Page |-> Library!Idle]
      /\ requests = [p \in Page |-> <<>>] /\ lists = [p \in Page |-> <<>>]
      /\ lib = [p \in Page |-> MCSaved] /\ dialog = [p \in Page |-> Library!Closed]
  BY DEF Library!Init
<1>2. /\ DOMAIN MCSaved = Library!Kind
      /\ \A k \in Library!Kind : made[k] \in Nat /\ FileOK(k, MCSaved[k], made[k])
  BY <1>1, SavedOK
<1>3. StockPart
  <2>1. DOMAIN made = Library!Kind
    BY <1>1
  <2> QED BY <1>1, <1>2, <2>1, Loads DEF StockPart
<1>4. FilePart /\ UsePart
  BY <1>1, <1>2 DEF FilePart, UsePart
<1>5. DCCPart
  BY <1>1, <1>2, LoadsPlaces DEF DCCPart
<1>6. PointsPart
  <2> DEFINE P == Library!LoadedPoints(MCSaved)
             T == Library!ToSet(Library!Items(MCSaved)["T"])
  <2>1. DOMAIN P = T /\ \A t \in T : PointOK(P[t])
    BY <1>2, LoadsPlaces
  <2> HIDE DEF P
  <2>2. points = P /\ T = Library!ToSet(stock["T"])
    BY <1>1 DEF P
  <2> QED BY <2>1, <2>2 DEF PointsPart
<1>7. FlowOK
  <2>1. RequestsPart /\ ListsPart
    BY <1>1, EmptyLine DEF RequestsPart, ListsPart
  <2>2. LibPart /\ ThreadPart /\ DialogPart
    BY <1>1, <1>2 DEF LibPart, ThreadPart, ThreadOK, DialogPart
  <2> QED BY <2>1, <2>2 DEF FlowOK
<1> QED BY <1>3, <1>4, <1>5, <1>6, <1>7 DEF LibraryOK

LEMMA TypedStep ==
  ASSUME LibraryOK, FlowOK, [Library!Next]_(Library!vars)
  PROVE  LibraryOK' /\ FlowOK'
<1>1. CASE UNCHANGED Library!vars
  <2>1. UNCHANGED <<stock, data, points, DCC, file, made, use, thread, requests, lists, lib, dialog>>
    BY <1>1 DEF Library!vars, Library!library, Library!links
  <2> QED BY <2>1, LibrarySame DEF FlowOK, RequestsPart, ListsPart, LibPart, ThreadPart, DialogPart
<1>2. CASE Library!Restart
  BY <1>2, RestartTyped
<1>3. ASSUME NEW p \in Page, Library!Serve(p) PROVE LibraryOK' /\ FlowOK'
  BY <1>3, ServeTyped
<1>4. ASSUME NEW p \in Page, Library!Take(p) PROVE LibraryOK' /\ FlowOK'
  <2>1. EnginesOK(thread[p].engines)
    BY <1>4 DEF Library!Take, FlowOK, ThreadPart, ThreadOK, Library!Idle
  <2>2. LibraryOK'
    BY <1>4, <2>1, Taken
  <2>3. UNCHANGED <<requests, lists, lib, dialog>> /\ (UNCHANGED thread \/ thread' = [thread EXCEPT ![p] = Library!Idle])
    BY <1>4 DEF Library!Take, Library!Crash, Library!Goes
  <2>4. ThreadPart'
    BY <2>3 DEF FlowOK, ThreadPart, ThreadOK
  <2> QED BY <2>2, <2>3, <2>4 DEF FlowOK, RequestsPart, ListsPart, LibPart, DialogPart
<1> QED BY <1>1, <1>2, <1>3, <1>4, PageTyped DEF Library!Next

-----------------------------------------------------------------------------
(* Engines in use                                                          *)

\* Without preemption only one thread is in the middle of a request.
Alone == \A p, q \in Page : thread[p] # Library!Idle /\ thread[q] # Library!Idle => p = q

\* The engine that is about to be taken is free, and so is its address.
Free(e) ==
  e \in Library!ToSet(stock["E"]) /\ e \in LibItem("E") /\ e \notin use /\ Library!EngineDCC(data[e]) = Nobody
Taking ==
  \A p \in Page : thread[p].step = "take" =>
    thread[p].engines = <<>> \/ \E e \in LibItem("E") : thread[p].engines = <<e>> /\ Free(e)

\* An engine of the library is found at its address, unless one was removed from there.
Untouched(a) == Nobody \notin Library!ToSet(DCC[a].E)
Registered ==
  \A e \in Library!ToSet(stock["E"]) \ {Nobody} : Untouched(data[e]) => e \in Library!ToSet(DCC[data[e]].E)

\* The engine in use of an address is the one that the address is taken by.
Owned ==
  moved = {} => \A a \in Address : Untouched(a) =>
    /\ DCC[a].engineUsed => DCC[a].uniqueEngine \in DOMAIN DCC[a].E
    /\ {e \in use : data[e] = a} = IF DCC[a].engineUsed THEN {DCC[a].E[DCC[a].uniqueEngine]} ELSE {}

\* The places c have the engines of d where they were, and perhaps more; who looks
\* at an address from which one was removed learns nothing.
Extends(c, d) ==
  \A a \in Address : Nobody \notin Library!ToSet(c[a].E) =>
    /\ Nobody \notin Library!ToSet(d[a].E)
    /\ c[a].engineUsed = d[a].engineUsed /\ c[a].uniqueEngine = d[a].uniqueEngine
    /\ \A i \in DOMAIN d[a].E : i \in DOMAIN c[a].E /\ c[a].E[i] = d[a].E[i]

LEMMA ExtendsEach ==
  ASSUME NEW b, NEW c, NEW d, Extends(b, c), Extends(c, d)
  PROVE  Extends(b, d)
BY DEF Extends

LEMMA AddExtends ==
  ASSUME NEW d \in [Address -> Place], NEW e \in LibItem("E"), NEW a \in Address
  PROVE  Extends(Library!AddDCC(d, e, a), d) /\ e \in Library!ToSet(Library!AddDCC(d, e, a)[a].E)
<1> DEFINE c == Library!AddDCC(d, e, a)
           s == d[a].E
           l == Append(s, e)
<1>1. /\ \A b \in Address : b # a => c[b] = d[b]
      /\ c[a].E = l
      /\ c[a].engineUsed = d[a].engineUsed /\ c[a].uniqueEngine = d[a].uniqueEngine
  BY AddedDCC
<1>2. s \in Seq(LibItem("E") \cup {Nobody})
  BY DEF Place
<1> HIDE DEF s
<1>3. Line(s) /\ DOMAIN s = 1..Len(s) /\ Len(s) \in Nat
  BY <1>2, LineOfSeq, LenProperties
<1>4. /\ DOMAIN l = 1..(Len(s) + 1) /\ l[Len(s) + 1] = e
      /\ \A i \in 1..Len(s) : l[i] = s[i]
  BY <1>3, LineAppend
<1> HIDE DEF l, c
<1>5. \A i \in DOMAIN s : i \in DOMAIN l /\ l[i] = s[i]
  BY <1>3, <1>4
<1>6. e \in Library!ToSet(l)
  <2>1. Len(s) + 1 \in DOMAIN l
    BY <1>3, <1>4
  <2> QED BY <1>4, <2>1 DEF Library!ToSet
<1>7. Nobody \notin Library!ToSet(l) => Nobody \notin Library!ToSet(s)
  BY <1>5 DEF Library!ToSet
<1>8. Extends(c, d)
  <2> SUFFICES ASSUME NEW b \in Address, Nobody \notin Library!ToSet(c[b].E)
               PROVE  /\ Nobody \notin Library!ToSet(d[b].E)
                      /\ c[b].engineUsed = d[b].engineUsed /\ c[b].uniqueEngine = d[b].uniqueEngine
                      /\ \A i \in DOMAIN d[b].E : i \in DOMAIN c[b].E /\ c[b].E[i] = d[b].E[i]
    BY DEF Extends
  <2>1. CASE b = a
    BY <1>1, <1>5, <1>7, <2>1 DEF s
  <2>2. CASE b # a
    BY <1>1, <2>2
  <2> QED BY <2>1, <2>2
<1> QED BY <1>1, <1>6, <1>8 DEF c

LEMMA RemoveExtends ==
  ASSUME NEW d \in [Address -> Place], NEW e, NEW a \in Address
  PROVE  Extends(Library!RemoveDCC(d, e, a), d)
<1> DEFINE c == Library!RemoveDCC(d, e, a)
<1>1. /\ \A b \in Address : b # a => c[b] = d[b]
      /\ Nobody \in Library!ToSet(c[a].E) \/ c = d
  BY RemovedDCC
<1> HIDE DEF c
<1>2. Extends(c, d)
  <2> SUFFICES ASSUME NEW b \in Address, Nobody \notin Library!ToSet(c[b].E)
               PROVE  c[b] = d[b]
    BY DEF Extends
  <2> QED BY <1>1
<1> QED BY <1>2 DEF c

\* Engines stay where they are registered, and owned.
LEMMA RegisteredKept ==
  ASSUME LibraryOK, Registered, Extends(DCC', DCC),
         \A e \in Library!ToSet(stock'["E"]) \ {Nobody} :
           \/ e \in Library!ToSet(stock["E"]) /\ data'[e] = data[e]
           \/ e \in Library!ToSet(DCC'[data'[e]].E)
  PROVE  Registered'
<1> SUFFICES ASSUME NEW e \in Library!ToSet(stock'["E"]) \ {Nobody},
                    Nobody \notin Library!ToSet(DCC'[data'[e]].E),
                    e \in Library!ToSet(stock["E"]), data'[e] = data[e]
             PROVE  e \in Library!ToSet(DCC'[data'[e]].E)
  BY DEF Registered, Untouched
<1>1. data[e] \in Address
  <2>1. StockOK("E", stock["E"], data, made["E"])
    BY DEF LibraryOK, StockPart, Library!Kind
  <2>2. e \in LibItem("E") /\ e \in DOMAIN data
    BY <2>1, StockLine DEF StockOK
  <2> QED BY <2>2 DEF LibraryOK, StockPart
<1>2. /\ Nobody \notin Library!ToSet(DCC[data[e]].E)
      /\ \A i \in DOMAIN DCC[data[e]].E : i \in DOMAIN DCC'[data[e]].E /\ DCC'[data[e]].E[i] = DCC[data[e]].E[i]
  BY <1>1 DEF Extends
<1>3. e \in Library!ToSet(DCC[data[e]].E)
  BY <1>2 DEF Registered, Untouched
<1> QED BY <1>2, <1>3 DEF Library!ToSet

LEMMA OwnedKept ==
  ASSUME Owned, Extends(DCC', DCC), UNCHANGED use, moved' = {} => moved = {} /\ \A e \in use : data'[e] = data[e]
  PROVE  Owned'
<1> SUFFICES ASSUME moved' = {}, NEW a \in Address, Nobody \notin Library!ToSet(DCC'[a].E)
             PROVE  /\ DCC'[a].engineUsed => DCC'[a].uniqueEngine \in DOMAIN DCC'[a].E
                    /\ {e \in use : data'[e] = a} = IF DCC'[a].engineUsed THEN {DCC'[a].E[DCC'[a].uniqueEngine]} ELSE {}
  BY DEF Owned, Untouched
<1>1. /\ Nobody \notin Library!ToSet(DCC[a].E)
      /\ DCC'[a].engineUsed = DCC[a].engineUsed /\ DCC'[a].uniqueEngine = DCC[a].uniqueEngine
      /\ \A i \in DOMAIN DCC[a].E : i \in DOMAIN DCC'[a].E /\ DCC'[a].E[i] = DCC[a].E[i]
  BY DEF Extends
<1>2. /\ DCC[a].engineUsed => DCC[a].uniqueEngine \in DOMAIN DCC[a].E
      /\ {e \in use : data[e] = a} = IF DCC[a].engineUsed THEN {DCC[a].E[DCC[a].uniqueEngine]} ELSE {}
  BY <1>1 DEF Owned, Untouched
<1>3. {e \in use : data'[e] = a} = {e \in use : data[e] = a}
  OBVIOUS
<1> QED BY <1>1, <1>2, <1>3

LEMMA NothingMoves ==
  ASSUME LibraryOK, Registered, Owned, UNCHANGED <<DCC, use, moved>>,
         Library!ToSet(stock'["E"]) \ {Nobody} \subseteq Library!ToSet(stock["E"]),
         \A e \in LibItem("E") \cap DOMAIN data : data'[e] = data[e]
  PROVE  Registered' /\ Owned'
<1>1. Extends(DCC', DCC)
  BY DEF Extends
<1>2. \A e \in Library!ToSet(stock["E"]) \ {Nobody} : e \in LibItem("E") /\ e \in DOMAIN data
  <2>1. StockOK("E", stock["E"], data, made["E"])
    BY DEF LibraryOK, StockPart, Library!Kind
  <2> QED BY <2>1, StockLine DEF StockOK
<1>3. \A e \in use : e \in LibItem("E") /\ e \in DOMAIN data
  BY DEF LibraryOK, UsePart, EngineOK
<1>4. \A e \in use : data'[e] = data[e]
  BY <1>3
<1>5. \A e \in Library!ToSet(stock'["E"]) \ {Nobody} : e \in Library!ToSet(stock["E"]) /\ data'[e] = data[e]
  BY <1>2
<1> QED BY <1>1, <1>4, <1>5, RegisteredKept, OwnedKept

LEMMA CreatedOwned ==
  ASSUME LibraryOK, Registered, Owned, NEW p, NEW m, AskedOK(m), m.op = "create", NEW pictures,
         Library!Create(p, m, pictures)
  PROVE  Registered' /\ Owned'
<1> DEFINE k == m.kind
           n == made[k] + 1
           new == <<k, n>>
<1>1. /\ k \in {"E", "C"} /\ k \in Library!Kind /\ m.data \in Address
      /\ stock' = [stock EXCEPT ![k] = Append(stock[k], new)]
      /\ data' = [i \in {new} \cup DOMAIN data |-> IF i = new THEN m.data ELSE data[i]]
      /\ DCC' = IF k = "E" THEN Library!AddDCC(DCC, new, m.data) ELSE DCC
      /\ UNCHANGED <<use, moved>>
  BY DEF AskedOK, Library!Create, Library!Up, Library!links, Library!Kind
<1>2. made[k] \in Nat /\ StockOK(k, stock[k], data, made[k]) /\ DOMAIN stock = Library!Kind
  BY <1>1 DEF LibraryOK, StockPart
<1>3. Library!ToSet(Append(stock[k], new)) = Library!ToSet(stock[k]) \cup {new}
  <2>1. DOMAIN data \cup {<<k, made[k] + 1>>} \subseteq DOMAIN data'
    BY <1>1
  <2> QED BY <1>1, <1>2, <2>1, StockAppend
<1>4. new \in LibItem(k)
  BY <1>2 DEF LibItem
<1>5. \A e \in LibItem("E") : e \in DOMAIN data /\ e[2] <= made["E"] => e # new /\ data'[e] = data[e]
  <2> SUFFICES ASSUME NEW e \in LibItem("E"), e \in DOMAIN data, e[2] <= made["E"] PROVE e # new
    BY <1>1
  <2>1. e[2] \in Nat
    BY DEF LibItem
  <2>2. CASE k = "E"
    BY <1>2, <2>1, <2>2
  <2>3. CASE k # "E"
    BY <1>1, <1>4, <2>3, KindItems DEF Library!Kind
  <2> QED BY <2>2, <2>3
<1>6. \A e \in Library!ToSet(stock["E"]) \ {Nobody} : data'[e] = data[e]
  <2>1. StockOK("E", stock["E"], data, made["E"])
    BY DEF LibraryOK, StockPart, Library!Kind
  <2> QED BY <1>5, <2>1, StockLine DEF StockOK
<1>7. \A e \in use : data'[e] = data[e]
  BY <1>5 DEF LibraryOK, UsePart, EngineOK
<1>8. CASE k = "E"
  <2>1. Extends(DCC', DCC) /\ new \in Library!ToSet(DCC'[m.data].E)
    BY <1>1, <1>4, <1>8, AddExtends DEF LibraryOK, DCCPart
  <2>2. Library!ToSet(stock'["E"]) = Library!ToSet(stock["E"]) \cup {new} /\ data'[new] = m.data
    BY <1>1, <1>2, <1>3, <1>8
  <2>3. Registered'
    BY <1>6, <2>1, <2>2, RegisteredKept
  <2>4. Owned'
    BY <1>1, <1>7, <2>1, OwnedKept
  <2> QED BY <2>3, <2>4
<1>9. CASE k # "E"
  <2>1. Extends(DCC', DCC) /\ stock'["E"] = stock["E"]
    BY <1>1, <1>2, <1>9 DEF Extends, Library!Kind
  <2>2. Registered'
    BY <1>6, <2>1, RegisteredKept
  <2>3. Owned'
    BY <1>1, <1>7, <2>1, OwnedKept
  <2> QED BY <2>2, <2>3
<1> QED BY <1>8, <1>9

LEMMA EngineEditedOwned ==
  ASSUME LibraryOK, Registered, Owned, NEW p, NEW m, AskedOK(m), m.op = "edit", NEW pictures,
         Library!EditEngine(p, m, pictures)
  PROVE  Registered' /\ Owned'
<1> DEFINE e == Library!At(stock["E"], m.id)
           c == Library!RemoveDCC(DCC, e, data[e])
<1>1. CASE e = Nobody
  BY <1>1, NothingMoves DEF Library!EditEngine, Library!Crash, Library!library, Library!links
<1>2. CASE e # Nobody
  <2>1. /\ data' = [data EXCEPT ![e] = m.data] /\ m.data \in Address
        /\ DCC' = Library!AddDCC(c, e, m.data)
        /\ moved' = moved \cup ({e} \cap use)
        /\ UNCHANGED <<stock, use>>
    BY <1>2 DEF AskedOK, Library!EditEngine, Library!Up, Library!links
  <2>2. e \in LibItem("E") /\ data[e] \in Address /\ e \in DOMAIN data
    BY <1>2, FoundAt DEF LibraryOK, Library!Kind
  <2> HIDE DEF e
  <2>3. c \in [Address -> Place] /\ Extends(c, DCC)
    BY <2>2, RemovedDCC, RemoveExtends DEF LibraryOK, DCCPart
  <2> HIDE DEF c
  <2>4. Extends(DCC', c) /\ e \in Library!ToSet(DCC'[m.data].E)
    BY <2>1, <2>2, <2>3, AddExtends
  <2>5. Extends(DCC', DCC)
    BY <2>3, <2>4, ExtendsEach
  <2>6. \A x \in DOMAIN data : data'[x] = IF x = e THEN m.data ELSE data[x]
    BY <2>1
  <2>7. Registered'
    <3>1. StockOK("E", stock["E"], data, made["E"])
      BY DEF LibraryOK, StockPart, Library!Kind
    <3>2. \A x \in Library!ToSet(stock["E"]) \ {Nobody} : x \in DOMAIN data
      BY <3>1 DEF StockOK
    <3> QED BY <2>1, <2>4, <2>5, <2>6, <3>2, RegisteredKept
  <2>8. Owned'
    <3>1. \A x \in use : x \in DOMAIN data
      BY DEF LibraryOK, UsePart, EngineOK
    <3>2. moved' = {} => moved = {} /\ \A x \in use : data'[x] = data[x]
      BY <2>1, <2>6, <3>1
    <3> QED BY <2>1, <2>5, <3>2, OwnedKept
  <2> QED BY <2>7, <2>8
<1> QED BY <1>1, <1>2

LEMMA EngineDeletedOwned ==
  ASSUME LibraryOK, Registered, Owned, NEW p, NEW m, Library!DeleteEngine(p, m)
  PROVE  Registered' /\ Owned'
<1> DEFINE e == Library!At(stock["E"], m.id)
<1>1. CASE e = Nobody
  BY <1>1, NothingMoves DEF Library!DeleteEngine, Library!Crash, Library!library, Library!links
<1>2. CASE e # Nobody
  <2>1. /\ stock' = [stock EXCEPT !["E"][m.id] = Nobody]
        /\ DCC' = Library!RemoveDCC(DCC, e, data[e])
        /\ moved' = moved \cup ({e} \cap use)
        /\ UNCHANGED <<data, use>>
    BY <1>2 DEF Library!DeleteEngine, Library!Up, Library!links
  <2>2. data[e] \in Address /\ m.id \in DOMAIN stock["E"]
    BY <1>2, FoundAt DEF LibraryOK, Library!Kind
  <2> HIDE DEF e
  <2>3. Extends(DCC', DCC)
    BY <2>1, <2>2, RemoveExtends DEF LibraryOK, DCCPart
  <2>4. Library!ToSet(stock'["E"]) \ {Nobody} \subseteq Library!ToSet(stock["E"])
    <3>1. "E" \in DOMAIN stock
      BY DEF LibraryOK, StockPart, Library!Kind
    <3>2. stock'["E"] = [stock["E"] EXCEPT ![m.id] = Nobody]
      BY <2>1, <3>1
    <3>3. DOMAIN stock'["E"] = DOMAIN stock["E"]
          /\ \A i \in DOMAIN stock["E"] : stock'["E"][i] = IF i = m.id THEN Nobody ELSE stock["E"][i]
      BY <3>2
    <3> QED BY <3>3 DEF Library!ToSet
  <2>5. Registered'
    BY <2>1, <2>3, <2>4, RegisteredKept
  <2>6. Owned'
    BY <2>1, <2>3, OwnedKept
  <2> QED BY <2>5, <2>6
<1> QED BY <1>1, <1>2

LEMMA CarEditedOwned ==
  ASSUME LibraryOK, Registered, Owned, NEW p, NEW m, NEW pictures, Library!EditCar(p, m, pictures)
  PROVE  Registered' /\ Owned'
<1> DEFINE c == Library!At(stock["C"], m.id)
<1>1. /\ UNCHANGED <<stock, DCC, use, moved>>
      /\ data' = IF c = Nobody THEN data ELSE [data EXCEPT ![c] = m.data]
  BY DEF Library!EditCar, Library!Up, Library!links
<1>2. c # Nobody => c \notin LibItem("E")
  <2>1. c # Nobody => c \in LibItem("C")
    BY FoundAt DEF LibraryOK, Library!Kind
  <2> QED BY <2>1, KindItems DEF Library!Kind
<1> HIDE DEF c
<1>3. \A e \in LibItem("E") \cap DOMAIN data : data'[e] = data[e]
  BY <1>1, <1>2
<1> QED BY <1>1, <1>3, NothingMoves

LEMMA SetEditedOwned ==
  ASSUME LibraryOK, Registered, Owned, NEW p, NEW m, Library!EditSet(p, m)
  PROVE  Registered' /\ Owned'
<1> DEFINE t == Library!At(stock["T"], m.id)
<1>1. /\ UNCHANGED <<stock, DCC, use, moved>>
      /\ data' = IF t = Nobody THEN data ELSE [data EXCEPT ![t] = m.data]
  BY DEF Library!EditSet, Library!Crash, Library!library, Library!Up, Library!links
<1>2. t # Nobody => t \notin LibItem("E")
  <2>1. t # Nobody => t \in LibItem("T")
    BY FoundAt DEF LibraryOK, Library!Kind
  <2> QED BY <2>1, KindItems DEF Library!Kind
<1> HIDE DEF t
<1>3. \A e \in LibItem("E") \cap DOMAIN data : data'[e] = data[e]
  BY <1>1, <1>2
<1> QED BY <1>1, <1>3, NothingMoves

LEMMA OtherDeletedOwned ==
  ASSUME LibraryOK, Registered, Owned, NEW p, NEW m, Library!DeleteOther(p, m)
  PROVE  Registered' /\ Owned'
<1>1. /\ UNCHANGED <<data, DCC, use, moved>> /\ m.kind # "E"
      /\ stock' = IF Library!At(stock[m.kind], m.id) = Nobody THEN stock ELSE [stock EXCEPT ![m.kind][m.id] = Nobody]
  BY DEF Library!DeleteOther, Library!Up, Library!links
<1>2. stock'["E"] = stock["E"]
  BY <1>1 DEF LibraryOK, StockPart, Library!Kind
<1> QED BY <1>1, <1>2, NothingMoves

\* An address is taken for the engine that is linked.
LEMMA TakenOwned ==
  ASSUME LibraryOK, Registered, Owned, Taking, NEW p \in Page, Library!Take(p)
  PROVE  Registered' /\ Owned'
<1> DEFINE engines == thread[p].engines
<1>1. CASE UNCHANGED <<stock, data, DCC, use, moved>>
  BY <1>1, NothingMoves
<1>2. CASE Library!ToSet(engines) \subseteq Library!ToSet(stock["E"])
  <2>1. /\ UNCHANGED <<stock, data, moved>>
        /\ use' = use \cup Library!ToSet(engines)
        /\ DCC' = IF engines = <<>> THEN DCC ELSE Library!SubDCCEngine(Head(engines))
        /\ thread[p].step = "take"
    BY <1>2 DEF Library!Take
  <2>2. CASE engines = <<>>
    <3>1. Library!ToSet(engines) = {}
      BY <2>2 DEF Library!ToSet
    <3> QED BY <1>1, <2>1, <2>2, <3>1
  <2>3. ASSUME NEW e \in LibItem("E"), engines = <<e>>, Free(e) PROVE Registered' /\ Owned'
    <3> DEFINE a == data[e]
               at == {j \in DOMAIN DCC[a].E : DCC[a].E[j] = e}
               x == [DCC[a] EXCEPT !.engineUsed = TRUE, !.uniqueEngine = Library!Min(at)]
    <3>1. Library!ToSet(engines) = {e} /\ Head(engines) = e /\ engines # <<>>
      BY <2>3 DEF Library!ToSet
    <3>2. /\ e \in Library!ToSet(stock["E"]) /\ e # Nobody
          /\ Library!EngineDCC(a) = Nobody
      BY <2>3, NobodyNoItem DEF Free, Library!Kind
    <3>3. a \in Address
      BY <3>2, SubTyped
    <3>4. DCC[a] \in Place /\ DCC[a].E \in Seq(LibItem("E") \cup {Nobody}) /\ DOMAIN DCC = Address
      BY <3>3 DEF LibraryOK, DCCPart, Place
    <3>5. at \in SUBSET Nat
      BY <3>4, StockLine
    <3>6. DCC' = IF DCC[a].engineUsed \/ at = {} THEN DCC ELSE [DCC EXCEPT ![a] = x]
      BY Zenon, <2>1, <3>1 DEF Library!SubDCCEngine
    <3>7. use' = use \cup {e}
      BY <2>1, <3>1
    <3>8. at # {} => Library!Min(at) \in at
      <4> HIDE DEF at
      <4> QED BY <3>5, LeastOf
    <3>9. \A j \in at : j \in DOMAIN DCC[a].E /\ DCC[a].E[j] = e
      OBVIOUS
    <3>10. e \in Library!ToSet(DCC[a].E) => at # {}
      BY DEF Library!ToSet
    <3>11. x.E = DCC[a].E /\ x.engineUsed = TRUE /\ x.uniqueEngine = Library!Min(at)
      <4> HIDE DEF at
      <4> QED BY <3>4 DEF Place
    <3>12. Library!EngineDCC(a) = IF DCC[a].engineUsed THEN DCC[a].E[DCC[a].uniqueEngine] ELSE Nobody
      BY DEF Library!EngineDCC
    <3>13. data' = data
      BY <2>1
    <3> HIDE DEF x, at
    <3>14. \A b \in Address : b # a => DCC'[b] = DCC[b]
      BY <3>6
    <3>15. DCC'[a].E = DCC[a].E
      BY <3>3, <3>4, <3>6, <3>11
    <3>16. Registered'
      <4> SUFFICES ASSUME NEW f \in Library!ToSet(stock["E"]) \ {Nobody},
                          Nobody \notin Library!ToSet(DCC'[data[f]].E)
                   PROVE  f \in Library!ToSet(DCC'[data[f]].E)
        BY <2>1 DEF Registered, Untouched
      <4>1. data[f] \in Address
        <5>1. StockOK("E", stock["E"], data, made["E"])
          BY DEF LibraryOK, StockPart, Library!Kind
        <5>2. f \in LibItem("E")
          BY <5>1, StockLine DEF StockOK
        <5> QED BY <5>2, SubTyped
      <4>2. DCC'[data[f]].E = DCC[data[f]].E
        BY <3>14, <3>15, <4>1
      <4> QED BY <4>2 DEF Registered, Untouched
    <3>17. ASSUME moved = {}, NEW b \in Address, Nobody \notin Library!ToSet(DCC'[b].E)
           PROVE  /\ DCC'[b].engineUsed => DCC'[b].uniqueEngine \in DOMAIN DCC'[b].E
                  /\ {f \in use' : data[f] = b} = IF DCC'[b].engineUsed THEN {DCC'[b].E[DCC'[b].uniqueEngine]} ELSE {}
      <4>1. Nobody \notin Library!ToSet(DCC[b].E)
        BY <3>14, <3>15, <3>17
      <4>2. /\ DCC[b].engineUsed => DCC[b].uniqueEngine \in DOMAIN DCC[b].E
            /\ {f \in use : data[f] = b} = IF DCC[b].engineUsed THEN {DCC[b].E[DCC[b].uniqueEngine]} ELSE {}
        BY <3>17, <4>1 DEF Owned, Untouched
      <4>3. CASE b # a
        <5>1. {f \in use' : data[f] = b} = {f \in use : data[f] = b}
          BY <3>7, <4>3
        <5> QED BY <3>14, <4>2, <4>3, <5>1
      <4>4. CASE b = a
        <5>1. at # {}
          <6>1. e \in Library!ToSet(DCC[a].E)
            BY <3>2, <4>1, <4>4 DEF Registered, Untouched
          <6> QED BY <3>10, <6>1
        <5>2. ~DCC[a].engineUsed
          <6> SUFFICES ASSUME DCC[a].engineUsed PROVE FALSE
            OBVIOUS
          <6>1. DCC[a].uniqueEngine \in DOMAIN DCC[a].E /\ DCC[a].E[DCC[a].uniqueEngine] = Nobody
            BY <3>2, <3>12, <4>2, <4>4
          <6> QED BY <4>1, <4>4, <6>1 DEF Library!ToSet
        <5>3. DCC'[a] = x
          BY <3>3, <3>4, <3>6, <5>1, <5>2
        <5>4. {f \in use' : data[f] = a} = {e}
          BY <3>7, <4>2, <4>4, <5>2
        <5>5. x.uniqueEngine \in DOMAIN x.E /\ x.E[x.uniqueEngine] = e
          BY Zenon, <3>8, <3>9, <3>11, <5>1
        <5> QED BY <3>11, <4>4, <5>3, <5>4, <5>5
      <4> QED BY <4>3, <4>4
    <3>18. Owned'
      BY Zenon, <2>1, <3>13, <3>17 DEF Owned, Untouched
    <3> QED BY <3>16, <3>18
  <2> QED BY <2>1, <2>2, <2>3 DEF Taking
<1>3. CASE Library!Crash
  BY <1>1, <1>3 DEF Library!Crash, Library!library, Library!links
<1> QED BY <1>2, <1>3 DEF Library!Take

\* An engine is taken only where nothing was taken before.
LEMMA LinkOwned ==
  ASSUME LibraryOK, ThreadPart, ThreadPart', Registered, Owned, NEW p \in Page, NEW m, AskedOK(m), m.op = "link",
         \A q \in Page : thread[q] = Library!Idle, Library!Link(p, m)
  PROVE  Taking' /\ Registered' /\ Owned'
<1> DEFINE item == Library!At(stock[m.kind], m.id)
           engines == IF m.kind = "E" THEN <<item>> ELSE points[item].engines
<1>1. UNCHANGED <<stock, data, DCC, use, moved>>
  BY DEF Library!Link, Library!Crash, Library!library, Library!links
<1>2. Registered' /\ Owned'
  BY <1>1, NothingMoves
<1>3. CASE Library!Crash
  BY <1>2, <1>3 DEF Library!Crash, Taking, Library!Idle
<1>4. CASE Library!Goes(p, Library!Idle)
  BY <1>2, <1>4 DEF Library!Goes, Taking, Library!Idle, ThreadPart
<1>5. CASE /\ Library!ToSet(engines) \subseteq Library!ToSet(stock["E"])
           /\ ~Library!Refuses(engines)
           /\ Library!Goes(p, [step |-> "take", train |-> m.data, engines |-> engines])
  <2> DEFINE t == [step |-> "take", train |-> m.data, engines |-> engines]
  <2>1. thread' = [thread EXCEPT ![p] = t]
    BY <1>5 DEF Library!Goes
  <2>2. t.step = "take" /\ t.engines = engines
    OBVIOUS
  <2>3. \A e \in Library!ToSet(engines) : e \notin use /\ Library!EngineDCC(data[e]) = Nobody
    BY <1>5 DEF Library!Refuses
  <2>4. Library!ToSet(engines) \subseteq Library!ToSet(stock["E"])
    BY <1>5
  <2> HIDE DEF t, engines
  <2>5. thread'[p] = t /\ \A q \in Page : q # p => thread'[q].step = "rest"
    BY <2>1 DEF ThreadPart, Library!Idle
  <2>6. t # Library!Idle /\ t.step \notin {"build", "send"}
    BY <2>2 DEF Library!Idle
  <2>7. EnginesOK(engines)
    BY <2>2, <2>5, <2>6 DEF ThreadPart, ThreadOK
  <2>8. ASSUME NEW e \in LibItem("E"), engines = <<e>> PROVE Free(e)'
    <3>1. e \in Library!ToSet(engines)
      BY <2>8 DEF Library!ToSet
    <3>2. e \in Library!ToSet(stock["E"]) /\ e \notin use /\ Library!EngineDCC(data[e]) = Nobody
      BY <2>3, <2>4, <3>1
    <3> QED BY <1>1, <3>2 DEF Free, Library!EngineDCC
  <2>9. engines = <<>> \/ \E e \in LibItem("E") : engines = <<e>> /\ Free(e)'
    BY <2>7, <2>8 DEF EnginesOK
  <2> QED BY <1>2, <2>2, <2>5, <2>9 DEF Taking
<1> QED BY <1>2, <1>3, <1>4, <1>5 DEF Library!Link

\* In a program that starts, each engine is found at its address.
LEMMA LoadsRegistered ==
  ASSUME NEW f, NEW m, DOMAIN f = Library!Kind, \A k \in Library!Kind : FileOK(k, f[k], m[k])
  PROVE  /\ \A a \in Address : ~Library!LoadedDCC(f)[a].engineUsed
         /\ \A e \in Library!ToSet(Library!Items(f)["E"]) \ {Nobody} :
              e \in Library!ToSet(Library!LoadedDCC(f)[Library!DataOf(f)[e]].E)
<1>1. /\ \A a \in Address : ~Library!LoadedDCC(f)[a].engineUsed
      /\ \A e \in Library!ToSet(Library!Items(f)["E"]), a \in Address :
           Library!DataOf(f)[e] = a => e \in Library!ToSet(Library!LoadedDCC(f)[a].E)
  BY LoadsPlaces
<1>2. ASSUME NEW e \in Library!ToSet(Library!Items(f)["E"]) \ {Nobody} PROVE Library!DataOf(f)[e] \in Address
  <2>1. StockOK("E", Library!Items(f)["E"], Library!DataOf(f), m["E"])
    BY Loads DEF Library!Kind
  <2>2. e \in LibItem("E") /\ e \in DOMAIN Library!DataOf(f)
    BY <2>1, StockLine DEF StockOK
  <2> QED BY <2>2, Loads
<1> QED BY <1>1, <1>2

\* With a thread that is not preempted, only one is not at rest.
LEMMA AloneStep ==
  ASSUME ~Preempted, ThreadPart, Alone, [Library!Next]_(Library!vars)
  PROVE  Alone'
<1>1. CASE UNCHANGED thread
  BY <1>1 DEF Alone
<1>2. CASE thread' = [p \in Page |-> Library!Idle]
  BY <1>2 DEF Alone
<1>3. ASSUME NEW p \in Page, NEW t, thread' = [thread EXCEPT ![p] = t], \A q \in Page : q # p => thread[q] = Library!Idle
      PROVE  Alone'
  BY <1>3 DEF Alone, ThreadPart
<1>4. ASSUME NEW p \in Page, thread[p].step \in {"take", "build", "send"} PROVE \A q \in Page : q # p => thread[q] = Library!Idle
  <2>1. thread[p] # Library!Idle
    BY <1>4 DEF Library!Idle
  <2> QED BY <2>1 DEF Alone
<1>5. CASE UNCHANGED Library!vars
  BY <1>1, <1>5 DEF Library!vars
<1>6. CASE Library!Restart
  BY <1>2, <1>6 DEF Library!Restart
<1>7. ASSUME NEW p \in Page, Library!Serve(p) PROVE Alone'
  <2> DEFINE m == Head(requests[p])
  <2>1. \A q \in Page : thread[q] = Library!Idle
    BY <1>7 DEF Library!Serve, Library!Undisturbed
  <2>2. UNCHANGED thread \/ \E t : thread' = [thread EXCEPT ![p] = t]
    <3>1. ASSUME NEW k, Library!Publish(p, k) PROVE \E t : thread' = [thread EXCEPT ![p] = t]
      BY <3>1 DEF Library!Publish, Library!Goes
    <3>2. ASSUME Library!Refuse(p) PROVE \E t : thread' = [thread EXCEPT ![p] = t]
      BY <3>2 DEF Library!Refuse, Library!Goes
    <3>3. ASSUME Library!Crash PROVE UNCHANGED thread
      BY <3>3 DEF Library!Crash
    <3> HIDE DEF m
    <3>4. ASSUME NEW pictures, Library!Create(p, m, pictures) PROVE \E t : thread' = [thread EXCEPT ![p] = t]
      BY <3>1, <3>2, <3>4 DEF Library!Create
    <3>5. ASSUME Library!CreateSet(p, m) PROVE \E t : thread' = [thread EXCEPT ![p] = t]
      BY <3>1, <3>5 DEF Library!CreateSet
    <3>6. ASSUME NEW pictures, Library!EditEngine(p, m, pictures)
          PROVE  UNCHANGED thread \/ \E t : thread' = [thread EXCEPT ![p] = t]
      BY <3>1, <3>2, <3>3, <3>6 DEF Library!EditEngine
    <3>7. ASSUME NEW pictures, Library!EditCar(p, m, pictures) PROVE \E t : thread' = [thread EXCEPT ![p] = t]
      BY <3>1, <3>2, <3>7 DEF Library!EditCar
    <3>8. ASSUME Library!EditSet(p, m) PROVE UNCHANGED thread \/ \E t : thread' = [thread EXCEPT ![p] = t]
      BY <3>1, <3>3, <3>8 DEF Library!EditSet
    <3>9. ASSUME Library!DeleteEngine(p, m) PROVE UNCHANGED thread \/ \E t : thread' = [thread EXCEPT ![p] = t]
      BY <3>1, <3>3, <3>9 DEF Library!DeleteEngine
    <3>10. ASSUME Library!DeleteOther(p, m) PROVE \E t : thread' = [thread EXCEPT ![p] = t]
      BY <3>2, <3>10 DEF Library!DeleteOther
    <3>11. ASSUME Library!Link(p, m) PROVE UNCHANGED thread \/ \E t : thread' = [thread EXCEPT ![p] = t]
      BY <3>3, <3>11 DEF Library!Link, Library!Goes
    <3> QED BY <1>7, <3>4, <3>5, <3>6, <3>7, <3>8, <3>9, <3>10, <3>11 DEF Library!Serve, m
  <2> QED BY <1>1, <1>3, <2>1, <2>2
<1>8. ASSUME NEW p \in Page, Library!Take(p) PROVE Alone'
  BY <1>1, <1>3, <1>4, <1>8 DEF Library!Take, Library!Crash, Library!Goes
<1>9. ASSUME NEW p \in Page, Library!Build(p) PROVE Alone'
  BY <1>3, <1>4, <1>9 DEF Library!Build, Library!Goes
<1>10. ASSUME NEW p \in Page, Library!Send(p) PROVE Alone'
  BY <1>3, <1>4, <1>10 DEF Library!Send, Library!Goes
<1>11. ASSUME NEW p, \/ \E k, id : Library!Open(p, k, id)
                     \/ \E op, form : Library!Click(p, op, form)
                     \/ Library!Dismiss(p)
                     \/ \E t, k, id : Library!RequestLink(p, t, k, id)
                     \/ Library!Receive(p)
       PROVE  UNCHANGED thread
  BY <1>11 DEF Library!Open, Library!Click, Library!Dismiss, Library!RequestLink, Library!Receive
<1> QED BY <1>1, <1>5, <1>6, <1>7, <1>8, <1>9, <1>10, <1>11 DEF Library!Next

\* Which steps leave the library alone
LEMMA PageLeaves ==
  ASSUME NEW p,
         \/ \E k, id : Library!Open(p, k, id)
         \/ \E op, form : Library!Click(p, op, form)
         \/ Library!Dismiss(p)
         \/ \E t, k, id : Library!RequestLink(p, t, k, id)
         \/ Library!Receive(p)
  PROVE  UNCHANGED <<Library!library, Library!links, down, thread>>
<1>1. ASSUME NEW k, NEW id, Library!Open(p, k, id) PROVE UNCHANGED <<Library!library, Library!links, down, thread>>
  BY <1>1 DEF Library!Open
<1>2. ASSUME NEW op, NEW form, Library!Click(p, op, form) PROVE UNCHANGED <<Library!library, Library!links, down, thread>>
  BY <1>2 DEF Library!Click
<1>3. ASSUME Library!Dismiss(p) PROVE UNCHANGED <<Library!library, Library!links, down, thread>>
  BY <1>3 DEF Library!Dismiss
<1>4. ASSUME NEW t, NEW k, NEW id, Library!RequestLink(p, t, k, id) PROVE UNCHANGED <<Library!library, Library!links, down, thread>>
  BY <1>4 DEF Library!RequestLink
<1>5. ASSUME Library!Receive(p) PROVE UNCHANGED <<Library!library, Library!links, down, thread>>
  BY <1>5 DEF Library!Receive
<1> QED BY <1>1, <1>2, <1>3, <1>4, <1>5

\* A request is served by a thread that is alone.
LEMMA ServeOwned ==
  ASSUME ~Preempted, LibraryOK, FlowOK, ThreadPart', Registered, Owned, NEW p \in Page, Library!Serve(p)
  PROVE  Taking' /\ Registered' /\ Owned'
<1> DEFINE m == Head(requests[p])
<1>1. requests[p] # <<>> /\ \A q \in Page : thread[q] = Library!Idle
  BY DEF Library!Serve, Library!Undisturbed
<1>2. AskedOK(m)
  <2> DEFINE s == requests[p]
  <2>1. Line(s) /\ s # <<>> /\ \A n \in DOMAIN s : AskedOK(s[n])
    BY <1>1 DEF FlowOK, RequestsPart
  <2> HIDE DEF s
  <2>2. 1 \in DOMAIN s /\ Head(s) = s[1]
    BY <2>1, LineTail
  <2>3. AskedOK(Head(s))
    BY <2>1, <2>2
  <2> QED BY <2>3 DEF s
<1>3. \/ /\ m.op = "create"
         /\ \/ \E pictures \in {TRUE, ~Fails} : Library!Create(p, m, pictures)
            \/ Library!CreateSet(p, m)
      \/ /\ m.op = "edit"
         /\ \/ \E pictures \in {TRUE, ~Fails} : Library!EditEngine(p, m, pictures) \/ Library!EditCar(p, m, pictures)
            \/ Library!EditSet(p, m)
      \/ /\ m.op = "delete"
         /\ Library!DeleteEngine(p, m) \/ Library!DeleteOther(p, m)
      \/ /\ m.op = "link"
         /\ Library!Link(p, m)
  BY DEF Library!Serve
<1> HIDE DEF m
<1>4. DOMAIN thread = Page
  BY DEF FlowOK, ThreadPart
<1>5. ASSUME NEW k, Library!Publish(p, k) PROVE Taking'
  BY <1>1, <1>4, <1>5 DEF Library!Publish, Library!Goes, Library!Idle, Taking
<1>6. ASSUME Library!Refuse(p) PROVE Taking'
  BY <1>1, <1>4, <1>6 DEF Library!Refuse, Library!Goes, Library!Idle, Taking
<1>7. ASSUME Library!Crash PROVE Taking'
  BY <1>1, <1>7 DEF Library!Crash, Library!Idle, Taking
<1>8. ASSUME m.op = "create", NEW pictures, Library!Create(p, m, pictures) PROVE Taking' /\ Registered' /\ Owned'
  <2>1. Registered' /\ Owned'
    BY <1>2, <1>8, CreatedOwned
  <2> QED BY <1>5, <1>6, <1>8, <2>1 DEF Library!Create
<1>9. ASSUME Library!CreateSet(p, m) PROVE Taking' /\ Registered' /\ Owned'
  <2>1. UNCHANGED <<stock, data, DCC, use, moved>>
    BY <1>9 DEF Library!CreateSet, Library!Up, Library!links
  <2>2. Registered' /\ Owned'
    BY <2>1, NothingMoves
  <2> QED BY <1>5, <1>9, <2>2 DEF Library!CreateSet
<1>10. ASSUME m.op = "edit", NEW pictures, Library!EditEngine(p, m, pictures) PROVE Taking' /\ Registered' /\ Owned'
  <2>1. Registered' /\ Owned'
    BY <1>2, <1>10, EngineEditedOwned
  <2> QED BY <1>5, <1>6, <1>7, <1>10, <2>1 DEF Library!EditEngine
<1>11. ASSUME NEW pictures, Library!EditCar(p, m, pictures) PROVE Taking' /\ Registered' /\ Owned'
  <2>1. Registered' /\ Owned'
    BY <1>11, CarEditedOwned
  <2> QED BY <1>5, <1>6, <1>11, <2>1 DEF Library!EditCar
<1>12. ASSUME Library!EditSet(p, m) PROVE Taking' /\ Registered' /\ Owned'
  <2>1. Registered' /\ Owned'
    BY <1>12, SetEditedOwned
  <2> QED BY <1>5, <1>7, <1>12, <2>1 DEF Library!EditSet
<1>13. ASSUME Library!DeleteEngine(p, m) PROVE Taking' /\ Registered' /\ Owned'
  <2>1. Registered' /\ Owned'
    BY <1>13, EngineDeletedOwned
  <2> QED BY <1>5, <1>7, <1>13, <2>1 DEF Library!DeleteEngine
<1>14. ASSUME Library!DeleteOther(p, m) PROVE Taking' /\ Registered' /\ Owned'
  <2>1. Registered' /\ Owned'
    BY <1>14, OtherDeletedOwned
  <2> QED BY <1>6, <1>14, <2>1 DEF Library!DeleteOther
<1>15. ASSUME m.op = "link", Library!Link(p, m) PROVE Taking' /\ Registered' /\ Owned'
  BY <1>1, <1>2, <1>15, LinkOwned DEF FlowOK
<1> QED BY <1>3, <1>8, <1>9, <1>10, <1>11, <1>12, <1>13, <1>14, <1>15

LEMMA OwnedStep ==
  ASSUME ~Preempted, LibraryOK, FlowOK, FlowOK', Alone, Taking, Registered, Owned, [Library!Next]_(Library!vars)
  PROVE  Alone' /\ Taking' /\ Registered' /\ Owned'
<1>1. Alone'
  BY AloneStep DEF FlowOK
<1>2. ASSUME UNCHANGED <<stock, data, DCC, use, moved>>,
             \A q \in Page : thread'[q].step = "take" => thread'[q] = thread[q]
      PROVE  Taking' /\ Registered' /\ Owned'
  <2>1. Registered' /\ Owned'
    BY <1>2, NothingMoves
  <2>2. \A e : Free(e) => Free(e)'
    BY <1>2 DEF Free, Library!EngineDCC
  <2>3. Taking'
    BY <1>2, <2>2 DEF Taking
  <2> QED BY <2>1, <2>3
<1>3. CASE UNCHANGED Library!vars
  <2>1. UNCHANGED <<stock, data, DCC, use, moved, thread>>
    BY <1>3 DEF Library!vars, Library!library, Library!links
  <2> QED BY <1>1, <1>2, <2>1
<1>4. CASE Library!Restart
  <2>1. /\ stock' = Library!Items(file) /\ data' = Library!DataOf(file) /\ DCC' = Library!LoadedDCC(file)
        /\ use' = {} /\ thread' = [p \in Page |-> Library!Idle]
    BY <1>4 DEF Library!Restart
  <2>2. DOMAIN file = Library!Kind /\ \A k \in Library!Kind : FileOK(k, file[k], made[k])
    BY DEF LibraryOK, FilePart
  <2>3. Registered'
    BY <2>1, <2>2, LoadsRegistered DEF Registered
  <2>4. Owned'
    BY <2>1, <2>2, LoadsRegistered DEF Owned
  <2>5. Taking'
    BY <2>1 DEF Taking, Library!Idle
  <2> QED BY <1>1, <2>3, <2>4, <2>5
<1>5. ASSUME NEW p \in Page, Library!Serve(p) PROVE Taking' /\ Registered' /\ Owned'
  BY <1>5, ServeOwned DEF FlowOK
<1>6. ASSUME NEW p \in Page, Library!Take(p) PROVE Taking' /\ Registered' /\ Owned'
  <2>1. Registered' /\ Owned'
    BY <1>6, TakenOwned
  <2>2. CASE Library!Crash
    <3>1. UNCHANGED <<stock, data, DCC, use, moved, thread>>
      BY <2>2 DEF Library!Crash, Library!library, Library!links
    <3> QED BY <1>2, <3>1
  <2>3. CASE Library!Goes(p, Library!Idle)
    <3>1. thread[p] # Library!Idle
      BY <1>6 DEF Library!Take, Library!Idle
    <3>2. thread' = [thread EXCEPT ![p] = Library!Idle]
      BY <2>3 DEF Library!Goes
    <3>3. \A q \in Page : thread'[q] = Library!Idle
      BY <3>1, <3>2 DEF Alone, FlowOK, ThreadPart
    <3> QED BY <2>1, <3>3 DEF Taking, Library!Idle
  <2> QED BY <1>6, <2>2, <2>3 DEF Library!Take
<1>7. ASSUME NEW p \in Page, Library!Build(p) \/ Library!Send(p) PROVE Taking' /\ Registered' /\ Owned'
  <2>1. UNCHANGED <<stock, data, DCC, use, moved>>
    BY <1>7 DEF Library!Build, Library!Send, Library!library, Library!links
  <2>2. \E t : t.step # "take" /\ thread' = [thread EXCEPT ![p] = t]
    <3>1. CASE Library!Build(p)
      <4> DEFINE t == [step |-> "send", kind |-> thread[p].kind, list |-> Library!Entries(stock[thread[p].kind], data)]
      <4>1. thread' = [thread EXCEPT ![p] = t]
        BY <3>1 DEF Library!Build, Library!Goes
      <4>2. t.step # "take"
        OBVIOUS
      <4> HIDE DEF t
      <4> QED BY <4>1, <4>2
    <3>2. CASE Library!Send(p)
      BY <3>2 DEF Library!Send, Library!Goes, Library!Idle
    <3> QED BY <1>7, <3>1, <3>2
  <2>3. \A q \in Page : thread'[q].step = "take" => thread'[q] = thread[q]
    BY <2>2 DEF FlowOK, ThreadPart
  <2> QED BY <1>2, <2>1, <2>3
<1>8. ASSUME NEW p, \/ \E k, id : Library!Open(p, k, id)
                    \/ \E op, form : Library!Click(p, op, form)
                    \/ Library!Dismiss(p)
                    \/ \E t, k, id : Library!RequestLink(p, t, k, id)
                    \/ Library!Receive(p)
      PROVE  Taking' /\ Registered' /\ Owned'
  <2>1. UNCHANGED <<stock, data, DCC, use, moved, thread>>
    BY <1>8, PageLeaves DEF Library!library, Library!links
  <2> QED BY <1>2, <2>1
<1> QED BY <1>1, <1>3, <1>4, <1>5, <1>6, <1>7, <1>8 DEF Library!Next

LEMMA OwnedShows ==
  ASSUME LibraryOK, Owned
  PROVE  Library!AddressOwned
<1> SUFFICES ASSUME moved = {}, NEW a \in Address, Nobody \notin Library!ToSet(DCC[a].E)
             PROVE  {e \in use : data[e] = a} = {Library!EngineDCC(a)} \ {Nobody}
  BY DEF Library!AddressOwned
<1>1. /\ DCC[a].engineUsed => DCC[a].uniqueEngine \in DOMAIN DCC[a].E
      /\ {e \in use : data[e] = a} = IF DCC[a].engineUsed THEN {DCC[a].E[DCC[a].uniqueEngine]} ELSE {}
  BY DEF Owned, Untouched
<1>2. Library!EngineDCC(a) = IF DCC[a].engineUsed THEN DCC[a].E[DCC[a].uniqueEngine] ELSE Nobody
  BY DEF Library!EngineDCC
<1>3. DCC[a].engineUsed => Library!EngineDCC(a) # Nobody
  BY <1>1, <1>2 DEF Library!ToSet
<1> QED BY <1>1, <1>2, <1>3

\* The behaviours of the pages are those of the library, or stutter.
LEMMA LibraryDrives == PagesSpec => Library!Spec
<1>1. PagesInit => Library!Init
  BY DEF PagesInit
<1>2. [PagesNext]_all => [Library!Next]_(Library!vars)
  <2>1. UNCHANGED stockVars => UNCHANGED Library!vars
    BY DEF stockVars, Library!vars, Library!library, Library!links, Library!bounds
  <2>2. UNCHANGED all => UNCHANGED stockVars
    BY DEF all
  <2>3. PagesNext => Library!Next \/ UNCHANGED stockVars
    BY DEF PagesNext
  <2> QED BY <2>1, <2>2, <2>3
<1> QED BY <1>1, <1>2, PTL DEF PagesSpec, Library!Spec

\* The library of all behaviours has its types: the arrays, the file and the addresses
\* hold items that were made, each once, and messages and threads tell of them
\* (rollingstock/manager.cpp).
THEOREM LibraryTyped == PagesSpec => [](LibraryOK /\ FlowOK)
<1>1. Library!Init => LibraryOK /\ FlowOK
  BY StartTyped
<1>2. LibraryOK /\ FlowOK /\ [Library!Next]_(Library!vars) => (LibraryOK /\ FlowOK)'
  BY TypedStep
<1> QED BY <1>1, <1>2, LibraryDrives, PTL DEF Library!Spec

LEMMA StartOwned ==
  ASSUME Library!Init
  PROVE  Alone /\ Taking /\ Registered /\ Owned
<1>1. /\ stock = Library!Items(MCSaved) /\ data = Library!DataOf(MCSaved) /\ DCC = Library!LoadedDCC(MCSaved)
      /\ use = {} /\ thread = [p \in Page |-> Library!Idle]
  BY DEF Library!Init
<1>2. DOMAIN MCSaved = Library!Kind /\ \E m : \A k \in Library!Kind : FileOK(k, MCSaved[k], m[k])
  BY SavedOK
<1>3. Registered /\ Owned
  BY <1>1, <1>2, LoadsRegistered DEF Registered, Owned
<1>4. Alone /\ Taking
  BY <1>1 DEF Alone, Taking, Library!Idle
<1> QED BY <1>3, <1>4

\* At an address from which no engine was removed at most one engine is in use, and the
\* address is taken by it, with threads that run to the end of a request
\* (Train::link, subDCCEngine).
THEOREM AddressesOwned ==
  ASSUME ~Preempted
  PROVE  PagesSpec => []AddressOwned
<1> DEFINE Inv == LibraryOK /\ FlowOK /\ Alone /\ Taking /\ Registered /\ Owned
<1>1. Library!Init => Inv
  BY StartTyped, StartOwned
<1>2. Inv /\ [Library!Next]_(Library!vars) => Inv'
  <2> SUFFICES ASSUME Inv, [Library!Next]_(Library!vars) PROVE Inv'
    OBVIOUS
  <2>1. LibraryOK' /\ FlowOK'
    BY TypedStep
  <2> QED BY <2>1, OwnedStep
<1>3. Inv => AddressOwned
  BY OwnedShows DEF AddressOwned
<1> QED BY <1>1, <1>2, <1>3, LibraryDrives, PTL DEF Library!Spec

-----------------------------------------------------------------------------
(* What pages are told of the library                                      *)

\* A list L is right about an array: engines as they are written to the file, and
\* all items before the first removed one.
Right(k, L, items, of) == (k = "E" => L = Library!Entries(items, of)) /\ ShowsFirst(L, items, of)

\* After the messages of a line, a page that knows old of kind k knows L.
IsList(m, k) == m.op = "list" /\ m.kind = k
Learns(line, k, old, L) ==
  \/ L = old /\ \A i \in 1..Len(line) : ~IsList(line[i], k)
  \/ \E i \in 1..Len(line) :
       /\ IsList(line[i], k) /\ L = line[i].list
       /\ \A j \in 1..Len(line) : j > i => ~IsList(line[j], k)

\* A thread is about to tell all pages of kind k.
Telling(q, k) == thread[q].step \in {"build", "send"} /\ thread[q].kind = k

\* Unless a thread is, each page knows, or is about to hear, a list that is right.
Knows(k) == \A p \in Page : \E L : Learns(lists[p], k, lib[p][k], L) /\ Right(k, L, stock[k], data)
TellsRight(k) == \A q \in Page : Telling(q, k) /\ thread[q].step = "send" => Right(k, thread[q].list, stock[k], data)
ListsRight == \A k \in Library!Kind : TellsRight(k) /\ ((\A q \in Page : ~Telling(q, k)) => Knows(k))

KeptFile == file["E"] = Library!Entries(stock["E"], data)

LEMMA LearnsEmpty ==
  ASSUME NEW k, NEW old, NEW L
  PROVE  Learns(<<>>, k, old, L) <=> L = old
<1>1. 1..Len(<<>>) = {}
  OBVIOUS
<1> QED BY <1>1 DEF Learns

LEMMA LearnsAppend ==
  ASSUME NEW line, Line(line), NEW m, NEW k, NEW old, NEW L, Learns(line, k, old, L)
  PROVE  /\ ~IsList(m, k) => Learns(Append(line, m), k, old, L)
         /\ IsList(m, k) => Learns(Append(line, m), k, old, m.list)
<1> DEFINE more == Append(line, m)
<1>1. /\ Len(line) \in Nat /\ Len(more) = Len(line) + 1
      /\ \A i \in 1..Len(line) : more[i] = line[i]
      /\ more[Len(line) + 1] = m
  BY LineAppend DEF Line
<1> HIDE DEF more
<1>2. ASSUME ~IsList(m, k) PROVE Learns(more, k, old, L)
  <2>1. CASE L = old /\ \A i \in 1..Len(line) : ~IsList(line[i], k)
    <3>1. \A i \in 1..Len(more) : ~IsList(more[i], k)
      BY <1>1, <1>2, <2>1
    <3> QED BY <2>1, <3>1 DEF Learns
  <2>2. ASSUME NEW i \in 1..Len(line), IsList(line[i], k), L = line[i].list,
               \A j \in 1..Len(line) : j > i => ~IsList(line[j], k)
        PROVE  Learns(more, k, old, L)
    <3>1. i \in 1..Len(more) /\ more[i] = line[i]
      BY <1>1
    <3>2. \A j \in 1..Len(more) : j > i => ~IsList(more[j], k)
      BY <1>1, <1>2, <2>2
    <3> QED BY <2>2, <3>1, <3>2 DEF Learns
  <2> QED BY <2>1, <2>2 DEF Learns
<1>3. ASSUME IsList(m, k) PROVE Learns(more, k, old, m.list)
  <2>1. Len(more) \in 1..Len(more) /\ more[Len(more)] = m
    BY <1>1
  <2>2. \A j \in 1..Len(more) : ~(j > Len(more))
    BY <1>1
  <2> QED BY <1>3, <2>1, <2>2 DEF Learns
<1> QED BY <1>2, <1>3 DEF more

LEMMA LearnsTail ==
  ASSUME NEW line, Line(line), line # <<>>, NEW k, NEW old, NEW L, Learns(line, k, old, L), NEW now,
         now = IF IsList(Head(line), k) THEN Head(line).list ELSE old
  PROVE  Learns(Tail(line), k, now, L)
<1> DEFINE rest == Tail(line)
<1>1. /\ Line(rest) /\ Head(line) = line[1] /\ Len(rest) = Len(line) - 1
      /\ \A i \in DOMAIN rest : i + 1 \in DOMAIN line /\ rest[i] = line[i + 1]
  BY LineTail
<1>2. Len(line) \in Nat /\ Len(line) # 0 /\ DOMAIN rest = 1..Len(rest) /\ DOMAIN line = 1..Len(line)
  <2>1. Len(line) \in Nat /\ DOMAIN rest = 1..Len(rest) /\ DOMAIN line = 1..Len(line)
    BY <1>1 DEF Line
  <2>2. 1 \in DOMAIN line
    BY LineTail
  <2> QED BY <2>1, <2>2
<1> HIDE DEF rest
<1>3. \A i \in 1..Len(rest) : i + 1 \in 1..Len(line) /\ rest[i] = line[i + 1]
  BY <1>1, <1>2
<1>4. CASE L = old /\ \A i \in 1..Len(line) : ~IsList(line[i], k)
  <2>1. \A i \in 1..Len(rest) : ~IsList(rest[i], k)
    BY <1>3, <1>4
  <2>2. now = old
    BY <1>1, <1>2, <1>4
  <2> QED BY <1>4, <2>1, <2>2 DEF Learns, rest
<1>5. ASSUME NEW i \in 1..Len(line), IsList(line[i], k), L = line[i].list,
             \A j \in 1..Len(line) : j > i => ~IsList(line[j], k)
      PROVE  Learns(rest, k, now, L)
  <2>1. CASE i = 1
    <3>1. now = L
      BY <1>1, <1>5, <2>1
    <3>2. \A j \in 1..Len(rest) : ~IsList(rest[j], k)
      <4> TAKE j \in 1..Len(rest)
      <4>1. j + 1 \in 1..Len(line) /\ j + 1 > i /\ rest[j] = line[j + 1]
        BY <1>3, <2>1
      <4> QED BY <1>5, <4>1
    <3> QED BY <3>1, <3>2 DEF Learns
  <2>2. CASE i # 1
    <3> DEFINE h == i - 1
    <3>1. h \in 1..Len(rest) /\ h + 1 = i
      BY <1>1, <1>2, <2>2
    <3> HIDE DEF h
    <3>2. rest[h] = line[i]
      BY <1>3, <3>1
    <3>3. \A j \in 1..Len(rest) : j > h => ~IsList(rest[j], k)
      <4> SUFFICES ASSUME NEW j \in 1..Len(rest), j > h PROVE ~IsList(rest[j], k)
        OBVIOUS
      <4>1. j + 1 \in 1..Len(line) /\ rest[j] = line[j + 1]
        BY <1>3
      <4>2. j + 1 > i
        BY <3>1
      <4> QED BY <1>5, <4>1, <4>2
    <3> QED BY <1>5, <3>1, <3>2, <3>3 DEF Learns
  <2> QED BY <2>1, <2>2
<1> QED BY <1>4, <1>5 DEF Learns, rest

\* What is right about an array stays right when only other items change.
Kept(k) == \A L : Right(k, L, stock[k], data) => Right(k, L, stock'[k], data')

LEMMA KeptSame ==
  ASSUME StockPart, NEW k \in Library!Kind, stock'[k] = stock[k],
         \A i \in LibItem(k) \cap DOMAIN data : data'[i] = data[i]
  PROVE  Kept(k) /\ Library!Entries(stock'[k], data') = Library!Entries(stock[k], data)
<1>1. stock[k] \in Seq(LibItem(k) \cup {Nobody})
      /\ \A i \in Library!ToSet(stock[k]) \ {Nobody} : i \in DOMAIN data
  BY DEF StockPart, StockOK
<1>2. \A i \in Library!ToSet(stock[k]) \ {Nobody} : data[i] = data'[i]
  BY <1>1, StockLine
<1>3. Library!Entries(stock[k], data) = Library!Entries(stock[k], data')
  BY <1>1, <1>2, EntriesSame
<1>4. ASSUME NEW L, ShowsFirst(L, stock[k], data) PROVE ShowsFirst(L, stock[k], data')
  <2> SUFFICES ASSUME NEW n \in DOMAIN stock[k], \A m \in 1..n : stock[k][m] # Nobody
               PROVE  n \in DOMAIN L /\ L[n] = [item |-> stock[k][n], data |-> data'[stock[k][n]]]
    BY DEF ShowsFirst
  <2>1. n \in DOMAIN L /\ L[n] = [item |-> stock[k][n], data |-> data[stock[k][n]]]
    BY <1>4 DEF ShowsFirst
  <2>2. n \in 1..n
    BY <1>1, StockLine
  <2>3. stock[k][n] \in Library!ToSet(stock[k]) \ {Nobody}
    BY <2>2 DEF Library!ToSet
  <2> QED BY <1>2, <2>1, <2>3
<1> QED BY <1>3, <1>4 DEF Kept, Right

LEMMA KeptRemoved ==
  ASSUME StockPart, NEW k \in Library!Kind, k # "E", NEW n, stock'[k] = [stock[k] EXCEPT ![n] = Nobody], UNCHANGED data
  PROVE  Kept(k)
<1>1. DOMAIN stock'[k] = DOMAIN stock[k]
      /\ \A m \in DOMAIN stock[k] : stock'[k][m] = IF m = n THEN Nobody ELSE stock[k][m]
  OBVIOUS
<1>2. DOMAIN stock[k] = 1..Len(stock[k]) /\ Len(stock[k]) \in Nat
  <2>1. stock[k] \in Seq(LibItem(k) \cup {Nobody})
    BY DEF StockPart, StockOK
  <2> QED BY <2>1, StockLine
<1>3. ASSUME NEW L, ShowsFirst(L, stock[k], data) PROVE ShowsFirst(L, stock'[k], data)
  <2> SUFFICES ASSUME NEW i \in DOMAIN stock[k], \A m \in 1..i : stock'[k][m] # Nobody
               PROVE  i \in DOMAIN L /\ L[i] = [item |-> stock'[k][i], data |-> data[stock'[k][i]]]
    BY <1>1 DEF ShowsFirst
  <2>1. ASSUME NEW m \in 1..i PROVE stock'[k][m] = stock[k][m]
    <3>1. m \in DOMAIN stock[k] /\ stock'[k][m] # Nobody
      BY <1>2
    <3> QED BY <1>1, <3>1
  <2>2. i \in 1..i
    BY <1>2
  <2>3. i \in DOMAIN L /\ L[i] = [item |-> stock[k][i], data |-> data[stock[k][i]]]
    BY <1>3, <2>1 DEF ShowsFirst
  <2> QED BY <2>1, <2>2, <2>3
<1> QED BY <1>3 DEF Kept, Right

\* A request is served: pages are still to be told of kind k, or nothing of a kind changed.
LEMMA ServedTold ==
  ASSUME FlowOK, ListsRight, NEW p \in Page, \A q \in Page : thread[q] = Library!Idle,
         UNCHANGED lib,
         UNCHANGED lists \/ \E m : m.op = "answer" /\ lists' = [lists EXCEPT ![p] = Append(lists[p], m)],
         NEW t, t.step # "send", UNCHANGED thread \/ thread' = [thread EXCEPT ![p] = t],
         \A k \in Library!Kind : (thread' = [thread EXCEPT ![p] = t] /\ t.step = "build" /\ t.kind = k) \/ Kept(k)
  PROVE  ListsRight'
<1>1. DOMAIN thread = Page /\ DOMAIN lists = Page /\ \A q \in Page : Line(lists[q])
  BY DEF FlowOK, ThreadPart, ListsPart
<1>2. \A q \in Page : thread[q].step = "rest"
  BY DEF Library!Idle
<1>3. \A q \in Page : thread'[q].step # "send"
  BY <1>1, <1>2
<1>4. ASSUME NEW k \in Library!Kind PROVE Knows(k)
  BY <1>2 DEF ListsRight, Telling
<1>5. ASSUME NEW k, NEW q \in Page, NEW L, Learns(lists[q], k, lib[q][k], L) PROVE Learns(lists'[q], k, lib'[q][k], L)
  <2>1. CASE UNCHANGED lists
    BY <1>5, <2>1
  <2>2. ASSUME NEW m, m.op = "answer", lists' = [lists EXCEPT ![p] = Append(lists[p], m)]
        PROVE  Learns(lists'[q], k, lib'[q][k], L)
    <3>1. ~IsList(m, k)
      BY <2>2 DEF IsList
    <3>2. Learns(Append(lists[q], m), k, lib[q][k], L)
      BY <1>1, <1>5, <3>1, LearnsAppend
    <3> QED BY <1>1, <1>5, <2>2, <3>2
  <2> QED BY <2>1, <2>2
<1>6. ASSUME NEW k \in Library!Kind, \A q \in Page : ~Telling(q, k)' PROVE Knows(k)'
  <2>1. Kept(k)
    <3>1. SUFFICES ASSUME thread' = [thread EXCEPT ![p] = t], t.step = "build", t.kind = k PROVE FALSE
      OBVIOUS
    <3>2. thread'[p] = t
      BY <1>1, <3>1
    <3> QED BY <1>6, <3>1, <3>2 DEF Telling
  <2> SUFFICES ASSUME NEW q \in Page PROVE \E L : Learns(lists'[q], k, lib'[q][k], L) /\ Right(k, L, stock'[k], data')
    BY DEF Knows
  <2>2. PICK L : Learns(lists[q], k, lib[q][k], L) /\ Right(k, L, stock[k], data)
    BY <1>4 DEF Knows
  <2>3. Right(k, L, stock'[k], data')
    BY <2>1, <2>2 DEF Kept
  <2>4. Learns(lists'[q], k, lib'[q][k], L)
    BY <1>5, <2>2
  <2> QED BY <2>3, <2>4
<1>7. \A k \in Library!Kind : TellsRight(k)'
  BY <1>3 DEF TellsRight
<1> QED BY <1>6, <1>7 DEF ListsRight

\* What each request does to the lists, and to the file of engines
Ends(p, k, t) == thread' = [thread EXCEPT ![p] = t] /\ t.step = "build" /\ t.kind = k

LEMMA PublishEnds ==
  ASSUME NEW p, NEW k, Library!Publish(p, k)
  PROVE  /\ Ends(p, k, [step |-> "build", kind |-> k])
         /\ KeptFile'
<1>1. file'["E"] = Library!Entries(stock'["E"], data')
  BY DEF Library!Publish, Library!Written, Library!Kind
<1>2. Ends(p, k, [step |-> "build", kind |-> k])
  BY DEF Library!Publish, Library!Goes, Ends
<1> QED BY <1>1, <1>2 DEF KeptFile

LEMMA ServeTold ==
  ASSUME ~Preempted, ~Fails, LibraryOK, FlowOK, ListsRight, KeptFile, NEW p \in Page, Library!Serve(p)
  PROVE  ListsRight' /\ KeptFile'
<1> DEFINE m == Head(requests[p])
           rest == [step |-> "rest"]
           Answered == UNCHANGED lists \/ \E x : x.op = "answer" /\ lists' = [lists EXCEPT ![p] = Append(lists[p], x)]
<1>1. requests[p] # <<>> /\ (\A q \in Page : thread[q] = Library!Idle) /\ UNCHANGED lib
  BY DEF Library!Serve, Library!Undisturbed
<1>2. AskedOK(m)
  <2> DEFINE s == requests[p]
  <2>1. Line(s) /\ s # <<>> /\ \A n \in DOMAIN s : AskedOK(s[n])
    BY <1>1 DEF FlowOK, RequestsPart
  <2> HIDE DEF s
  <2>2. 1 \in DOMAIN s /\ Head(s) = s[1]
    BY <2>1, LineTail
  <2>3. AskedOK(Head(s))
    BY <2>1, <2>2
  <2> QED BY <2>3 DEF s
<1>3. \/ \E pictures \in {TRUE, ~Fails} : Library!Create(p, m, pictures)
      \/ Library!CreateSet(p, m)
      \/ \E pictures \in {TRUE, ~Fails} : Library!EditEngine(p, m, pictures) \/ Library!EditCar(p, m, pictures)
      \/ Library!EditSet(p, m)
      \/ Library!DeleteEngine(p, m) \/ Library!DeleteOther(p, m)
      \/ Library!Link(p, m)
  BY DEF Library!Serve
<1>4. \A pictures \in {TRUE, ~Fails} : pictures
  OBVIOUS
<1> HIDE DEF m
<1>5. StockPart /\ DOMAIN stock = Library!Kind
  BY DEF LibraryOK, StockPart
<1>6. \A x : Library!Answer(p, x) => Answered
  <2> TAKE x
  <2>1. [op |-> "answer", yes |-> x].op = "answer"
    OBVIOUS
  <2> QED BY <2>1 DEF Library!Answer
<1> HIDE DEF Answered
<1>7. ASSUME NEW k, Library!Publish(p, k), Answered, \A l \in Library!Kind : l # k => Kept(l)
      PROVE  ListsRight' /\ KeptFile'
  <2> DEFINE t == [step |-> "build", kind |-> k]
  <2>1. thread' = [thread EXCEPT ![p] = t] /\ t.step = "build" /\ t.kind = k /\ KeptFile'
    BY <1>7, PublishEnds DEF Ends
  <2> HIDE DEF t
  <2>2. \A l \in Library!Kind : (thread' = [thread EXCEPT ![p] = t] /\ t.step = "build" /\ t.kind = l) \/ Kept(l)
    BY <1>7, <2>1
  <2>3. ListsRight'
    BY <1>1, <1>7, <2>1, <2>2, ServedTold DEF Answered
  <2> QED BY <2>1, <2>3
<1>8. ASSUME NEW t, UNCHANGED thread \/ thread' = [thread EXCEPT ![p] = t], t.step # "send", Answered,
             \A l \in Library!Kind : Kept(l)
      PROVE  ListsRight'
  BY <1>1, <1>8, ServedTold DEF Answered
<1>9. ASSUME UNCHANGED <<stock, data>> PROVE \A l \in Library!Kind : Kept(l)
  BY <1>9 DEF Kept
<1>10. ASSUME NEW i, NEW k \in Library!Kind, i \in LibItem(k), NEW v, data' = [data EXCEPT ![i] = v], UNCHANGED stock
       PROVE  \A l \in Library!Kind : l # k => Kept(l)
  <2> SUFFICES ASSUME NEW l \in Library!Kind, l # k PROVE Kept(l)
    OBVIOUS
  <2>1. \A x \in LibItem(l) \cap DOMAIN data : data'[x] = data[x]
    BY <1>10, KindItems
  <2> QED BY <1>5, <1>10, <2>1, KeptSame
<1>11. ASSUME Library!Crash PROVE ListsRight' /\ KeptFile'
  <2>1. UNCHANGED <<stock, data, file, thread, lists>>
    BY <1>11 DEF Library!Crash, Library!library
  <2>2. Answered /\ rest.step # "send"
    BY <2>1 DEF Answered
  <2>3. ListsRight'
    BY <1>8, <1>9, <2>1, <2>2
  <2> QED BY <2>1, <2>3 DEF KeptFile
<1>12. ASSUME NEW pictures \in {TRUE, ~Fails}, Library!Create(p, m, pictures) PROVE ListsRight' /\ KeptFile'
  <2> DEFINE k == m.kind
             new == <<k, made[k] + 1>>
  <2>1. /\ k \in Library!Kind
        /\ stock' = [stock EXCEPT ![k] = Append(stock[k], new)]
        /\ data' = [i \in {new} \cup DOMAIN data |-> IF i = new THEN m.data ELSE data[i]]
        /\ Library!Publish(p, k) /\ Answered
    BY <1>2, <1>4, <1>6, <1>12 DEF AskedOK, Library!Create
  <2>2. new \in LibItem(k)
    <3>1. made[k] \in Nat
      BY <1>5, <2>1 DEF StockPart
    <3> QED BY <3>1 DEF LibItem
  <2> HIDE DEF new, k
  <2>3. ASSUME NEW l \in Library!Kind, l # k PROVE Kept(l)
    <3>1. new \notin LibItem(l)
      BY <2>1, <2>2, <2>3, KindItems
    <3>2. \A x \in LibItem(l) \cap DOMAIN data : data'[x] = data[x]
      BY <2>1, <3>1
    <3>3. stock'[l] = stock[l]
      BY <1>5, <2>1, <2>3
    <3> QED BY <1>5, <3>2, <3>3, KeptSame
  <2> QED BY <1>7, <2>1, <2>3
<1>13. ASSUME Library!CreateSet(p, m) PROVE ListsRight' /\ KeptFile'
  <2>1. UNCHANGED <<stock, data, lists>> /\ Library!Publish(p, "T")
    BY <1>13 DEF Library!CreateSet
  <2> QED BY <1>7, <1>9, <2>1 DEF Answered
<1>14. ASSUME NEW pictures \in {TRUE, ~Fails}, Library!EditEngine(p, m, pictures) PROVE ListsRight' /\ KeptFile'
  <2> DEFINE e == Library!At(stock["E"], m.id)
  <2>1. CASE e = Nobody
    BY <1>11, <1>14, <2>1 DEF Library!EditEngine
  <2>2. CASE e # Nobody
    <3>1. data' = [data EXCEPT ![e] = m.data] /\ UNCHANGED stock /\ Library!Publish(p, "E") /\ Answered
      BY <1>4, <1>6, <1>14, <2>2 DEF Library!EditEngine
    <3>2. e \in LibItem("E") /\ "E" \in Library!Kind
      BY <1>5, <2>2, FoundAt DEF Library!Kind
    <3> HIDE DEF e
    <3> QED BY <1>7, <1>10, <3>1, <3>2
  <2> QED BY <2>1, <2>2
<1>15. ASSUME NEW pictures \in {TRUE, ~Fails}, Library!EditCar(p, m, pictures) PROVE ListsRight' /\ KeptFile'
  <2> DEFINE c == Library!At(stock["C"], m.id)
  <2>1. CASE c = Nobody
    <3>1. UNCHANGED <<stock, data, file>> /\ thread' = [thread EXCEPT ![p] = Library!Idle] /\ Answered
      BY <1>6, <1>15, <2>1 DEF Library!EditCar, Library!Refuse, Library!Goes
    <3>2. Library!Idle.step # "send"
      BY DEF Library!Idle
    <3>3. ListsRight'
      BY <1>8, <1>9, <3>1, <3>2
    <3> QED BY <3>1, <3>3 DEF KeptFile
  <2>2. CASE c # Nobody
    <3>1. data' = [data EXCEPT ![c] = m.data] /\ UNCHANGED stock /\ Library!Publish(p, "C") /\ Answered
      BY <1>4, <1>6, <1>15, <2>2 DEF Library!EditCar
    <3>2. c \in LibItem("C") /\ "C" \in Library!Kind
      BY <1>5, <2>2, FoundAt DEF Library!Kind
    <3> HIDE DEF c
    <3> QED BY <1>7, <1>10, <3>1, <3>2
  <2> QED BY <2>1, <2>2
<1>16. ASSUME Library!EditSet(p, m) PROVE ListsRight' /\ KeptFile'
  <2> DEFINE c == Library!At(stock["T"], m.id)
  <2>1. CASE c = Nobody
    BY <1>11, <1>16, <2>1 DEF Library!EditSet
  <2>2. CASE c # Nobody
    <3>1. data' = [data EXCEPT ![c] = m.data] /\ UNCHANGED <<stock, lists>> /\ Library!Publish(p, "T")
      BY <1>16, <2>2 DEF Library!EditSet
    <3>2. c \in LibItem("T") /\ "T" \in Library!Kind
      BY <1>5, <2>2, FoundAt DEF Library!Kind
    <3>3. Answered
      BY <3>1 DEF Answered
    <3> HIDE DEF c
    <3> QED BY <1>7, <1>10, <3>1, <3>2, <3>3
  <2> QED BY <2>1, <2>2
<1>17. ASSUME Library!DeleteEngine(p, m) PROVE ListsRight' /\ KeptFile'
  <2> DEFINE e == Library!At(stock["E"], m.id)
  <2>1. CASE e = Nobody
    BY <1>11, <1>17, <2>1 DEF Library!DeleteEngine
  <2>2. CASE e # Nobody
    <3>1. stock' = [stock EXCEPT !["E"][m.id] = Nobody] /\ UNCHANGED <<data, lists>> /\ Library!Publish(p, "E")
      BY <1>17, <2>2 DEF Library!DeleteEngine
    <3>2. ASSUME NEW l \in Library!Kind, l # "E" PROVE Kept(l)
      <4>1. stock'[l] = stock[l]
        BY <1>5, <3>1, <3>2
      <4> QED BY <1>5, <3>1, <4>1, KeptSame
    <3>3. Answered
      BY <3>1 DEF Answered
    <3> QED BY <1>7, <3>1, <3>2, <3>3
  <2> QED BY <2>1, <2>2
<1>18. ASSUME Library!DeleteOther(p, m) PROVE ListsRight' /\ KeptFile'
  <2> DEFINE k == m.kind
             i == Library!At(stock[k], m.id)
  <2>1. /\ k # "E" /\ k \in Library!Kind /\ UNCHANGED <<data, file>> /\ thread' = [thread EXCEPT ![p] = Library!Idle]
        /\ stock' = IF i = Nobody THEN stock ELSE [stock EXCEPT ![k][m.id] = Nobody]
    BY <1>2, <1>18 DEF AskedOK, Library!DeleteOther, Library!Refuse, Library!Goes
  <2>2. Answered
    <3>1. UNCHANGED lists => Answered
      BY DEF Answered
    <3> QED BY <1>6, <1>18, <3>1 DEF Library!DeleteOther
  <2> HIDE DEF k, i
  <2>3. \A l \in Library!Kind : l # k => stock'[l] = stock[l]
    BY <1>5, <2>1
  <2>4. Library!Idle.step # "send"
    BY DEF Library!Idle
  <2>5. \A l \in Library!Kind : Kept(l)
    <3>1. CASE i = Nobody
      BY <1>9, <2>1, <3>1
    <3>2. CASE i # Nobody
      <4>1. stock'[k] = [stock[k] EXCEPT ![m.id] = Nobody]
        BY <1>5, <2>1, <3>2
      <4>2. Kept(k)
        BY <1>5, <2>1, <4>1, KeptRemoved
      <4>3. ASSUME NEW l \in Library!Kind, l # k PROVE Kept(l)
        BY <1>5, <2>1, <2>3, <4>3, KeptSame
      <4> QED BY <4>2, <4>3
    <3> QED BY <3>1, <3>2
  <2>6. ListsRight'
    BY <1>8, <2>1, <2>2, <2>4, <2>5
  <2>7. KeptFile'
    <3>1. stock'["E"] = stock["E"]
      BY <2>1, <2>3 DEF Library!Kind
    <3> QED BY <2>1, <3>1 DEF KeptFile
  <2> QED BY <2>6, <2>7
<1>19. ASSUME Library!Link(p, m) PROVE ListsRight' /\ KeptFile'
  <2>1. UNCHANGED <<stock, data, file, lists>>
    BY <1>19 DEF Library!Link, Library!Crash, Library!library
  <2>2. Answered
    BY <2>1 DEF Answered
  <2>3. UNCHANGED thread \/ \E t : t.step # "send" /\ thread' = [thread EXCEPT ![p] = t]
    <3>1. Library!Idle.step # "send"
      BY DEF Library!Idle
    <3>2. \A x, y : [step |-> "take", train |-> x, engines |-> y].step # "send"
      OBVIOUS
    <3> QED BY <1>19, <3>1, <3>2 DEF Library!Link, Library!Crash, Library!Goes
  <2>4. CASE UNCHANGED thread
    <3>1. Library!Idle.step # "send"
      BY DEF Library!Idle
    <3> QED BY <1>8, <1>9, <2>1, <2>2, <2>4, <3>1 DEF KeptFile
  <2>5. ASSUME NEW t, t.step # "send", thread' = [thread EXCEPT ![p] = t] PROVE ListsRight' /\ KeptFile'
    BY <1>8, <1>9, <2>1, <2>2, <2>5 DEF KeptFile
  <2> QED BY <2>3, <2>4, <2>5
<1> QED BY <1>3, <1>12, <1>13, <1>14, <1>15, <1>16, <1>17, <1>18, <1>19

\* A list that is built is right.
LEMMA EntriesRight ==
  ASSUME NEW k, NEW items, NEW of, NEW m, StockOK(k, items, of, m)
  PROVE  Right(k, Library!Entries(items, of), items, of)
<1>1. items \in Seq(LibItem(k) \cup {Nobody}) /\ Single(items)
  BY DEF StockOK
<1>2. ShowsFirst(Library!Entries(items, of), items, of)
  BY <1>1, EntriesKeep
<1> QED BY <1>2 DEF Right

\* So are those of a program that starts.
LEMMA LoadsRight ==
  ASSUME NEW f, NEW m, DOMAIN f = Library!Kind, \A k \in Library!Kind : FileOK(k, f[k], m[k])
  PROVE  /\ \A k \in Library!Kind : Right(k, f[k], Library!Items(f)[k], Library!DataOf(f))
         /\ Library!Entries(Library!Items(f)["E"], Library!DataOf(f)) = f["E"]
<1>1. ASSUME NEW k \in Library!Kind
      PROVE  /\ StockOK(k, Library!Items(f)[k], Library!DataOf(f), m[k])
             /\ Library!Entries(Library!Items(f)[k], Library!DataOf(f)) = f[k]
  BY Loads
<1>2. ASSUME NEW k \in Library!Kind PROVE Right(k, f[k], Library!Items(f)[k], Library!DataOf(f))
  <2>1. Right(k, Library!Entries(Library!Items(f)[k], Library!DataOf(f)), Library!Items(f)[k], Library!DataOf(f))
    BY <1>1, EntriesRight
  <2> QED BY <1>1, <2>1
<1> QED BY <1>1, <1>2 DEF Library!Kind

\* A page receives a message.
LEMMA ReceivedTold ==
  ASSUME FlowOK, ListsRight, NEW p \in Page, Library!Receive(p), UNCHANGED <<stock, data, thread>>
  PROVE  ListsRight'
<1> DEFINE line == lists[p]
           m == Head(line)
<1>1. /\ line # <<>> /\ lists' = [lists EXCEPT ![p] = Tail(line)]
      /\ IF m.op = "list" THEN lib' = [lib EXCEPT ![p][m.kind] = m.list] ELSE UNCHANGED lib
  BY DEF Library!Receive, Library!Replace, Library!Hide
<1>2. Line(line) /\ DOMAIN lists = Page /\ DOMAIN lib = Page /\ \A q \in Page : DOMAIN lib[q] = Library!Kind
  BY DEF FlowOK, ListsPart, LibPart
<1> HIDE DEF line
<1>3. \A q \in Page : lists'[q] = IF q = p THEN Tail(line) ELSE lists[q]
  BY <1>1, <1>2
<1> HIDE DEF m
<1>4. ASSUME NEW k \in Library!Kind PROVE /\ lib'[p][k] = IF IsList(m, k) THEN m.list ELSE lib[p][k]
                                          /\ \A q \in Page : q # p => lib'[q] = lib[q]
  BY <1>1, <1>2 DEF IsList
<1>5. ASSUME NEW k \in Library!Kind, NEW q \in Page, NEW L, Learns(lists[q], k, lib[q][k], L)
      PROVE  Learns(lists'[q], k, lib'[q][k], L)
  <2>1. CASE q = p
    <3> DEFINE now == lib'[p][k]
    <3>1. now = IF IsList(Head(line), k) THEN Head(line).list ELSE lib[p][k]
      BY <1>4 DEF m
    <3> HIDE DEF now
    <3>2. Learns(Tail(line), k, now, L)
      BY <1>1, <1>2, <1>5, <2>1, <3>1, LearnsTail DEF line
    <3> QED BY <1>3, <2>1, <3>2 DEF now
  <2>2. CASE q # p
    BY <1>3, <1>4, <1>5, <2>2
  <2> QED BY <2>1, <2>2
<1>6. \A k \in Library!Kind : Knows(k) => Knows(k)'
  BY <1>5 DEF Knows
<1>7. \A k \in Library!Kind : TellsRight(k)' /\ ((\A q \in Page : ~Telling(q, k)') => Knows(k)')
  BY <1>6 DEF ListsRight, TellsRight, Telling
<1> QED BY <1>7 DEF ListsRight

\* All pages are told.
LEMMA SentTold ==
  ASSUME FlowOK, Alone, ListsRight, NEW p \in Page, Library!Send(p)
  PROVE  ListsRight'
<1> DEFINE t == thread[p]
           m == [op |-> "list", kind |-> t.kind, list |-> t.list]
<1>1. /\ t.step = "send" /\ thread' = [thread EXCEPT ![p] = Library!Idle]
      /\ lists' = [q \in Page |-> Append(lists[q], m)] /\ UNCHANGED <<stock, data, lib>>
  BY DEF Library!Send, Library!Goes, Library!library
<1>2. m.op = "list" /\ m.kind = t.kind /\ m.list = t.list
  OBVIOUS
<1> HIDE DEF m
<1>3. \A q \in Page : q # p => thread[q] = Library!Idle
  BY <1>1 DEF Alone, Library!Idle
<1>4. \A q \in Page : thread'[q] = Library!Idle
  BY <1>1, <1>3 DEF FlowOK, ThreadPart
<1>5. \A q \in Page : Line(lists[q]) /\ lists'[q] = Append(lists[q], m)
  BY <1>1 DEF FlowOK, ListsPart
<1>6. ASSUME NEW k \in Library!Kind PROVE Knows(k)'
  <2>1. CASE t.kind = k
    <3>1. IsList(m, k) /\ Right(k, m.list, stock[k], data)
      BY <1>1, <1>2, <2>1 DEF IsList, ListsRight, TellsRight, Telling
    <3>2. ASSUME NEW q \in Page PROVE Learns(lists'[q], k, lib'[q][k], m.list)
      <4>1. Len(lists'[q]) \in 1..Len(lists'[q]) /\ lists'[q][Len(lists'[q])] = m
            /\ \A j \in 1..Len(lists'[q]) : ~(j > Len(lists'[q]))
        <5> DEFINE s == lists[q]
                   l == Append(s, m)
        <5>1. Line(s)
          BY <1>5
        <5> HIDE DEF s
        <5>2. Len(s) \in Nat /\ Len(l) = Len(s) + 1 /\ l[Len(s) + 1] = m
          BY <5>1, LineAppend DEF Line
        <5> HIDE DEF l
        <5>3. Len(l) \in 1..Len(l) /\ l[Len(l)] = m /\ \A j \in 1..Len(l) : ~(j > Len(l))
          BY <5>2
        <5>4. lists'[q] = l
          BY <1>5 DEF l, s
        <5> QED BY <5>3, <5>4
      <4> QED BY <3>1, <4>1 DEF Learns
    <3> QED BY <1>1, <3>1, <3>2 DEF Knows
  <2>2. CASE t.kind # k
    <3>1. ASSUME NEW q \in Page PROVE ~Telling(q, k)
      <4>1. CASE q = p
        BY <2>2, <4>1 DEF Telling
      <4>2. CASE q # p
        <5>1. thread[q].step = "rest"
          BY <1>3, <4>2 DEF Library!Idle
        <5> QED BY <5>1 DEF Telling
      <4> QED BY <4>1, <4>2
    <3>2. Knows(k) /\ ~IsList(m, k)
      BY <1>2, <2>2, <3>1 DEF ListsRight, IsList
    <3>3. ASSUME NEW q \in Page PROVE \E L : Learns(lists'[q], k, lib'[q][k], L) /\ Right(k, L, stock'[k], data')
      <4>1. PICK L : Learns(lists[q], k, lib[q][k], L) /\ Right(k, L, stock[k], data)
        BY <3>2 DEF Knows
      <4>2. Learns(Append(lists[q], m), k, lib[q][k], L)
        BY <1>5, <3>2, <4>1, LearnsAppend
      <4> QED BY <1>1, <1>5, <4>1, <4>2
    <3> QED BY <3>3 DEF Knows
  <2> QED BY <2>1, <2>2
<1>7. ASSUME NEW k \in Library!Kind PROVE TellsRight(k)'
  BY <1>4 DEF TellsRight, Library!Idle
<1> QED BY <1>6, <1>7 DEF ListsRight

LEMMA BuiltTold ==
  ASSUME LibraryOK, FlowOK, Alone, ListsRight, NEW p \in Page, Library!Build(p)
  PROVE  ListsRight'
<1> DEFINE k == thread[p].kind
           L == Library!Entries(stock[k], data)
           t == [step |-> "send", kind |-> k, list |-> L]
<1>1. thread[p].step = "build" /\ thread' = [thread EXCEPT ![p] = t] /\ UNCHANGED <<stock, data, lists, lib>>
  BY DEF Library!Build, Library!Goes, Library!library
<1>2. t.step = "send" /\ t.kind = k /\ t.list = L
  OBVIOUS
<1>3. k \in Library!Kind
  BY <1>1 DEF FlowOK, ThreadPart, ThreadOK, Library!Idle
<1>4. Right(k, L, stock[k], data)
  <2>1. StockOK(k, stock[k], data, made[k])
    BY <1>3 DEF LibraryOK, StockPart
  <2> QED BY <2>1, EntriesRight
<1> HIDE DEF t, L
<1>5. \A q \in Page : q # p => thread[q] = Library!Idle
  BY <1>1 DEF Alone, Library!Idle
<1>6. thread'[p] = t /\ \A q \in Page : q # p => thread'[q].step = "rest"
  BY <1>1, <1>5 DEF FlowOK, ThreadPart, Library!Idle
<1>7. ASSUME NEW l \in Library!Kind PROVE TellsRight(l)'
  BY <1>1, <1>2, <1>4, <1>6 DEF TellsRight, Telling
<1>8. ASSUME NEW l \in Library!Kind, \A q \in Page : ~Telling(q, l)' PROVE Knows(l)'
  <2>1. l # k
    BY <1>2, <1>6, <1>8 DEF Telling
  <2>2. ASSUME NEW q \in Page PROVE ~Telling(q, l)
    <3>1. CASE q = p
      BY <2>1, <3>1 DEF Telling
    <3>2. CASE q # p
      <4>1. thread[q].step = "rest"
        BY <1>5, <3>2 DEF Library!Idle
      <4> QED BY <4>1 DEF Telling
    <3> QED BY <3>1, <3>2
  <2>3. Knows(l)
    BY <2>2 DEF ListsRight
  <2> QED BY <1>1, <2>3 DEF Knows
<1> QED BY <1>7, <1>8 DEF ListsRight

LEMMA ToldStep ==
  ASSUME ~Preempted, ~Fails, LibraryOK, FlowOK, Alone, ListsRight, KeptFile, [Library!Next]_(Library!vars)
  PROVE  ListsRight' /\ KeptFile'
<1>1. ASSUME UNCHANGED <<stock, data, file>> PROVE KeptFile'
  BY <1>1 DEF KeptFile
<1>2. ASSUME UNCHANGED <<stock, data, file, thread, lists, lib>> PROVE ListsRight' /\ KeptFile'
  BY <1>1, <1>2 DEF ListsRight, TellsRight, Telling, Knows
<1>3. CASE UNCHANGED Library!vars
  BY <1>2, <1>3 DEF Library!vars, Library!library
<1>4. CASE Library!Restart
  <2>1. /\ stock' = Library!Items(file) /\ data' = Library!DataOf(file) /\ UNCHANGED file
        /\ thread' = [p \in Page |-> Library!Idle]
        /\ lists' = [p \in Page |-> <<>>] /\ lib' = [p \in Page |-> file]
    BY <1>4 DEF Library!Restart
  <2>2. DOMAIN file = Library!Kind /\ \A k \in Library!Kind : FileOK(k, file[k], made[k])
    BY DEF LibraryOK, FilePart
  <2>3. \A k \in Library!Kind : Right(k, file[k], stock'[k], data')
    BY <2>1, <2>2, LoadsRight
  <2>4. KeptFile'
    BY <2>1, <2>2, LoadsRight DEF KeptFile
  <2>5. ASSUME NEW k \in Library!Kind PROVE TellsRight(k)' /\ Knows(k)'
    BY <2>1, <2>3, LearnsEmpty DEF TellsRight, Knows, Library!Idle
  <2> QED BY <2>4, <2>5 DEF ListsRight
<1>5. ASSUME NEW p \in Page, Library!Serve(p) PROVE ListsRight' /\ KeptFile'
  BY <1>5, ServeTold
<1>6. ASSUME NEW p \in Page, Library!Take(p) PROVE ListsRight' /\ KeptFile'
  <2>1. CASE Library!Crash
    BY <1>2, <1>6, <2>1 DEF Library!Take, Library!Crash, Library!library
  <2>2. CASE Library!Goes(p, Library!Idle) /\ UNCHANGED <<stock, data, file, lists>>
    <3>1. thread[p].step = "take" /\ thread' = [thread EXCEPT ![p] = Library!Idle] /\ UNCHANGED lib
      BY <1>6, <2>2 DEF Library!Take, Library!Goes
    <3>2. \A q \in Page : thread'[q] = IF q = p THEN Library!Idle ELSE thread[q]
      BY <3>1 DEF FlowOK, ThreadPart
    <3>3. \A q \in Page : \A k : (Telling(q, k)' <=> Telling(q, k)) /\ (Telling(q, k) => thread'[q] = thread[q])
      BY <3>1, <3>2 DEF Telling, Library!Idle
    <3>4. ASSUME NEW k \in Library!Kind PROVE TellsRight(k)' /\ ((\A q \in Page : ~Telling(q, k)') => Knows(k)')
      <4>1. TellsRight(k) /\ ((\A q \in Page : ~Telling(q, k)) => Knows(k))
        BY DEF ListsRight
      <4>2. Knows(k) => Knows(k)'
        BY <2>2, <3>1 DEF Knows
      <4>3. TellsRight(k)'
        BY <2>2, <3>3, <4>1 DEF TellsRight
      <4> QED BY <3>3, <4>1, <4>2, <4>3
    <3>5. ListsRight'
      BY <3>4 DEF ListsRight
    <3> QED BY <1>1, <2>2, <3>5
  <2> QED BY <1>6, <2>1, <2>2 DEF Library!Take
<1>7. ASSUME NEW p \in Page, Library!Build(p) PROVE ListsRight' /\ KeptFile'
  BY <1>1, <1>7, BuiltTold DEF Library!Build, Library!library
<1>8. ASSUME NEW p \in Page, Library!Send(p) PROVE ListsRight' /\ KeptFile'
  BY <1>1, <1>8, SentTold DEF Library!Send, Library!library
<1>9. ASSUME NEW p \in Page, Library!Receive(p) PROVE ListsRight' /\ KeptFile'
  <2>1. UNCHANGED <<stock, data, file, thread>>
    BY <1>9, PageLeaves DEF Library!library
  <2> QED BY <1>1, <1>9, <2>1, ReceivedTold
<1>10. ASSUME NEW p, \/ \E k, id : Library!Open(p, k, id)
                     \/ \E op, form : Library!Click(p, op, form)
                     \/ Library!Dismiss(p)
                     \/ \E t, k, id : Library!RequestLink(p, t, k, id)
       PROVE  ListsRight' /\ KeptFile'
  <2>1. UNCHANGED <<lists, lib>>
    BY <1>10 DEF Library!Open, Library!Click, Library!Dismiss, Library!RequestLink
  <2>2. UNCHANGED <<stock, data, file, thread>>
    BY <1>10, PageLeaves DEF Library!library
  <2> QED BY <1>2, <2>1, <2>2
<1> QED BY <1>3, <1>4, <1>5, <1>6, <1>7, <1>8, <1>9, <1>10 DEF Library!Next

LEMMA StartTold ==
  ASSUME Library!Init
  PROVE  ListsRight /\ KeptFile
<1>1. /\ stock = Library!Items(MCSaved) /\ data = Library!DataOf(MCSaved) /\ file = MCSaved
      /\ thread = [p \in Page |-> Library!Idle]
      /\ lists = [p \in Page |-> <<>>] /\ lib = [p \in Page |-> MCSaved]
  BY DEF Library!Init
<1>2. DOMAIN MCSaved = Library!Kind /\ \E m : \A k \in Library!Kind : FileOK(k, MCSaved[k], m[k])
  BY SavedOK
<1>3. \A k \in Library!Kind : Right(k, MCSaved[k], stock[k], data)
  BY <1>1, <1>2, LoadsRight
<1>4. KeptFile
  BY <1>1, <1>2, LoadsRight DEF KeptFile
<1>5. ASSUME NEW k \in Library!Kind PROVE TellsRight(k) /\ Knows(k)
  BY <1>1, <1>3, LearnsEmpty DEF TellsRight, Knows, Library!Idle
<1> QED BY <1>4, <1>5 DEF ListsRight

\* A page that has received all knows the lists that are right.
LEMMA SettledKnows ==
  ASSUME ListsRight, NEW p \in Page, Library!Settled(p), NEW k \in Library!Kind
  PROVE  Right(k, lib[p][k], stock[k], data)
<1>1. lists[p] = <<>> /\ \A q \in Page : thread[q] = Library!Idle
  BY DEF Library!Settled
<1>2. Knows(k)
  BY <1>1 DEF ListsRight, Telling, Library!Idle
<1>3. PICK L : Learns(<<>>, k, lib[p][k], L) /\ Right(k, L, stock[k], data)
  BY <1>1, <1>2 DEF Knows
<1> QED BY <1>3, LearnsEmpty

LEMMA KnownByIds ==
  ASSUME LibraryOK, ListsRight
  PROVE  Library!ShownByIds
<1> SUFFICES ASSUME NEW p \in Page, Library!Settled(p), NEW k \in Library!Kind, NEW n \in DOMAIN stock[k],
                    Nobody \notin Library!ToSet(SubSeq(stock[k], 1, n))
             PROVE  n \in DOMAIN lib[p][k] /\ lib[p][k][n] = [item |-> stock[k][n], data |-> data[stock[k][n]]]
  BY DEF Library!ShownByIds
<1> DEFINE s == stock[k]
           S == LibItem(k) \cup {Nobody}
           first == SubSeq(s, 1, n)
<1>1. s \in Seq(S)
  BY DEF LibraryOK, StockPart, StockOK
<1>2. DOMAIN s = 1..Len(s) /\ Len(s) \in Nat
  BY <1>1, StockLine
<1>3. \A m \in 1..n : s[m] # Nobody
  <2> HIDE DEF s, S
  <2>1. n \in 1..Len(s)
    BY <1>2 DEF s
  <2>2. /\ first \in Seq(S) /\ Len(first) = n
        /\ \A i \in 1..n : first[i] = s[i]
    BY <1>1, <1>2, <2>1, SubSeqProperties
  <2>3. Nobody \notin Library!ToSet(first)
    BY DEF s
  <2> HIDE DEF first
  <2>4. DOMAIN first = 1..n
    BY <2>2, LineOfSeq
  <2> QED BY <2>2, <2>3, <2>4 DEF Library!ToSet
<1>4. ShowsFirst(lib[p][k], stock[k], data)
  BY SettledKnows DEF Right
<1> QED BY <1>3, <1>4 DEF ShowsFirst

LEMMA KnownIsKept ==
  ASSUME ListsRight, KeptFile
  PROVE  Library!ShownIsKept
<1> SUFFICES ASSUME NEW p \in Page, Library!Settled(p) PROVE lib[p]["E"] = file["E"]
  BY DEF Library!ShownIsKept
<1>1. Right("E", lib[p]["E"], stock["E"], data)
  BY SettledKnows DEF Library!Kind
<1> QED BY <1>1 DEF Right, KeptFile

\* What holds of the library always, if no thread is preempted and no picture missing
LibraryInv == LibraryOK /\ FlowOK /\ Alone /\ ListsRight /\ KeptFile

LEMMA LibraryAlways ==
  ASSUME ~Preempted, ~Fails
  PROVE  PagesSpec => []LibraryInv
<1>1. Library!Init => LibraryInv
  BY StartTyped, StartOwned, StartTold DEF LibraryInv
<1>2. LibraryInv /\ [Library!Next]_(Library!vars) => LibraryInv'
  <2> SUFFICES ASSUME LibraryInv, [Library!Next]_(Library!vars) PROVE LibraryInv'
    OBVIOUS
  <2>1. LibraryOK' /\ FlowOK'
    BY TypedStep DEF LibraryInv
  <2>2. Alone'
    BY AloneStep DEF LibraryInv, FlowOK
  <2> QED BY <2>1, <2>2, ToldStep DEF LibraryInv
<1> QED BY <1>1, <1>2, LibraryDrives, PTL DEF Library!Spec

\* A page that has received every list shows the items before the first removed one
\* under the ids the server has for them, whatever was created, edited and deleted by
\* which page before, and however the lists crossed the requests (stc.cpp, socket.js).
THEOREM IdsShown ==
  ASSUME ~Preempted, ~Fails
  PROVE  PagesSpec => []ShownByIds
<1>1. LibraryInv => ShownByIds
  BY KnownByIds DEF LibraryInv, ShownByIds
<1> QED BY <1>1, LibraryAlways, PTL

\* The engines that such a page shows are those of the file (Manager::writeFile).
THEOREM EnginesKept ==
  ASSUME ~Preempted, ~Fails
  PROVE  PagesSpec => []ShownIsKept
<1>1. LibraryInv => ShownIsKept
  BY KnownIsKept DEF LibraryInv, ShownIsKept
<1> QED BY <1>1, LibraryAlways, PTL

-----------------------------------------------------------------------------
(* The open messages.                                                      *)
(*                                                                         *)
(* What a page will show in a slot of MessageList is decided by the last   *)
(* message about that slot on its way to the page.  The server owes it     *)
(* what is in the slot, unless it has not come to that slot yet while it   *)
(* greets the page, or has taken the slot for a message it has not sent.   *)

\* A client of Server::clients
ClientOK(c) ==
  /\ c = [page |-> c.page, up |-> c.up, connected |-> c.connected, greeted |-> c.greeted]
  /\ c.page \in Page /\ c.up \in BOOLEAN /\ c.connected \in BOOLEAN /\ c.greeted \in BOOLEAN
  /\ c.up => c.connected

\* The newest client of the page that is greeted is the last one.
GreetOK ==
  greeting # Nobody =>
    /\ greeting \in Messages!Greeting /\ making = Nobody
    /\ clients # <<>> /\ clients[Len(clients)].page = greeting.page
    /\ clients[Len(clients)].greeted <=> greeting.next # "handshake"
    /\ \A i \in Messages!Live(greeting.page) : i = Len(clients)
    /\ greeting.next \in {"libraries", "links", "crashed"} => greeting.at = Slots
    /\ greeting.next = "handshake" => greeting.at = 0
    /\ greeting.next = "send" => greeting.at < Slots /\ list[greeting.at].used

ClientsOK == Line(clients) /\ \A i \in DOMAIN clients : ClientOK(clients[i])

\* A page has its websocket open exactly if a client of it was greeted and is up.
SocketsOK ==
  /\ ws \in [Page -> {"none", "connecting", "open", "closed"}]
  /\ retries \in [Page -> {0, 1}] /\ online \in [Page -> BOOLEAN]
  /\ \A p \in Page :
       /\ retries[p] = 1 => ws[p] \in {"none", "closed"} /\ ~online[p]
       /\ ws[p] = "connecting" => ~online[p]
       /\ ws[p] = "open" => Messages!Live(p) # {}
       /\ \A i \in Messages!Live(p) : ws[p] = IF clients[i].greeted THEN "open" ELSE "connecting"

\* A slot that has a message, and one that is taken for the next one
Filled(i) == list[i].used /\ ~(making # Nobody /\ making.id = i)

SlotsOK ==
  /\ list \in [Messages!Id -> [used : BOOLEAN, data : Messages!Message \cup {Nobody}]]
  /\ counter \in Messages!Id /\ found \subseteq Train
  /\ linked \in [Train -> Messages!Unit \cup {Nobody}]
  /\ \A t \in Train \ found : linked[t] = Nobody
  /\ \A i \in Messages!Id :
       /\ list[i].data # Nobody => list[i].data.id = i /\ list[i].data.train \in found
       /\ Filled(i) => list[i].data # Nobody
       /\ list[i].data # Nobody => (Filled(i) <=> linked[list[i].data.train] = Nobody)
  /\ \A i, j \in Messages!Id : Filled(i) /\ Filled(j) /\ list[i].data.train = list[j].data.train => i = j

MakingOK ==
  making # Nobody =>
    /\ making \in Messages!Made /\ list[making.id].used
    /\ making.train \in found /\ linked[making.train] = Nobody
    /\ \A i \in Messages!Id : Filled(i) => list[i].data.train # making.train

\* Each train that was found and not linked has a message.
AllFilled ==
  \A t \in found : linked[t] = Nobody =>
    \/ \E i \in Messages!Id : Filled(i) /\ list[i].data.train = t
    \/ making # Nobody /\ making.train = t

\* A message is of the server: it is open, or being made, or its train was linked.
Known(m) ==
  /\ m \in Messages!Message /\ m.train \in found
  /\ \/ linked[m.train] # Nobody
     \/ list[m.id] = [used |-> TRUE, data |-> m]
     \/ making # Nobody /\ m = Messages!Making

\* The known messages
Knowns == {m \in Messages!Message : Known(m)}

\* What is under way to a page whose websocket is w and that is connected or not
Announced(line, w, on, K) ==
  /\ Line(line)
  /\ w # "open" => line = <<>>
  /\ w = "open" /\ ~on => line # <<>>
  /\ \A n \in DOMAIN line :
       /\ line[n].op \in {"open", "NewMessage", "ClearMessage", "LinkTrain", "libraries"}
       /\ line[n].op = "open" <=> n = 1 /\ ~on
       /\ line[n].op = "NewMessage" => line[n].msg \in K
ToldPages == \A p \in Page : Announced(toPages[p], ws[p], online[p], Knowns)

AskedLinks ==
  \A p \in Page : fromPages[p] = <<>> \/
    \E q \in [id : Messages!Id, train : Train, unit : Messages!Unit] :
      fromPages[p] = <<q>> /\ Known([id |-> q.id, train |-> q.train])

\* What a page draws, and the indices at which it stored messages
Drawn(d, m, on, K) ==
  /\ m = [array |-> m.array, at |-> m.at] /\ m.array \in BOOLEAN
  /\ on => m.array
  /\ ~on => m.at = {0}
  /\ \A x \in d : x.id \in m.at /\ (x = Messages!Disconnected \/ x \in K)
DrawnOK == \A p \in Page : Drawn(drawn[p], messages[p], online[p], Knowns)

\* The messages that are about slot i, and what a page shows there then
AboutSlot(m, i) ==
  \/ m.op = "open"
  \/ m.op = "NewMessage" /\ m.msg.id = i
  \/ m.op = "ClearMessage" /\ m.id = i /\ m.ret = 1
Gives(m) == IF m.op = "NewMessage" THEN {m.msg} ELSE {}

\* A page that shows old in slot i shows V when it has received the line.
Shows(line, i, old, V) ==
  \/ V = old /\ \A n \in 1..Len(line) : ~AboutSlot(line[n], i)
  \/ \E n \in 1..Len(line) :
       /\ AboutSlot(line[n], i) /\ V = Gives(line[n])
       /\ \A k \in 1..Len(line) : k > n => ~AboutSlot(line[k], i)

InSlot(p, i) == {x \in drawn[p] : x.id = i}
Due(p, i) ==
  IF greeting # Nobody /\ greeting.page = p /\ i >= greeting.at THEN {}
  ELSE IF Filled(i) THEN {list[i].data}
  ELSE IF making # Nobody /\ making.id = i /\ making.sent THEN {Messages!Making} ELSE {}
AllDue ==
  \A p \in Page : ws[p] = "open" =>
    \A i \in Messages!Id : Shows(toPages[p], i, InSlot(p, i), Due(p, i))


-----------------------------------------------------------------------------
(* What a line of messages says of a slot                                  *)

LEMMA ConcatOne ==
  ASSUME NEW s, Line(s), NEW x
  PROVE  s \o <<x>> = Append(s, x)
<1> DEFINE S == {s[i] : i \in 1..Len(s)} \cup {x}
<1>1. s \in Seq(S) /\ <<x>> \in Seq(S) /\ x \in S
  <2>1. s \in Seq(S)
    BY SeqOfLine
  <2> QED BY <2>1
<1> HIDE DEF S
<1>2. /\ Append(s, x) \in Seq(S) /\ Len(Append(s, x)) = Len(s) + 1
      /\ \A i \in 1..Len(s) : Append(s, x)[i] = s[i]
      /\ Append(s, x)[Len(s) + 1] = x
  BY <1>1, AppendProperties
<1>3. /\ s \o <<x>> \in Seq(S) /\ Len(s \o <<x>>) = Len(s) + 1
      /\ \A i \in 1..Len(s) + 1 : (s \o <<x>>)[i] = IF i <= Len(s) THEN s[i] ELSE <<x>>[i - Len(s)]
  <2>1. Len(<<x>>) = 1
    OBVIOUS
  <2> QED BY <1>1, <2>1, ConcatProperties
<1>4. Len(s) \in Nat
  BY DEF Line
<1>5. \A i \in 1..Len(s) + 1 : (s \o <<x>>)[i] = Append(s, x)[i]
  <2> TAKE i \in 1..Len(s) + 1
  <2>1. CASE i <= Len(s)
    BY <1>2, <1>3, <1>4, <2>1
  <2>2. CASE i = Len(s) + 1
    <3>1. (s \o <<x>>)[i] = <<x>>[1]
      BY <1>3, <1>4, <2>2
    <3> QED BY <1>2, <2>2, <3>1
  <2> QED BY <1>4, <2>1, <2>2
<1> QED BY <1>2, <1>3, <1>5, SeqEqual

LEMMA ConcatTwo ==
  ASSUME NEW s, Line(s), NEW x, NEW y
  PROVE  s \o <<x, y>> = Append(Append(s, x), y)
<1> DEFINE S == {s[i] : i \in 1..Len(s)} \cup {x, y}
<1>1. s \in Seq(S) /\ <<x>> \in Seq(S) /\ <<y>> \in Seq(S)
  <2>1. s \in Seq(S)
    BY SeqOfLine
  <2> QED BY <2>1
<1> HIDE DEF S
<1>2. <<x>> \o <<y>> = <<x, y>>
  <2>1. Line(<<x>>)
    BY <1>1, LineOfSeq
  <2>2. Append(<<x>>, y) = <<x, y>>
    <3>1. <<x, y>> \in Seq({x, y}) /\ <<x>> \in Seq({x, y}) /\ y \in {x, y}
      OBVIOUS
    <3>2. Append(<<x>>, y) \in Seq({x, y}) /\ Len(Append(<<x>>, y)) = 2
          /\ Append(<<x>>, y)[1] = x /\ Append(<<x>>, y)[2] = y
      <4>1. Len(<<x>>) = 1 /\ <<x>>[1] = x
        OBVIOUS
      <4> QED BY <3>1, <4>1, AppendProperties
    <3>3. Len(<<x, y>>) = 2 /\ <<x, y>>[1] = x /\ <<x, y>>[2] = y
      OBVIOUS
    <3>4. \A n \in 1..2 : Append(<<x>>, y)[n] = <<x, y>>[n]
      <4> TAKE n \in 1..2
      <4>1. n = 1 \/ n = 2
        OBVIOUS
      <4> QED BY <4>1, <3>2, <3>3
    <3> HIDE DEF S
    <3> QED BY <3>1, <3>2, <3>3, <3>4, SeqEqual
  <2> QED BY <2>1, <2>2, ConcatOne
<1>3. s \o <<x, y>> = (s \o <<x>>) \o <<y>>
  <2>1. (s \o <<x>>) \o <<y>> = s \o (<<x>> \o <<y>>)
    BY <1>1, ConcatAssociative
  <2> QED BY <1>2, <2>1
<1>4. s \o <<x>> = Append(s, x) /\ Line(Append(s, x))
  BY ConcatOne, LineAppend
<1> QED BY <1>3, <1>4, ConcatOne

LEMMA ShowsAppend ==
  ASSUME NEW line, Line(line), NEW m, NEW i, NEW old, NEW V
  PROVE  /\ Shows(line, i, old, V) /\ ~AboutSlot(m, i) => Shows(Append(line, m), i, old, V)
         /\ AboutSlot(m, i) => Shows(Append(line, m), i, old, Gives(m))
<1> DEFINE more == Append(line, m)
<1>1. /\ Len(line) \in Nat /\ Len(more) = Len(line) + 1
      /\ \A n \in 1..Len(line) : more[n] = line[n]
      /\ more[Len(line) + 1] = m
  BY LineAppend DEF Line
<1> HIDE DEF more
<1>2. ASSUME Shows(line, i, old, V), ~AboutSlot(m, i) PROVE Shows(more, i, old, V)
  <2>1. CASE V = old /\ \A n \in 1..Len(line) : ~AboutSlot(line[n], i)
    <3>1. \A n \in 1..Len(more) : ~AboutSlot(more[n], i)
      BY <1>1, <1>2, <2>1
    <3> QED BY <2>1, <3>1 DEF Shows
  <2>2. ASSUME NEW n \in 1..Len(line), AboutSlot(line[n], i), V = Gives(line[n]),
               \A k \in 1..Len(line) : k > n => ~AboutSlot(line[k], i)
        PROVE  Shows(more, i, old, V)
    <3>1. n \in 1..Len(more) /\ more[n] = line[n]
      BY <1>1
    <3>2. \A k \in 1..Len(more) : k > n => ~AboutSlot(more[k], i)
      BY <1>1, <1>2, <2>2
    <3> QED BY <2>2, <3>1, <3>2 DEF Shows
  <2> QED BY <1>2, <2>1, <2>2 DEF Shows
<1>3. ASSUME AboutSlot(m, i) PROVE Shows(more, i, old, Gives(m))
  <2>1. Len(more) \in 1..Len(more) /\ more[Len(more)] = m
    BY <1>1
  <2>2. \A k \in 1..Len(more) : ~(k > Len(more))
    BY <1>1
  <2> QED BY <1>3, <2>1, <2>2 DEF Shows
<1> QED BY <1>2, <1>3 DEF more

LEMMA ShowsTail ==
  ASSUME NEW line, Line(line), line # <<>>, NEW i, NEW old, NEW V, Shows(line, i, old, V), NEW now,
         now = IF AboutSlot(Head(line), i) THEN Gives(Head(line)) ELSE old
  PROVE  Shows(Tail(line), i, now, V)
<1> DEFINE rest == Tail(line)
<1>1. /\ Line(rest) /\ Head(line) = line[1] /\ Len(rest) = Len(line) - 1
      /\ \A n \in DOMAIN rest : n + 1 \in DOMAIN line /\ rest[n] = line[n + 1]
  BY LineTail
<1>2. Len(line) \in Nat /\ Len(line) # 0 /\ DOMAIN rest = 1..Len(rest) /\ DOMAIN line = 1..Len(line)
  <2>1. Len(line) \in Nat /\ DOMAIN rest = 1..Len(rest) /\ DOMAIN line = 1..Len(line)
    BY <1>1 DEF Line
  <2>2. 1 \in DOMAIN line
    BY LineTail
  <2> QED BY <2>1, <2>2
<1> HIDE DEF rest
<1>3. \A n \in 1..Len(rest) : n + 1 \in 1..Len(line) /\ rest[n] = line[n + 1]
  BY <1>1, <1>2
<1>4. CASE V = old /\ \A n \in 1..Len(line) : ~AboutSlot(line[n], i)
  <2>1. \A n \in 1..Len(rest) : ~AboutSlot(rest[n], i)
    BY <1>3, <1>4
  <2>2. now = old
    BY <1>1, <1>2, <1>4
  <2> QED BY <1>4, <2>1, <2>2 DEF Shows, rest
<1>5. ASSUME NEW n \in 1..Len(line), AboutSlot(line[n], i), V = Gives(line[n]),
             \A k \in 1..Len(line) : k > n => ~AboutSlot(line[k], i)
      PROVE  Shows(rest, i, now, V)
  <2>1. CASE n = 1
    <3>1. now = V
      BY <1>1, <1>5, <2>1
    <3>2. \A k \in 1..Len(rest) : ~AboutSlot(rest[k], i)
      <4> TAKE k \in 1..Len(rest)
      <4>1. k + 1 \in 1..Len(line) /\ k + 1 > n /\ rest[k] = line[k + 1]
        BY <1>3, <2>1
      <4> QED BY <1>5, <4>1
    <3> QED BY <3>1, <3>2 DEF Shows
  <2>2. CASE n # 1
    <3> DEFINE h == n - 1
    <3>1. h \in 1..Len(rest) /\ h + 1 = n
      BY <1>1, <1>2, <2>2
    <3> HIDE DEF h
    <3>2. rest[h] = line[n]
      BY <1>3, <3>1
    <3>3. \A k \in 1..Len(rest) : k > h => ~AboutSlot(rest[k], i)
      <4> SUFFICES ASSUME NEW k \in 1..Len(rest), k > h PROVE ~AboutSlot(rest[k], i)
        OBVIOUS
      <4>1. k + 1 \in 1..Len(line) /\ rest[k] = line[k + 1]
        BY <1>3
      <4>2. k + 1 > n
        BY <3>1
      <4> QED BY <1>5, <4>1, <4>2
    <3> QED BY <1>5, <3>1, <3>2, <3>3 DEF Shows
  <2> QED BY <2>1, <2>2
<1> QED BY <1>4, <1>5 DEF Shows, rest

\* When all was received the page shows it.
LEMMA ShowsNothingMore ==
  ASSUME NEW i, NEW old, NEW V, Shows(<<>>, i, old, V)
  PROVE  V = old
BY EmptyLine DEF Shows


-----------------------------------------------------------------------------
(* Sockets                                                                 *)

LEMMA Nothing ==
  /\ Slots \in Nat \ {0}
  /\ Nobody \notin Train /\ Nobody \notin Messages!Unit /\ Nobody \notin Messages!Message
  /\ Nobody \notin Messages!Made /\ Nobody \notin Messages!Greeting
BY WebAssumption DEF Messages!MessagesAssumption

\* Without preemption nothing but the thread itself disturbs it, as long as it runs.
LEMMA NothingElse ==
  ASSUME ~Preempted, Messages!Undisturbed
  PROVE  making = Nobody /\ (Messages!Running => greeting = Nobody)
BY DEF Messages!Undisturbed

\* Clients that were written to are those they were, but perhaps not connected.
Rewritten ==
  /\ Line(clients') /\ Len(clients') = Len(clients)
  /\ \A i \in DOMAIN clients :
       /\ ClientOK(clients'[i]) /\ clients'[i].page = clients[i].page
       /\ clients'[i].up = clients[i].up /\ clients'[i].greeted = clients[i].greeted

LEMMA ClientsLine ==
  ASSUME ClientsOK
  PROVE  /\ Len(clients) \in Nat /\ DOMAIN clients = 1..Len(clients)
         /\ clients = [i \in 1..Len(clients) |-> clients[i]]
         /\ clients # <<>> => Len(clients) \in DOMAIN clients
<1>1. Len(clients) \in Nat /\ clients = [i \in 1..Len(clients) |-> clients[i]]
  BY DEF ClientsOK, Line
<1>2. Len(clients) = 0 => clients = <<>>
  <2> DEFINE S == {clients[i] : i \in 1..Len(clients)}
  <2>1. clients \in Seq(S)
    BY SeqOfLine DEF ClientsOK
  <2> HIDE DEF S
  <2> QED BY <2>1, EmptySeq
<1> QED BY <1>1, <1>2

LEMMA WritesKeep ==
  ASSUME ClientsOK, clients' = Messages!AfterWrites
  PROVE  Rewritten
<1> DEFINE n == Len(clients)
<1>1. n \in Nat /\ DOMAIN clients = 1..n
  BY ClientsLine
<1>2. \A i \in 1..n : clients'[i] = [clients[i] EXCEPT !.connected = @ /\ (clients[i].greeted => clients[i].up)]
  BY <1>1 DEF Messages!AfterWrites
<1>3. clients' = [i \in 1..n |-> clients'[i]]
  BY <1>1 DEF Messages!AfterWrites
<1>4. Line(clients') /\ Len(clients') = n
  BY <1>1, <1>3, LineOf
<1>5. ASSUME NEW i \in 1..n
      PROVE  ClientOK(clients'[i]) /\ clients'[i].page = clients[i].page
             /\ clients'[i].up = clients[i].up /\ clients'[i].greeted = clients[i].greeted
  <2>1. ClientOK(clients[i])
    BY <1>1, <1>5 DEF ClientsOK
  <2> QED BY <1>2, <2>1 DEF ClientOK
<1> QED BY <1>1, <1>4, <1>5 DEF Rewritten

LEMMA MineLast ==
  ASSUME ClientsOK, GreetOK, greeting # Nobody
  PROVE  Messages!Mine = Len(clients) /\ Len(clients) \in DOMAIN clients
<1>1. /\ Len(clients) \in DOMAIN clients /\ clients[Len(clients)].page = greeting.page
      /\ Len(clients) \in Nat /\ DOMAIN clients = 1..Len(clients)
  BY ClientsLine DEF GreetOK
<1>2. \A j \in DOMAIN clients : clients[j].page = greeting.page => j <= Len(clients)
  BY <1>1
<1>3. ASSUME NEW i \in DOMAIN clients, \A j \in DOMAIN clients : clients[j].page = greeting.page => j <= i
      PROVE  i = Len(clients)
  BY <1>1, <1>3
<1> QED BY <1>1, <1>2, <1>3 DEF Messages!Mine

LEMMA MineKeeps ==
  ASSUME ClientsOK, GreetOK, greeting # Nobody, NEW ms, Messages!SendMine(ms)
  PROVE  Rewritten
<1> DEFINE n == Len(clients)
<1>1. n \in Nat /\ DOMAIN clients = 1..n
  BY ClientsLine
<1>2. Messages!Mine = n
  BY MineLast
<1>3. clients' = [clients EXCEPT ![n].connected = @ /\ clients[n].up]
  BY <1>2 DEF Messages!SendMine
<1>4. clients' = [i \in 1..n |-> clients'[i]]
  BY <1>1, <1>3
<1>5. Line(clients') /\ Len(clients') = n
  BY <1>1, <1>4, LineOf
<1>6. ASSUME NEW i \in 1..n
      PROVE  ClientOK(clients'[i]) /\ clients'[i].page = clients[i].page
             /\ clients'[i].up = clients[i].up /\ clients'[i].greeted = clients[i].greeted
  <2>1. ClientOK(clients[i])
    BY <1>1, <1>6 DEF ClientsOK
  <2>2. clients'[i] = IF i = n THEN [clients[i] EXCEPT !.connected = @ /\ clients[n].up] ELSE clients[i]
    BY <1>1, <1>3
  <2> QED BY <2>1, <2>2 DEF ClientOK
<1> QED BY <1>1, <1>5, <1>6 DEF Rewritten

LEMMA RewrittenLive ==
  ASSUME ClientsOK, Rewritten
  PROVE  /\ ClientsOK' /\ \A p \in Page : Messages!Live(p)' = Messages!Live(p)
         /\ DOMAIN clients' = DOMAIN clients /\ Len(clients') = Len(clients)
         /\ clients # <<>> => clients' # <<>>
<1>1. DOMAIN clients = 1..Len(clients) /\ Len(clients) \in Nat
  BY ClientsLine
<1>2. DOMAIN clients' = 1..Len(clients)
  BY DEF Rewritten, Line
<1>3. ClientsOK'
  BY <1>1, <1>2 DEF ClientsOK, Rewritten
<1>4. ASSUME NEW p \in Page PROVE Messages!Live(p)' = Messages!Live(p)
  BY <1>1, <1>2 DEF Rewritten, Messages!Live
<1>5. clients # <<>> => clients' # <<>>
  <2>1. Len(<<>>) = 0
    BY EmptyLine
  <2>2. clients # <<>> => Len(clients) \in 1..Len(clients)
    BY <1>1, ClientsLine
  <2> QED BY <1>1, <2>1, <2>2 DEF Rewritten
<1> QED BY <1>1, <1>2, <1>3, <1>4, <1>5 DEF Rewritten

LEMMA RewrittenSockets ==
  ASSUME ClientsOK, SocketsOK, Rewritten, UNCHANGED <<ws, retries, online>>
  PROVE  ClientsOK' /\ SocketsOK'
<1>1. ClientsOK' /\ DOMAIN clients' = DOMAIN clients /\ \A p \in Page : Messages!Live(p)' = Messages!Live(p)
  BY RewrittenLive
<1>2. ASSUME NEW p \in Page
      PROVE  /\ ws'[p] = "open" => Messages!Live(p)' # {}
             /\ \A i \in Messages!Live(p)' : ws'[p] = IF clients'[i].greeted THEN "open" ELSE "connecting"
  <2>1. \A i \in Messages!Live(p) : i \in DOMAIN clients
    BY DEF Messages!Live
  <2> QED BY <1>1, <2>1 DEF SocketsOK, Rewritten
<1> QED BY <1>1, <1>2 DEF SocketsOK

\* A broadcast reaches the pages that are open.
LEMMA ReachedOpen ==
  ASSUME ClientsOK, SocketsOK, NEW p \in Page
  PROVE  Messages!Reached(p) <=> ws[p] = "open"
<1>1. \A i \in Messages!Live(p) : /\ i \in DOMAIN clients /\ clients[i].up /\ clients[i].connected
                                  /\ ws[p] = IF clients[i].greeted THEN "open" ELSE "connecting"
  BY DEF Messages!Live, ClientsOK, ClientOK, SocketsOK
<1>2. ws[p] = "open" => \E i \in Messages!Live(p) : TRUE
  BY DEF SocketsOK
<1> QED BY <1>1, <1>2 DEF Messages!Reached, Messages!Gets

\* A write to the client that is greeted reaches its page if that is open.
LEMMA MineOpen ==
  ASSUME ClientsOK, SocketsOK, GreetOK, greeting # Nobody, greeting.next # "handshake"
  PROVE  clients[Messages!Mine].up <=> ws[greeting.page] = "open"
<1> DEFINE n == Len(clients)
<1>1. Messages!Mine = n /\ n \in DOMAIN clients
  BY MineLast
<1>2. clients[n].page = greeting.page /\ clients[n].greeted /\ greeting.page \in Page
      /\ \A i \in Messages!Live(greeting.page) : i = n
  BY DEF GreetOK, Messages!Greeting
<1>3. ClientOK(clients[n])
  BY <1>1 DEF ClientsOK
<1>4. clients[n].up => n \in Messages!Live(greeting.page)
  BY <1>1, <1>2 DEF Messages!Live
<1>5. n \in Messages!Live(greeting.page) => clients[n].up /\ ws[greeting.page] = "open"
  BY <1>2 DEF Messages!Live, SocketsOK
<1>6. ws[greeting.page] = "open" => n \in Messages!Live(greeting.page)
  BY <1>2 DEF SocketsOK
<1> QED BY <1>1, <1>4, <1>5, <1>6


\* What the threads that take, greet and forget clients, and lost connections, do to sockets
SocketsInv == ClientsOK /\ GreetOK /\ SocketsOK

LEMMA AcceptSockets ==
  ASSUME ~Preempted, SocketsInv, NEW p \in Page, Messages!Accept(p)
  PROVE  SocketsInv'
<1>1. /\ greeting = Nobody /\ making = Nobody /\ making' = making
      /\ ws[p] = "connecting" /\ Messages!Live(p) = {} /\ UNCHANGED <<ws, retries, online>>
  BY NothingElse DEF Messages!Accept, Messages!serverVars, Messages!linkVars
<1>2. CASE UNCHANGED <<clients, greeting>>
  BY <1>1, <1>2 DEF SocketsInv, ClientsOK, GreetOK, SocketsOK, Messages!Live
<1>3. CASE /\ clients' = Append(clients, Messages!NewClient(p))
           /\ greeting' = [page |-> p, next |-> "handshake", at |-> 0, left |-> {}]
  <2> DEFINE n == Len(clients)
             c == [page |-> p, up |-> TRUE, connected |-> TRUE, greeted |-> FALSE]
  <2>1. /\ Line(clients') /\ n \in Nat /\ Len(clients') = n + 1
        /\ DOMAIN clients = 1..n /\ DOMAIN clients' = 1..(n + 1)
        /\ \A i \in 1..n : clients'[i] = clients[i]
        /\ clients'[n + 1] = c
    BY <1>3, LineAppend DEF SocketsInv, ClientsOK, Line, Messages!NewClient
  <2>2. ClientOK(c)
    BY DEF ClientOK
  <2> HIDE DEF c
  <2>3. c.page = p /\ c.up = TRUE /\ c.greeted = FALSE
    BY DEF c
  <2>4. ClientsOK'
    BY <2>1, <2>2 DEF SocketsInv, ClientsOK
  <2>5. \A q \in Page : Messages!Live(q)' = Messages!Live(q) \cup (IF q = p THEN {n + 1} ELSE {})
    BY <2>1, <2>3 DEF Messages!Live
  <2>6. Messages!Live(p)' = {n + 1}
    BY <1>1, <2>5
  <2>7. SocketsOK'
    <3>1. ASSUME NEW q \in Page
          PROVE  /\ ws'[q] = "open" => Messages!Live(q)' # {}
                 /\ \A i \in Messages!Live(q)' : ws'[q] = IF clients'[i].greeted THEN "open" ELSE "connecting"
      <4>1. CASE q = p
        BY <1>1, <2>1, <2>3, <2>6, <4>1
      <4>2. CASE q # p
        <5>1. Messages!Live(q)' = Messages!Live(q) /\ \A i \in Messages!Live(q) : i \in 1..n
          BY <2>1, <2>5, <4>2 DEF Messages!Live
        <5> QED BY <1>1, <2>1, <5>1 DEF SocketsInv, SocketsOK
      <4> QED BY <4>1, <4>2
    <3> QED BY <1>1, <3>1 DEF SocketsInv, SocketsOK
  <2>8. GreetOK'
    <3>1. greeting' \in Messages!Greeting'
      BY <1>3, Nothing DEF Messages!Greeting
    <3>2. clients' # <<>>
      <4>1. Len(<<>>) = 0
        BY EmptyLine
      <4> QED BY <2>1, <4>1
    <3>3. greeting'.page = p /\ greeting'.next = "handshake" /\ greeting'.at = 0
      BY <1>3
    <3> QED BY <1>1, <2>1, <2>3, <2>6, <3>1, <3>2, <3>3 DEF GreetOK
  <2> QED BY <2>4, <2>7, <2>8 DEF SocketsInv
<1> QED BY <1>2, <1>3 DEF Messages!Accept

LEMMA HandshakeSockets ==
  ASSUME SocketsInv, Messages!Handshake
  PROVE  SocketsInv'
<1> DEFINE n == Len(clients)
           p == greeting.page
<1>1. /\ greeting # Nobody /\ greeting.next = "handshake" /\ greeting' = [greeting EXCEPT !.next = "messages"]
      /\ making' = making /\ list' = list /\ UNCHANGED <<retries, online>>
  BY DEF Messages!Handshake, Messages!serverVars
<1>2. /\ Messages!Mine = n /\ n \in DOMAIN clients /\ DOMAIN clients = 1..n /\ n \in Nat
      /\ greeting \in Messages!Greeting /\ p \in Page /\ making = Nobody
      /\ clients[n].page = p /\ ~clients[n].greeted /\ greeting.at = 0
      /\ \A i \in Messages!Live(p) : i = n
  BY <1>1, MineLast, ClientsLine DEF SocketsInv, GreetOK, Messages!Greeting
<1>3. /\ clients' = [clients EXCEPT ![n].greeted = TRUE]
      /\ ws' = IF clients[n].up THEN [ws EXCEPT ![p] = "open"] ELSE ws
  BY <1>2 DEF Messages!Handshake
<1>4. clients' = [i \in 1..n |-> clients'[i]]
  BY <1>2, <1>3
<1>5. Line(clients') /\ Len(clients') = n /\ DOMAIN clients' = 1..n
  BY <1>2, <1>4, LineOf
<1>6. \A i \in 1..n : clients'[i] = IF i = n THEN [clients[n] EXCEPT !.greeted = TRUE] ELSE clients[i]
  BY <1>2, <1>3
<1>7. ASSUME NEW i \in 1..n
      PROVE  /\ ClientOK(clients'[i]) /\ clients'[i].page = clients[i].page /\ clients'[i].up = clients[i].up
             /\ clients'[i].greeted <=> (clients[i].greeted \/ i = n)
             /\ clients[i].up \in BOOLEAN
  <2>1. ClientOK(clients[i])
    BY <1>2 DEF SocketsInv, ClientsOK
  <2>2. CASE i = n
    <3>1. clients'[i] = [clients[i] EXCEPT !.greeted = TRUE]
      BY <1>6, <2>2
    <3> QED BY <2>1, <2>2, <3>1 DEF ClientOK
  <2>3. CASE i # n
    BY <1>6, <2>1, <2>3 DEF ClientOK
  <2> QED BY <2>2, <2>3
<1>8. \A q \in Page : Messages!Live(q)' = Messages!Live(q)
  BY <1>2, <1>5, <1>7 DEF Messages!Live
<1>9. ClientsOK'
  <2>1. \A i \in DOMAIN clients' : ClientOK(clients'[i])
    <3> TAKE i \in DOMAIN clients'
    <3>1. i \in 1..n
      BY <1>5
    <3> QED BY <1>7, <3>1
  <2> QED BY <1>5, <2>1 DEF ClientsOK
<1>10. clients[n].up <=> n \in Messages!Live(p)
  BY <1>2, <1>7 DEF Messages!Live
<1>11. clients[n].up => ws[p] = "connecting"
  BY <1>2, <1>10 DEF SocketsInv, SocketsOK
<1>12. SocketsOK'
  <2>1. ws' \in [Page -> {"none", "connecting", "open", "closed"}]
    BY <1>3 DEF SocketsInv, SocketsOK
  <2>2. \A q \in Page : ws'[q] = IF clients[n].up /\ q = p THEN "open" ELSE ws[q]
    BY <1>2, <1>3 DEF SocketsInv, SocketsOK
  <2>3. ASSUME NEW q \in Page
        PROVE  /\ ws'[q] = "open" => Messages!Live(q)' # {}
               /\ \A i \in Messages!Live(q)' : ws'[q] = IF clients'[i].greeted THEN "open" ELSE "connecting"
               /\ retries'[q] = 1 => ws'[q] \in {"none", "closed"} /\ ~online'[q]
               /\ ws'[q] = "connecting" => ~online'[q]
    <3>1. \A i \in Messages!Live(q) : i \in 1..n /\ clients[i].page = q
      BY <1>2 DEF Messages!Live
    <3>2. CASE q = p
      BY <1>1, <1>2, <1>7, <1>8, <1>10, <1>11, <2>2, <3>1, <3>2 DEF SocketsInv, SocketsOK
    <3>3. CASE q # p
      <4>1. \A i \in Messages!Live(q) : i # n /\ (clients'[i].greeted <=> clients[i].greeted)
        BY <1>2, <1>7, <3>1, <3>3
      <4>2. ws'[q] = ws[q]
        BY <2>2, <3>3
      <4>3. \A i \in Messages!Live(q) : ws[q] = IF clients[i].greeted THEN "open" ELSE "connecting"
        BY DEF SocketsInv, SocketsOK
      <4> QED BY <1>1, <1>8, <4>1, <4>2, <4>3 DEF SocketsInv, SocketsOK
    <3> QED BY <3>2, <3>3
  <2> QED BY <1>1, <2>1, <2>3 DEF SocketsInv, SocketsOK
<1>13. GreetOK'
  <2>1. greeting' \in Messages!Greeting' /\ greeting'.page = p /\ greeting'.next = "messages" /\ greeting'.at = 0
    BY <1>1, <1>2 DEF Messages!Greeting
  <2>2. clients' # <<>>
    <3>1. Len(<<>>) = 0
      BY EmptyLine
    <3> QED BY <1>2, <1>5, <3>1
  <2> QED BY <1>1, <1>2, <1>5, <1>7, <1>8, <2>1, <2>2 DEF GreetOK
<1> QED BY <1>9, <1>12, <1>13 DEF SocketsInv

\* The other steps of newClientCallback
LEMMA GreetSockets ==
  ASSUME SocketsInv, SlotsOK, greeting # Nobody,
         Messages!TestSlot \/ Messages!SendSlot \/ Messages!SendLibraries \/ Messages!Joined
           \/ \E t \in Train : Messages!SendLink(t)
  PROVE  SocketsInv'
<1>1. /\ greeting \in Messages!Greeting /\ making = Nobody /\ greeting.at \in 0..Slots
      /\ greeting.next \in {"messages", "send", "links", "libraries"}
      /\ UNCHANGED <<ws, retries, online, making, list>>
  BY DEF SocketsInv, GreetOK, Messages!Greeting, Messages!TestSlot, Messages!SendSlot, Messages!SendLibraries,
         Messages!Joined, Messages!SendLink, Messages!serverVars, Messages!linkVars
<1>2. UNCHANGED clients \/ Rewritten
  <2>1. CASE Messages!TestSlot \/ Messages!Joined
    BY <2>1 DEF Messages!TestSlot, Messages!Joined
  <2>2. CASE Messages!SendSlot \/ Messages!SendLibraries
    BY <2>2, MineKeeps DEF SocketsInv, Messages!SendSlot, Messages!SendLibraries
  <2>3. CASE \E t \in Train : Messages!SendLink(t)
    BY <2>3, WritesKeep DEF SocketsInv, Messages!SendLink
  <2> QED BY <2>1, <2>2, <2>3
<1>3. /\ ClientsOK' /\ SocketsOK' /\ \A p \in Page : Messages!Live(p)' = Messages!Live(p)
      /\ Len(clients') = Len(clients) /\ (clients # <<>> => clients' # <<>>)
      /\ \A i \in DOMAIN clients : clients'[i].page = clients[i].page /\ clients'[i].greeted = clients[i].greeted
  <2>1. CASE UNCHANGED clients
    BY <1>1, <2>1 DEF SocketsInv, ClientsOK, SocketsOK, Messages!Live
  <2>2. CASE Rewritten
    BY <1>1, <2>2, RewrittenSockets, RewrittenLive DEF SocketsInv, Rewritten
  <2> QED BY <1>2, <2>1, <2>2
<1>4. Len(clients) \in DOMAIN clients
  BY MineLast DEF SocketsInv
<1>5. \/ greeting' = Nobody
      \/ /\ greeting' \in Messages!Greeting /\ greeting'.page = greeting.page
         /\ greeting'.next # "handshake"
         /\ greeting'.next \in {"libraries", "links", "crashed"} => greeting'.at = Slots
         /\ greeting'.next = "send" => greeting'.at < Slots /\ list[greeting'.at].used
  <2>1. CASE Messages!TestSlot
    <3>1. greeting.at = Slots \/ greeting.at + 1 \in 0..Slots
      BY <1>1, Nothing
    <3>2. greeting.at < Slots \/ greeting.at = Slots
      BY <1>1, Nothing
    <3> QED BY <1>1, <2>1, <3>1, <3>2 DEF Messages!TestSlot, Messages!Greeting
  <2>2. CASE Messages!SendSlot
    <3>1. greeting.at + 1 \in 0..Slots
      BY <1>1, <2>2, Nothing DEF Messages!SendSlot, SocketsInv, GreetOK
    <3> QED BY <1>1, <2>2, <3>1 DEF Messages!SendSlot, Messages!Greeting
  <2>3. CASE Messages!SendLibraries
    BY <1>1, <2>3 DEF Messages!SendLibraries, Messages!Greeting, SocketsInv, GreetOK
  <2>4. CASE Messages!Joined
    BY <2>4 DEF Messages!Joined
  <2>5. ASSUME NEW t \in Train, Messages!SendLink(t) PROVE <1>5!2
    BY <1>1, <2>5 DEF Messages!SendLink, Messages!Greeting, SocketsInv, GreetOK
  <2> QED BY <2>1, <2>2, <2>3, <2>4, <2>5
<1>6. GreetOK'
  <2>1. Messages!Greeting' = Messages!Greeting
    BY DEF Messages!Greeting
  <2>2. greeting' # Nobody =>
          /\ clients' # <<>> /\ clients'[Len(clients)].page = greeting.page
          /\ clients'[Len(clients)].greeted
          /\ \A i \in DOMAIN clients' : clients'[i].page = greeting.page /\ clients'[i].up => i = Len(clients)
    <3>1. /\ clients # <<>> /\ clients[Len(clients)].page = greeting.page
          /\ clients[Len(clients)].greeted /\ greeting.page \in Page
          /\ \A i \in Messages!Live(greeting.page) : i = Len(clients)
      BY <1>1 DEF SocketsInv, GreetOK, Messages!Greeting
    <3>2. clients'[Len(clients)].page = greeting.page /\ clients'[Len(clients)].greeted
      BY <1>3, <1>4, <3>1
    <3>3. \A i \in DOMAIN clients' : clients'[i].page = greeting.page /\ clients'[i].up => i = Len(clients)
      <4>1. Messages!Live(greeting.page) = {i \in DOMAIN clients : clients[i].page = greeting.page /\ clients[i].up}
        BY DEF Messages!Live
      <4>2. \A p \in Page : {i \in DOMAIN clients' : clients'[i].page = p /\ clients'[i].up} = Messages!Live(p)
        BY <1>3 DEF Messages!Live
      <4> QED BY <3>1, <4>1, <4>2
    <3> QED BY <1>3, <3>1, <3>2, <3>3
  <2> QED BY <1>1, <1>3, <1>5, <2>1, <2>2 DEF GreetOK, Messages!Live
<1> QED BY <1>3, <1>6 DEF SocketsInv


\* ClearUnusedSockets leaves the clients that are up.
LEMMA ClearedSockets ==
  ASSUME ~Preempted, SocketsInv, Messages!ClearUnused
  PROVE  SocketsInv'
<1> DEFINE S == {c \in {clients[i] : i \in DOMAIN clients} : ~c.connected}
           n == Len(clients)
           m == Len(clients')
<1>1. /\ greeting = Nobody /\ greeting' = greeting /\ UNCHANGED <<ws, retries, online>>
      /\ clients' = Messages!Without(clients, S)
  BY DEF Messages!ClearUnused, Messages!linkVars
<1>2. Messages!Without(clients, S) = Library!Without(clients, S)
  BY DEF Messages!Without, Library!Without
<1>3. Line(clients) /\ n \in Nat /\ DOMAIN clients = 1..n /\ \A i \in 1..n : ClientOK(clients[i])
  BY ClientsLine DEF SocketsInv, ClientsOK
<1>4. Line(clients') /\ {clients'[i] : i \in 1..m} = {clients[i] : i \in 1..n} \ S
  <2> HIDE DEF S
  <2> QED BY <1>1, <1>2, <1>3, WithoutKeeps
<1>5. DOMAIN clients' = 1..m /\ m \in Nat
  BY <1>4 DEF Line
<1>6. \A j \in 1..m : \E i \in 1..n : clients'[j] = clients[i]
  BY <1>4
<1>7. \A i \in 1..n : clients[i].up => \E j \in 1..m : clients'[j] = clients[i]
  <2> TAKE i \in 1..n
  <2>1. clients[i].up => clients[i].connected
    BY <1>3 DEF ClientOK
  <2> QED BY <1>4, <2>1
<1>8. ClientsOK'
  BY <1>3, <1>4, <1>5, <1>6 DEF ClientsOK
<1>9. SocketsOK'
  <2>1. ASSUME NEW p \in Page
        PROVE  /\ ws'[p] = "open" => Messages!Live(p)' # {}
               /\ \A j \in Messages!Live(p)' : ws'[p] = IF clients'[j].greeted THEN "open" ELSE "connecting"
    <3>1. ASSUME ws'[p] = "open" PROVE Messages!Live(p)' # {}
      <4>1. PICK i \in Messages!Live(p) : TRUE
        BY <1>1, <3>1 DEF SocketsInv, SocketsOK
      <4>2. i \in 1..n /\ clients[i].page = p /\ clients[i].up
        BY <1>3, <4>1 DEF Messages!Live
      <4>3. PICK j \in 1..m : clients'[j] = clients[i]
        BY <1>7, <4>2
      <4>4. j \in {k \in DOMAIN clients' : clients'[k].page = p /\ clients'[k].up}
        BY <1>5, <4>2, <4>3
      <4> QED BY <4>4 DEF Messages!Live
    <3>2. ASSUME NEW j \in Messages!Live(p)'
          PROVE  ws'[p] = IF clients'[j].greeted THEN "open" ELSE "connecting"
      <4>1. j \in 1..m /\ clients'[j].page = p /\ clients'[j].up
        BY <1>5, <3>2 DEF Messages!Live
      <4>2. PICK i \in 1..n : clients'[j] = clients[i]
        BY <1>6, <4>1
      <4>3. i \in Messages!Live(p)
        BY <1>3, <4>1, <4>2 DEF Messages!Live
      <4> QED BY <1>1, <4>2, <4>3 DEF SocketsInv, SocketsOK
    <3> QED BY <3>1, <3>2
  <2> QED BY <1>1, <2>1 DEF SocketsInv, SocketsOK
<1> QED BY <1>1, <1>8, <1>9 DEF SocketsInv, GreetOK

LEMMA ConnectSockets ==
  ASSUME ~Preempted, SocketsInv, NEW p \in Page, Messages!Connect(p)
  PROVE  SocketsInv' /\ ws[p] # "open" /\ ws' = [ws EXCEPT ![p] = "connecting"]
<1>1. /\ UNCHANGED <<clients, greeting, online, making, list>>
      /\ retries[p] > 0 /\ retries' = [retries EXCEPT ![p] = @ - 1] /\ ws' = [ws EXCEPT ![p] = "connecting"]
  BY DEF Messages!Connect, Messages!socketVars, Messages!serverVars
<1>2. retries[p] = 1 /\ ws[p] \in {"none", "closed"} /\ ~online[p]
  BY <1>1 DEF SocketsInv, SocketsOK
<1>3. Messages!Live(p) = {}
  BY <1>2 DEF SocketsInv, SocketsOK
<1>4. \A q \in Page : Messages!Live(q)' = Messages!Live(q)
  BY <1>1 DEF Messages!Live
<1>5. ClientsOK' /\ GreetOK'
  BY <1>1 DEF SocketsInv, ClientsOK, GreetOK, Messages!Live, Messages!Greeting
<1>6. SocketsOK'
  <2>1. /\ ws' \in [Page -> {"none", "connecting", "open", "closed"}]
        /\ retries' \in [Page -> {0, 1}]
    <3>1. retries' = [retries EXCEPT ![p] = 0]
      BY <1>1, <1>2
    <3> QED BY <1>1, <3>1 DEF SocketsInv, SocketsOK
  <2>2. ASSUME NEW q \in Page
        PROVE  /\ retries'[q] = 1 => ws'[q] \in {"none", "closed"} /\ ~online'[q]
               /\ ws'[q] = "connecting" => ~online'[q]
               /\ ws'[q] = "open" => Messages!Live(q)' # {}
               /\ \A i \in Messages!Live(q)' : ws'[q] = IF clients'[i].greeted THEN "open" ELSE "connecting"
    <3>1. CASE q = p
      BY <1>1, <1>2, <1>3, <1>4, <3>1 DEF SocketsInv, SocketsOK
    <3>2. CASE q # p
      BY <1>1, <1>4, <3>2 DEF SocketsInv, SocketsOK
    <3> QED BY <3>1, <3>2
  <2> QED BY <1>1, <2>1, <2>2 DEF SocketsInv, SocketsOK
<1> QED BY <1>1, <1>2, <1>5, <1>6 DEF SocketsInv

LEMMA DropSockets ==
  ASSUME SocketsInv, NEW p \in Page, Messages!Drop(p)
  PROVE  SocketsInv' /\ ws' = [ws EXCEPT ![p] = "closed"]
<1> DEFINE n == Len(clients)
<1>1. /\ UNCHANGED <<greeting, making, list>> /\ ws[p] \in {"connecting", "open"}
      /\ ws' = [ws EXCEPT ![p] = "closed"]
      /\ clients' = [i \in DOMAIN clients |-> [clients[i] EXCEPT !.up = @ /\ clients[i].page # p]]
      /\ \/ UNCHANGED <<retries, online>>
         \/ retries' = [retries EXCEPT ![p] = @ + 1] /\ online' = [online EXCEPT ![p] = FALSE]
  BY DEF Messages!Drop, Messages!OnDisconnect, Messages!Retry, Messages!serverVars
<1>2. n \in Nat /\ DOMAIN clients = 1..n /\ \A i \in 1..n : ClientOK(clients[i])
  BY ClientsLine DEF SocketsInv, ClientsOK
<1>3. clients' = [i \in 1..n |-> clients'[i]]
  BY <1>1, <1>2
<1>4. Line(clients') /\ Len(clients') = n /\ DOMAIN clients' = 1..n
  BY <1>2, <1>3, LineOf
<1>5. ASSUME NEW i \in 1..n
      PROVE  /\ ClientOK(clients'[i]) /\ clients'[i].page = clients[i].page
             /\ clients'[i].greeted = clients[i].greeted
             /\ clients'[i].up <=> clients[i].up /\ clients[i].page # p
  <2>1. clients'[i] = [clients[i] EXCEPT !.up = clients[i].up /\ clients[i].page # p]
    BY <1>1, <1>2
  <2>2. ClientOK(clients[i])
    BY <1>2
  <2>3. CASE clients[i].page = p
    <3>1. clients'[i] = [clients[i] EXCEPT !.up = FALSE]
      BY <2>1, <2>2, <2>3 DEF ClientOK
    <3> QED BY <2>2, <2>3, <3>1 DEF ClientOK
  <2>4. CASE clients[i].page # p
    <3>1. clients'[i] = clients[i]
      BY <2>1, <2>2, <2>4 DEF ClientOK
    <3> QED BY <2>2, <2>4, <3>1
  <2> QED BY <2>3, <2>4
<1>6. \A q \in Page : Messages!Live(q)' = IF q = p THEN {} ELSE Messages!Live(q)
  BY <1>2, <1>4, <1>5 DEF Messages!Live
<1>7. ClientsOK'
  <2>1. \A i \in DOMAIN clients' : ClientOK(clients'[i])
    BY <1>4, <1>5
  <2> QED BY <1>4, <2>1 DEF ClientsOK
<1>8. retries[p] = 0
  BY <1>1 DEF SocketsInv, SocketsOK
<1>9. SocketsOK'
  <2>1. /\ ws' \in [Page -> {"none", "connecting", "open", "closed"}]
        /\ retries' \in [Page -> {0, 1}] /\ online' \in [Page -> BOOLEAN]
    <3>1. retries' = retries \/ retries' = [retries EXCEPT ![p] = 1]
      BY <1>1, <1>8
    <3> QED BY <1>1, <3>1 DEF SocketsInv, SocketsOK
  <2>2. ASSUME NEW q \in Page
        PROVE  /\ retries'[q] = 1 => ws'[q] \in {"none", "closed"} /\ ~online'[q]
               /\ ws'[q] = "connecting" => ~online'[q]
               /\ ws'[q] = "open" => Messages!Live(q)' # {}
               /\ \A i \in Messages!Live(q)' : ws'[q] = IF clients'[i].greeted THEN "open" ELSE "connecting"
    <3>1. CASE q = p
      BY <1>1, <1>6, <1>8, <3>1 DEF SocketsInv, SocketsOK
    <3>2. CASE q # p
      <4>1. ws'[q] = ws[q] /\ retries'[q] = retries[q] /\ online'[q] = online[q]
        BY <1>1, <3>2 DEF SocketsInv, SocketsOK
      <4>2. \A i \in Messages!Live(q) : i \in 1..n
        BY <1>2 DEF Messages!Live
      <4> QED BY <1>5, <1>6, <3>2, <4>1, <4>2 DEF SocketsInv, SocketsOK
    <3> QED BY <3>1, <3>2
  <2> QED BY <2>1, <2>2 DEF SocketsOK
<1>10. GreetOK'
  <2> SUFFICES ASSUME greeting # Nobody PROVE GreetOK'
    BY <1>1 DEF GreetOK
  <2>1. n \in 1..n /\ clients # <<>> /\ greeting \in Messages!Greeting /\ greeting.page \in Page
    BY <1>2, MineLast DEF SocketsInv, GreetOK, Messages!Greeting
  <2>2. clients' # <<>>
    <3>1. Len(<<>>) = 0
      BY EmptyLine
    <3> QED BY <1>4, <2>1, <3>1
  <2>3. \A i \in DOMAIN clients' : clients'[i].page = greeting.page /\ clients'[i].up => i = n
    BY <1>2, <1>4, <1>5 DEF SocketsInv, GreetOK, Messages!Live
  <2>4. Messages!Greeting' = Messages!Greeting
    BY DEF Messages!Greeting
  <2> QED BY <1>1, <1>4, <1>5, <2>1, <2>2, <2>3, <2>4 DEF SocketsInv, GreetOK, Messages!Live
<1> QED BY <1>1, <1>7, <1>9, <1>10 DEF SocketsInv

\* A page that receives is open, and may be connected then.
LEMMA ReceiveSockets ==
  ASSUME ~Preempted, SocketsInv, ToldPages, NEW p \in Page, Messages!Receive(p)
  PROVE  SocketsInv' /\ ws[p] = "open"
<1>1. /\ UNCHANGED <<clients, greeting, ws, retries, making, list>> /\ toPages[p] # <<>>
      /\ online' = online \/ online' = [online EXCEPT ![p] = TRUE]
  BY DEF Messages!Receive, Messages!socketVars, Messages!serverVars, Messages!OnMessage, Messages!OnConnect
<1>2. ws[p] = "open"
  BY <1>1 DEF ToldPages, Announced
<1>3. ClientsOK' /\ GreetOK' /\ \A q \in Page : Messages!Live(q)' = Messages!Live(q)
  BY <1>1 DEF SocketsInv, ClientsOK, GreetOK, Messages!Live, Messages!Greeting
<1>4. SocketsOK'
  <2>1. /\ online' \in [Page -> BOOLEAN]
        /\ \A q \in Page : online'[q] = online[q] \/ q = p
    BY <1>1 DEF SocketsInv, SocketsOK
  <2>2. ASSUME NEW q \in Page
        PROVE  /\ retries'[q] = 1 => ws'[q] \in {"none", "closed"} /\ ~online'[q]
               /\ ws'[q] = "connecting" => ~online'[q]
    BY <1>1, <1>2, <2>1 DEF SocketsInv, SocketsOK
  <2>3. ASSUME NEW q \in Page
        PROVE  /\ ws'[q] = "open" => Messages!Live(q)' # {}
               /\ \A i \in Messages!Live(q)' : ws'[q] = IF clients'[i].greeted THEN "open" ELSE "connecting"
    BY <1>1, <1>3 DEF SocketsInv, SocketsOK
  <2>4. ws' \in [Page -> {"none", "connecting", "open", "closed"}] /\ retries' \in [Page -> {0, 1}]
    BY <1>1 DEF SocketsInv, SocketsOK
  <2> QED BY <2>1, <2>2, <2>3, <2>4 DEF SocketsOK
<1> QED BY <1>2, <1>3, <1>4 DEF SocketsInv

\* All other steps write to clients at most.
LEMMA OtherSockets ==
  ASSUME SocketsInv, UNCHANGED clients \/ Rewritten, UNCHANGED <<ws, retries, online, greeting>>, greeting = Nobody
  PROVE  SocketsInv'
<1>1. CASE UNCHANGED clients
  BY <1>1 DEF SocketsInv, ClientsOK, SocketsOK, GreetOK, Messages!Live
<1>2. CASE Rewritten
  BY <1>2, RewrittenSockets DEF SocketsInv, GreetOK
<1> QED BY <1>1, <1>2


-----------------------------------------------------------------------------
(* The slots of MessageList                                                *)

\* WS_init_Message finds a slot if there is a free one.
LEMMA NextFree ==
  ASSUME SlotsOK, NEW free \in Messages!Id, ~list[free].used
  PROVE  Messages!NextSlot \in Messages!Id /\ ~list[Messages!NextSlot].used
<1> DEFINE S == {n \in 0..(Slots - 1) : ~list[(counter + n) % Slots].used}
           k == Library!Min(S)
<1>1. Slots \in Nat /\ Slots > 0 /\ counter \in 0..(Slots - 1) /\ free \in 0..(Slots - 1)
  BY Nothing DEF SlotsOK, Messages!Id
<1>2. \E n \in 0..(Slots - 1) : n \in S
  <2> DEFINE n == IF free >= counter THEN free - counter ELSE free - counter + Slots
  <2>1. n \in 0..(Slots - 1)
    BY <1>1
  <2>2. (counter + n) % Slots = free
    <3>1. counter + n = free \/ counter + n = free + Slots
      BY <1>1
    <3>2. free % Slots = free /\ (free + Slots) % Slots = free
      BY <1>1
    <3> QED BY <3>1, <3>2
  <2> QED BY <2>1, <2>2
<1>3. k \in S /\ \A n \in S : k <= n
  <2>1. S \in SUBSET Nat
    BY <1>1
  <2>2. S # {}
    BY <1>2
  <2> HIDE DEF S
  <2> QED BY <2>1, <2>2, LeastOf
<1>4. \A j \in 0..(k - 1) : list[(counter + j) % Slots].used
  <2> TAKE j \in 0..(k - 1)
  <2>1. j \notin S /\ j \in 0..(Slots - 1)
    BY <1>1, <1>3
  <2> QED BY <2>1
<1> DEFINE i == CHOOSE n \in 0..(Slots - 1) : /\ ~list[(counter + n) % Slots].used
                                              /\ \A j \in 0..(n - 1) : list[(counter + j) % Slots].used
<1>5. k \in 0..(Slots - 1) /\ ~list[(counter + k) % Slots].used
  BY <1>3
<1> HIDE DEF k, S
<1>6. i \in 0..(Slots - 1) /\ ~list[(counter + i) % Slots].used
  BY <1>4, <1>5
<1>7. Messages!NextSlot = (counter + i) % Slots
  BY DEF Messages!NextSlot
<1> HIDE DEF i
<1>8. (counter + i) % Slots \in 0..(Slots - 1)
  BY <1>1, <1>6
<1> QED BY <1>6, <1>7, <1>8 DEF Messages!Id

SlotsInv == SlotsOK /\ MakingOK /\ AllFilled

\* What is known stays known.
Learned == \A m : Known(m) => Known(m)'

LEMMA SlotsSame ==
  ASSUME SlotsInv, UNCHANGED <<list, counter, making, found, linked>>
  PROVE  SlotsInv' /\ Learned /\ \A i : Filled(i)' = Filled(i)
BY DEF SlotsInv, SlotsOK, MakingOK, AllFilled, Filled, Learned, Known, Messages!Message, Messages!Made, Messages!Making

LEMMA SlotTyped ==
  ASSUME SlotsOK, NEW i \in Messages!Id
  PROVE  /\ list[i] = [used |-> list[i].used, data |-> list[i].data] /\ list[i].used \in BOOLEAN
         /\ list[i].data # Nobody => list[i].data \in Messages!Message
BY DEF SlotsOK

LEMMA InitSlots ==
  ASSUME SlotsInv, NEW t \in Train, Messages!InitMessage(t)
  PROVE  /\ SlotsInv' /\ Learned /\ \A i \in Messages!Id : Filled(i)' <=> Filled(i)
         /\ making = Nobody /\ making' # Nobody /\ ~making'.sent
         /\ \A i \in Messages!Id : list'[i].data = list[i].data
<1> DEFINE k == Messages!NextSlot
           new == [id |-> k, train |-> t, sent |-> FALSE]
<1>1. /\ making = Nobody /\ t \notin found /\ \E i \in Messages!Id : ~list[i].used
      /\ making' = new /\ list' = [list EXCEPT ![k].used = TRUE] /\ counter' = (k + 1) % Slots
      /\ found' = found \cup {t} /\ linked' = linked
  BY DEF Messages!InitMessage
<1>2. k \in Messages!Id /\ ~list[k].used
  BY <1>1, NextFree DEF SlotsInv
<1> HIDE DEF k
<1>3. new \in Messages!Made /\ new # Nobody /\ new.id = k /\ new.train = t /\ ~new.sent
  <2>1. new \in Messages!Made
    BY <1>2 DEF Messages!Made
  <2> QED BY <2>1, Nothing
<1> HIDE DEF new
<1>4. /\ \A i \in Messages!Id : list'[i].data = list[i].data /\ (i # k => list'[i] = list[i])
      /\ list'[k].used
      /\ list' \in [Messages!Id -> [used : BOOLEAN, data : Messages!Message \cup {Nobody}]]
  <2> DEFINE D == Messages!Message \cup {Nobody}
  <2>1. list \in [Messages!Id -> [used : BOOLEAN, data : D]]
    BY DEF SlotsInv, SlotsOK
  <2> HIDE DEF D
  <2>2. list' = [list EXCEPT ![k].used = TRUE]
    BY <1>1
  <2>3. list' \in [Messages!Id -> [used : BOOLEAN, data : D]]
    BY <1>2, <2>1, <2>2
  <2>4. \A i \in Messages!Id : list'[i].data = list[i].data /\ (i # k => list'[i] = list[i])
    BY <1>2, <2>1, <2>2
  <2>5. list'[k].used
    BY <1>2, <2>1, <2>2
  <2> QED BY <2>3, <2>4, <2>5 DEF D
<1>5. \A i \in Messages!Id : Filled(i)' <=> Filled(i)
  BY <1>1, <1>2, <1>3, <1>4 DEF Filled
<1>6. counter' \in Messages!Id
  <2>1. Slots \in Nat /\ Slots > 0 /\ k + 1 \in Nat
    BY <1>2, Nothing DEF Messages!Id
  <2> QED BY <1>1, <2>1 DEF Messages!Id
<1>7. linked[t] = Nobody
  BY <1>1 DEF SlotsInv, SlotsOK
<1>8. SlotsOK'
  <2>1. \A i \in Messages!Id :
          /\ list'[i].data # Nobody => list'[i].data.id = i /\ list'[i].data.train \in found'
          /\ Filled(i)' => list'[i].data # Nobody
          /\ list'[i].data # Nobody => (Filled(i)' <=> linked'[list'[i].data.train] = Nobody)
    BY <1>1, <1>4, <1>5 DEF SlotsInv, SlotsOK
  <2>2. \A i, j \in Messages!Id :
          Filled(i)' /\ Filled(j)' /\ list'[i].data.train = list'[j].data.train => i = j
    BY <1>4, <1>5 DEF SlotsInv, SlotsOK
  <2>3. linked' \in [Train -> Messages!Unit \cup {Nobody}] /\ found' \subseteq Train
        /\ \A s \in Train \ found' : linked'[s] = Nobody
    BY <1>1 DEF SlotsInv, SlotsOK
  <2> QED BY <1>4, <1>6, <2>1, <2>2, <2>3 DEF SlotsOK, Messages!Id, Messages!Message, Messages!Unit
<1>9. MakingOK'
  <2>1. \A i \in Messages!Id : Filled(i)' => list'[i].data.train # t
    BY <1>1, <1>4, <1>5 DEF SlotsInv, SlotsOK
  <2> QED BY <1>1, <1>3, <1>4, <1>7, <2>1 DEF MakingOK, Messages!Made, Messages!Id
<1>10. AllFilled'
  BY <1>1, <1>3, <1>4, <1>5 DEF SlotsInv, AllFilled, Messages!Id
<1>11. Learned
  <2> SUFFICES ASSUME NEW m, Known(m) PROVE Known(m)'
    BY DEF Learned
  <2>1. m \in Messages!Message /\ m.train \in found /\ m.id \in Messages!Id
        /\ (linked[m.train] # Nobody \/ list[m.id] = [used |-> TRUE, data |-> m])
    BY <1>1 DEF Known, Messages!Message
  <2>2. list[m.id] = [used |-> TRUE, data |-> m] => m.id # k
    BY <1>2
  <2> QED BY <1>1, <1>4, <2>1, <2>2 DEF Known, Messages!Message, Messages!Id
<1> QED BY <1>1, <1>3, <1>4, <1>5, <1>8, <1>9, <1>10, <1>11 DEF SlotsInv

LEMMA SendSlots ==
  ASSUME SlotsInv, Messages!SendMessage
  PROVE  /\ SlotsInv' /\ Learned /\ \A i : Filled(i)' <=> Filled(i)
         /\ making \in Messages!Made /\ making'.sent /\ ~making.sent /\ making' # Nobody
         /\ making'.id = making.id /\ Messages!Making' = Messages!Making /\ list' = list
         /\ Messages!Making = [id |-> making.id, train |-> making.train]
<1>1. /\ making # Nobody /\ ~making.sent /\ making' = [making EXCEPT !.sent = TRUE]
      /\ UNCHANGED <<list, counter, found, linked>>
  BY DEF Messages!SendMessage
<1>2. making \in Messages!Made /\ making.id \in Messages!Id
  BY <1>1 DEF SlotsInv, MakingOK, Messages!Made
<1>3. making' \in Messages!Made /\ making'.id = making.id /\ making'.train = making.train /\ making'.sent
  BY <1>1, <1>2 DEF Messages!Made
<1>4. making' # Nobody
  BY <1>3, Nothing
<1>5. Messages!Making' = Messages!Making
  BY <1>3 DEF Messages!Making
<1>6. \A i : Filled(i)' <=> Filled(i)
  BY <1>1, <1>3, <1>4 DEF Filled
<1>7. SlotsOK'
  BY <1>1, <1>6 DEF SlotsInv, SlotsOK, Messages!Message
<1>8. MakingOK'
  BY <1>1, <1>3, <1>6 DEF SlotsInv, MakingOK, Messages!Made
<1>9. AllFilled'
  BY <1>1, <1>3, <1>4, <1>6 DEF SlotsInv, AllFilled
<1>10. Learned
  BY <1>1, <1>4, <1>5 DEF Learned, Known, Messages!Message
<1> QED BY <1>1, <1>2, <1>3, <1>4, <1>5, <1>6, <1>7, <1>8, <1>9, <1>10 DEF SlotsInv, Messages!Making

\* WS_add_Message fills the slot that was taken.
LEMMA AddSlots ==
  ASSUME SlotsInv, Messages!AddMessage
  PROVE  /\ SlotsInv' /\ Learned /\ making \in Messages!Made /\ making.sent /\ making # Nobody /\ making' = Nobody
         /\ \A i \in Messages!Id : Filled(i)' <=> Filled(i) \/ i = making.id
         /\ list'[making.id].data = Messages!Making /\ ~Filled(making.id)
         /\ \A i \in Messages!Id : i # making.id => list'[i] = list[i]
<1> DEFINE k == making.id
           m == Messages!Making
<1>1. /\ making # Nobody /\ making.sent /\ making' = Nobody /\ list' = [list EXCEPT ![k].data = m]
      /\ UNCHANGED <<counter, found, linked>>
  BY DEF Messages!AddMessage
<1>2. /\ making \in Messages!Made /\ k \in Messages!Id /\ list[k].used
      /\ making.train \in found /\ making.train \in Train /\ linked[making.train] = Nobody
      /\ \A i \in Messages!Id : Filled(i) => list[i].data.train # making.train
  BY <1>1 DEF SlotsInv, MakingOK, Messages!Made
<1>3. m \in Messages!Message /\ m.id = k /\ m.train = making.train /\ m # Nobody
  <2>1. m \in Messages!Message /\ m.id = k /\ m.train = making.train
    BY <1>2 DEF Messages!Making, Messages!Message
  <2> QED BY <2>1, Nothing
<1>4. ~Filled(k)
  BY <1>1 DEF Filled
<1> HIDE DEF m
<1>5. /\ list' \in [Messages!Id -> [used : BOOLEAN, data : Messages!Message \cup {Nobody}]]
      /\ list'[k].data = m /\ list'[k].used /\ list'[k] = [used |-> TRUE, data |-> m]
      /\ \A i \in Messages!Id : i # k => list'[i] = list[i]
  <2> DEFINE D == Messages!Message \cup {Nobody}
  <2>1. list \in [Messages!Id -> [used : BOOLEAN, data : D]] /\ m \in D
    BY <1>3 DEF SlotsInv, SlotsOK
  <2> HIDE DEF D
  <2>2. list[k] \in [used : BOOLEAN, data : D] /\ list[k].used = TRUE
    BY <1>2, <2>1
  <2>3. list'[k] = [used |-> TRUE, data |-> m]
    BY <1>1, <1>2, <2>1, <2>2
  <2>4. list' \in [Messages!Id -> [used : BOOLEAN, data : D]]
    BY <1>1, <1>2, <2>1
  <2>5. \A i \in Messages!Id : i # k => list'[i] = list[i]
    BY <1>1, <2>1
  <2> QED BY <2>3, <2>4, <2>5 DEF D
<1>6. \A i \in Messages!Id : Filled(i)' <=> Filled(i) \/ i = k
  BY <1>1, <1>5 DEF Filled
<1>7. SlotsOK'
  <2>1. ASSUME NEW i \in Messages!Id
        PROVE  /\ list'[i].data # Nobody => list'[i].data.id = i /\ list'[i].data.train \in found'
               /\ Filled(i)' => list'[i].data # Nobody
               /\ list'[i].data # Nobody => (Filled(i)' <=> linked'[list'[i].data.train] = Nobody)
    <3>1. CASE i = k
      BY <1>1, <1>2, <1>3, <1>5, <1>6, <3>1
    <3>2. CASE i # k
      BY <1>1, <1>5, <1>6, <3>2 DEF SlotsInv, SlotsOK
    <3> QED BY <3>1, <3>2
  <2>2. ASSUME NEW i \in Messages!Id, NEW j \in Messages!Id,
               Filled(i)', Filled(j)', list'[i].data.train = list'[j].data.train
        PROVE  i = j
    <3>1. CASE i = k \/ j = k
      BY <1>2, <1>3, <1>5, <1>6, <2>2, <3>1
    <3>2. CASE i # k /\ j # k
      BY <1>5, <1>6, <2>2, <3>2 DEF SlotsInv, SlotsOK
    <3> QED BY <3>1, <3>2
  <2>3. counter' \in Messages!Id /\ linked' \in [Train -> Messages!Unit \cup {Nobody}] /\ found' \subseteq Train
        /\ \A s \in Train \ found' : linked'[s] = Nobody
    BY <1>1 DEF SlotsInv, SlotsOK
  <2> QED BY <1>5, <2>1, <2>2, <2>3 DEF SlotsOK, Messages!Id, Messages!Message, Messages!Unit
<1>8. MakingOK'
  BY <1>1 DEF MakingOK
<1>9. AllFilled'
  <2> SUFFICES ASSUME NEW t \in found, linked[t] = Nobody
               PROVE  \E i \in Messages!Id : Filled(i)' /\ list'[i].data.train = t
    BY <1>1 DEF AllFilled
  <2>1. CASE making.train = t
    BY <1>2, <1>3, <1>5, <1>6, <2>1
  <2>2. CASE making.train # t
    <3>1. PICK i \in Messages!Id : Filled(i) /\ list[i].data.train = t
      BY <2>2 DEF SlotsInv, AllFilled
    <3> QED BY <1>4, <1>5, <1>6, <3>1
  <2> QED BY <2>1, <2>2
<1>10. Learned
  <2> SUFFICES ASSUME NEW x, Known(x) PROVE Known(x)'
    BY DEF Learned
  <2>1. x \in Messages!Message /\ x.train \in found /\ x.id \in Messages!Id
    BY DEF Known, Messages!Message
  <2>2. CASE linked[x.train] # Nobody
    BY <1>1, <2>1, <2>2 DEF Known, Messages!Message
  <2>3. CASE list[x.id] = [used |-> TRUE, data |-> x] /\ linked[x.train] = Nobody
    <3>1. x # Nobody
      BY <2>1, Nothing
    <3>2. list[x.id].data = x
      BY <2>3
    <3>3. Filled(x.id)
      BY <2>1, <2>3, <3>1, <3>2 DEF SlotsInv, SlotsOK
    <3>4. list'[x.id] = list[x.id]
      BY <1>4, <1>5, <2>1, <3>3
    <3> QED BY <1>1, <2>1, <2>3, <3>4 DEF Known, Messages!Message
  <2>4. CASE x = m
    BY <1>1, <1>3, <1>5, <2>1, <2>4 DEF Known, Messages!Message
  <2> QED BY <2>2, <2>3, <2>4 DEF Known, m
<1> QED BY <1>1, <1>2, <1>4, <1>5, <1>6, <1>7, <1>8, <1>9, <1>10 DEF SlotsInv, m

\* A train is linked once, and its message goes.
LEMMA LinkSlots ==
  ASSUME SlotsInv, making = Nobody, UNCHANGED <<counter, making, found>>,
         NEW q \in [id : Messages!Id, train : Train, unit : Messages!Unit],
         Known([id |-> q.id, train |-> q.train]), Messages!CanLink(q.train, q.unit),
         linked' = [linked EXCEPT ![q.train] = q.unit], list' = [list EXCEPT ![q.id].used = FALSE]
  PROVE  /\ SlotsInv' /\ Learned
         /\ \A i \in Messages!Id : Filled(i)' <=> Filled(i) /\ i # q.id
         /\ \A i \in Messages!Id : list'[i].data = list[i].data
<1> DEFINE m == [id |-> q.id, train |-> q.train]
<1>1. /\ q.id \in Messages!Id /\ q.train \in Train /\ q.unit \in Messages!Unit /\ q.unit # Nobody
      /\ linked[q.train] = Nobody /\ m \in Messages!Message /\ q.train \in found
  BY Nothing DEF Messages!CanLink, Known
<1>2. list[q.id] = [used |-> TRUE, data |-> m] /\ m # Nobody
  BY <1>1, Nothing DEF Known
<1>3. Filled(q.id) /\ list[q.id].data.train = q.train
  BY <1>2 DEF Filled
<1>4. /\ list' \in [Messages!Id -> [used : BOOLEAN, data : Messages!Message \cup {Nobody}]]
      /\ ~list'[q.id].used
      /\ \A i \in Messages!Id : list'[i].data = list[i].data /\ (i # q.id => list'[i] = list[i])
  <2> DEFINE D == Messages!Message \cup {Nobody}
  <2>1. list \in [Messages!Id -> [used : BOOLEAN, data : D]]
    BY DEF SlotsInv, SlotsOK
  <2> HIDE DEF D
  <2>2. list' \in [Messages!Id -> [used : BOOLEAN, data : D]]
    BY <1>1, <2>1
  <2>3. \A i \in Messages!Id : list'[i].data = list[i].data /\ (i # q.id => list'[i] = list[i])
    BY <1>1, <2>1
  <2>4. ~list'[q.id].used
    BY <1>1, <2>1
  <2> QED BY <2>2, <2>3, <2>4 DEF D
<1>5. /\ linked' \in [Train -> Messages!Unit \cup {Nobody}] /\ linked'[q.train] # Nobody
      /\ \A t \in Train : t # q.train => linked'[t] = linked[t]
  BY <1>1 DEF SlotsInv, SlotsOK
<1>6. \A i \in Messages!Id : Filled(i)' <=> Filled(i) /\ i # q.id
  BY <1>4 DEF Filled
<1>7. \A i \in Messages!Id : i # q.id /\ list[i].data # Nobody => list[i].data.train # q.train
  <2> SUFFICES ASSUME NEW i \in Messages!Id, list[i].data # Nobody, list[i].data.train = q.train PROVE i = q.id
    OBVIOUS
  <2>1. Filled(i)
    BY <1>1 DEF SlotsInv, SlotsOK
  <2> QED BY <1>1, <1>3, <2>1 DEF SlotsInv, SlotsOK
<1>8. SlotsOK'
  <2>1. ASSUME NEW i \in Messages!Id
        PROVE  /\ list'[i].data # Nobody => list'[i].data.id = i /\ list'[i].data.train \in found'
               /\ Filled(i)' => list'[i].data # Nobody
               /\ list'[i].data # Nobody => (Filled(i)' <=> linked'[list'[i].data.train] = Nobody)
    <3>1. CASE i = q.id
      BY <1>2, <1>4, <1>5, <1>6, <3>1 DEF SlotsInv, SlotsOK
    <3>2. CASE i # q.id
      <4>1. list[i].data # Nobody => list[i].data.train \in Train /\ list[i].data.train # q.train
        BY <1>7, <3>2 DEF SlotsInv, SlotsOK
      <4> QED BY <1>4, <1>5, <1>6, <3>2, <4>1 DEF SlotsInv, SlotsOK
    <3> QED BY <3>1, <3>2
  <2>2. \A i, j \in Messages!Id :
          Filled(i)' /\ Filled(j)' /\ list'[i].data.train = list'[j].data.train => i = j
    BY <1>4, <1>6 DEF SlotsInv, SlotsOK
  <2>3. counter' \in Messages!Id /\ found' \subseteq Train /\ \A s \in Train \ found' : linked'[s] = Nobody
    BY <1>1, <1>5 DEF SlotsInv, SlotsOK
  <2> QED BY <1>4, <1>5, <2>1, <2>2, <2>3 DEF SlotsOK, Messages!Id, Messages!Message, Messages!Unit
<1>9. MakingOK'
  BY DEF MakingOK
<1>10. AllFilled'
  <2> SUFFICES ASSUME NEW t \in found, linked'[t] = Nobody
               PROVE  \E i \in Messages!Id : Filled(i)' /\ list'[i].data.train = t
    BY DEF AllFilled
  <2>1. t \in Train /\ t # q.train /\ linked[t] = Nobody
    BY <1>5 DEF SlotsInv, SlotsOK
  <2>2. PICK i \in Messages!Id : Filled(i) /\ list[i].data.train = t
    BY <2>1 DEF SlotsInv, AllFilled
  <2> QED BY <1>3, <1>4, <1>6, <2>1, <2>2
<1>11. Learned
  <2> SUFFICES ASSUME NEW x, Known(x) PROVE Known(x)'
    BY DEF Learned
  <2>1. x \in Messages!Message /\ x.train \in found /\ x.id \in Messages!Id /\ x.train \in Train
        /\ (linked[x.train] # Nobody \/ list[x.id] = [used |-> TRUE, data |-> x])
    BY DEF Known, Messages!Message
  <2>2. CASE x.train = q.train \/ linked[x.train] # Nobody
    BY <1>1, <1>5, <2>1, <2>2 DEF Known, Messages!Message
  <2>3. CASE x.train # q.train /\ list[x.id] = [used |-> TRUE, data |-> x]
    <3>1. x.id # q.id
      BY <1>3, <2>3
    <3> QED BY <1>4, <2>1, <2>3, <3>1 DEF Known, Messages!Message
  <2> QED BY <2>1, <2>2, <2>3
<1> QED BY <1>4, <1>6, <1>8, <1>9, <1>10, <1>11 DEF SlotsInv


-----------------------------------------------------------------------------
(* What pages are told and draw                                            *)

LEMMA AnnouncedMore ==
  ASSUME NEW line, NEW on, NEW K, Announced(line, "open", on, K), NEW m,
         m.op \in {"NewMessage", "ClearMessage", "LinkTrain", "libraries"}, m.op = "NewMessage" => m.msg \in K
  PROVE  Announced(Append(line, m), "open", on, K)
<1> DEFINE more == Append(line, m)
<1>1. /\ Line(line) /\ Line(more) /\ DOMAIN more = 1..(Len(line) + 1) /\ DOMAIN line = 1..Len(line)
      /\ \A i \in 1..Len(line) : more[i] = line[i]
      /\ more[Len(line) + 1] = m /\ Len(line) \in Nat /\ Len(more) = Len(line) + 1
  BY LineAppend DEF Announced, Line
<1>2. ~on => 1 \in DOMAIN line
  <2>1. ~on => line # <<>>
    BY DEF Announced
  <2> QED BY <1>1, <2>1, LineTail
<1>3. more # <<>>
  BY <1>1, EmptyLine
<1> HIDE DEF more
<1>4. ASSUME NEW n \in DOMAIN more
      PROVE  /\ more[n].op \in {"open", "NewMessage", "ClearMessage", "LinkTrain", "libraries"}
             /\ more[n].op = "open" <=> n = 1 /\ ~on
             /\ more[n].op = "NewMessage" => more[n].msg \in K
  <2>1. CASE n = Len(line) + 1
    BY <1>1, <1>2, <2>1
  <2>2. CASE n \in 1..Len(line)
    BY <1>1, <2>2 DEF Announced
  <2> QED BY <1>1, <2>1, <2>2
<1> QED BY <1>1, <1>3, <1>4 DEF Announced, more

LEMMA ToldTail ==
  ASSUME NEW line, NEW on, NEW K, Announced(line, "open", on, K), line # <<>>
  PROVE  /\ Announced(Tail(line), "open", TRUE, K)
         /\ Head(line).op \in {"open", "NewMessage", "ClearMessage", "LinkTrain", "libraries"}
         /\ Head(line).op = "open" <=> ~on
         /\ Head(line).op = "NewMessage" => Head(line).msg \in K
<1> DEFINE rest == Tail(line)
<1>1. /\ Line(rest) /\ 1 \in DOMAIN line /\ Head(line) = line[1]
      /\ DOMAIN rest = 1..(Len(line) - 1) /\ Len(line) \in Nat
      /\ \A i \in DOMAIN rest : i + 1 \in DOMAIN line /\ rest[i] = line[i + 1]
  BY LineTail DEF Announced, Line
<1> HIDE DEF rest
<1>2. ASSUME NEW n \in DOMAIN rest
      PROVE  /\ rest[n].op \in {"NewMessage", "ClearMessage", "LinkTrain", "libraries"}
             /\ rest[n].op = "NewMessage" => rest[n].msg \in K
  <2>1. n + 1 \in DOMAIN line /\ rest[n] = line[n + 1] /\ n + 1 # 1
    BY <1>1
  <2> QED BY <2>1 DEF Announced
<1>3. Announced(rest, "open", TRUE, K)
  BY <1>1, <1>2 DEF Announced
<1> QED BY <1>1, <1>3 DEF Announced, rest

LEMMA ToldKnown ==
  ASSUME NEW line, NEW w, NEW on, NEW K, NEW L, K \subseteq L, Announced(line, w, on, K)
  PROVE  Announced(line, w, on, L)
BY DEF Announced

LEMMA DrawnKnown ==
  ASSUME NEW d, NEW m, NEW on, NEW K, NEW L, K \subseteq L, Drawn(d, m, on, K)
  PROVE  Drawn(d, m, on, L)
BY DEF Drawn

LEMMA KnownsGrow ==
  ASSUME Learned
  PROVE  Knowns \subseteq Knowns'
BY DEF Learned, Knowns, Messages!Message, Messages!Id

LEMMA AskedKnown ==
  ASSUME AskedLinks, Learned, UNCHANGED fromPages
  PROVE  AskedLinks'
<1> SUFFICES ASSUME NEW p \in Page, fromPages[p] # <<>>
             PROVE  \E q \in [id : Messages!Id, train : Train, unit : Messages!Unit] :
                      fromPages[p] = <<q>> /\ Known([id |-> q.id, train |-> q.train])'
  BY DEF AskedLinks, Messages!Id, Messages!Unit
<1>1. PICK q \in [id : Messages!Id, train : Train, unit : Messages!Unit] :
        fromPages[p] = <<q>> /\ Known([id |-> q.id, train |-> q.train])
  BY DEF AskedLinks
<1> DEFINE x == [id |-> q.id, train |-> q.train]
<1>2. Known(x)'
  BY <1>1 DEF Learned
<1> QED BY <1>1, <1>2

PagesInv == ToldPages /\ AskedLinks /\ DrawnOK

\* Steps of which no open page learns
LEMMA QuietPages ==
  ASSUME PagesInv, Learned, UNCHANGED <<toPages, fromPages, messages, drawn, online>>,
         \A p \in Page : ws'[p] = "open" <=> ws[p] = "open"
  PROVE  PagesInv'
<1>1. Knowns \subseteq Knowns'
  BY KnownsGrow
<1>2. ASSUME NEW p \in Page PROVE Announced(toPages'[p], ws'[p], online'[p], Knowns')
  <2>1. Announced(toPages[p], ws'[p], online[p], Knowns)
    BY DEF PagesInv, ToldPages, Announced
  <2> QED BY <1>1, <2>1, ToldKnown
<1>3. ASSUME NEW p \in Page PROVE Drawn(drawn'[p], messages'[p], online'[p], Knowns')
  <2>1. Drawn(drawn[p], messages[p], online[p], Knowns)
    BY DEF PagesInv, DrawnOK
  <2> QED BY <1>1, <2>1, DrawnKnown
<1>4. AskedLinks'
  BY AskedKnown DEF PagesInv
<1> QED BY <1>2, <1>3, <1>4 DEF PagesInv, ToldPages, DrawnOK

\* A message, or two, to some open pages
LEMMA TellPages ==
  ASSUME ToldPages, DrawnOK, Learned, UNCHANGED <<messages, drawn, online, ws>>,
         NEW To \in SUBSET Page, \A p \in To : ws[p] = "open", NEW m,
         m.op \in {"NewMessage", "ClearMessage", "LinkTrain", "libraries"}, m.op = "NewMessage" => Known(m.msg)',
         NEW more, more = m \/ more.op \in {"ClearMessage", "LinkTrain"},
         \A p \in Page : toPages'[p] = IF p \notin To THEN toPages[p]
                                       ELSE IF more = m THEN Append(toPages[p], m)
                                       ELSE Append(Append(toPages[p], m), more)
  PROVE  ToldPages' /\ DrawnOK'
<1>1. Knowns \subseteq Knowns' /\ (m.op = "NewMessage" => m.msg \in Knowns')
  BY KnownsGrow DEF Knowns, Known
<1>2. ASSUME NEW p \in Page PROVE Announced(toPages'[p], ws'[p], online'[p], Knowns')
  <2>1. Announced(toPages[p], ws[p], online[p], Knowns')
    BY <1>1, ToldKnown DEF ToldPages
  <2>2. CASE p \in To
    <3>1. Announced(Append(toPages[p], m), "open", online[p], Knowns')
      BY <1>1, <2>1, <2>2, AnnouncedMore
    <3>2. more # m => Announced(Append(Append(toPages[p], m), more), "open", online[p], Knowns')
      BY <3>1, AnnouncedMore
    <3> QED BY <2>2, <3>1, <3>2
  <2>3. CASE p \notin To
    BY <2>1, <2>3
  <2> QED BY <2>2, <2>3
<1>3. ASSUME NEW p \in Page PROVE Drawn(drawn'[p], messages'[p], online'[p], Knowns')
  <2>1. Drawn(drawn[p], messages[p], online[p], Knowns)
    BY DEF DrawnOK
  <2> QED BY <1>1, <2>1, DrawnKnown
<1> QED BY <1>2, <1>3 DEF ToldPages, DrawnOK

\* The server owes the pages what it owed them.
LEMMA QuietDue ==
  ASSUME AllDue, UNCHANGED drawn,
         \A p \in Page : ws'[p] = "open" => ws[p] = "open" /\ toPages'[p] = toPages[p]
                                            /\ \A i \in Messages!Id : Due(p, i)' = Due(p, i)
  PROVE  AllDue'
<1> SUFFICES ASSUME NEW p \in Page, ws'[p] = "open", NEW i \in Messages!Id
             PROVE  Shows(toPages'[p], i, InSlot(p, i)', Due(p, i)')
  BY DEF AllDue, Messages!Id
<1>1. InSlot(p, i)' = InSlot(p, i)
  BY DEF InSlot
<1> QED BY <1>1 DEF AllDue

LEMMA TellDue ==
  ASSUME AllDue, ToldPages, UNCHANGED <<drawn, ws>>,
         NEW To \in SUBSET Page, \A p \in To : ws[p] = "open", NEW m,
         NEW more, more = m \/ \A i \in Messages!Id : ~AboutSlot(m, i),
         \A p \in Page : toPages'[p] = IF p \notin To THEN toPages[p]
                                       ELSE IF more = m THEN Append(toPages[p], m)
                                       ELSE Append(Append(toPages[p], m), more),
         \A p \in Page, i \in Messages!Id : ws[p] = "open" =>
           Due(p, i)' = IF p \in To /\ AboutSlot(more, i) THEN Gives(more) ELSE Due(p, i)
  PROVE  AllDue'
<1> SUFFICES ASSUME NEW p \in Page, ws'[p] = "open", NEW i \in Messages!Id
             PROVE  Shows(toPages'[p], i, InSlot(p, i)', Due(p, i)')
  BY DEF AllDue, Messages!Id
<1> DEFINE old == InSlot(p, i)
           line == toPages[p]
<1>1. InSlot(p, i)' = old
  BY DEF InSlot
<1>2. Shows(line, i, old, Due(p, i)) /\ Line(line)
  BY DEF AllDue, ToldPages, Announced
<1>3. CASE p \notin To
  BY <1>1, <1>2, <1>3
<1>4. CASE p \in To /\ more = m
  <2>1. Shows(Append(line, m), i, old, Due(p, i)')
    BY <1>2, <1>4, ShowsAppend
  <2> QED BY <1>1, <1>4, <2>1
<1>5. CASE p \in To /\ more # m
  <2>1. Shows(Append(line, m), i, old, Due(p, i)) /\ Line(Append(line, m))
    BY <1>2, <1>5, ShowsAppend, LineAppend
  <2>2. Shows(Append(Append(line, m), more), i, old, Due(p, i)')
    BY <1>5, <2>1, ShowsAppend
  <2> QED BY <1>1, <1>5, <2>2
<1> QED BY <1>3, <1>4, <1>5

LEMMA TellOne ==
  ASSUME ToldPages, DrawnOK, Learned, UNCHANGED <<messages, drawn, online, ws>>,
         NEW To \in SUBSET Page, \A p \in To : ws[p] = "open", NEW m,
         m.op \in {"NewMessage", "ClearMessage", "LinkTrain", "libraries"}, m.op = "NewMessage" => Known(m.msg)',
         \A p \in Page : toPages'[p] = IF p \notin To THEN toPages[p] ELSE Append(toPages[p], m)
  PROVE  ToldPages' /\ DrawnOK'
<1>1. \A p \in Page : toPages'[p] = IF p \notin To THEN toPages[p]
                                    ELSE IF m = m THEN Append(toPages[p], m)
                                    ELSE Append(Append(toPages[p], m), m)
  OBVIOUS
<1>2. m = m \/ m.op \in {"ClearMessage", "LinkTrain"}
  OBVIOUS
<1> QED BY <1>1, <1>2, TellPages

LEMMA DueOne ==
  ASSUME AllDue, ToldPages, UNCHANGED <<drawn, ws>>,
         NEW To \in SUBSET Page, \A p \in To : ws[p] = "open", NEW m,
         \A p \in Page : toPages'[p] = IF p \notin To THEN toPages[p] ELSE Append(toPages[p], m),
         \A p \in Page, i \in Messages!Id : ws[p] = "open" =>
           Due(p, i)' = IF p \in To /\ AboutSlot(m, i) THEN Gives(m) ELSE Due(p, i)
  PROVE  AllDue'
<1>1. \A p \in Page : toPages'[p] = IF p \notin To THEN toPages[p]
                                    ELSE IF m = m THEN Append(toPages[p], m)
                                    ELSE Append(Append(toPages[p], m), m)
  OBVIOUS
<1>2. m = m \/ \A i \in Messages!Id : ~AboutSlot(m, i)
  OBVIOUS
<1> QED BY <1>1, <1>2, TellDue

Opens == {p \in Page : ws[p] = "open"}

LEMMA SentAll ==
  ASSUME SocketsInv, ToldPages, NEW m, toPages' = Messages!SendAll(<<m>>, toPages)
  PROVE  \A p \in Page : toPages'[p] = IF p \notin Opens THEN toPages[p] ELSE Append(toPages[p], m)
<1> TAKE p \in Page
<1>1. Messages!Reached(p) <=> p \in Opens
  BY ReachedOpen DEF SocketsInv, Opens
<1>2. toPages[p] \o <<m>> = Append(toPages[p], m)
  BY ConcatOne DEF ToldPages, Announced
<1> QED BY <1>1, <1>2 DEF Messages!SendAll

LEMMA SentBoth ==
  ASSUME SocketsInv, ToldPages, NEW m, NEW more, toPages' = Messages!SendAll(<<m, more>>, toPages)
  PROVE  \A p \in Page : toPages'[p] = IF p \notin Opens THEN toPages[p] ELSE Append(Append(toPages[p], m), more)
<1> TAKE p \in Page
<1>1. Messages!Reached(p) <=> p \in Opens
  BY ReachedOpen DEF SocketsInv, Opens
<1>2. toPages[p] \o <<m, more>> = Append(Append(toPages[p], m), more)
  BY ConcatTwo DEF ToldPages, Announced
<1> QED BY <1>1, <1>2 DEF Messages!SendAll

LEMMA SentMine ==
  ASSUME SocketsInv, ToldPages, DOMAIN toPages = Page, NEW m, Messages!SendMine(<<m>>),
         greeting # Nobody, greeting.next # "handshake"
  PROVE  \A p \in Page : toPages'[p] = IF p \notin Opens \cap {greeting.page} THEN toPages[p]
                                       ELSE Append(toPages[p], m)
<1>1. clients[Messages!Mine].up <=> ws[greeting.page] = "open"
  BY MineOpen DEF SocketsInv
<1>2. greeting.page \in Page
  BY DEF SocketsInv, GreetOK, Messages!Greeting
<1>3. toPages[greeting.page] \o <<m>> = Append(toPages[greeting.page], m)
  BY <1>2, ConcatOne DEF ToldPages, Announced
<1>4. toPages' = IF clients[Messages!Mine].up
                 THEN [toPages EXCEPT ![greeting.page] = toPages[greeting.page] \o <<m>>] ELSE toPages
  BY DEF Messages!SendMine
<1> QED BY <1>1, <1>2, <1>3, <1>4 DEF Opens


-----------------------------------------------------------------------------
(* The steps of the algorithm thread and of the accept thread              *)

\* Each page has its lines, its messages and what it draws.
PagesOf == DOMAIN toPages = Page /\ DOMAIN fromPages = Page /\ DOMAIN messages = Page /\ DOMAIN drawn = Page

LEMMA PagesOfAll ==
  ASSUME PagesOf, Messages!Next
  PROVE  PagesOf'
<1>2. ASSUME NEW t \in Train, Messages!InitMessage(t) PROVE PagesOf'
  BY <1>2 DEF PagesOf, Messages!InitMessage, Messages!pageVars, Messages!channels
<1>3. CASE Messages!SendMessage
  BY <1>3 DEF PagesOf, Messages!SendMessage, Messages!pageVars, Messages!SendAll
<1>4. CASE Messages!AddMessage
  BY <1>4 DEF PagesOf, Messages!AddMessage, Messages!pageVars, Messages!channels
<1>5. ASSUME NEW p \in Page, Messages!Accept(p) PROVE PagesOf'
  BY <1>5 DEF PagesOf, Messages!Accept, Messages!pageVars, Messages!channels
<1>6. CASE Messages!Handshake
  BY <1>6 DEF PagesOf, Messages!Handshake, Messages!pageVars
<1>7. CASE Messages!TestSlot
  BY <1>7 DEF PagesOf, Messages!TestSlot, Messages!pageVars, Messages!channels
<1>8. CASE Messages!SendSlot
  <2>1. DOMAIN toPages' = DOMAIN toPages /\ UNCHANGED <<fromPages, messages, drawn>>
    BY <1>8 DEF Messages!SendSlot, Messages!SendMine, Messages!pageVars
  <2> QED BY <2>1 DEF PagesOf
<1>9. CASE Messages!SendLibraries
  BY <1>9 DEF PagesOf, Messages!SendLibraries, Messages!SendMine, Messages!pageVars
<1>10. ASSUME NEW t \in Train, Messages!SendLink(t) PROVE PagesOf'
  BY <1>10 DEF PagesOf, Messages!SendLink, Messages!pageVars, Messages!SendAll
<1>11. CASE Messages!Joined
  BY <1>11 DEF PagesOf, Messages!Joined, Messages!pageVars, Messages!channels
<1>12. CASE Messages!ClearUnused
  BY <1>12 DEF PagesOf, Messages!ClearUnused, Messages!pageVars, Messages!channels
<1>13. ASSUME NEW p \in Page, Messages!LinkTrain(p) PROVE PagesOf'
  <2>1. DOMAIN fromPages' = DOMAIN fromPages /\ DOMAIN toPages' = Page /\ UNCHANGED <<messages, drawn>>
    BY <1>13 DEF Messages!LinkTrain, Messages!pageVars, Messages!SendAll
  <2> QED BY <2>1 DEF PagesOf
<1>14. ASSUME NEW p \in Page, Messages!Connect(p) PROVE PagesOf'
  BY <1>14 DEF PagesOf, Messages!Connect, Messages!pageVars, Messages!channels
<1>15. ASSUME NEW p \in Page, Messages!Drop(p) PROVE PagesOf'
  <2>1. DOMAIN fromPages' = DOMAIN fromPages /\ DOMAIN toPages' = DOMAIN toPages
    BY <1>15 DEF Messages!Drop
  <2>2. DOMAIN messages' = DOMAIN messages /\ DOMAIN drawn' = DOMAIN drawn
    BY <1>15 DEF Messages!Drop, Messages!OnDisconnect
  <2> QED BY <2>1, <2>2 DEF PagesOf
<1>16. ASSUME NEW p \in Page, Messages!Receive(p) PROVE PagesOf'
  <2>1. DOMAIN toPages' = DOMAIN toPages /\ UNCHANGED fromPages
    BY <1>16 DEF Messages!Receive
  <2>2. DOMAIN messages' = DOMAIN messages /\ DOMAIN drawn' = DOMAIN drawn
    BY <1>16 DEF Messages!Receive, Messages!OnMessage, Messages!OnConnect
  <2> QED BY <2>1, <2>2 DEF PagesOf
<1>17. ASSUME NEW p \in Page, NEW m \in Messages!Message, NEW u \in Messages!Unit, Messages!RequestLink(p, m, u)
       PROVE  PagesOf'
  BY <1>17 DEF PagesOf, Messages!RequestLink, Messages!pageVars
<1> QED BY <1>2, <1>3, <1>4, <1>5, <1>6, <1>7, <1>8, <1>9, <1>10, <1>11, <1>12, <1>13, <1>14, <1>15,
           <1>16, <1>17 DEF Messages!Next, Messages!Joins

WebInv == SocketsInv /\ SlotsInv /\ PagesInv /\ AllDue

LEMMA StartsMessage ==
  ASSUME ~Preempted, WebInv, NEW t \in Train, Messages!InitMessage(t)
  PROVE  WebInv'
<1>1. greeting = Nobody
  BY NothingElse DEF Messages!InitMessage
<1>2. UNCHANGED <<clients, greeting, ws, retries, online, messages, drawn, toPages, fromPages>>
  BY DEF Messages!InitMessage, Messages!socketVars, Messages!linkVars, Messages!pageVars, Messages!channels
<1>3. /\ SlotsInv' /\ Learned /\ \A i \in Messages!Id : Filled(i)' <=> Filled(i)
      /\ making = Nobody /\ making' # Nobody /\ ~making'.sent
      /\ \A i \in Messages!Id : list'[i].data = list[i].data
  BY InitSlots DEF WebInv
<1>4. SocketsInv'
  BY <1>1, <1>2, OtherSockets DEF WebInv
<1>5. PagesInv'
  BY <1>2, <1>3, QuietPages DEF WebInv
<1>6. \A p \in Page, i \in Messages!Id : Due(p, i)' = Due(p, i)
  BY <1>1, <1>2, <1>3 DEF Due
<1>7. AllDue'
  BY <1>2, <1>6, QuietDue DEF WebInv
<1> QED BY <1>3, <1>4, <1>5, <1>7 DEF WebInv

LEMMA SendsMessage ==
  ASSUME WebInv, Messages!SendMessage
  PROVE  WebInv'
<1>1. greeting = Nobody
  BY DEF WebInv, SocketsInv, GreetOK, Messages!SendMessage
<1>2. /\ UNCHANGED <<greeting, ws, retries, online, messages, drawn, fromPages>>
      /\ clients' = Messages!AfterWrites
  BY DEF Messages!SendMessage, Messages!linkVars, Messages!pageVars
<1> DEFINE m == Messages!NewMsg(Messages!Making)
<1>3. /\ SlotsInv' /\ Learned /\ \A i : Filled(i)' <=> Filled(i)
      /\ making \in Messages!Made /\ making'.sent /\ ~making.sent /\ making' # Nobody /\ making # Nobody
      /\ making'.id = making.id /\ Messages!Making' = Messages!Making /\ list' = list
      /\ Messages!Making = [id |-> making.id, train |-> making.train]
  BY SendSlots DEF WebInv, Messages!SendMessage
<1>4. SocketsInv'
  <2>1. Rewritten
    BY <1>2, WritesKeep DEF WebInv, SocketsInv
  <2> QED BY <1>1, <1>2, <2>1, OtherSockets DEF WebInv
<1>5. toPages' = Messages!SendAll(<<m>>, toPages)
  BY DEF Messages!SendMessage
<1>6. m.op = "NewMessage" /\ m.msg = Messages!Making
  BY DEF Messages!NewMsg
<1> HIDE DEF m
<1>7. \A p \in Page : toPages'[p] = IF p \notin Opens THEN toPages[p] ELSE Append(toPages[p], m)
  BY <1>5, SentAll DEF WebInv, PagesInv
<1>8. Known(Messages!Making)'
  <2>1. /\ Messages!Making \in Messages!Message /\ Messages!Making.train = making.train
        /\ making.train \in found
    BY <1>3 DEF Messages!Made, Messages!Message, WebInv, SlotsInv, MakingOK
  <2>2. found' = found
    BY DEF Messages!SendMessage
  <2> QED BY <1>3, <2>1, <2>2 DEF Known, Messages!Message
<1>9. ToldPages' /\ DrawnOK'
  <2>1. Opens \in SUBSET Page /\ \A p \in Opens : ws[p] = "open"
    BY DEF Opens
  <2> QED BY <1>2, <1>3, <1>6, <1>7, <1>8, <2>1, TellOne DEF WebInv, PagesInv
<1>10. AskedLinks'
  BY <1>2, <1>3, AskedKnown DEF WebInv, PagesInv
<1>11. \A p \in Page, i \in Messages!Id : Due(p, i)' = IF AboutSlot(m, i) THEN Gives(m) ELSE Due(p, i)
  <2> TAKE p \in Page, i \in Messages!Id
  <2>1. AboutSlot(m, i) <=> i = making.id
    BY <1>3, <1>6 DEF AboutSlot
  <2>2. Gives(m) = {Messages!Making}
    BY <1>6 DEF Gives
  <2>3. i = making.id => ~Filled(i)
    BY <1>3 DEF Filled
  <2>4. Due(p, i)' = IF Filled(i)' THEN {list'[i].data} ELSE IF i = making'.id THEN {Messages!Making'} ELSE {}
    BY <1>1, <1>2, <1>3 DEF Due
  <2>5. Due(p, i) = IF Filled(i) THEN {list[i].data} ELSE {}
    BY <1>1, <1>3 DEF Due
  <2> QED BY <1>3, <2>1, <2>2, <2>3, <2>4, <2>5
<1>12. AllDue'
  <2>1. Opens \in SUBSET Page /\ \A p \in Opens : ws[p] = "open"
    BY DEF Opens
  <2>2. \A p \in Page : ws[p] = "open" => p \in Opens
    BY DEF Opens
  <2> QED BY <1>2, <1>7, <1>11, <2>1, <2>2, DueOne DEF WebInv, PagesInv
<1> QED BY <1>3, <1>4, <1>9, <1>10, <1>12 DEF WebInv, PagesInv

LEMMA AddsMessage ==
  ASSUME WebInv, Messages!AddMessage
  PROVE  WebInv'
<1>1. greeting = Nobody
  BY DEF WebInv, SocketsInv, GreetOK, Messages!AddMessage
<1>2. UNCHANGED <<clients, greeting, ws, retries, online, messages, drawn, toPages, fromPages>>
  BY DEF Messages!AddMessage, Messages!socketVars, Messages!linkVars, Messages!pageVars, Messages!channels
<1>3. /\ SlotsInv' /\ Learned /\ making \in Messages!Made /\ making.sent /\ making # Nobody /\ making' = Nobody
      /\ \A i \in Messages!Id : Filled(i)' <=> Filled(i) \/ i = making.id
      /\ list'[making.id].data = Messages!Making /\ ~Filled(making.id)
      /\ \A i \in Messages!Id : i # making.id => list'[i] = list[i]
  BY AddSlots DEF WebInv
<1>4. SocketsInv'
  BY <1>1, <1>2, OtherSockets DEF WebInv
<1>5. PagesInv'
  BY <1>2, <1>3, QuietPages DEF WebInv
<1>6. \A p \in Page, i \in Messages!Id : Due(p, i)' = Due(p, i)
  BY <1>1, <1>2, <1>3 DEF Due
<1>7. AllDue'
  BY <1>2, <1>6, QuietDue DEF WebInv
<1> QED BY <1>3, <1>4, <1>5, <1>7 DEF WebInv

\* Steps in which nothing happens to the slots and the lines
LEMMA AllSame ==
  ASSUME WebInv, UNCHANGED <<list, counter, making, found, linked, messages, drawn, online, toPages, fromPages>>
  PROVE  /\ SlotsInv' /\ Learned /\ \A i : Filled(i)' = Filled(i)
         /\ (\A p \in Page : ws'[p] = "open" <=> ws[p] = "open") => PagesInv'
<1>1. SlotsInv' /\ Learned /\ \A i : Filled(i)' = Filled(i)
  BY SlotsSame DEF WebInv
<1> QED BY <1>1, QuietPages DEF WebInv

LEMMA Accepts ==
  ASSUME ~Preempted, WebInv, NEW p \in Page, Messages!Accept(p)
  PROVE  WebInv'
<1>1. UNCHANGED <<list, counter, making, found, linked, ws, messages, drawn, online, toPages, fromPages>>
  BY DEF Messages!Accept, Messages!serverVars, Messages!linkVars, Messages!pageVars, Messages!channels
<1>2. SlotsInv' /\ PagesInv' /\ \A i : Filled(i)' = Filled(i)
  BY <1>1, AllSame
<1>3. SocketsInv'
  BY AcceptSockets DEF WebInv
<1>4. \A q \in Page, i \in Messages!Id : ws[q] = "open" => Due(q, i)' = Due(q, i)
  <2> SUFFICES ASSUME NEW q \in Page, NEW i \in Messages!Id, ws[q] = "open" PROVE Due(q, i)' = Due(q, i)
    OBVIOUS
  <2>1. q # p /\ greeting = Nobody
    BY DEF Messages!Accept
  <2>2. greeting' = Nobody \/ greeting'.page = p
    <3>1. \/ greeting' = [page |-> p, next |-> "handshake", at |-> 0, left |-> {}]
          \/ UNCHANGED <<clients, greeting>>
      BY Zenon DEF Messages!Accept
    <3> QED BY <2>1, <3>1
  <2>3. Messages!Making' = Messages!Making
    BY <1>1 DEF Messages!Making
  <2> QED BY <1>1, <1>2, <2>1, <2>2, <2>3 DEF Due
<1>5. AllDue'
  BY <1>1, <1>4, QuietDue DEF WebInv
<1> QED BY <1>2, <1>3, <1>5 DEF WebInv

LEMMA Handshakes ==
  ASSUME PagesOf, WebInv, Messages!Handshake
  PROVE  WebInv'
<1> DEFINE p == greeting.page
<1>1. /\ UNCHANGED <<list, counter, making, found, linked, messages, drawn, online, fromPages>>
      /\ greeting # Nobody /\ greeting.next = "handshake"
      /\ greeting' = [greeting EXCEPT !.next = "messages"]
      /\ ws' = IF clients[Messages!Mine].up THEN [ws EXCEPT ![p] = "open"] ELSE ws
      /\ toPages' = IF clients[Messages!Mine].up THEN [toPages EXCEPT ![p] = <<[op |-> "open"]>>] ELSE toPages
  BY DEF Messages!Handshake, Messages!serverVars, Messages!pageVars
<1>2. /\ greeting \in Messages!Greeting /\ p \in Page /\ making = Nobody /\ greeting.at = 0
      /\ ~clients[Len(clients)].greeted /\ clients[Len(clients)].page = p
      /\ \A i \in Messages!Live(p) : i = Len(clients)
  BY <1>1 DEF WebInv, SocketsInv, GreetOK, Messages!Greeting
<1>3. Messages!Mine = Len(clients) /\ Len(clients) \in DOMAIN clients
  BY <1>1, MineLast DEF WebInv, SocketsInv
<1>4. ws[p] # "open" /\ (clients[Messages!Mine].up => ~online[p])
  <2>1. CASE clients[Messages!Mine].up
    <3>1. Len(clients) \in Messages!Live(p)
      BY <1>2, <1>3, <2>1 DEF Messages!Live
    <3>2. ws[p] = "connecting"
      BY <1>2, <3>1 DEF WebInv, SocketsInv, SocketsOK
    <3> QED BY <1>2, <3>2 DEF WebInv, SocketsInv, SocketsOK
  <2>2. CASE ~clients[Messages!Mine].up
    <3>1. Messages!Live(p) = {}
      BY <1>2, <1>3, <2>2 DEF Messages!Live
    <3> QED BY <1>2, <2>2, <3>1 DEF WebInv, SocketsInv, SocketsOK
  <2> QED BY <2>1, <2>2
<1>5. SocketsInv'
  BY HandshakeSockets DEF WebInv
<1>6. SlotsInv' /\ Learned /\ \A i : Filled(i)' = Filled(i)
  BY <1>1, SlotsSame DEF WebInv
<1>7. greeting' # Nobody /\ greeting'.page = p /\ greeting'.at = 0
  <2>1. greeting' \in Messages!Greeting /\ greeting'.page = greeting.page /\ greeting'.at = greeting.at
    BY <1>1, <1>2 DEF Messages!Greeting
  <2>2. greeting' # Nobody
    BY <2>1, Nothing
  <2> QED BY <1>2, <2>1, <2>2
<1>8. CASE ~clients[Messages!Mine].up
  <2>1. ws' = ws /\ toPages' = toPages
    BY <1>1, <1>8
  <2>2. PagesInv'
    BY <1>1, <2>1, AllSame
  <2>3. \A q \in Page, i \in Messages!Id : ws[q] = "open" => Due(q, i)' = Due(q, i)
    <3>1. Messages!Making' = Messages!Making
      BY <1>1 DEF Messages!Making
    <3> QED BY <1>1, <1>2, <1>4, <1>6, <1>7, <3>1 DEF Due
  <2>4. AllDue'
    BY <1>1, <2>1, <2>3, QuietDue DEF WebInv
  <2> QED BY <1>5, <1>6, <2>2, <2>4 DEF WebInv
<1>9. CASE clients[Messages!Mine].up
  <2> DEFINE hello == [op |-> "open"]
  <2>1. /\ \A q \in Page : ws'[q] = IF q = p THEN "open" ELSE ws[q]
        /\ \A q \in Page : toPages'[q] = IF q = p THEN <<hello>> ELSE toPages[q]
        /\ ~online[p]
    <3>1. DOMAIN ws = Page /\ DOMAIN toPages = Page
      BY DEF WebInv, SocketsInv, SocketsOK, PagesOf
    <3>2. ws' = [ws EXCEPT ![p] = "open"] /\ toPages' = [toPages EXCEPT ![p] = <<hello>>]
      BY <1>1, <1>9
    <3> QED BY <1>2, <1>4, <1>9, <3>1, <3>2
  <2>2. Line(<<hello>>) /\ <<hello>> # <<>> /\ Len(<<hello>>) = 1 /\ DOMAIN <<hello>> = 1..1 /\ <<hello>>[1] = hello
    <3> HIDE DEF hello
    <3>1. <<hello>> \in Seq({hello})
      OBVIOUS
    <3>2. Line(<<hello>>) /\ DOMAIN <<hello>> = 1..Len(<<hello>>)
      BY <3>1, LineOfSeq
    <3> QED BY <3>2
  <2>3. Knowns \subseteq Knowns'
    BY <1>6, KnownsGrow
  <2>4. ToldPages'
    <3>1. ASSUME NEW q \in Page PROVE Announced(toPages'[q], ws'[q], online'[q], Knowns')
      <4>1. CASE q = p
        BY <1>1, <2>1, <2>2, <4>1 DEF Announced
      <4>2. CASE q # p
        BY <1>1, <2>1, <2>3, <4>2, ToldKnown DEF WebInv, PagesInv, ToldPages
      <4> QED BY <4>1, <4>2
    <3> QED BY <3>1 DEF ToldPages
  <2>5. DrawnOK'
    BY <1>1, <2>3, DrawnKnown DEF WebInv, PagesInv, DrawnOK
  <2>6. AskedLinks'
    BY <1>1, <1>6, AskedKnown DEF WebInv, PagesInv
  <2>7. ASSUME NEW q \in Page, ws'[q] = "open", NEW i \in Messages!Id
        PROVE  Shows(toPages'[q], i, InSlot(q, i)', Due(q, i)')
    <3>1. InSlot(q, i)' = InSlot(q, i)
      BY <1>1 DEF InSlot
    <3>2. CASE q = p
      <4>1. Due(q, i)' = {}
        BY <1>7, <3>2, Nothing DEF Due, Messages!Id
      <4>2. AboutSlot(hello, i) /\ Gives(hello) = {}
        BY DEF AboutSlot, Gives
      <4> HIDE DEF hello
      <4> QED BY <2>1, <2>2, <3>2, <4>1, <4>2 DEF Shows
    <3>3. CASE q # p
      <4>1. Messages!Making' = Messages!Making
        BY <1>1 DEF Messages!Making
      <4>2. Due(q, i)' = Due(q, i)
        BY <1>1, <1>6, <1>7, <3>3, <4>1 DEF Due
      <4> QED BY <2>1, <2>7, <3>1, <3>3, <4>2 DEF WebInv, AllDue
    <3> QED BY <3>2, <3>3
  <2>8. AllDue'
    BY <2>7 DEF AllDue, Messages!Id
  <2> QED BY <1>5, <1>6, <2>4, <2>5, <2>6, <2>8 DEF WebInv, PagesInv
<1> QED BY <1>8, <1>9

\* While a client is greeted no message is made, and the accept thread is at its slot.
LEMMA GreetedWhere ==
  ASSUME WebInv, greeting # Nobody, greeting.next # "handshake"
  PROVE  /\ making = Nobody /\ greeting \in Messages!Greeting /\ greeting.page \in Page /\ greeting.at \in 0..Slots
         /\ Slots \in Nat
BY Nothing DEF WebInv, SocketsInv, GreetOK, Messages!Greeting

LEMMA TestsSlot ==
  ASSUME WebInv, Messages!TestSlot
  PROVE  WebInv'
<1>1. /\ greeting # Nobody /\ greeting.next = "messages"
      /\ UNCHANGED <<list, counter, making, found, linked, ws, messages, drawn, online, toPages, fromPages>>
      /\ greeting' = IF greeting.at = Slots THEN [greeting EXCEPT !.next = "libraries"]
                     ELSE IF list[greeting.at].used THEN [greeting EXCEPT !.next = "send"]
                     ELSE [greeting EXCEPT !.at = @ + 1]
  BY DEF Messages!TestSlot, Messages!serverVars, Messages!linkVars, Messages!pageVars, Messages!channels
<1>2. /\ making = Nobody /\ greeting \in Messages!Greeting /\ greeting.page \in Page /\ greeting.at \in 0..Slots
      /\ Slots \in Nat
  BY <1>1, GreetedWhere
<1>3. SlotsInv' /\ PagesInv' /\ \A i : Filled(i)' = Filled(i)
  BY <1>1, AllSame
<1>4. SocketsInv'
  BY <1>1, GreetSockets DEF WebInv, SlotsInv
<1>5. greeting' # Nobody
  BY <1>1, <1>4, <1>2, Nothing DEF Messages!Greeting
<1>6. /\ greeting'.page = greeting.page
      /\ \/ greeting'.at = greeting.at
         \/ greeting.at < Slots /\ ~list[greeting.at].used /\ greeting'.at = greeting.at + 1
  <2>1. CASE greeting.at = Slots
    <3>1. greeting' = [greeting EXCEPT !.next = "libraries"]
      BY <1>1, <2>1
    <3> QED BY <1>2, <3>1 DEF Messages!Greeting
  <2>2. CASE greeting.at # Slots /\ list[greeting.at].used
    <3>1. greeting' = [greeting EXCEPT !.next = "send"]
      BY <1>1, <2>2
    <3> QED BY <1>2, <3>1 DEF Messages!Greeting
  <2>3. CASE greeting.at # Slots /\ ~list[greeting.at].used
    <3>1. greeting' = [greeting EXCEPT !.at = greeting.at + 1]
      BY <1>1, <2>3
    <3>2. greeting.at < Slots
      BY <1>2, <2>3
    <3> QED BY <1>2, <2>3, <3>1, <3>2 DEF Messages!Greeting
  <2> QED BY <2>1, <2>2, <2>3
<1>7. ASSUME NEW p \in Page, NEW i \in Messages!Id PROVE Due(p, i)' = Due(p, i)
  <2>1. making' = Nobody /\ list' = list
    BY <1>1, <1>2
  <2>2. i \in Nat
    BY Nothing DEF Messages!Id
  <2>3. ~list[i].used => ~Filled(i)
    BY DEF Filled
  <2>4. Due(p, i) = IF greeting.page = p /\ i >= greeting.at THEN {} ELSE IF Filled(i) THEN {list[i].data} ELSE {}
    BY <1>1, <1>2 DEF Due
  <2>5. Due(p, i)' = IF greeting'.page = p /\ i >= greeting'.at THEN {}
                     ELSE IF Filled(i)' THEN {list'[i].data} ELSE {}
    BY <1>5, <2>1 DEF Due
  <2>6. greeting'.at # greeting.at => (i >= greeting.at <=> i >= greeting'.at \/ i = greeting.at)
    BY <1>2, <1>6, <2>2
  <2> QED BY <1>3, <1>6, <2>1, <2>3, <2>4, <2>5, <2>6
<1>8. AllDue'
  BY <1>1, <1>7, QuietDue DEF WebInv
<1> QED BY <1>3, <1>4, <1>8 DEF WebInv

\* Steps that tell the page that is greeted something of no slot
LEMMA TellsPages ==
  ASSUME PagesOf, WebInv, greeting # Nobody, greeting.next # "handshake", SocketsInv',
         UNCHANGED <<list, counter, making, found, linked, ws, messages, drawn, online, fromPages>>,
         greeting' # Nobody, greeting'.page = greeting.page, greeting'.at = greeting.at,
         NEW m, m.op \in {"LinkTrain", "libraries"}, NEW To \in SUBSET Opens,
         \A p \in Page : toPages'[p] = IF p \notin To THEN toPages[p] ELSE Append(toPages[p], m)
  PROVE  WebInv'
<1>1. SlotsInv' /\ Learned /\ \A i : Filled(i)' = Filled(i)
  BY SlotsSame DEF WebInv
<1>2. To \in SUBSET Page /\ \A p \in To : ws[p] = "open"
  BY DEF Opens
<1>3. ToldPages' /\ DrawnOK'
  BY <1>1, <1>2, TellOne DEF WebInv, PagesInv
<1>4. AskedLinks'
  BY <1>1, AskedKnown DEF WebInv, PagesInv
<1>5. \A i \in Messages!Id : ~AboutSlot(m, i)
  BY DEF AboutSlot
<1>6. \A p \in Page, i \in Messages!Id : Due(p, i)' = Due(p, i)
  <2> TAKE p \in Page, i \in Messages!Id
  <2>1. Messages!Making' = Messages!Making
    BY DEF Messages!Making
  <2> QED BY <1>1, <2>1 DEF Due
<1>7. AllDue'
  BY <1>2, <1>5, <1>6, DueOne DEF WebInv, PagesInv
<1> QED BY <1>1, <1>3, <1>4, <1>7 DEF WebInv, PagesInv

LEMMA SendsSlot ==
  ASSUME PagesOf, WebInv, Messages!SendSlot
  PROVE  WebInv'
<1> DEFINE k == greeting.at
           p == greeting.page
<1> PICK m : m = Messages!NewMsg(list[k].data)
  OBVIOUS
<1>1. /\ greeting # Nobody /\ greeting.next = "send"
      /\ UNCHANGED <<list, counter, making, found, linked, ws, messages, drawn, online, fromPages>>
      /\ greeting' = [greeting EXCEPT !.next = "messages", !.at = @ + 1]
      /\ Messages!SendMine(IF list[k].data = Nobody THEN <<>> ELSE <<m>>)
  BY DEF Messages!SendSlot, Messages!serverVars, Messages!linkVars, Messages!pageVars
<1>2. /\ making = Nobody /\ greeting \in Messages!Greeting /\ p \in Page /\ k \in 0..Slots
      /\ Slots \in Nat
  BY <1>1, GreetedWhere
<1>3. k \in Messages!Id /\ list[k].used
  BY <1>1, <1>2, Nothing DEF WebInv, SocketsInv, GreetOK, Messages!Id
<1>4. Filled(k)
  BY <1>2, <1>3 DEF Filled
<1>5. list[k].data # Nobody /\ list[k].data.id = k /\ list[k].data.train \in found
      /\ list[k].data \in Messages!Message
  BY <1>3, <1>4, SlotTyped DEF WebInv, SlotsInv, SlotsOK
<1>6. Known(list[k].data)
  <2>1. list[k] = [used |-> TRUE, data |-> list[k].data]
    <3>1. list[k] = [used |-> list[k].used, data |-> list[k].data] /\ list[k].used \in BOOLEAN
      BY <1>3, SlotTyped DEF WebInv, SlotsInv
    <3> QED BY <1>3, <3>1
  <2> QED BY <1>5, <2>1 DEF Known
<1>7. m.op = "NewMessage" /\ m.msg = list[k].data /\ Messages!SendMine(<<m>>)
  BY <1>1, <1>5 DEF Messages!NewMsg
<1> PICK To : To = Opens \cap {p}
  OBVIOUS
<1>8. \A q \in Page : toPages'[q] = IF q \notin To THEN toPages[q] ELSE Append(toPages[q], m)
  BY <1>1, <1>7, SentMine DEF WebInv, PagesInv, PagesOf
<1>9. SlotsInv' /\ Learned /\ \A i : Filled(i)' = Filled(i)
  BY <1>1, SlotsSame DEF WebInv
<1>10. To \in SUBSET Page /\ \A q \in To : ws[q] = "open" /\ q = p
  BY DEF Opens
<1>11. ToldPages' /\ DrawnOK'
  <2>1. Known(m.msg)
    BY <1>6, <1>7
  <2>2. Known(m.msg)'
    BY <1>9, <2>1 DEF Learned
  <2>3. /\ UNCHANGED <<messages, drawn, online, ws>>
        /\ m.op \in {"NewMessage", "ClearMessage", "LinkTrain", "libraries"}
    BY <1>1, <1>7
  <2>4. \A q \in To : ws[q] = "open"
    BY <1>10
  <2>5. ToldPages /\ DrawnOK /\ Learned /\ (m.op = "NewMessage" => Known(m.msg)')
    BY <1>9, <2>2 DEF WebInv, PagesInv
  <2> QED BY <1>8, <1>10, <2>3, <2>4, <2>5, TellOne
<1>12. AskedLinks'
  BY <1>1, <1>9, AskedKnown DEF WebInv, PagesInv
<1>13. SocketsInv'
  BY <1>1, GreetSockets DEF WebInv, SlotsInv
<1>14. greeting'.page = p /\ greeting'.at = k + 1 /\ greeting' # Nobody
  <2>1. greeting' \in Messages!Greeting /\ greeting'.page = p /\ greeting'.at = k + 1
    <3>1. k + 1 \in 0..Slots
      BY <1>2, <1>3, Nothing DEF Messages!Id
    <3> QED BY <1>1, <1>2, <3>1 DEF Messages!Greeting
  <2> QED BY <2>1, Nothing
<1>15. ASSUME NEW q \in Page, NEW i \in Messages!Id, ws[q] = "open"
       PROVE  Due(q, i)' = IF q \in To /\ AboutSlot(m, i) THEN Gives(m) ELSE Due(q, i)
  <2>1. AboutSlot(m, i) <=> i = k
    BY <1>5, <1>7 DEF AboutSlot
  <2>2. Gives(m) = {list[k].data}
    BY <1>7 DEF Gives
  <2>3. q \in To <=> q = p
    BY <1>10, <1>15 DEF Opens
  <2>4. i \in Nat /\ k \in Nat
    BY <1>2, Nothing DEF Messages!Id
  <2>5. Due(q, i) = IF p = q /\ i >= k THEN {} ELSE IF Filled(i) THEN {list[i].data} ELSE {}
    BY <1>1, <1>2 DEF Due
  <2>6. Due(q, i)' = IF p = q /\ i >= k + 1 THEN {} ELSE IF Filled(i)' THEN {list'[i].data} ELSE {}
    BY <1>1, <1>2, <1>14 DEF Due
  <2>7. i >= k <=> i >= k + 1 \/ i = k
    BY <2>4
  <2>8. k >= k /\ ~(k >= k + 1)
    BY <2>4
  <2> QED BY <1>1, <1>4, <1>9, <2>1, <2>2, <2>3, <2>5, <2>6, <2>7, <2>8
<1>16. AllDue'
  <2>1. UNCHANGED <<drawn, ws>> /\ \A q \in To : ws[q] = "open"
    BY <1>1, <1>10
  <2> QED BY <1>8, <1>10, <1>15, <2>1, DueOne DEF WebInv, PagesInv
<1> QED BY <1>9, <1>11, <1>12, <1>13, <1>16 DEF WebInv, PagesInv

LEMMA SendsLibraries ==
  ASSUME PagesOf, WebInv, Messages!SendLibraries
  PROVE  WebInv'
<1> DEFINE m == [op |-> "libraries"]
           To == Opens \cap {greeting.page}
<1>1. /\ greeting # Nobody /\ greeting.next = "libraries"
      /\ UNCHANGED <<list, counter, making, found, linked, ws, messages, drawn, online, fromPages>>
      /\ greeting' = [greeting EXCEPT !.next = "links", !.left = Train]
      /\ Messages!SendMine(<<m>>)
  BY DEF Messages!SendLibraries, Messages!serverVars, Messages!linkVars, Messages!pageVars
<1>2. greeting \in Messages!Greeting
  BY <1>1, GreetedWhere
<1>3. greeting' # Nobody /\ greeting'.page = greeting.page /\ greeting'.at = greeting.at
  <2>1. greeting' \in Messages!Greeting /\ greeting'.page = greeting.page /\ greeting'.at = greeting.at
    BY <1>1, <1>2 DEF Messages!Greeting
  <2> QED BY <2>1, Nothing
<1>4. SocketsInv'
  BY <1>1, GreetSockets DEF WebInv, SlotsInv
<1>5. m.op \in {"LinkTrain", "libraries"} /\ To \in SUBSET Opens
  OBVIOUS
<1> HIDE DEF m
<1>6. \A p \in Page : toPages'[p] = IF p \notin To THEN toPages[p] ELSE Append(toPages[p], m)
  BY <1>1, SentMine DEF WebInv, PagesInv, PagesOf
<1> HIDE DEF To
<1> QED BY <1>1, <1>3, <1>4, <1>5, <1>6, TellsPages

LEMMA SendsLink ==
  ASSUME PagesOf, WebInv, NEW t \in Train, Messages!SendLink(t)
  PROVE  WebInv'
<1> DEFINE m == Messages!LinkMsg(t, Messages!TypeOnJoin(linked[t]), linked[t][2])
<1>1. /\ greeting # Nobody /\ greeting.next = "links"
      /\ UNCHANGED <<list, counter, making, found, linked, ws, messages, drawn, online, fromPages>>
      /\ greeting' = [greeting EXCEPT !.left = @ \ {t}] \/ greeting' = [greeting EXCEPT !.next = "crashed"]
      /\ UNCHANGED toPages \/ toPages' = Messages!SendAll(<<m>>, toPages)
  BY DEF Messages!SendLink, Messages!serverVars, Messages!linkVars, Messages!pageVars
<1>2. greeting \in Messages!Greeting
  BY <1>1, GreetedWhere
<1>3. greeting' # Nobody /\ greeting'.page = greeting.page /\ greeting'.at = greeting.at
  <2>1. greeting' \in Messages!Greeting /\ greeting'.page = greeting.page /\ greeting'.at = greeting.at
    BY <1>1, <1>2 DEF Messages!Greeting
  <2> QED BY <2>1, Nothing
<1>4. SocketsInv'
  BY <1>1, GreetSockets DEF WebInv, SlotsInv
<1>5. m.op = "LinkTrain"
  BY DEF Messages!LinkMsg
<1> HIDE DEF m
<1>6. \E To \in SUBSET Opens : \A p \in Page : toPages'[p] = IF p \notin To THEN toPages[p] ELSE Append(toPages[p], m)
  <2>1. CASE UNCHANGED toPages
    <3>1. PICK To \in SUBSET Opens : To = {}
      OBVIOUS
    <3>2. \A p \in Page : toPages'[p] = IF p \notin To THEN toPages[p] ELSE Append(toPages[p], m)
      BY <2>1, <3>1
    <3> QED BY <3>2
  <2>2. CASE toPages' = Messages!SendAll(<<m>>, toPages)
    <3>1. \A p \in Page : toPages'[p] = IF p \notin Opens THEN toPages[p] ELSE Append(toPages[p], m)
      BY <2>2, SentAll DEF WebInv, PagesInv
    <3> QED BY <3>1
  <2> QED BY <1>1, <2>1, <2>2
<1> QED BY <1>1, <1>3, <1>4, <1>5, <1>6, TellsPages

LEMMA FinishesJoining ==
  ASSUME WebInv, Messages!Joined
  PROVE  WebInv'
<1>1. /\ greeting # Nobody /\ greeting.next = "links" /\ greeting' = Nobody
      /\ UNCHANGED <<list, counter, making, found, linked, ws, messages, drawn, online, fromPages, toPages>>
  BY DEF Messages!Joined, Messages!serverVars, Messages!linkVars, Messages!pageVars, Messages!channels
<1>2. greeting.at = Slots
  BY <1>1 DEF WebInv, SocketsInv, GreetOK
<1>3. SocketsInv'
  BY <1>1, GreetSockets DEF WebInv, SlotsInv
<1>4. SlotsInv' /\ PagesInv' /\ \A i : Filled(i)' = Filled(i)
  BY <1>1, AllSame
<1>5. \A p \in Page, i \in Messages!Id : Due(p, i)' = Due(p, i)
  <2> TAKE p \in Page, i \in Messages!Id
  <2>1. Messages!Making' = Messages!Making
    BY <1>1 DEF Messages!Making
  <2>2. ~(i >= greeting.at)
    BY <1>2, Nothing DEF Messages!Id
  <2> QED BY <1>1, <1>4, <2>1, <2>2 DEF Due
<1>6. AllDue'
  BY <1>1, <1>5, QuietDue DEF WebInv
<1> QED BY <1>3, <1>4, <1>6 DEF WebInv


-----------------------------------------------------------------------------
(* The steps of the clients' threads and of the pages                      *)

LEMMA ClearsUnused ==
  ASSUME ~Preempted, WebInv, Messages!ClearUnused
  PROVE  WebInv'
<1>1. UNCHANGED <<list, counter, making, found, linked, greeting, ws, messages, drawn, online, toPages, fromPages>>
  BY DEF Messages!ClearUnused, Messages!serverVars, Messages!linkVars, Messages!pageVars, Messages!channels
<1>2. SlotsInv' /\ PagesInv' /\ \A i : Filled(i)' = Filled(i)
  BY <1>1, AllSame
<1>3. SocketsInv'
  BY ClearedSockets DEF WebInv
<1>4. \A q \in Page, i \in Messages!Id : Due(q, i)' = Due(q, i)
  BY <1>1, <1>2 DEF Due, Messages!Making
<1>5. AllDue'
  BY <1>1, <1>4, QuietDue DEF WebInv
<1> QED BY <1>2, <1>3, <1>5 DEF WebInv

LEMMA Connects ==
  ASSUME ~Preempted, WebInv, NEW p \in Page, Messages!Connect(p)
  PROVE  WebInv'
<1>1. UNCHANGED <<list, counter, making, found, linked, greeting, messages, drawn, online, toPages, fromPages>>
  BY DEF Messages!Connect, Messages!serverVars, Messages!socketVars, Messages!pageVars, Messages!channels
<1>2. SocketsInv' /\ ws[p] # "open" /\ ws' = [ws EXCEPT ![p] = "connecting"]
  BY ConnectSockets DEF WebInv
<1>3. \A q \in Page : ws'[q] = "open" <=> ws[q] = "open"
  BY <1>2 DEF WebInv, SocketsInv, SocketsOK
<1>4. SlotsInv' /\ PagesInv' /\ \A i : Filled(i)' = Filled(i)
  BY <1>1, <1>3, AllSame
<1>5. \A q \in Page, i \in Messages!Id : Due(q, i)' = Due(q, i)
  BY <1>1, <1>4 DEF Due, Messages!Making
<1>6. AllDue'
  BY <1>1, <1>3, <1>5, QuietDue DEF WebInv
<1> QED BY <1>2, <1>4, <1>6 DEF WebInv

LEMMA AskedLess ==
  ASSUME AskedLinks, Learned, \A p \in Page : fromPages'[p] = fromPages[p] \/ fromPages'[p] = <<>>
  PROVE  AskedLinks'
<1> SUFFICES ASSUME NEW p \in Page, fromPages'[p] # <<>>
             PROVE  \E q \in [id : Messages!Id, train : Train, unit : Messages!Unit] :
                      fromPages'[p] = <<q>> /\ Known([id |-> q.id, train |-> q.train])'
  BY DEF AskedLinks, Messages!Id, Messages!Unit
<1>1. PICK q \in [id : Messages!Id, train : Train, unit : Messages!Unit] :
        fromPages[p] = <<q>> /\ Known([id |-> q.id, train |-> q.train])
  BY DEF AskedLinks
<1> DEFINE x == [id |-> q.id, train |-> q.train]
<1>2. Known(x)'
  BY <1>1 DEF Learned
<1> QED BY <1>1, <1>2

LEMMA LinksTrain ==
  ASSUME ~Preempted, PagesOf, WebInv, NEW p \in Page, Messages!LinkTrain(p)
  PROVE  WebInv'
<1>1. /\ making = Nobody /\ greeting = Nobody /\ fromPages[p] # <<>>
      /\ fromPages' = [fromPages EXCEPT ![p] = Tail(@)] /\ clients' = Messages!AfterWrites
      /\ UNCHANGED <<counter, making, found, greeting, ws, retries, online, messages, drawn>>
  BY NothingElse DEF Messages!LinkTrain, Messages!linkVars, Messages!pageVars
<1>2. PICK q \in [id : Messages!Id, train : Train, unit : Messages!Unit] :
        fromPages[p] = <<q>> /\ Known([id |-> q.id, train |-> q.train])
  BY <1>1 DEF WebInv, PagesInv, AskedLinks
<1>3. Head(fromPages[p]) = q /\ Tail(fromPages[p]) = <<>>
  BY <1>2
<1>4. SocketsInv'
  <2>1. Rewritten
    BY <1>1, WritesKeep DEF WebInv, SocketsInv
  <2> QED BY <1>1, <2>1, OtherSockets DEF WebInv
<1>5. \A b \in Page : fromPages'[b] = fromPages[b] \/ fromPages'[b] = <<>>
  BY <1>1, <1>3 DEF PagesOf
<1>6. \A b \in Page, i \in Messages!Id :
        /\ Due(b, i) = IF Filled(i) THEN {list[i].data} ELSE {}
        /\ Due(b, i)' = IF Filled(i)' THEN {list'[i].data} ELSE {}
  BY <1>1 DEF Due
<1>7. Opens \in SUBSET Page /\ \A b \in Opens : ws[b] = "open"
  BY DEF Opens
<1>8. CASE Messages!CanLink(q.train, q.unit)
  <2> PICK m : m = Messages!LinkMsg(q.train, Messages!TypeOf(q.unit), q.unit[2])
    OBVIOUS
  <2> PICK more : more = Messages!ClearMsg(q.id, 1)
    OBVIOUS
  <2>1. /\ linked' = [linked EXCEPT ![q.train] = q.unit] /\ list' = [list EXCEPT ![q.id].used = FALSE]
        /\ toPages' = Messages!SendAll(<<m, more>>, toPages)
    BY <1>3, <1>8 DEF Messages!LinkTrain
  <2>2. /\ SlotsInv' /\ Learned
        /\ \A i \in Messages!Id : Filled(i)' <=> Filled(i) /\ i # q.id
        /\ \A i \in Messages!Id : list'[i].data = list[i].data
    BY <1>1, <1>2, <1>8, <2>1, LinkSlots DEF WebInv
  <2>3. m.op = "LinkTrain" /\ more.op = "ClearMessage" /\ more.id = q.id /\ more.ret = 1 /\ m # more
    BY DEF Messages!LinkMsg, Messages!ClearMsg
  <2>4. \A b \in Page : toPages'[b] = IF b \notin Opens THEN toPages[b]
                                      ELSE IF more = m THEN Append(toPages[b], m)
                                      ELSE Append(Append(toPages[b], m), more)
    BY <2>1, <2>3, SentBoth DEF WebInv, PagesInv
  <2>5. ToldPages' /\ DrawnOK'
    <3>1. ToldPages /\ DrawnOK /\ Learned /\ (m.op = "NewMessage" => Known(m.msg)')
      BY <2>2, <2>3 DEF WebInv, PagesInv
    <3>2. /\ m.op \in {"NewMessage", "ClearMessage", "LinkTrain", "libraries"}
          /\ more = m \/ more.op \in {"ClearMessage", "LinkTrain"}
      BY <2>3
    <3>3. UNCHANGED <<messages, drawn, online, ws>>
      BY <1>1
    <3> QED BY <1>7, <2>4, <3>1, <3>2, <3>3, TellPages
  <2>6. AskedLinks'
    BY <1>5, <2>2, AskedLess DEF WebInv, PagesInv
  <2>7. \A b \in Page, i \in Messages!Id : ws[b] = "open" =>
          Due(b, i)' = IF b \in Opens /\ AboutSlot(more, i) THEN Gives(more) ELSE Due(b, i)
    <3> TAKE b \in Page, i \in Messages!Id
    <3>1. AboutSlot(more, i) <=> i = q.id
      BY <2>3 DEF AboutSlot
    <3>2. Gives(more) = {} /\ (ws[b] = "open" => b \in Opens)
      BY <2>3 DEF Gives, Opens
    <3> QED BY <1>6, <2>2, <3>1, <3>2
  <2>8. AllDue'
    <3>1. more = m \/ \A i \in Messages!Id : ~AboutSlot(m, i)
      BY <2>3 DEF AboutSlot
    <3>2. UNCHANGED <<drawn, ws>> /\ AllDue /\ ToldPages
      BY <1>1 DEF WebInv, PagesInv
    <3> QED BY <1>7, <2>4, <2>7, <3>1, <3>2, TellDue
  <2> QED BY <1>4, <2>2, <2>5, <2>6, <2>8 DEF WebInv, PagesInv
<1>9. CASE ~Messages!CanLink(q.train, q.unit)
  <2> PICK m : m = Messages!ClearMsg(q.id, 0)
    OBVIOUS
  <2>1. UNCHANGED <<linked, list>> /\ toPages' = Messages!SendAll(<<m>>, toPages)
    BY <1>3, <1>9 DEF Messages!LinkTrain
  <2>2. SlotsInv' /\ Learned /\ \A i : Filled(i)' = Filled(i)
    BY <1>1, <2>1, SlotsSame DEF WebInv
  <2>3. m.op = "ClearMessage" /\ m.id = q.id /\ m.ret = 0
    BY DEF Messages!ClearMsg
  <2>4. \A b \in Page : toPages'[b] = IF b \notin Opens THEN toPages[b] ELSE Append(toPages[b], m)
    BY <2>1, SentAll DEF WebInv, PagesInv
  <2>5. ToldPages' /\ DrawnOK'
    <3>1. ToldPages /\ DrawnOK /\ Learned /\ (m.op = "NewMessage" => Known(m.msg)')
      BY <2>2, <2>3 DEF WebInv, PagesInv
    <3>2. m.op \in {"NewMessage", "ClearMessage", "LinkTrain", "libraries"}
      BY <2>3
    <3>3. UNCHANGED <<messages, drawn, online, ws>>
      BY <1>1
    <3> QED BY <1>7, <2>4, <3>1, <3>2, <3>3, TellOne
  <2>6. AskedLinks'
    BY <1>5, <2>2, AskedLess DEF WebInv, PagesInv
  <2>7. \A b \in Page, i \in Messages!Id : ~AboutSlot(m, i) /\ Due(b, i)' = Due(b, i)
    <3> TAKE b \in Page, i \in Messages!Id
    <3>1. ~AboutSlot(m, i)
      BY <2>3 DEF AboutSlot
    <3> QED BY <1>6, <2>1, <2>2, <3>1
  <2>8. AllDue'
    BY <1>1, <1>7, <2>4, <2>7, DueOne DEF WebInv, PagesInv
  <2> QED BY <1>4, <2>2, <2>5, <2>6, <2>8 DEF WebInv, PagesInv
<1> QED BY <1>8, <1>9

\* clear() does not throw on the one message of a page that is not connected.
LEMMA ClearsOne ==
  ASSUME NEW m, m.at = {0}
  PROVE  ~Messages!ClearThrows(m)
<1> DEFINE k == Messages!Hole(m)
<1>1. 1 \in 0..Slots /\ 1 \notin m.at /\ \A j \in 0..(1 - 1) : j \in m.at
  BY Nothing
<1>2. k \in 0..Slots /\ k \notin m.at
  BY <1>1 DEF Messages!Hole
<1> HIDE DEF k
<1>3. ~(0 > k)
  BY <1>2, Nothing
<1> QED BY <1>3 DEF Messages!ClearThrows, k

\* The page has lost its connection, as has what was on its way.
LEMMA DropsPage ==
  ASSUME PagesOf, WebInv, NEW p \in Page, Messages!Drop(p)
  PROVE  WebInv'
<1>1. /\ UNCHANGED <<list, counter, making, found, linked, greeting>>
      /\ toPages' = [toPages EXCEPT ![p] = <<>>] /\ fromPages' = [fromPages EXCEPT ![p] = <<>>]
      /\ Messages!OnDisconnect(p)
  BY DEF Messages!Drop, Messages!serverVars
<1>2. SocketsInv' /\ ws' = [ws EXCEPT ![p] = "closed"]
  BY DropSockets DEF WebInv
<1>3. SlotsInv' /\ Learned /\ \A i : Filled(i)' = Filled(i)
  BY <1>1, SlotsSame DEF WebInv
<1>4. Knowns \subseteq Knowns'
  BY <1>3, KnownsGrow
<1>5. /\ \A q \in Page : toPages'[q] = IF q = p THEN <<>> ELSE toPages[q]
      /\ \A q \in Page : ws'[q] = IF q = p THEN "closed" ELSE ws[q]
      /\ \A q \in Page : fromPages'[q] = IF q = p THEN <<>> ELSE fromPages[q]
  BY <1>1, <1>2 DEF PagesOf, WebInv, SocketsInv, SocketsOK
<1>6. /\ DOMAIN online = Page /\ DOMAIN messages = Page /\ DOMAIN drawn = Page
      /\ Drawn(drawn[p], messages[p], online[p], Knowns)
  BY DEF PagesOf, WebInv, SocketsInv, SocketsOK, PagesInv, DrawnOK
<1>7. /\ Drawn(drawn'[p], messages'[p], online'[p], Knowns)
      /\ \A q \in Page : q # p => drawn'[q] = drawn[q] /\ messages'[q] = messages[q] /\ online'[q] = online[q]
  <2>1. CASE online[p] /\ Messages!ClearThrows(messages[p])
    <3>1. drawn' = [drawn EXCEPT ![p] = Messages!Uncleared(messages[p], drawn[p])] /\ UNCHANGED <<online, messages>>
      BY <1>1, <2>1 DEF Messages!OnDisconnect
    <3>2. drawn'[p] \subseteq drawn[p]
      BY <1>6, <3>1 DEF Messages!Uncleared
    <3> QED BY <1>6, <3>1, <3>2 DEF Drawn
  <2>2. CASE online[p] /\ ~Messages!ClearThrows(messages[p])
    <3> DEFINE d == Messages!Draw(Messages!Uncleared(messages[p], drawn[p]), Messages!Disconnected)
    <3>1. /\ online' = [online EXCEPT ![p] = FALSE]
          /\ messages' = [messages EXCEPT ![p] = [array |-> TRUE, at |-> {0}]]
          /\ drawn' = [drawn EXCEPT ![p] = d]
      BY <1>1, <2>2 DEF Messages!OnDisconnect
    <3>2. d = {Messages!Disconnected}
      <4>1. Messages!Uncleared(messages[p], drawn[p]) = {}
        BY <1>6, <2>2 DEF Messages!Uncleared, Drawn
      <4> QED BY <4>1 DEF Messages!Draw
    <3> HIDE DEF d
    <3>3. Messages!Disconnected.id = 0
      BY DEF Messages!Disconnected
    <3>4. ~online'[p] /\ messages'[p] = [array |-> TRUE, at |-> {0}] /\ drawn'[p] = {Messages!Disconnected}
      BY <1>6, <3>1, <3>2
    <3>5. Drawn(drawn'[p], messages'[p], online'[p], Knowns)
      BY <3>3, <3>4 DEF Drawn
    <3> QED BY <1>6, <3>1, <3>5
  <2>3. CASE ~online[p]
    <3>1. online' = [online EXCEPT ![p] = FALSE] /\ UNCHANGED <<messages, drawn>>
      BY <1>1, <2>3 DEF Messages!OnDisconnect
    <3> QED BY <1>6, <2>3, <3>1 DEF Drawn
  <2> QED BY <2>1, <2>2, <2>3
<1>8. DrawnOK'
  <2>1. ASSUME NEW q \in Page PROVE Drawn(drawn'[q], messages'[q], online'[q], Knowns')
    <3>1. Drawn(drawn'[q], messages'[q], online'[q], Knowns)
      BY <1>7 DEF WebInv, PagesInv, DrawnOK
    <3> QED BY <1>4, <3>1, DrawnKnown
  <2> QED BY <2>1 DEF DrawnOK
<1>9. ToldPages'
  <2>1. ASSUME NEW q \in Page PROVE Announced(toPages'[q], ws'[q], online'[q], Knowns')
    <3>1. CASE q = p
      <4>1. toPages'[q] = <<>> /\ ws'[q] = "closed" /\ Line(<<>>) /\ DOMAIN <<>> = {}
        BY <1>5, <3>1, EmptyLine
      <4> QED BY <4>1 DEF Announced
    <3>2. CASE q # p
      <4>1. Announced(toPages'[q], ws'[q], online'[q], Knowns)
        BY <1>5, <1>7, <3>2 DEF WebInv, PagesInv, ToldPages
      <4> QED BY <1>4, <4>1, ToldKnown
    <3> QED BY <3>1, <3>2
  <2> QED BY <2>1 DEF ToldPages
<1>10. AskedLinks'
  <2>1. \A q \in Page : fromPages'[q] = fromPages[q] \/ fromPages'[q] = <<>>
    BY <1>5
  <2> QED BY <1>3, <2>1, AskedLess DEF WebInv, PagesInv
<1>11. AllDue'
  <2>1. ASSUME NEW q \in Page, ws'[q] = "open", NEW i \in Messages!Id
        PROVE  Shows(toPages'[q], i, InSlot(q, i)', Due(q, i)')
    <3>1. q # p /\ ws[q] = "open" /\ toPages'[q] = toPages[q]
      BY <1>5, <2>1
    <3>2. InSlot(q, i)' = InSlot(q, i)
      BY <1>7, <3>1 DEF InSlot
    <3>3. Due(q, i)' = Due(q, i)
      BY <1>1, <1>3 DEF Due, Messages!Making
    <3> QED BY <3>1, <3>2, <3>3 DEF WebInv, AllDue
  <2> QED BY <2>1 DEF AllDue, Messages!Id
<1> QED BY <1>2, <1>3, <1>8, <1>9, <1>10, <1>11 DEF WebInv, PagesInv


\* What a page does with a message, and what it shows then.
LEMMA PageReceives ==
  ASSUME PagesOf, WebInv, NEW p \in Page, toPages[p] # <<>>, ws[p] = "open", NEW m, m = Head(toPages[p]),
         Messages!OnMessage(p, m)
  PROVE  /\ online'[p] = TRUE /\ Drawn(drawn'[p], messages'[p], TRUE, Knowns)
         /\ \A i \in Messages!Id :
              {x \in drawn'[p] : x.id = i} = IF AboutSlot(m, i) THEN Gives(m) ELSE {x \in drawn[p] : x.id = i}
         /\ \A q \in Page : q # p => drawn'[q] = drawn[q] /\ messages'[q] = messages[q] /\ online'[q] = online[q]
<1> DEFINE d == drawn[p]
           ms == messages[p]
<1>1. /\ DOMAIN online = Page /\ DOMAIN messages = Page /\ DOMAIN drawn = Page
      /\ Drawn(d, ms, online[p], Knowns) /\ online[p] \in BOOLEAN
  BY DEF PagesOf, WebInv, SocketsInv, SocketsOK, PagesInv, DrawnOK
<1>2. /\ m.op \in {"open", "NewMessage", "ClearMessage", "LinkTrain", "libraries"}
      /\ m.op = "open" <=> ~online[p]
      /\ m.op = "NewMessage" => m.msg \in Knowns
  <2>1. Announced(toPages[p], "open", online[p], Knowns)
    BY DEF WebInv, PagesInv, ToldPages
  <2> DEFINE h == Head(toPages[p])
  <2>2. /\ h.op \in {"open", "NewMessage", "ClearMessage", "LinkTrain", "libraries"}
        /\ h.op = "open" <=> ~online[p]
        /\ h.op = "NewMessage" => h.msg \in Knowns
    <3>1. h.op \in {"open", "NewMessage", "ClearMessage", "LinkTrain", "libraries"}
      BY <2>1, ToldTail
    <3>2. h.op = "open" <=> ~online[p]
      <4> PICK on \in BOOLEAN : on = online[p]
        BY <1>1
      <4>1. Announced(toPages[p], "open", on, Knowns)
        BY <2>1
      <4>2. h.op = "open" <=> ~on
        BY <4>1, ToldTail
      <4> QED BY <4>2
    <3>3. h.op = "NewMessage" => h.msg \in Knowns
      BY <2>1, ToldTail
    <3> QED BY <3>1, <3>2, <3>3
  <2> QED BY <2>2
<1>3. CASE m.op = "open"
  <2>1. /\ online' = [online EXCEPT ![p] = TRUE]
        /\ drawn' = [drawn EXCEPT ![p] = Messages!Uncleared(ms, d)]
        /\ messages' = [messages EXCEPT ![p] = IF Messages!ClearThrows(ms) THEN ms ELSE [array |-> TRUE, at |-> {}]]
    BY <1>3 DEF Messages!OnMessage, Messages!OnConnect
  <2>2. ms.at = {0} /\ \A x \in d : x.id \in ms.at
    BY <1>1, <1>2, <1>3 DEF Drawn
  <2>3. ~Messages!ClearThrows(ms)
    BY <2>2, ClearsOne
  <2>4. Messages!Uncleared(ms, d) = {}
    BY <2>2, <2>3 DEF Messages!Uncleared
  <2>5. online'[p] = TRUE /\ drawn'[p] = {} /\ messages'[p] = [array |-> TRUE, at |-> {}]
    BY <1>1, <2>1, <2>3, <2>4
  <2>6. Drawn(drawn'[p], messages'[p], TRUE, Knowns)
    BY <2>5 DEF Drawn
  <2>7. \A i : AboutSlot(m, i) /\ Gives(m) = {}
    BY <1>3 DEF AboutSlot, Gives
  <2> QED BY <1>1, <2>1, <2>5, <2>6, <2>7
<1>4. CASE m.op = "NewMessage"
  <2>1. UNCHANGED online /\ messages' = [messages EXCEPT ![p].at = @ \cup {m.msg.id}]
        /\ drawn' = [drawn EXCEPT ![p] = Messages!Draw(d, m.msg)]
    BY <1>4 DEF Messages!OnMessage
  <2>2. online'[p] = TRUE /\ online[p]
    BY <1>1, <1>2, <1>4, <2>1
  <2>3. messages'[p] = [ms EXCEPT !.at = ms.at \cup {m.msg.id}] /\ drawn'[p] = {x \in d : x.id # m.msg.id} \cup {m.msg}
    BY <1>1, <2>1 DEF Messages!Draw
  <2>4. ms = [array |-> ms.array, at |-> ms.at] /\ ms.array = TRUE
        /\ \A x \in d : x.id \in ms.at /\ (x = Messages!Disconnected \/ x \in Knowns)
    BY <1>1, <2>2 DEF Drawn
  <2>5. messages'[p] = [array |-> TRUE, at |-> ms.at \cup {m.msg.id}]
    BY <2>3, <2>4
  <2>6. Drawn(drawn'[p], messages'[p], TRUE, Knowns)
    BY <1>2, <1>4, <2>3, <2>4, <2>5 DEF Drawn
  <2>7. ASSUME NEW i \in Messages!Id
        PROVE  {x \in drawn'[p] : x.id = i} = IF AboutSlot(m, i) THEN Gives(m) ELSE {x \in d : x.id = i}
    <3>1. AboutSlot(m, i) <=> m.msg.id = i
      BY <1>4 DEF AboutSlot
    <3>2. Gives(m) = {m.msg}
      BY <1>4 DEF Gives
    <3> QED BY <2>3, <3>1, <3>2
  <2> QED BY <1>1, <2>1, <2>2, <2>6, <2>7
<1>5. CASE m.op = "ClearMessage"
  <2>1. UNCHANGED <<online, messages>> /\ drawn' = [drawn EXCEPT ![p] = Messages!Removed(ms, d, m.id, m.ret)]
    BY <1>5 DEF Messages!OnMessage
  <2>2. online'[p] = TRUE /\ online[p]
    BY <1>1, <1>2, <1>5, <2>1
  <2>3. ms.array /\ \A x \in d : x.id \in ms.at
    BY <1>1, <2>2 DEF Drawn
  <2>4. drawn'[p] = IF m.ret = 1 THEN {x \in d : x.id # m.id} ELSE d
    <3>1. drawn'[p] = Messages!Removed(ms, d, m.id, m.ret)
      BY <1>1, <2>1
    <3>2. m.id \notin ms.at => {x \in d : x.id # m.id} = d
      BY <2>3
    <3> QED BY <2>3, <3>1, <3>2 DEF Messages!Removed, Messages!Found
  <2>5. Drawn(drawn'[p], messages'[p], TRUE, Knowns)
    <3>1. drawn'[p] \subseteq d
      BY <2>4
    <3> QED BY <1>1, <2>1, <2>2, <3>1 DEF Drawn
  <2>6. ASSUME NEW i \in Messages!Id
        PROVE  {x \in drawn'[p] : x.id = i} = IF AboutSlot(m, i) THEN Gives(m) ELSE {x \in d : x.id = i}
    <3>1. AboutSlot(m, i) <=> m.id = i /\ m.ret = 1
      BY <1>5 DEF AboutSlot
    <3>2. Gives(m) = {}
      BY <1>5 DEF Gives
    <3>3. CASE m.ret = 1
      BY <2>4, <3>1, <3>2, <3>3
    <3>4. CASE m.ret # 1
      BY <2>4, <3>1, <3>4
    <3> QED BY <3>3, <3>4
  <2> QED BY <1>1, <2>1, <2>2, <2>5, <2>6
<1>6. CASE m.op \in {"LinkTrain", "libraries"}
  <2>1. UNCHANGED <<online, messages, drawn>>
    BY <1>6 DEF Messages!OnMessage
  <2>2. online'[p] = TRUE /\ online[p]
    BY <1>1, <1>2, <1>6, <2>1
  <2>3. Drawn(drawn'[p], messages'[p], TRUE, Knowns)
    BY <1>1, <2>1, <2>2 DEF Drawn
  <2>4. \A i : ~AboutSlot(m, i)
    BY <1>6 DEF AboutSlot
  <2> QED BY <2>1, <2>2, <2>3, <2>4
<1> QED BY <1>2, <1>3, <1>4, <1>5, <1>6

LEMMA Receives ==
  ASSUME ~Preempted, PagesOf, WebInv, NEW p \in Page, Messages!Receive(p)
  PROVE  WebInv'
<1>1. /\ UNCHANGED <<list, counter, making, found, linked, greeting, ws, fromPages>> /\ toPages[p] # <<>>
      /\ toPages' = [toPages EXCEPT ![p] = Tail(@)] /\ Messages!OnMessage(p, Head(toPages[p]))
  BY DEF Messages!Receive, Messages!serverVars, Messages!socketVars
<1>2. SocketsInv' /\ ws[p] = "open"
  BY ReceiveSockets DEF WebInv, PagesInv
<1>3. SlotsInv' /\ Learned /\ \A i : Filled(i)' = Filled(i)
  BY <1>1, SlotsSame DEF WebInv
<1>4. Knowns \subseteq Knowns'
  BY <1>3, KnownsGrow
<1> PICK m : m = Head(toPages[p])
  OBVIOUS
<1>5. /\ online'[p] = TRUE /\ Drawn(drawn'[p], messages'[p], TRUE, Knowns)
      /\ \A i \in Messages!Id :
           {x \in drawn'[p] : x.id = i} = IF AboutSlot(m, i) THEN Gives(m) ELSE {x \in drawn[p] : x.id = i}
      /\ \A q \in Page : q # p => drawn'[q] = drawn[q] /\ messages'[q] = messages[q] /\ online'[q] = online[q]
  BY <1>1, <1>2, PageReceives
<1>6. \A q \in Page : toPages'[q] = IF q = p THEN Tail(toPages[p]) ELSE toPages[q]
  BY <1>1 DEF PagesOf
<1>7. Announced(toPages[p], "open", online[p], Knowns)
  BY <1>2 DEF WebInv, PagesInv, ToldPages
<1>8. ToldPages'
  <2>1. ASSUME NEW q \in Page PROVE Announced(toPages'[q], ws'[q], online'[q], Knowns)
    <3>1. CASE q = p
      <4>1. Announced(Tail(toPages[p]), "open", TRUE, Knowns)
        BY <1>1, <1>7, ToldTail
      <4>2. toPages'[q] = Tail(toPages[p]) /\ ws'[q] = "open" /\ online'[q] = TRUE
        BY <1>1, <1>2, <1>5, <1>6, <3>1
      <4> QED BY <4>1, <4>2
    <3>2. CASE q # p
      BY <1>1, <1>5, <1>6, <3>2 DEF WebInv, PagesInv, ToldPages
    <3> QED BY <3>1, <3>2
  <2>2. \A q \in Page : Announced(toPages'[q], ws'[q], online'[q], Knowns')
    BY <1>4, <2>1, ToldKnown
  <2> QED BY <2>2 DEF ToldPages
<1>9. DrawnOK'
  <2>1. ASSUME NEW q \in Page PROVE Drawn(drawn'[q], messages'[q], online'[q], Knowns)
    BY <1>5 DEF WebInv, PagesInv, DrawnOK
  <2>2. \A q \in Page : Drawn(drawn'[q], messages'[q], online'[q], Knowns')
    BY <1>4, <2>1, DrawnKnown
  <2> QED BY <2>2 DEF DrawnOK
<1>10. AskedLinks'
  BY <1>1, <1>3, AskedKnown DEF WebInv, PagesInv
<1>11. AllDue'
  <2>1. ASSUME NEW q \in Page, ws'[q] = "open", NEW i \in Messages!Id
        PROVE  Shows(toPages'[q], i, InSlot(q, i)', Due(q, i)')
    <3>1. Due(q, i)' = Due(q, i)
      BY <1>1, <1>3 DEF Due, Messages!Making
    <3>2. Shows(toPages[q], i, InSlot(q, i), Due(q, i))
      BY <1>1, <2>1 DEF WebInv, AllDue
    <3>3. CASE q = p
      <4>1. InSlot(q, i)' = IF AboutSlot(m, i) THEN Gives(m) ELSE InSlot(q, i)
        BY <1>5, <3>3 DEF InSlot
      <4>2. Line(toPages[p])
        BY <1>7 DEF Announced
      <4>3. Shows(Tail(toPages[p]), i, InSlot(q, i)', Due(q, i))
        BY <1>1, <3>2, <3>3, <4>1, <4>2, ShowsTail
      <4> QED BY <1>6, <3>1, <3>3, <4>3
    <3>4. CASE q # p
      <4>1. InSlot(q, i)' = InSlot(q, i)
        BY <1>5, <3>4 DEF InSlot
      <4> QED BY <1>6, <3>1, <3>2, <3>4, <4>1
    <3> QED BY <3>3, <3>4
  <2> QED BY <2>1 DEF AllDue, Messages!Id
<1> QED BY <1>2, <1>3, <1>8, <1>9, <1>10, <1>11 DEF WebInv, PagesInv

LEMMA RequestsLink ==
  ASSUME PagesOf, WebInv, NEW p \in Page, NEW m \in Messages!Message, NEW u \in Messages!Unit,
         Messages!RequestLink(p, m, u)
  PROVE  WebInv'
<1> DEFINE q == [id |-> m.id, train |-> m.train, unit |-> u]
<1>1. /\ UNCHANGED <<list, counter, making, found, linked, clients, greeting, ws, retries, online, messages, drawn, toPages>>
      /\ m \in drawn[p] \ {Messages!Disconnected}
      /\ fromPages' = [fromPages EXCEPT ![p] = <<q>>]
  BY DEF Messages!RequestLink, Messages!serverVars, Messages!socketVars, Messages!linkVars, Messages!pageVars
<1>2. SlotsInv' /\ Learned /\ \A i : Filled(i)' = Filled(i)
  BY <1>1, SlotsSame DEF WebInv
<1>3. Knowns \subseteq Knowns'
  BY <1>2, KnownsGrow
<1>4. Known(m)'
  <2>1. Known(m)
    BY <1>1 DEF WebInv, PagesInv, DrawnOK, Drawn, Knowns
  <2> QED BY <1>2, <2>1 DEF Learned
<1>5. SocketsInv'
  BY <1>1 DEF WebInv, SocketsInv, ClientsOK, SocketsOK, GreetOK, Messages!Live, Messages!Greeting
<1>6. ToldPages' /\ DrawnOK'
  BY <1>1, <1>3, ToldKnown, DrawnKnown DEF WebInv, PagesInv, ToldPages, DrawnOK
<1>7. AskedLinks'
  <2>1. q \in [id : Messages!Id, train : Train, unit : Messages!Unit] /\ [id |-> q.id, train |-> q.train] = m
    BY DEF Messages!Message
  <2> HIDE DEF q
  <2>2. ASSUME NEW b \in Page, fromPages'[b] # <<>>
        PROVE  \E r \in [id : Messages!Id, train : Train, unit : Messages!Unit] :
                 fromPages'[b] = <<r>> /\ Known([id |-> r.id, train |-> r.train])'
    <3>1. CASE b = p
      <4>1. fromPages'[b] = <<q>>
        BY <1>1, <3>1 DEF PagesOf
      <4> QED BY <1>4, <2>1, <4>1
    <3>2. CASE b # p
      <4>1. fromPages'[b] = fromPages[b]
        BY <1>1, <3>2 DEF PagesOf
      <4>2. PICK r \in [id : Messages!Id, train : Train, unit : Messages!Unit] :
              fromPages[b] = <<r>> /\ Known([id |-> r.id, train |-> r.train])
        BY <2>2, <4>1 DEF WebInv, PagesInv, AskedLinks
      <4> DEFINE x == [id |-> r.id, train |-> r.train]
      <4>3. Known(x)'
        BY <1>2, <4>2 DEF Learned
      <4> QED BY <4>1, <4>2, <4>3
    <3> QED BY <3>1, <3>2
  <2> QED BY <2>2 DEF AskedLinks, Messages!Id, Messages!Unit
<1>8. \A b \in Page, i \in Messages!Id : Due(b, i)' = Due(b, i)
  BY <1>1, <1>2 DEF Due, Messages!Making
<1>9. AllDue'
  BY <1>1, <1>8, QuietDue DEF WebInv
<1> QED BY <1>2, <1>5, <1>6, <1>7, <1>9 DEF WebInv, PagesInv


-----------------------------------------------------------------------------
(* All of it                                                               *)

LEMMA ToldNothing ==
  ASSUME NEW w, w # "open", NEW on, NEW K
  PROVE  Announced(<<>>, w, on, K)
<1>1. Line(<<>>) /\ DOMAIN <<>> = {}
  BY EmptyLine
<1> QED BY <1>1 DEF Announced

LEMMA DrawnFirst ==
  ASSUME NEW on, ~on, NEW K
  PROVE  Drawn({Messages!Disconnected}, Messages!Blank, on, K)
BY DEF Drawn, Messages!Blank, Messages!Disconnected

LEMMA StartWeb ==
  ASSUME Messages!Init
  PROVE  PagesOf /\ WebInv
<1>1. /\ list = [i \in Messages!Id |-> [used |-> FALSE, data |-> Nobody]] /\ counter = 0 /\ making = Nobody
      /\ found = {} /\ linked = [t \in Train |-> Nobody] /\ clients = <<>> /\ greeting = Nobody
      /\ ws = [p \in Page |-> "none"] /\ retries = [p \in Page |-> 1] /\ online = [p \in Page |-> FALSE]
      /\ messages = [p \in Page |-> Messages!Blank] /\ drawn = [p \in Page |-> {Messages!Disconnected}]
      /\ toPages = [p \in Page |-> <<>>] /\ fromPages = [p \in Page |-> <<>>]
  BY DEF Messages!Init
<1>2. Line(<<>>) /\ DOMAIN <<>> = {}
  BY EmptyLine
<1>3. SocketsInv
  <2>1. \A p \in Page : Messages!Live(p) = {}
    <3>1. DOMAIN clients = {}
      BY <1>1, <1>2
    <3> QED BY <3>1 DEF Messages!Live
  <2>2. ClientsOK
    BY <1>1, <1>2 DEF ClientsOK
  <2>3. SocketsOK
    BY <1>1, <2>1 DEF SocketsOK
  <2> QED BY <1>1, <2>2, <2>3 DEF SocketsInv, GreetOK
<1>4. SlotsInv
  <2>1. 0 \in Messages!Id
    BY Nothing DEF Messages!Id
  <2>2. /\ \A i \in Messages!Id : list[i] = [used |-> FALSE, data |-> Nobody]
        /\ \A i \in Messages!Id : ~Filled(i) /\ list[i].data = Nobody
    BY <1>1 DEF Filled
  <2>3. list \in [Messages!Id -> [used : BOOLEAN, data : Messages!Message \cup {Nobody}]]
    BY <1>1
  <2>4. SlotsOK
    BY <1>1, <2>1, <2>2, <2>3 DEF SlotsOK
  <2> QED BY <1>1, <2>4 DEF SlotsInv, MakingOK, AllFilled
<1>5. PagesInv
  <2>1. ToldPages
    <3>1. ASSUME NEW p \in Page PROVE Announced(toPages[p], ws[p], online[p], Knowns)
      <4>1. toPages[p] = <<>> /\ ws[p] = "none"
        BY <1>1
      <4> QED BY Zenon, <4>1, ToldNothing
    <3> QED BY <3>1 DEF ToldPages
  <2>2. DrawnOK
    <3>1. ASSUME NEW p \in Page PROVE Drawn(drawn[p], messages[p], online[p], Knowns)
      <4>1. drawn[p] = {Messages!Disconnected} /\ messages[p] = Messages!Blank
        BY <1>1
      <4>2. ~online[p]
        BY <1>1
      <4> QED BY Zenon, <4>1, <4>2, DrawnFirst
    <3> QED BY <3>1 DEF DrawnOK
  <2> QED BY <1>1, <2>1, <2>2 DEF PagesInv, AskedLinks
<1>6. AllDue
  BY <1>1 DEF AllDue
<1> QED BY <1>1, <1>3, <1>4, <1>5, <1>6 DEF PagesOf, WebInv

LEMMA WebStep ==
  ASSUME ~Preempted, PagesOf, WebInv, [Messages!Next]_(Messages!vars)
  PROVE  PagesOf' /\ WebInv'
<1>1. CASE UNCHANGED Messages!vars
  <2>1. UNCHANGED <<list, counter, making, found, linked, clients, greeting, ws, retries, online, messages, drawn,
                    toPages, fromPages>>
    BY <1>1 DEF Messages!vars, Messages!serverVars, Messages!socketVars, Messages!linkVars, Messages!pageVars,
                Messages!channels
  <2>2. SlotsInv' /\ PagesInv' /\ \A i : Filled(i)' = Filled(i)
    BY <2>1, AllSame
  <2>3. SocketsInv'
    BY <2>1 DEF WebInv, SocketsInv, ClientsOK, SocketsOK, GreetOK, Messages!Live, Messages!Greeting
  <2>4. \A p \in Page, i \in Messages!Id : Due(p, i)' = Due(p, i)
    BY <2>1, <2>2 DEF Due, Messages!Making
  <2>5. AllDue'
    BY <2>1, <2>4, QuietDue DEF WebInv
  <2> QED BY <2>1, <2>2, <2>3, <2>5 DEF PagesOf, WebInv
<1>2. CASE Messages!Next
  <2>1. PagesOf'
    BY <1>2, PagesOfAll
  <2>2. WebInv'
    <3>1. CASE \E t \in Train : Messages!InitMessage(t)
      BY <3>1, StartsMessage
    <3>2. CASE Messages!SendMessage
      BY <3>2, SendsMessage
    <3>3. CASE Messages!AddMessage
      BY <3>3, AddsMessage
    <3>4. CASE \E p \in Page : Messages!Accept(p)
      BY <3>4, Accepts
    <3>5. CASE Messages!Joins
      <4>1. CASE Messages!Handshake
        BY <4>1, Handshakes
      <4>2. CASE Messages!TestSlot
        BY <4>2, TestsSlot
      <4>3. CASE Messages!SendSlot
        BY <4>3, SendsSlot
      <4>4. CASE Messages!SendLibraries
        BY <4>4, SendsLibraries
      <4>5. CASE \E t \in Train : Messages!SendLink(t)
        BY <4>5, SendsLink
      <4>6. CASE Messages!Joined
        BY <4>6, FinishesJoining
      <4> QED BY <3>5, <4>1, <4>2, <4>3, <4>4, <4>5, <4>6 DEF Messages!Joins
    <3>6. CASE Messages!ClearUnused
      BY <3>6, ClearsUnused
    <3>7. CASE \E p \in Page : Messages!LinkTrain(p)
      BY <3>7, LinksTrain
    <3>8. CASE \E p \in Page : Messages!Connect(p)
      BY <3>8, Connects
    <3>9. CASE \E p \in Page : Messages!Drop(p)
      BY <3>9, DropsPage
    <3>10. CASE \E p \in Page : Messages!Receive(p)
      BY <3>10, Receives
    <3>11. CASE \E p \in Page, m \in Messages!Message, u \in Messages!Unit : Messages!RequestLink(p, m, u)
      BY <3>11, RequestsLink
    <3> QED BY <1>2, <3>1, <3>2, <3>3, <3>4, <3>5, <3>6, <3>7, <3>8, <3>9, <3>10, <3>11 DEF Messages!Next
  <2> QED BY <2>1, <2>2
<1> QED BY <1>1, <1>2

\* When nothing is under way, what is owed is what is shown.
LEMMA RestShows ==
  ASSUME WebInv
  PROVE  Messages!ShowsOpen
<1> SUFFICES ASSUME NEW p \in Page, Messages!AtRest(p)
             PROVE  /\ {m.train : m \in drawn[p]} = {t \in found : linked[t] = Nobody}
                    /\ \A m \in drawn[p] : list[m.id] = [used |-> TRUE, data |-> m]
  BY DEF Messages!ShowsOpen
<1>1. /\ making = Nobody /\ ws[p] = "open" /\ toPages[p] = <<>> /\ online[p]
      /\ greeting # Nobody => greeting.at = Slots
  BY DEF Messages!AtRest, Messages!Greets, Messages!Greeting, WebInv, SocketsInv, GreetOK
<1>2. \A i \in Messages!Id : InSlot(p, i) = IF Filled(i) THEN {list[i].data} ELSE {}
  <2> TAKE i \in Messages!Id
  <2>1. Shows(<<>>, i, InSlot(p, i), Due(p, i))
    BY <1>1 DEF WebInv, AllDue
  <2>2. greeting # Nobody => ~(i >= greeting.at)
    BY <1>1, Nothing DEF Messages!Id
  <2>3. Due(p, i) = IF Filled(i) THEN {list[i].data} ELSE {}
    BY <1>1, <2>2 DEF Due
  <2> QED BY <2>1, <2>3, ShowsNothingMore
<1>3. ASSUME NEW m \in drawn[p]
      PROVE  list[m.id] = [used |-> TRUE, data |-> m] /\ m.train \in found /\ linked[m.train] = Nobody
  <2>1. m.id \in Messages!Id
    <3>1. m = Messages!Disconnected \/ m \in Messages!Message
      BY DEF WebInv, PagesInv, DrawnOK, Drawn, Knowns
    <3> QED BY <3>1, Nothing DEF Messages!Disconnected, Messages!Message, Messages!Id
  <2>2. m \in InSlot(p, m.id)
    BY DEF InSlot
  <2>3. Filled(m.id) /\ list[m.id].data = m
    BY <1>2, <2>1, <2>2
  <2>4. m # Nobody /\ list[m.id].used
    BY <2>1, <2>3 DEF Filled, WebInv, SlotsInv, SlotsOK
  <2>5. list[m.id] = [used |-> list[m.id].used, data |-> list[m.id].data] /\ list[m.id].used \in BOOLEAN
    BY <2>1, SlotTyped DEF WebInv, SlotsInv
  <2>6. m.train \in found /\ linked[m.train] = Nobody
    BY <2>1, <2>3, <2>4 DEF WebInv, SlotsInv, SlotsOK
  <2> QED BY <2>3, <2>4, <2>5, <2>6
<1>4. ASSUME NEW t \in found, linked[t] = Nobody
      PROVE  \E m \in drawn[p] : m.train = t
  <2>1. PICK i \in Messages!Id : Filled(i) /\ list[i].data.train = t
    BY <1>1, <1>4 DEF WebInv, SlotsInv, AllFilled
  <2>2. list[i].data \in InSlot(p, i)
    BY <1>2, <2>1
  <2> QED BY <2>1, <2>2 DEF InSlot
<1>5. \A t \in {m.train : m \in drawn[p]} : t \in found /\ linked[t] = Nobody
  <2> TAKE t \in {m.train : m \in drawn[p]}
  <2>1. PICK m \in drawn[p] : t = m.train
    OBVIOUS
  <2> QED BY <1>3, <2>1
<1>6. {t \in found : linked[t] = Nobody} \subseteq {m.train : m \in drawn[p]}
  BY <1>4
<1> QED BY <1>3, <1>5, <1>6

\* The behaviours of the pages are those of the messages, or stutter.
LEMMA MessagesDrive == PagesSpec => Messages!Spec
<1>1. PagesInit => Messages!Init
  BY DEF PagesInit
<1>2. [PagesNext]_all => [Messages!Next]_(Messages!vars)
  <2>1. UNCHANGED messagesVars => UNCHANGED Messages!vars
    BY DEF messagesVars, Messages!vars, Messages!serverVars, Messages!socketVars, Messages!linkVars,
           Messages!pageVars, Messages!channels
  <2>2. UNCHANGED all => UNCHANGED messagesVars
    BY DEF all
  <2>3. PagesNext => Messages!Next \/ UNCHANGED messagesVars
    BY DEF PagesNext
  <2> QED BY <2>1, <2>2, <2>3
<1> QED BY <1>1, <1>2, PTL DEF PagesSpec, Messages!Spec

\* A page that has received everything shows a message for exactly the trains found
\* and not yet linked, whichever page linked them, however often connections were lost,
\* and whether or not the server has crashed on such a train as another page joined,
\* with threads that run to the end of what they make or greet
\* (WS_send_open_Messages, WS_cts_LinkTrain, messages.js).
THEOREM OpenShown ==
  ASSUME ~Preempted
  PROVE  PagesSpec => []ShowsOpen
<1>1. Messages!Init => PagesOf /\ WebInv
  BY StartWeb
<1>2. PagesOf /\ WebInv /\ [Messages!Next]_(Messages!vars) => (PagesOf /\ WebInv)'
  BY WebStep
<1>3. WebInv => ShowsOpen
  BY RestShows DEF ShowsOpen
<1> QED BY <1>1, <1>2, <1>3, MessagesDrive, PTL DEF Messages!Spec
=============================================================================
