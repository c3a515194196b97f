---- MODULE MCInterlocking ----
(***************************************************************************)
(* A loop: a main line from the switch SW out of a station with tracks TA  *)
(* and TB back to the switch SE into it.  Two trains start in the station and *)
(* a third, if there is one, on the main line; all go round the same way.   *)
(***************************************************************************)
EXTENDS Interlocking

CONSTANTS
  M1, X, M2, DE, TA, TB, DW, SE, SW,
  PM, PN, PA, PB, SA, SB, T1, T2, T3,
  Main     \* the blocks from DW to DE

\* A main line of one path, or of two with a block between them where no
\* train may stop
OnePath == <<DW, M1, M2, DE>>
TwoPaths == <<DW, M1, X, M2, DE>>

L(ty, x) == [type |-> ty, to |-> x]

MCBlock == ToSet(Main) \cup {TA, TB}

MCLink ==
  [p \in {<<Main[i], "next">> : i \in 1..Len(Main) - 1} |->
     L("R", Main[(CHOOSE i \in 1..Len(Main) : Main[i] = p[1]) + 1])] @@
  [p \in {<<Main[i], "prev">> : i \in 2..Len(Main)} |->
     L("R", Main[(CHOOSE i \in 1..Len(Main) : Main[i] = p[1]) - 1])] @@
  <<DE, "next">> :> L("S", SE) @@ <<SE, "app">> :> L("R", DE) @@
  <<SE, "str">> :> L("R", TA) @@ <<SE, "div">> :> L("R", TB) @@
  <<TA, "prev">> :> L("s", SE) @@ <<TA, "next">> :> L("s", SW) @@
  <<TB, "prev">> :> L("s", SE) @@ <<TB, "next">> :> L("s", SW) @@
  <<SW, "app">> :> L("R", DW) @@ <<SW, "str">> :> L("R", TA) @@
  <<SW, "div">> :> L("R", TB) @@ <<DW, "prev">> :> L("S", SW)

MCType == [b \in MCBlock |-> CASE b \in {DE, DW, X} -> "NOSTOP"
                               [] b \in {TA, TB} -> "STATION" [] OTHER -> "MAIN"]
MCLength == [b \in MCBlock |-> IF b \in {DE, DW, X} THEN 1 ELSE 2]
MCStationOf == [b \in MCBlock |-> CASE b = TA -> SA [] b = TB -> SB [] OTHER -> None]
MCPathOf ==
  [b \in MCBlock |-> CASE b = TA -> PA [] b = TB -> PB [] b = M1 -> PM
                       [] b = M2 -> IF X \in MCBlock THEN PN ELSE PM [] OTHER -> None]
MCPath == {MCPathOf[b] : b \in MCBlock} \ {None}
MCDetection == SE :> DE @@ SW :> DW
MCEngineLength == [t \in {T1, T2, T3} |-> 0]
MCStartAt == T1 :> TA @@ T2 :> TB @@ T3 :> M2
MCStartDir == [t \in {T1, T2, T3} |-> NEXT]
====
