----------------------------- MODULE MCJunction -----------------------------
(***************************************************************************)
(* A throat between the tracks TA and TB of a station and the tracks TM,   *)
(* TN that leave it, with one detection block DW for both its switches.    *)
(* T1 wants out of TA, T2 wants in from TM, and TN is free; so is TB, and  *)
(* the second block TC of its path, which a train from DW has to reverse.  *)
(***************************************************************************)
EXTENDS Interlocking

CONSTANTS TA, TB, TC, DW, TM, TN, SW, SX, PA, PB, PM, PN, SA, SB, T1, T2

L(ty, x) == [type |-> ty, to |-> x]

\* Switch s leads from block d to x or y at their ends e; d has it at its end de.
Points(s, d, de, x, y, e) ==
  <<d, de>> :> L("S", s) @@ <<s, "app">> :> L("R", d) @@
  <<s, "str">> :> L("R", x) @@ <<s, "div">> :> L("R", y) @@
  <<x, e>> :> L("s", s) @@ <<y, e>> :> L("s", s)

MCLink ==
  Points(SW, DW, "prev", TA, TB, "next") @@ Points(SX, DW, "next", TM, TN, "prev") @@
  <<TB, "prev">> :> L("R", TC) @@ <<TC, "next">> :> L("R", TB) @@
  [p \in {TA, TC} \X {"prev"} \cup {TM, TN} \X {"next"} |-> L("E", None)]

MCType == [b \in Block |-> CASE b = DW -> "NOSTOP"
                             [] b \in {TA, TB, TC} -> "STATION" [] OTHER -> "MAIN"]
MCLength == [b \in Block |-> IF b = DW THEN 1 ELSE 2]
MCStationOf == [b \in Block |-> CASE b = TA -> SA [] b \in {TB, TC} -> SB [] OTHER -> None]
MCPathOf == [b \in Block |-> CASE b = TA -> PA [] b \in {TB, TC} -> PB [] b = TM -> PM
                               [] b = TN -> PN [] OTHER -> None]
MCDetection == SW :> DW @@ SX :> DW
MCEngineLength == [t \in Train |-> 0]
MCStartAt == T1 :> TA @@ T2 :> TM
MCStartDir == T1 :> NEXT @@ T2 :> PREV
=============================================================================
