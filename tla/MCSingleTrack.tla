---------------------------- MODULE MCSingleTrack ----------------------------
(***************************************************************************)
(* A single track between a station A at its one end and the stations B    *)
(* and C behind a switch at the other.  T1 stands at the end of A's track  *)
(* and T2 at the end of B's, facing each other over the path M1 - M2.      *)
(***************************************************************************)
EXTENDS Interlocking

CONSTANTS A1, A2, DW, M1, M2, DE, B1, B2, C1, C2, SE, PA, PM, PB, PC, SA, SB, SC, T1, T2

L(ty, x) == [type |-> ty, to |-> x]

\* The links inside a run of blocks, which ends at both ends.
Run(bs) == [p \in {<<bs[i], e>> : i \in 1..Len(bs), e \in {"prev", "next"}} |->
              LET i == CHOOSE i \in 1..Len(bs) : bs[i] = p[1]
                  j == IF p[2] = "next" THEN i + 1 ELSE i - 1
              IN IF j \in 1..Len(bs) THEN L("R", bs[j]) ELSE L("E", None)]

MCLink ==
  <<DE, "next">> :> L("S", SE) @@ <<SE, "app">> :> L("R", DE) @@
  <<SE, "str">> :> L("R", B1) @@ <<SE, "div">> :> L("R", C1) @@
  <<B1, "prev">> :> L("s", SE) @@ <<C1, "prev">> :> L("s", SE) @@
  Run(<<A1, A2, DW, M1, M2, DE>>) @@ Run(<<B1, B2>>) @@ Run(<<C1, C2>>)

MCType == [b \in Block |-> CASE b \in {DE,DW} -> "NOSTOP" [] b \in {M1,M2} -> "MAIN" [] OTHER -> "STATION"]
MCLength == [b \in Block |-> IF b \in {DE,DW} THEN 1 ELSE 2]
MCStationOf == [b \in Block |-> CASE b \in {A1,A2} -> SA [] b \in {B1,B2} -> SB [] b \in {C1,C2} -> SC [] OTHER -> None]
MCPathOf == [b \in Block |-> CASE b \in {A1,A2} -> PA [] b \in {B1,B2} -> PB [] b \in {C1,C2} -> PC [] b \in {M1,M2} -> PM [] OTHER -> None]
MCDetection == SE :> DE
MCEngineLength == [t \in Train |-> 0]
MCStartAt == T1 :> A2 @@ T2 :> B1
MCStartDir == T1 :> NEXT @@ T2 :> PREV
=============================================================================
