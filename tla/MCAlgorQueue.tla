---------------------------- MODULE MCAlgorQueue ----------------------------
(* A line of blocks: the blocks around a block are its neighbours.         *)
EXTENDS AlgorQueue, TLC

CONSTANTS b1, b2, b3

MCBlock2 == {b1, b2}
MCAround2 == (b1 :> <<b2>>) @@ (b2 :> <<b1>>)

MCBlock3 == {b1, b2, b3}
MCAround3 == (b1 :> <<b2>>) @@ (b2 :> <<b1, b3>>) @@ (b3 :> <<b2>>)
=============================================================================
