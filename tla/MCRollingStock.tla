--------------------------- MODULE MCRollingStock ---------------------------
(***************************************************************************)
(* A library of three engines of one address, a car, and a train set of    *)
(* the second engine.                                                      *)
(***************************************************************************)
EXTENDS RollingStock

MCSaved ==
  LET a == CHOOSE a \in Address : TRUE
  IN [E |-> [n \in 1..3 |-> [item |-> <<"E", n>>, data |-> a]],
      C |-> <<[item |-> <<"C", 1>>, data |-> a]>>,
      T |-> <<[item |-> <<"T", 1>>, data |-> <<"E", 2>>]>>]
=============================================================================
