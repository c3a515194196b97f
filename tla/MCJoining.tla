----------------------------- MODULE MCJoining -----------------------------
(* Joining, for the row of Layouts. *)
EXTENDS Joining, Layouts
=============================================================================
