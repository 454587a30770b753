----------------------------- MODULE MCServing -----------------------------
(* Two functions of one name, one created after the other was deleted.     *)
EXTENDS Serving, TLC

CONSTANT n1

SameName == [i \in Fn |-> n1]
=============================================================================
