--------------------------- MODULE MCDeployments ---------------------------
(* Instances of Deployments for TLC.                                       *)
EXTENDS Deployments, TLC

CONSTANT n1

SameName == [i \in Fn |-> n1]
=============================================================================
