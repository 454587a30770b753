----------------------------- MODULE MCRecorder -----------------------------
(* Instances of Recorder for TLC.                                          *)
EXTENDS Recorder, TLC

CONSTANT n1

SameName  == [i \in Fn |-> n1]
SameTopic == [s \in Viewer |-> n1]
=============================================================================
