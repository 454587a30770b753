----------------------------- MODULE MCInvoker -----------------------------
(* Instances of Invoker for TLC.                                           *)
EXTENDS Invoker, TLC

CONSTANTS goRt, nodeRt, f1

OneRuntime == <<goRt>>
GoNodeGo   == <<goRt, nodeRt, goRt>>   \* the order written in Start
AllGo      == [f \in Fn |-> goRt]
Mixed      == [f \in Fn |-> IF f = f1 THEN goRt ELSE nodeRt]

Symmetric == Permutations(Caller)
=============================================================================
