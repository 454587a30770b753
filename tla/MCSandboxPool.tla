--------------------------- MODULE MCSandboxPool ---------------------------
(* Instances of SandboxPool for TLC.                                       *)
EXTENDS SandboxPool, TLC

CONSTANT goRt

OneRuntime == <<goRt>>

Interchangeable == Permutations(Slot) \cup Permutations(Caller)
=============================================================================
