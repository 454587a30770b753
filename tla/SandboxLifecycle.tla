-------------------------- MODULE SandboxLifecycle --------------------------
(***************************************************************************)
(* What the pool promises of each sandbox container, whoever works on it:  *)
(* it is created once, enters the pool's map at most once, leaves it at    *)
(* most once, is destroyed only after it has left it, and never returns.   *)
(***************************************************************************)
CONSTANT Sandbox

VARIABLE phase

Phase == {"unborn", "fresh", "tracked", "doomed", "gone", "lost"}

Init == phase = [s \in Sandbox |-> "unborn"]

Become(s, from, to) == phase[s] = from /\ phase' = [phase EXCEPT ![s] = to]

Create(s)  == Become(s, "unborn", "fresh")
Track(s)   == Become(s, "fresh", "tracked")
Forget(s)  == Become(s, "tracked", "doomed")
Destroy(s) == Become(s, "doomed", "gone")

(* Docker keeps a container it was told to remove, or one that would not   *)
(* start; a later removal may still succeed.                               *)
Lose(s)    == Become(s, "doomed", "lost") \/ Become(s, "unborn", "lost")
Recover(s) == Become(s, "lost", "gone")

Next == \E s \in Sandbox :
          Create(s) \/ Track(s) \/ Forget(s) \/ Destroy(s) \/ Lose(s) \/ Recover(s)

Spec == Init /\ [][Next]_phase
=============================================================================
