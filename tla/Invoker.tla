------------------------------ MODULE Invoker ------------------------------
(***************************************************************************)
(* Invocations (internal/invoker): the per-function concurrency gate       *)
(* inv.inflight, guarded by inv.mu, around an Acquire / Release of the     *)
(* sandbox pool.  Every step is a step of the gate, a step of the pool, or *)
(* the two taken together where Invoke calls Acquire and where it returns; *)
(* the pool's own steps are those of SandboxPool.                          *)
(***************************************************************************)
EXTENDS SandboxPool

CONSTANTS Fn,         \* function names
          RuntimeOf,  \* Function.Runtime, fixed when a function is created
          MaxLimit    \* bounds Function.MaxConcurrency

ASSUME InvokerAssumption ==
  /\ RuntimeOf \in [Fn -> Runtime]
  /\ MaxLimit \in Nat \ {0}
  /\ None \notin Fn
  /\ IsFiniteSet(Caller)

VARIABLES
  limit,     \* max_concurrency in the row of each function
  inflight,  \* inv.inflight
  fn, lim,   \* what ReadyFunction returned to each invocation: name and limit
  highest,   \* history: the largest limit a function ever had
  leaked     \* history: invocations that returned without leave()

gateVars == <<limit, inflight, fn, lim, highest, leaked>>
allVars  == <<poolVars, gateVars>>

Limit == 1 .. MaxLimit

Init ==
  /\ PoolInit
  /\ limit \in [Fn -> Limit] /\ highest = limit
  /\ inflight = [f \in Fn |-> 0] /\ leaked = [f \in Fn |-> 0]
  /\ fn = [c \in Caller |-> None] /\ lim = [c \in Caller |-> 0]

Forget(c) == fn' = [fn EXCEPT ![c] = None] /\ lim' = [lim EXCEPT ![c] = 0]
-----------------------------------------------------------------------------
(* ReadyFunction: a READY function, and its limit as of now.  A missing or *)
(* a building one is refused before the gate and leaves no trace.          *)
Load(c, f) ==
  /\ fn[c] = None /\ ~Starting
  /\ fn' = [fn EXCEPT ![c] = f] /\ lim' = [lim EXCEPT ![c] = limit[f]]
  /\ UNCHANGED <<poolVars, limit, inflight, highest, leaked>>

Loaded(c) == fn[c] # None /\ pc[c] = "idle"

EnterOneTooMany(c) ==
  /\ Loaded(c) /\ inflight[fn[c]] <= lim[c]
  /\ inflight' = [inflight EXCEPT ![fn[c]] = @ + 1]
  /\ Call(c, RuntimeOf[fn[c]])
  /\ UNCHANGED <<limit, fn, lim, highest, leaked>>

(* enter() counts the call in, and Invoke goes on to Acquire: the registry *)
(* knows every runtime that validate accepts.                              *)
Enter(c) ==
  /\ Loaded(c) /\ inflight[fn[c]] < lim[c]
  /\ inflight' = [inflight EXCEPT ![fn[c]] = @ + 1]
  /\ Call(c, RuntimeOf[fn[c]])
  /\ UNCHANGED <<limit, fn, lim, highest, leaked>>

(* enter() answers 429.                                                    *)
Refuse(c) ==
  /\ Loaded(c) /\ inflight[fn[c]] >= lim[c]
  /\ Forget(c)
  /\ UNCHANGED <<poolVars, limit, inflight, highest, leaked>>

(* Acquire failed: Invoke returns before leave() is deferred.              *)
Abort(c) ==
  /\ pc[c] = "failed" /\ Return(c)
  /\ leaked' = [leaked EXCEPT ![fn[c]] = @ + 1]
  /\ Forget(c)
  /\ UNCHANGED <<limit, inflight, highest>>

LeaveWithSlot(c) ==
  /\ pc[c] = "holding" /\ Goto(c, "idle")
  /\ want' = [want EXCEPT ![c] = None]
  /\ UNCHANGED <<memory, mu, cur, todo, then, ghosts>>
  /\ inflight' = [inflight EXCEPT ![fn[c]] = IF @ > 0 THEN @ - 1 ELSE 0]
  /\ Forget(c)
  /\ UNCHANGED <<limit, highest, leaked>>

LeaveTwice(c) ==
  /\ pc[c] = "released" /\ Return(c)
  /\ inflight' = [inflight EXCEPT ![fn[c]] = IF @ > 1 THEN @ - 2 ELSE 0]
  /\ Forget(c)
  /\ UNCHANGED <<limit, highest, leaked>>

(* The deferred Release has run, then the deferred leave().                *)
Leave(c) ==
  /\ pc[c] = "released" /\ Return(c)
  /\ inflight' = [inflight EXCEPT ![fn[c]] = IF @ > 0 THEN @ - 1 ELSE 0]
  /\ Forget(c)
  /\ UNCHANGED <<limit, highest, leaked>>

(* Functions.Update changes max_concurrency under running invocations; a   *)
(* value that validate.Concurrency refuses changes nothing.                *)
UpdateUnchecked(f, n) ==
  /\ limit' = [limit EXCEPT ![f] = n]
  /\ highest' = [highest EXCEPT ![f] = IF n > @ THEN n ELSE @]
  /\ UNCHANGED <<poolVars, inflight, fn, lim, leaked>>

Update(f, n) ==
  /\ n \in Limit
  /\ limit' = [limit EXCEPT ![f] = n]
  /\ highest' = [highest EXCEPT ![f] = IF n > @ THEN n ELSE @]
  /\ UNCHANGED <<poolVars, inflight, fn, lim, leaked>>
-----------------------------------------------------------------------------
Invocation(c) == Enter(c) \/ Refuse(c) \/ Abort(c) \/ Leave(c)

Next ==
  /\ pc[Main] # "exited"
  /\ \/ Inside /\ UNCHANGED gateVars
     \/ \E c \in Caller : Invocation(c) \/ \E f \in Fn : Load(c, f)
     \/ \E f \in Fn, n \in 0 .. MaxLimit + 1 : Update(f, n)

Spec == Init /\ [][Next]_allVars

(* An invocation's goroutine runs whenever it can, the pool's as before.   *)
Step(c) ==
  /\ pc[Main] # "exited"
  /\ \/ Invocation(c)
     \/ (CallerStep(c) \/ Create(c) \/ Discard(c)) /\ UNCHANGED gateVars

Background(a) ==
  /\ pc[Main] # "exited"
  /\ Sweep(a) \/ Discard(a) \/ (a = Main /\ Create(a))
  /\ UNCHANGED gateVars

FairSpec == /\ Spec
            /\ \A c \in Caller : SF_allVars(Step(c))
            /\ \A a \in {Reaper, Main} : SF_allVars(Background(a))
-----------------------------------------------------------------------------
(* Every variable of the gate holds a value of its kind; a goroutine that  *)
(* is inside the pool has a function.                                      *)
InvokerTypeOK ==
  /\ limit \in [Fn -> Limit] /\ highest \in [Fn -> Limit]
  /\ inflight \in [Fn -> Nat] /\ leaked \in [Fn -> Nat]
  /\ fn \in [Caller -> Fn \cup {None}] /\ lim \in [Caller -> 0 .. MaxLimit]
  /\ \A c \in Caller : pc[c] # "idle" => fn[c] \in Fn

InProgress(f) == {c \in Caller : fn[c] = f /\ pc[c] # "idle"}

(* The counter is exact: it counts the invocations of the function that    *)
(* are between enter() and their return, and those that returned on the    *)
(* path where leave() is never deferred; leave() never meets a zero.       *)
InflightIsExact ==
  \A f \in Fn : inflight[f] = Cardinality(InProgress(f)) + leaked[f]

(* However limits change under running calls, which hold the limit they    *)
(* loaded: no more invocations of a function run at once than the largest  *)
(* limit it ever had.                                                      *)
ConcurrencyBound ==
  \A f \in Fn : Cardinality(InProgress(f)) <= highest[f]

(* What the 429 says, "exceeded concurrency limit": a call is refused only *)
(* while as many invocations as its limit allows are in progress.          *)
RefusedOnlyWhenFull ==
  [][\A c \in Caller : Refuse(c) => Cardinality(InProgress(fn[c])) >= lim[c]]_allVars

(* The gate only ever drives the pool through its own operations.          *)
DrivesPool == PoolSpec

(* Every invocation that was let in, or is about to be, returns, and so    *)
(* does the Acquire it made: with a slot that is given back, or an error.  *)
InvocationsReturn ==
  \A c \in Caller : fn[c] # None ~> fn[c] = None \/ pc[Main] = "exited"
=============================================================================
