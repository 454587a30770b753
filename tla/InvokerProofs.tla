--------------------------- MODULE InvokerProofs ---------------------------
(***************************************************************************)
(* Theorems about Invoker: it drives the pool through the pool's own       *)
(* steps, so all that SandboxPoolProofs shows holds of it; and its counter *)
(* is exact and bounded, for any functions, limits and callers.            *)
(***************************************************************************)
EXTENDS Invoker, SandboxPoolProofs, FiniteSetTheorems

(* No step inside the pool starts or ends a call.                          *)
LEMMA InsideKeepsCalls ==
  ASSUME TypeOK, Inside
  PROVE  \A b \in Caller : pc'[b] = "idle" <=> pc[b] = "idle"
<1> USE PoolAssumption DEF memory, local, ghosts, Goto, Mark, Actor
<1>typ. /\ pc \in [Actor -> CallerPc \cup MainPc \cup ReaperPc]
        /\ \A c \in Caller : pc[c] \in {"delete", "remove"} => then[c] \notin {"next", "sweep"}
        /\ then \in [Actor -> {"next", "create", "failed", "release", "released", "sweep"}]
  BY DEF TypeOK
<1>1. ASSUME NEW c \in Caller, Lock(c) PROVE \A b \in Caller : pc'[b] = "idle" <=> pc[b] = "idle"
  BY <1>1, <1>typ, SMT DEF Lock
<1>2. ASSUME NEW c \in Caller, NEW s \in Slot, Skip(c, s) PROVE \A b \in Caller : pc'[b] = "idle" <=> pc[b] = "idle"
  BY <1>2, <1>typ, SMT DEF Skip, Fits
<1>3. ASSUME NEW c \in Caller, NEW s \in Slot, Hit(c, s) PROVE \A b \in Caller : pc'[b] = "idle" <=> pc[b] = "idle"
  BY <1>3, <1>typ, SMT DEF Hit, Fits
<1>4. ASSUME NEW c \in Caller, Claim(c) PROVE \A b \in Caller : pc'[b] = "idle" <=> pc[b] = "idle"
  BY <1>4, <1>typ, SMT DEF Claim
<1>5. ASSUME NEW c \in Caller, Miss(c) PROVE \A b \in Caller : pc'[b] = "idle" <=> pc[b] = "idle"
  BY <1>5, <1>typ, SMT DEF Miss
<1>6. ASSUME NEW c \in Caller, Ready(c) PROVE \A b \in Caller : pc'[b] = "idle" <=> pc[b] = "idle"
  BY <1>6, <1>typ, SMT DEF Ready
<1>7. ASSUME NEW c \in Caller, NotReady(c) PROVE \A b \in Caller : pc'[b] = "idle" <=> pc[b] = "idle"
  BY <1>7, <1>typ, SMT DEF NotReady, BeginDiscard
<1>8. ASSUME NEW a \in Caller \cup {Main}, NEW s \in Slot, CreateSandbox(a, s) PROVE \A b \in Caller : pc'[b] = "idle" <=> pc[b] = "idle"
  BY <1>8, <1>typ, SMT DEF CreateSandbox, MayCreate, CreateBy
<1>9. ASSUME NEW a \in Caller \cup {Main}, CreateFails(a) PROVE \A b \in Caller : pc'[b] = "idle" <=> pc[b] = "idle"
  BY <1>9, <1>typ, SMT DEF CreateFails, MayCreate, AfterCreate, CountWarmup
<1>10. ASSUME NEW a \in Caller \cup {Main}, Insert(a) PROVE \A b \in Caller : pc'[b] = "idle" <=> pc[b] = "idle"
  BY <1>10, <1>typ, SMT DEF Insert
<1>11. ASSUME NEW a \in Caller \cup {Main}, MarkWarm(a) PROVE \A b \in Caller : pc'[b] = "idle" <=> pc[b] = "idle"
  BY <1>11, <1>typ, SMT DEF MarkWarm, AfterCreate, CountWarmup
<1>12. ASSUME NEW c \in Caller, MarkBusy(c) PROVE \A b \in Caller : pc'[b] = "idle" <=> pc[b] = "idle"
  BY <1>12, <1>typ, SMT DEF MarkBusy
<1>13. ASSUME NEW c \in Caller, Answered(c) PROVE \A b \in Caller : pc'[b] = "idle" <=> pc[b] = "idle"
  BY <1>13, <1>typ, SMT DEF Answered
<1>14. ASSUME NEW c \in Caller, Errored(c) PROVE \A b \in Caller : pc'[b] = "idle" <=> pc[b] = "idle"
  BY <1>14, <1>typ, SMT DEF Errored, BeginDiscard
<1>15. ASSUME NEW c \in Caller, ReleaseDead(c) PROVE \A b \in Caller : pc'[b] = "idle" <=> pc[b] = "idle"
  BY <1>15, <1>typ, SMT DEF ReleaseDead
<1>16. ASSUME NEW c \in Caller, ReleaseLive(c) PROVE \A b \in Caller : pc'[b] = "idle" <=> pc[b] = "idle"
  BY <1>16, <1>typ, SMT DEF ReleaseLive
<1>17. ASSUME NEW c \in Caller, MarkDead(c) PROVE \A b \in Caller : pc'[b] = "idle" <=> pc[b] = "idle"
  BY <1>17, <1>typ, SMT DEF MarkDead, BeginDiscard
<1>18. ASSUME NEW c \in Caller, Rewarm(c) PROVE \A b \in Caller : pc'[b] = "idle" <=> pc[b] = "idle"
  BY <1>18, <1>typ, SMT DEF Rewarm
<1>19. ASSUME NEW a \in Actor, Delete(a) PROVE \A b \in Caller : pc'[b] = "idle" <=> pc[b] = "idle"
  BY <1>19, <1>typ, SMT DEF Delete
<1>20. ASSUME NEW a \in Actor, Remove(a) PROVE \A b \in Caller : pc'[b] = "idle" <=> pc[b] = "idle"
  BY <1>20, <1>typ, SMT DEF Remove
<1>21. ASSUME NEW s \in Slot, Age(s) PROVE \A b \in Caller : pc'[b] = "idle" <=> pc[b] = "idle"
  BY <1>21, <1>typ, SMT DEF Age
<1>22. ASSUME Reap PROVE \A b \in Caller : pc'[b] = "idle" <=> pc[b] = "idle"
  BY <1>22, <1>typ, SMT DEF Reap, Victims
<1>23. ASSUME NEW a \in {Reaper, Main}, NEW s \in Slot, SweepNext(a, s) PROVE \A b \in Caller : pc'[b] = "idle" <=> pc[b] = "idle"
  BY <1>23, <1>typ, SMT DEF SweepNext, BeginDiscard
<1>24. ASSUME NEW a \in {Reaper, Main}, SweepDone(a) PROVE \A b \in Caller : pc'[b] = "idle" <=> pc[b] = "idle"
  BY <1>24, <1>typ, SMT DEF SweepDone
<1>25. ASSUME Serve PROVE \A b \in Caller : pc'[b] = "idle" <=> pc[b] = "idle"
  BY <1>25, <1>typ, SMT DEF Serve
<1>26. ASSUME Drain PROVE \A b \in Caller : pc'[b] = "idle" <=> pc[b] = "idle"
  BY <1>26, <1>typ, SMT DEF Drain
<1>. QED
  BY Zenon, <1>1, <1>2, <1>3, <1>4, <1>5, <1>6, <1>7, <1>8, <1>9, <1>10, <1>11, <1>12, <1>13, <1>14, <1>15, <1>16, <1>17, <1>18, <1>19, <1>20, <1>21, <1>22, <1>23, <1>24, <1>25, <1>26 DEF Inside, CallerStep, Create, Discard, Sweep

LEMMA InvokerTypeInit == Init => InvokerTypeOK
BY InvokerAssumption, PoolAssumption, SMT DEF Init, PoolInit, InvokerTypeOK, Limit, Actor

LEMMA InvokerTypeStep ==
  TypeOK /\ InvokerTypeOK /\ [Next]_allVars => InvokerTypeOK'
<1> SUFFICES ASSUME TypeOK, InvokerTypeOK, [Next]_allVars PROVE InvokerTypeOK'
  OBVIOUS
<1> USE InvokerAssumption, PoolAssumption DEF InvokerTypeOK, Limit
<1>typ. pc \in [Actor -> CallerPc \cup MainPc \cup ReaperPc]
  BY DEF TypeOK
<1>1. ASSUME Inside, UNCHANGED gateVars PROVE InvokerTypeOK'
  BY <1>1, InsideKeepsCalls, SMT DEF gateVars
<1>2. ASSUME NEW c \in Caller, NEW f \in Fn, Load(c, f) PROVE InvokerTypeOK'
  BY <1>2, SMT DEF Load, poolVars
<1>3. ASSUME NEW c \in Caller, Enter(c) PROVE InvokerTypeOK'
  BY <1>3, <1>typ, SMT DEF Enter, Loaded, Call, Goto, Actor
<1>4. ASSUME NEW c \in Caller, Refuse(c) PROVE InvokerTypeOK'
  BY <1>4, <1>typ, SMT DEF Refuse, Loaded, Forget, poolVars
<1>out. ASSUME NEW c \in Caller, Return(c), Forget(c)
        PROVE  /\ fn[c] \in Fn
               /\ fn' \in [Caller -> Fn \cup {None}] /\ lim' \in [Caller -> 0 .. MaxLimit]
               /\ \A b \in Caller : pc'[b] # "idle" => fn'[b] \in Fn
  <2>1. /\ pc[c] # "idle" /\ pc' = [pc EXCEPT ![c] = "idle"]
        /\ fn' = [fn EXCEPT ![c] = None] /\ lim' = [lim EXCEPT ![c] = 0]
    BY <1>out DEF Return, Goto, Forget
  <2>2. fn[c] \in Fn
    BY <2>1
  <2>3. fn' \in [Caller -> Fn \cup {None}] /\ lim' \in [Caller -> 0 .. MaxLimit]
    BY <2>1, SMT
  <2>4. ASSUME NEW b \in Caller, pc'[b] # "idle" PROVE fn'[b] \in Fn
    <3>1. b \in Actor /\ c \in Actor
      BY DEF Actor
    <3>2. b # c
      BY <2>1, <2>4, <3>1, <1>typ, Zenon
    <3>3. pc'[b] = pc[b] /\ fn'[b] = fn[b]
      BY <2>1, <3>1, <3>2, <1>typ, Zenon
    <3>. QED
      BY <2>4, <3>3
  <2>. QED
    BY <2>2, <2>3, <2>4
<1>5. ASSUME NEW c \in Caller, Abort(c) PROVE InvokerTypeOK'
  <2>1. Return(c) /\ Forget(c)
    BY <1>5 DEF Abort
  <2>2. inflight' \in [Fn -> Nat] /\ leaked' \in [Fn -> Nat] /\ UNCHANGED <<limit, highest>>
    BY <1>5, <2>1, <1>out, SMT DEF Abort
  <2>. QED
    BY <2>1, <2>2, <1>out
<1>6. ASSUME NEW c \in Caller, Leave(c) PROVE InvokerTypeOK'
  <2>1. Return(c) /\ Forget(c)
    BY <1>6 DEF Leave
  <2>2. inflight' \in [Fn -> Nat] /\ leaked' \in [Fn -> Nat] /\ UNCHANGED <<limit, highest>>
    BY <1>6, <2>1, <1>out, SMT DEF Leave
  <2>. QED
    BY <2>1, <2>2, <1>out
<1>7. ASSUME NEW f \in Fn, NEW n \in 0 .. MaxLimit + 1, Update(f, n) PROVE InvokerTypeOK'
  BY <1>7, SMT DEF Update, poolVars
<1>8. CASE UNCHANGED allVars
  BY <1>8 DEF allVars, poolVars, gateVars
<1>. QED
  BY Zenon, <1>1, <1>2, <1>3, <1>4, <1>5, <1>6, <1>7, <1>8 DEF Next, Invocation

LEMMA GateStep == InvokerTypeOK /\ [Next]_allVars => [PoolNext]_poolVars
<1> SUFFICES ASSUME InvokerTypeOK, Next \/ UNCHANGED allVars PROVE PoolNext \/ UNCHANGED poolVars
  BY DEF allVars
<1>1. ASSUME pc[Main] # "exited", Inside PROVE PoolNext
  BY <1>1 DEF PoolNext
<1>2. ASSUME NEW c \in Caller, NEW f \in Fn, Load(c, f) PROVE UNCHANGED poolVars
  BY <1>2 DEF Load
<1>3. ASSUME NEW c \in Caller, pc[Main] # "exited", Enter(c) PROVE PoolNext
  <2>1. fn[c] \in Fn
    BY <1>3 DEF Enter, Loaded, InvokerTypeOK
  <2>2. RuntimeOf[fn[c]] \in Runtime
    BY <2>1, InvokerAssumption
  <2>. QED
    BY <1>3, <2>2 DEF PoolNext, Enter
<1>4. ASSUME NEW c \in Caller, Refuse(c) PROVE UNCHANGED poolVars
  BY <1>4 DEF Refuse
<1>5. ASSUME NEW c \in Caller, pc[Main] # "exited", Abort(c) \/ Leave(c) PROVE PoolNext
  BY <1>5 DEF PoolNext, Abort, Leave
<1>6. ASSUME NEW f \in Fn, NEW n \in 0 .. MaxLimit + 1, Update(f, n) PROVE UNCHANGED poolVars
  BY <1>6 DEF Update
<1>7. CASE UNCHANGED allVars
  BY <1>7 DEF allVars
<1>. QED
  BY Zenon, <1>1, <1>2, <1>3, <1>4, <1>5, <1>6, <1>7 DEF Next, Invocation

(* Every variable of the pool and of the gate keeps a value of its kind.   *)
THEOREM InvokerTypeCorrect == Spec => [](TypeOK /\ InvokerTypeOK)
<1>1. Init => PoolInit
  BY DEF Init
<1>. QED
  BY <1>1, TypeInit, TypeStep, GateStep, InvokerTypeInit, InvokerTypeStep, PTL DEF Spec
-----------------------------------------------------------------------------
(* The gate only ever drives the pool through its own operations.          *)
THEOREM InvokerDrivesPool == Spec => DrivesPool
<1>1. Init => PoolInit
  BY DEF Init
<1>. QED
  BY <1>1, GateStep, InvokerTypeCorrect, PTL DEF Spec, DrivesPool, PoolSpec

(* What is proved of the pool holds while invocations drive it.            *)
THEOREM InvokerKeepsPoolSafe ==
  Spec => [](TypeOK /\ TrackedSlotsRun /\ NoLeak /\ ExclusiveUnlessContested)
BY InvokerDrivesPool, PoolTypeCorrect, PoolTracksRunning, PoolNeverLeaks, PoolExclusive, PTL
   DEF DrivesPool
-----------------------------------------------------------------------------
(* The counter is exact: enter() adds one invocation to those in progress, *)
(* leave() takes one away, and the path without leave() is accounted for.  *)
LEMMA InProgressFinite ==
  \A f : IsFiniteSet(InProgress(f)) /\ Cardinality(InProgress(f)) \in Nat
BY InvokerAssumption, FS_Subset, FS_CardinalityType DEF InProgress

LEMMA Counted ==
  ASSUME NEW c \in Caller, NEW f
  PROVE  /\ c \notin InProgress(f) =>
              Cardinality(InProgress(f) \cup {c}) = Cardinality(InProgress(f)) + 1
         /\ c \in InProgress(f) =>
              Cardinality(InProgress(f) \ {c}) = Cardinality(InProgress(f)) - 1
BY InProgressFinite, FS_AddElement, FS_RemoveElement

LEMMA ExactInit == Init => InflightIsExact
<1> SUFFICES ASSUME Init, NEW f \in Fn
             PROVE  inflight[f] = Cardinality(InProgress(f)) + leaked[f]
  BY DEF InflightIsExact
<1>1. InProgress(f) = {}
  BY PoolAssumption, SMT DEF Init, PoolInit, InProgress, Actor
<1>. QED
  BY <1>1, FS_EmptySet, SMT DEF Init

LEMMA ExactStep ==
  TypeOK /\ InvokerTypeOK /\ InflightIsExact /\ [Next]_allVars => InflightIsExact'
<1> SUFFICES ASSUME TypeOK, InvokerTypeOK, InflightIsExact, [Next]_allVars
             PROVE  InflightIsExact'
  OBVIOUS
<1> USE InvokerAssumption, PoolAssumption
<1>typ. /\ pc \in [Actor -> CallerPc \cup MainPc \cup ReaperPc]
        /\ inflight \in [Fn -> Nat] /\ leaked \in [Fn -> Nat]
        /\ fn \in [Caller -> Fn \cup {None}]
        /\ \A c \in Caller : pc[c] # "idle" => fn[c] \in Fn
  BY DEF TypeOK, InvokerTypeOK
<1>old. \A f \in Fn : /\ inflight[f] = Cardinality(InProgress(f)) + leaked[f]
                      /\ Cardinality(InProgress(f)) \in Nat
  BY InProgressFinite DEF InflightIsExact
<1>same. ASSUME UNCHANGED <<inflight, leaked>>,
                \A f \in Fn : InProgress(f)' = InProgress(f)
         PROVE  InflightIsExact'
  BY <1>same, <1>old DEF InflightIsExact
<1>1. ASSUME Inside, UNCHANGED gateVars PROVE InflightIsExact'
  <2>1. \A f \in Fn : InProgress(f)' = InProgress(f)
    BY <1>1, InsideKeepsCalls, SMT DEF InProgress, gateVars
  <2>. QED
    BY <1>1, <2>1, <1>same DEF gateVars
<1>2. ASSUME NEW c \in Caller, NEW f \in Fn, Load(c, f) PROVE InflightIsExact'
  <2>1. \A g \in Fn : InProgress(g)' = InProgress(g)
    BY <1>2, <1>typ, SMT DEF Load, InProgress, poolVars
  <2>. QED
    BY <1>2, <2>1, <1>same DEF Load
<1>3. ASSUME NEW c \in Caller, Enter(c) PROVE InflightIsExact'
  <2>1. fn[c] \in Fn /\ c \notin InProgress(fn[c])
    BY <1>3, <1>typ DEF Enter, Loaded, InProgress
  <2>2. /\ inflight' = [inflight EXCEPT ![fn[c]] = @ + 1] /\ UNCHANGED <<leaked, fn>>
        /\ pc' = [pc EXCEPT ![c] = "lock"]
    BY <1>3 DEF Enter, Call, Goto
  <2>3. ASSUME NEW f \in Fn PROVE (inflight[f] = Cardinality(InProgress(f)) + leaked[f])'
    <3>1. CASE f = fn[c]
      <4>1. InProgress(f)' = InProgress(f) \cup {c}
        BY <2>2, <3>1, <1>typ, SMT DEF InProgress, Actor
      <4>2. Cardinality(InProgress(f) \cup {c}) = Cardinality(InProgress(f)) + 1
        BY <2>1, <3>1, Counted
      <4>. QED
        BY <2>2, <3>1, <4>1, <4>2, <1>typ, <1>old, SMT
    <3>2. CASE f # fn[c]
      <4>1. InProgress(f)' = InProgress(f)
        BY <2>2, <3>2, <1>typ, SMT DEF InProgress, Actor
      <4>. QED
        BY <2>2, <3>2, <4>1, <1>typ, <1>old, SMT
    <3>. QED
      BY <3>1, <3>2
  <2>. QED
    BY <2>3 DEF InflightIsExact
<1>4. ASSUME NEW c \in Caller, Refuse(c) PROVE InflightIsExact'
  <2>1. \A g \in Fn : InProgress(g)' = InProgress(g)
    BY <1>4, <1>typ, SMT DEF Refuse, Loaded, Forget, InProgress, poolVars
  <2>. QED
    BY <1>4, <2>1, <1>same DEF Refuse
<1>out. ASSUME NEW c \in Caller, Return(c), Forget(c)
        PROVE  /\ fn[c] \in Fn /\ Cardinality(InProgress(fn[c])) > 0
               /\ \A f \in Fn : Cardinality(InProgress(f))' =
                    IF f = fn[c] THEN Cardinality(InProgress(f)) - 1
                                 ELSE Cardinality(InProgress(f))
  <2>1. /\ pc[c] # "idle" /\ pc' = [pc EXCEPT ![c] = "idle"]
        /\ fn' = [fn EXCEPT ![c] = None]
    BY <1>out DEF Return, Forget, Goto
  <2>2. fn[c] \in Fn /\ c \in InProgress(fn[c])
    BY <2>1, <1>typ, SMT DEF InProgress
  <2>3. ASSUME NEW f \in Fn, f = fn[c]
        PROVE  Cardinality(InProgress(f))' = Cardinality(InProgress(f)) - 1
    <3>1. InProgress(f)' = InProgress(f) \ {c}
      BY <2>1, <2>3, <1>typ, SMT DEF InProgress, Actor
    <3>. QED
      BY <3>1, <2>2, <2>3, Counted
  <2>4. ASSUME NEW f \in Fn, f # fn[c]
        PROVE  Cardinality(InProgress(f))' = Cardinality(InProgress(f))
    <3>1. InProgress(f)' = InProgress(f)
      BY <2>1, <2>4, <1>typ, SMT DEF InProgress, Actor
    <3>. QED
      BY <3>1
  <2>5. Cardinality(InProgress(fn[c])) > 0
    BY <2>2, InProgressFinite, FS_EmptySet, SMT
  <2>. QED
    BY <2>2, <2>3, <2>4, <2>5
<1>5. ASSUME NEW c \in Caller, Abort(c) PROVE InflightIsExact'
  <2>1. leaked' = [leaked EXCEPT ![fn[c]] = @ + 1] /\ UNCHANGED inflight
    BY <1>5 DEF Abort
  <2>2. Return(c) /\ Forget(c)
    BY <1>5 DEF Abort
  <2>3. ASSUME NEW f \in Fn PROVE (inflight[f] = Cardinality(InProgress(f)) + leaked[f])'
    BY <2>1, <2>2, <1>out, <1>typ, <1>old, SMT
  <2>. QED
    BY <2>3 DEF InflightIsExact
<1>6. ASSUME NEW c \in Caller, Leave(c) PROVE InflightIsExact'
  <2>1. /\ inflight' = [inflight EXCEPT ![fn[c]] = IF @ > 0 THEN @ - 1 ELSE 0]
        /\ UNCHANGED leaked
    BY <1>6 DEF Leave
  <2>2. Return(c) /\ Forget(c)
    BY <1>6 DEF Leave
  <2>3. ASSUME NEW f \in Fn PROVE (inflight[f] = Cardinality(InProgress(f)) + leaked[f])'
    BY <2>1, <2>2, <1>out, <1>typ, <1>old, SMT
  <2>. QED
    BY <2>3 DEF InflightIsExact
<1>7. ASSUME NEW f \in Fn, NEW n \in 0 .. MaxLimit + 1, Update(f, n) PROVE InflightIsExact'
  <2>1. \A g \in Fn : InProgress(g)' = InProgress(g)
    BY <1>7, SMT DEF Update, InProgress, poolVars
  <2>. QED
    BY <1>7, <2>1, <1>same DEF Update
<1>8. CASE UNCHANGED allVars
  <2>1. \A g \in Fn : InProgress(g)' = InProgress(g)
    BY <1>8, SMT DEF allVars, gateVars, InProgress, poolVars
  <2>. QED
    BY <1>8, <2>1, <1>same DEF allVars, gateVars
<1>. QED
  BY Zenon, <1>1, <1>2, <1>3, <1>4, <1>5, <1>6, <1>7, <1>8 DEF Next, Invocation

(* inv.inflight[f] counts the invocations of f in progress and the leaked. *)
THEOREM InvokerExact == Spec => []InflightIsExact
BY ExactInit, ExactStep, InvokerTypeCorrect, InvokerKeepsPoolSafe, PTL DEF Spec
-----------------------------------------------------------------------------
(* The bound: the limit an invocation loaded is one the function once had. *)
Bounded ==
  /\ \A f \in Fn : inflight[f] <= highest[f] /\ limit[f] <= highest[f]
  /\ \A c \in Caller : fn[c] \in Fn => lim[c] <= highest[fn[c]]

LEMMA BoundedStep ==
  InvokerTypeOK /\ Bounded /\ [Next]_allVars => Bounded'
<1> SUFFICES ASSUME InvokerTypeOK, Bounded, [Next]_allVars PROVE Bounded'
  OBVIOUS
<1> USE InvokerAssumption, PoolAssumption DEF InvokerTypeOK, Bounded, Limit
<1>1. ASSUME Inside, UNCHANGED gateVars PROVE Bounded'
  BY <1>1, SMT DEF gateVars
<1>2. ASSUME NEW c \in Caller, NEW f \in Fn, Load(c, f) PROVE Bounded'
  BY <1>2, SMT DEF Load
<1>3. ASSUME NEW c \in Caller, Enter(c) PROVE Bounded'
  BY <1>3, SMT DEF Enter, Loaded
<1>4. ASSUME NEW c \in Caller, Refuse(c) PROVE Bounded'
  BY <1>4, SMT DEF Refuse, Forget
<1>5. ASSUME NEW c \in Caller, Abort(c) PROVE Bounded'
  BY <1>5, SMT DEF Abort, Forget
<1>6. ASSUME NEW c \in Caller, Leave(c) PROVE Bounded'
  BY <1>6, SMT DEF Leave, Forget, Return
<1>7. ASSUME NEW f \in Fn, NEW n \in 0 .. MaxLimit + 1, Update(f, n) PROVE Bounded'
  BY <1>7, SMT DEF Update
<1>8. CASE UNCHANGED allVars
  BY <1>8 DEF allVars, gateVars
<1>. QED
  BY Zenon, <1>1, <1>2, <1>3, <1>4, <1>5, <1>6, <1>7, <1>8 DEF Next, Invocation

(* No more invocations of a function run at once than its largest limit.   *)
THEOREM InvokerBounded == Spec => []ConcurrencyBound
<1>1. Init => Bounded
  BY InvokerAssumption, SMT DEF Init, Bounded, Limit
<1>2. InvokerTypeOK /\ InflightIsExact /\ Bounded => ConcurrencyBound
  BY InProgressFinite, SMT DEF InvokerTypeOK, InflightIsExact, Bounded, ConcurrencyBound, Limit
<1>. QED
  BY <1>1, <1>2, BoundedStep, InvokerExact, InvokerTypeCorrect, PTL DEF Spec
-----------------------------------------------------------------------------
(* Both sides of the gate, as the code has them: a call is let in only     *)
(* while fewer invocations of its function than the limit it loaded are in *)
(* progress or were leaked, and answered 429 only while at least as many   *)
(* are.  So the 429 tells the truth of a function that has leaked nothing. *)
GateIsExact ==
  [][\A c \in Caller :
        /\ Enter(c)  => Cardinality(InProgress(fn[c])) + leaked[fn[c]] < lim[c]
        /\ Refuse(c) => Cardinality(InProgress(fn[c])) + leaked[fn[c]] >= lim[c]]_allVars

THEOREM InvokerGateIsExact == Spec => GateIsExact
<1>1. InvokerTypeOK /\ InflightIsExact /\ [Next]_allVars =>
        [\A c \in Caller :
           /\ Enter(c)  => Cardinality(InProgress(fn[c])) + leaked[fn[c]] < lim[c]
           /\ Refuse(c) => Cardinality(InProgress(fn[c])) + leaked[fn[c]] >= lim[c]]_allVars
  <2> SUFFICES ASSUME InvokerTypeOK, InflightIsExact, NEW c \in Caller, Loaded(c)
               PROVE  inflight[fn[c]] = Cardinality(InProgress(fn[c])) + leaked[fn[c]]
    BY Zenon DEF Enter, Refuse
  <2>1. fn[c] \in Fn
    BY InvokerAssumption DEF Loaded, InvokerTypeOK
  <2>. QED
    BY <2>1 DEF InflightIsExact
<1>. QED
  BY <1>1, InvokerExact, InvokerTypeCorrect, PTL DEF Spec, GateIsExact
=============================================================================
