------------------------- MODULE SandboxPoolProofs -------------------------
(***************************************************************************)
(* Theorems about SandboxPool, for any callers, slots and runtimes.  The   *)
(* step lemmas have one step per action; Inside and PoolNext are opened    *)
(* only where their disjuncts are put together.                            *)
(***************************************************************************)
EXTENDS SandboxPool, TLAPS

USE DEF memory, local, ghosts, poolVars, Goto, Mark, Actor
-----------------------------------------------------------------------------
LEMMA TypeInit == PoolInit => TypeOK
BY PoolAssumption, SMT DEF PoolInit, TypeOK, SlotState, CallerPc, MainPc, ReaperPc,
   Containers, OnSlot

LEMMA TypeStep == TypeOK /\ [PoolNext]_poolVars => TypeOK'
<1> SUFFICES ASSUME TypeOK, [PoolNext]_poolVars PROVE TypeOK'
  OBVIOUS
<1> USE PoolAssumption DEF TypeOK, SlotState, CallerPc, MainPc, ReaperPc, Containers, OnSlot
<1>stp. PoolNext \/ UNCHANGED poolVars
  OBVIOUS
<1>1. ASSUME NEW c \in Caller, NEW r \in Runtime, Call(c, r) PROVE TypeOK'
  BY <1>1, SMT DEF Call
<1>2. ASSUME NEW c \in Caller, Lock(c) PROVE TypeOK'
  BY <1>2, SMT DEF Lock
<1>3. ASSUME NEW c \in Caller, NEW s \in Slot, Skip(c, s) PROVE TypeOK'
  BY <1>3, SMT DEF Skip, Fits
<1>4. ASSUME NEW c \in Caller, NEW s \in Slot, Hit(c, s) PROVE TypeOK'
  BY <1>4, SMT DEF Hit, Fits
<1>5. ASSUME NEW c \in Caller, Claim(c) PROVE TypeOK'
  BY <1>5, SMT DEF Claim
<1>6. ASSUME NEW c \in Caller, Miss(c) PROVE TypeOK'
  BY <1>6, SMT DEF Miss
<1>7. ASSUME NEW c \in Caller, Ready(c) PROVE TypeOK'
  BY <1>7, SMT DEF Ready
<1>8. ASSUME NEW c \in Caller, NotReady(c) PROVE TypeOK'
  BY <1>8, SMT DEF NotReady, BeginDiscard
<1>9. ASSUME NEW a \in Caller \cup {Main}, NEW s \in Slot, CreateSandbox(a, s) PROVE TypeOK'
  BY <1>9, SMT DEF CreateSandbox, MayCreate, CreateBy
<1>10. ASSUME NEW a \in Caller \cup {Main}, CreateFails(a) PROVE TypeOK'
  BY <1>10, SMT DEF CreateFails, MayCreate, AfterCreate, CountWarmup
<1>11. ASSUME NEW a \in Caller \cup {Main}, Insert(a) PROVE TypeOK'
  BY <1>11, SMT DEF Insert
<1>12. ASSUME NEW a \in Caller \cup {Main}, MarkWarm(a) PROVE TypeOK'
  BY <1>12, SMT DEF MarkWarm, AfterCreate, CountWarmup
<1>13. ASSUME NEW c \in Caller, MarkBusy(c) PROVE TypeOK'
  BY <1>13, SMT DEF MarkBusy
<1>14. ASSUME NEW c \in Caller, Answered(c) PROVE TypeOK'
  BY <1>14, SMT DEF Answered
<1>15. ASSUME NEW c \in Caller, Errored(c) PROVE TypeOK'
  BY <1>15, SMT DEF Errored, BeginDiscard
<1>16. ASSUME NEW c \in Caller, ReleaseDead(c) PROVE TypeOK'
  BY <1>16, SMT DEF ReleaseDead
<1>17. ASSUME NEW c \in Caller, ReleaseLive(c) PROVE TypeOK'
  BY <1>17, SMT DEF ReleaseLive
<1>18. ASSUME NEW c \in Caller, MarkDead(c) PROVE TypeOK'
  BY <1>18, SMT DEF MarkDead, BeginDiscard
<1>19. ASSUME NEW c \in Caller, Rewarm(c) PROVE TypeOK'
  BY <1>19, SMT DEF Rewarm
<1>20. ASSUME NEW c \in Caller, Return(c) PROVE TypeOK'
  BY <1>20, SMT DEF Return
<1>21. ASSUME NEW a \in Actor, Delete(a) PROVE TypeOK'
  BY <1>21, SMT DEF Delete
<1>22. ASSUME NEW a \in Actor, Remove(a) PROVE TypeOK'
  BY <1>22, SMT DEF Remove
<1>23. ASSUME NEW s \in Slot, Age(s) PROVE TypeOK'
  BY <1>23, SMT DEF Age
<1>24. ASSUME Reap PROVE TypeOK'
  BY <1>24, SMT DEF Reap, Victims
<1>25. ASSUME NEW a \in {Reaper, Main}, NEW s \in Slot, SweepNext(a, s) PROVE TypeOK'
  BY <1>25, SMT DEF SweepNext, BeginDiscard
<1>26. ASSUME NEW a \in {Reaper, Main}, SweepDone(a) PROVE TypeOK'
  BY <1>26, SMT DEF SweepDone
<1>27. ASSUME Serve PROVE TypeOK'
  BY <1>27, SMT DEF Serve
<1>28. ASSUME Drain PROVE TypeOK'
  BY <1>28, SMT DEF Drain
<1>29. CASE UNCHANGED poolVars
  BY <1>29, SMT
<1>. QED
  BY Zenon, <1>stp, <1>1, <1>2, <1>3, <1>4, <1>5, <1>6, <1>7, <1>8, <1>9, <1>10, <1>11, <1>12, <1>13, <1>14, <1>15, <1>16, <1>17, <1>18, <1>19, <1>20, <1>21, <1>22, <1>23, <1>24, <1>25, <1>26, <1>27, <1>28, <1>29
  DEF PoolNext, Inside, CallerStep, Create, Discard, Sweep

(* Every variable of the pool keeps a value of its kind, and the warm-up   *)
(* loop of Start never exceeds PoolWarmSize.                               *)
THEOREM PoolTypeCorrect == PoolSpec => []TypeOK
BY TypeInit, TypeStep, PTL DEF PoolSpec
-----------------------------------------------------------------------------
(* Why a tracked slot runs: a slot is unknown to every goroutine until its *)
(* container exists, known to its creator only until it is inserted, and   *)
(* out of the map for good before its container is removed.                *)
Unseen(s) == s \notin slots /\ \A b \in Actor : cur[b] # s /\ s \notin todo[b]

UnbornUnseen == \A s \in Slot : container[s] = "none" => Unseen(s)

InsertPrivate ==
  \A a \in Actor : pc[a] = "insert" =>
     /\ container[cur[a]] = "up" /\ cur[a] \notin slots
     /\ \A b \in Actor : cur[a] \notin todo[b] /\ (b # a => cur[b] # cur[a])

RemoveUntracked == \A a \in Actor : pc[a] = "remove" => cur[a] \notin slots

Tracking == UnbornUnseen /\ InsertPrivate /\ RemoveUntracked /\ TrackedSlotsRun /\ NoLeak

LEMMA TrackingInit == PoolInit => Tracking
BY PoolAssumption, SMT DEF PoolInit, Tracking, UnbornUnseen, Unseen, InsertPrivate,
   RemoveUntracked, TrackedSlotsRun, NoLeak

LEMMA TrackingStep == TypeOK /\ Tracking /\ [PoolNext]_poolVars => Tracking'
<1> SUFFICES ASSUME TypeOK, Tracking, [PoolNext]_poolVars PROVE Tracking'
  OBVIOUS
<1> USE PoolAssumption DEF Tracking, UnbornUnseen, Unseen, InsertPrivate,
        RemoveUntracked, TrackedSlotsRun, NoLeak
<1>typ. /\ slots \subseteq Slot /\ container \in [Slot -> Containers]
        /\ pc \in [Actor -> CallerPc \cup MainPc \cup ReaperPc]
        /\ cur \in [Actor -> Slot \cup {None}] /\ todo \in [Actor -> SUBSET Slot]
        /\ then \in [Actor -> {"next", "create", "failed", "release", "released", "sweep"}]
        /\ \A a \in Actor : pc[a] \in OnSlot => cur[a] \in Slot
  BY DEF TypeOK
<1> USE DEF OnSlot
<1>stp. PoolNext \/ UNCHANGED poolVars
  OBVIOUS
<1>1. ASSUME NEW c \in Caller, NEW r \in Runtime, Call(c, r) PROVE Tracking'
  BY <1>1, <1>typ, SMT DEF Call
<1>2. ASSUME NEW c \in Caller, Lock(c) PROVE Tracking'
  BY <1>2, <1>typ, SMT DEF Lock
<1>3. ASSUME NEW c \in Caller, NEW s \in Slot, Skip(c, s) PROVE Tracking'
  BY <1>3, <1>typ, SMT DEF Skip, Fits
<1>4. ASSUME NEW c \in Caller, NEW s \in Slot, Hit(c, s) PROVE Tracking'
  BY <1>4, <1>typ, SMT DEF Hit, Fits
<1>5. ASSUME NEW c \in Caller, Claim(c) PROVE Tracking'
  BY <1>5, <1>typ, SMT DEF Claim
<1>6. ASSUME NEW c \in Caller, Miss(c) PROVE Tracking'
  BY <1>6, <1>typ, SMT DEF Miss
<1>7. ASSUME NEW c \in Caller, Ready(c) PROVE Tracking'
  BY <1>7, <1>typ, SMT DEF Ready
<1>8. ASSUME NEW c \in Caller, NotReady(c) PROVE Tracking'
  BY <1>8, <1>typ, SMT DEF NotReady, BeginDiscard
<1>9. ASSUME NEW a \in Caller \cup {Main}, NEW s \in Slot, CreateSandbox(a, s) PROVE Tracking'
  BY <1>9, <1>typ, SMT DEF CreateSandbox, MayCreate, CreateBy
<1>10. ASSUME NEW a \in Caller \cup {Main}, CreateFails(a) PROVE Tracking'
  BY <1>10, <1>typ, SMT DEF CreateFails, MayCreate, AfterCreate, CountWarmup
<1>11. ASSUME NEW a \in Caller \cup {Main}, Insert(a) PROVE Tracking'
  BY <1>11, <1>typ, SMT DEF Insert
<1>12. ASSUME NEW a \in Caller \cup {Main}, MarkWarm(a) PROVE Tracking'
  BY <1>12, <1>typ, SMT DEF MarkWarm, AfterCreate, CountWarmup
<1>13. ASSUME NEW c \in Caller, MarkBusy(c) PROVE Tracking'
  BY <1>13, <1>typ, SMT DEF MarkBusy
<1>14. ASSUME NEW c \in Caller, Answered(c) PROVE Tracking'
  BY <1>14, <1>typ, SMT DEF Answered
<1>15. ASSUME NEW c \in Caller, Errored(c) PROVE Tracking'
  BY <1>15, <1>typ, SMT DEF Errored, BeginDiscard
<1>16. ASSUME NEW c \in Caller, ReleaseDead(c) PROVE Tracking'
  BY <1>16, <1>typ, SMT DEF ReleaseDead
<1>17. ASSUME NEW c \in Caller, ReleaseLive(c) PROVE Tracking'
  BY <1>17, <1>typ, SMT DEF ReleaseLive
<1>18. ASSUME NEW c \in Caller, MarkDead(c) PROVE Tracking'
  BY <1>18, <1>typ, SMT DEF MarkDead, BeginDiscard
<1>19. ASSUME NEW c \in Caller, Rewarm(c) PROVE Tracking'
  BY <1>19, <1>typ, SMT DEF Rewarm
<1>20. ASSUME NEW c \in Caller, Return(c) PROVE Tracking'
  BY <1>20, <1>typ, SMT DEF Return
<1>21. ASSUME NEW a \in Actor, Delete(a) PROVE Tracking'
  BY <1>21, <1>typ, SMT DEF Delete
<1>22. ASSUME NEW a \in Actor, Remove(a) PROVE Tracking'
  BY <1>22, <1>typ, SMT DEF Remove
<1>23. ASSUME NEW s \in Slot, Age(s) PROVE Tracking'
  BY <1>23, <1>typ, SMT DEF Age
<1>24. ASSUME Reap PROVE Tracking'
  BY <1>24, <1>typ, SMT DEF Reap, Victims
<1>25. ASSUME NEW a \in {Reaper, Main}, NEW s \in Slot, SweepNext(a, s) PROVE Tracking'
  BY <1>25, <1>typ, SMT DEF SweepNext, BeginDiscard
<1>26. ASSUME NEW a \in {Reaper, Main}, SweepDone(a) PROVE Tracking'
  BY <1>26, <1>typ, SMT DEF SweepDone
<1>27. ASSUME Serve PROVE Tracking'
  BY <1>27, <1>typ, SMT DEF Serve
<1>28. ASSUME Drain PROVE Tracking'
  BY <1>28, <1>typ, SMT DEF Drain
<1>29. CASE UNCHANGED poolVars
  BY <1>29, <1>typ, SMT
<1>. QED
  BY Zenon, <1>stp, <1>1, <1>2, <1>3, <1>4, <1>5, <1>6, <1>7, <1>8, <1>9, <1>10, <1>11, <1>12, <1>13, <1>14, <1>15, <1>16, <1>17, <1>18, <1>19, <1>20, <1>21, <1>22, <1>23, <1>24, <1>25, <1>26, <1>27, <1>28, <1>29
  DEF PoolNext, Inside, CallerStep, Create, Discard, Sweep

LEMMA PoolTracking == PoolSpec => []Tracking
BY TypeInit, TypeStep, TrackingInit, TrackingStep, PTL DEF PoolSpec

(* A slot that Acquire can find in the map has a container nobody removed. *)
THEOREM PoolTracksRunning == PoolSpec => []TrackedSlotsRun
BY PoolTracking, PTL DEF Tracking

(* A container that runs is in the map, or about to be inserted or removed *)
(* by a goroutine that has it in hand.                                     *)
THEOREM PoolNeverLeaks == PoolSpec => []NoLeak
BY PoolTracking, PTL DEF Tracking
-----------------------------------------------------------------------------
(* Why a slot has one user: a goroutine that has claimed one keeps it, the *)
(* discard of a slot it still has to release included.                     *)
Using(c, s) == /\ cur[c] = s
               /\ pc[c] \in InUse \/ (pc[c] \in {"delete", "remove"} /\ then[c] = "release")

ClaimHoldsMu == \A c \in Caller : pc[c] \in {"scan", "claim"} => mu = c

OneUser == \A s \in Slot \ contested : \A b, c \in Caller :
              Using(b, s) /\ Using(c, s) => b = c

ClaimsUnused == \A s \in Slot \ contested : \A b, c \in Caller :
                   pc[c] = "claim" /\ cur[c] = s => ~Using(b, s)

WarmIsFree == \A s \in Slot \ contested : \A c \in Caller :
                 state[s] = "warm" /\ Using(c, s) => pc[c] = "busy"

BootingIsPrivate ==
  \A a \in Caller \cup {Main} : pc[a] = "warm" =>
     /\ state[cur[a]] # "warm"
     /\ \A b \in Caller : b # a =>
          ~Using(b, cur[a]) /\ (pc[b] = "claim" => cur[b] # cur[a])

Exclusion == ClaimHoldsMu /\ OneUser /\ ClaimsUnused /\ WarmIsFree /\ BootingIsPrivate

LEMMA ExclusionInit == PoolInit => Exclusion
BY PoolAssumption, SMT DEF PoolInit, Exclusion, ClaimHoldsMu, OneUser, ClaimsUnused,
   WarmIsFree, BootingIsPrivate, Using, InUse

LEMMA ExclusionStep ==
  TypeOK /\ Tracking /\ Exclusion /\ [PoolNext]_poolVars => Exclusion'
<1> SUFFICES ASSUME TypeOK, Tracking, Exclusion, [PoolNext]_poolVars PROVE Exclusion'
  OBVIOUS
<1> USE PoolAssumption DEF Exclusion, ClaimHoldsMu, OneUser, ClaimsUnused,
        WarmIsFree, BootingIsPrivate, Using, InUse
<1>typ. /\ slots \subseteq Slot /\ state \in [Slot -> SlotState]
        /\ pc \in [Actor -> CallerPc \cup MainPc \cup ReaperPc]
        /\ cur \in [Actor -> Slot \cup {None}] /\ todo \in [Actor -> SUBSET Slot]
        /\ then \in [Actor -> {"next", "create", "failed", "release", "released", "sweep"}]
        /\ \A a \in Actor : pc[a] \in OnSlot => cur[a] \in Slot
        /\ \A c \in Caller : pc[c] \in {"delete", "remove"} => then[c] \notin {"next", "sweep"}
        /\ pc[Main] \in MainPc /\ pc[Reaper] \in ReaperPc
  BY DEF TypeOK
<1>prv. InsertPrivate /\ UnbornUnseen
  BY DEF Tracking
<1> USE DEF OnSlot
<1>stp. PoolNext \/ UNCHANGED poolVars
  OBVIOUS
<1>1. ASSUME NEW c \in Caller, NEW r \in Runtime, Call(c, r) PROVE Exclusion'
  BY <1>1, <1>typ, SMT DEF Call
<1>2. ASSUME NEW c \in Caller, Lock(c) PROVE Exclusion'
  BY <1>2, <1>typ, SMT DEF Lock
<1>3. ASSUME NEW c \in Caller, NEW s \in Slot, Skip(c, s) PROVE Exclusion'
  BY <1>3, <1>typ, SMT DEF Skip, Fits
<1>4. ASSUME NEW c \in Caller, NEW s \in Slot, Hit(c, s) PROVE Exclusion'
  BY <1>4, <1>typ, SMT DEF Hit, Fits, Booted
<1>5. ASSUME NEW c \in Caller, Claim(c) PROVE Exclusion'
  BY <1>5, <1>typ, SMT DEF Claim
<1>6. ASSUME NEW c \in Caller, Miss(c) PROVE Exclusion'
  BY <1>6, <1>typ, SMT DEF Miss
<1>7. ASSUME NEW c \in Caller, Ready(c) PROVE Exclusion'
  BY <1>7, <1>typ, SMT DEF Ready
<1>8. ASSUME NEW c \in Caller, NotReady(c) PROVE Exclusion'
  BY <1>8, <1>typ, SMT DEF NotReady, BeginDiscard
<1>9. ASSUME NEW a \in Caller \cup {Main}, NEW s \in Slot, CreateSandbox(a, s) PROVE Exclusion'
  BY <1>9, <1>typ, <1>prv, SMT DEF UnbornUnseen, Unseen, CreateSandbox, MayCreate, CreateBy
<1>10. ASSUME NEW a \in Caller \cup {Main}, CreateFails(a) PROVE Exclusion'
  BY <1>10, <1>typ, SMT DEF CreateFails, MayCreate, AfterCreate, CountWarmup
<1>11. ASSUME NEW a \in Caller \cup {Main}, Insert(a) PROVE Exclusion'
  BY <1>11, <1>typ, <1>prv, SMT DEF InsertPrivate, Insert
<1>12. ASSUME NEW a \in Caller \cup {Main}, MarkWarm(a) PROVE Exclusion'
  BY <1>12, <1>typ, SMT DEF MarkWarm, AfterCreate, CountWarmup
<1>13. ASSUME NEW c \in Caller, MarkBusy(c) PROVE Exclusion'
  BY <1>13, <1>typ, SMT DEF MarkBusy
<1>14. ASSUME NEW c \in Caller, Answered(c) PROVE Exclusion'
  BY <1>14, <1>typ, SMT DEF Answered
<1>15. ASSUME NEW c \in Caller, Errored(c) PROVE Exclusion'
  BY <1>15, <1>typ, SMT DEF Errored, BeginDiscard
<1>16. ASSUME NEW c \in Caller, ReleaseDead(c) PROVE Exclusion'
  BY <1>16, <1>typ, SMT DEF ReleaseDead
<1>17. ASSUME NEW c \in Caller, ReleaseLive(c) PROVE Exclusion'
  BY <1>17, <1>typ, SMT DEF ReleaseLive
<1>18. ASSUME NEW c \in Caller, MarkDead(c) PROVE Exclusion'
  BY <1>18, <1>typ, SMT DEF MarkDead, BeginDiscard
<1>19. ASSUME NEW c \in Caller, Rewarm(c) PROVE Exclusion'
  BY <1>19, <1>typ, SMT DEF Rewarm
<1>20. ASSUME NEW c \in Caller, Return(c) PROVE Exclusion'
  BY <1>20, <1>typ, SMT DEF Return
<1>21. ASSUME NEW a \in Actor, Delete(a) PROVE Exclusion'
  BY <1>21, <1>typ, SMT DEF Delete
<1>22. ASSUME NEW a \in Actor, Remove(a) PROVE Exclusion'
  BY <1>22, <1>typ, SMT DEF Remove
<1>23. ASSUME NEW s \in Slot, Age(s) PROVE Exclusion'
  BY <1>23, <1>typ, SMT DEF Age
<1>24. ASSUME Reap PROVE Exclusion'
  BY <1>24, <1>typ, SMT DEF Reap, Victims
<1>25. ASSUME NEW a \in {Reaper, Main}, NEW s \in Slot, SweepNext(a, s) PROVE Exclusion'
  BY <1>25, <1>typ, SMT DEF SweepNext, BeginDiscard
<1>26. ASSUME NEW a \in {Reaper, Main}, SweepDone(a) PROVE Exclusion'
  BY <1>26, <1>typ, SMT DEF SweepDone
<1>27. ASSUME Serve PROVE Exclusion'
  BY <1>27, <1>typ, SMT DEF Serve
<1>28. ASSUME Drain PROVE Exclusion'
  BY <1>28, <1>typ, SMT DEF Drain
<1>29. CASE UNCHANGED poolVars
  BY <1>29, <1>typ, SMT
<1>. QED
  BY Zenon, <1>stp, <1>1, <1>2, <1>3, <1>4, <1>5, <1>6, <1>7, <1>8, <1>9, <1>10, <1>11, <1>12, <1>13, <1>14, <1>15, <1>16, <1>17, <1>18, <1>19, <1>20, <1>21, <1>22, <1>23, <1>24, <1>25, <1>26, <1>27, <1>28, <1>29
  DEF PoolNext, Inside, CallerStep, Create, Discard, Sweep

(* A slot has two users only if one of them hit it in the window between   *)
(* create() and cold()'s Mark(Busy).                                       *)
THEOREM PoolExclusive == PoolSpec => []ExclusiveUnlessContested
<1>1. Exclusion => ExclusiveUnlessContested
  BY DEF Exclusion, OneUser, Using, ExclusiveUnlessContested, Users
<1>2. PoolSpec => []Exclusion
  BY TypeInit, TypeStep, TrackingInit, TrackingStep, ExclusionInit, ExclusionStep, PTL
     DEF PoolSpec
<1>. QED
  BY <1>1, <1>2, PTL
-----------------------------------------------------------------------------
(* What SlotComesBack and InvocationsReturn rest on: p.mu, when it is      *)
(* held, is held by a caller that is in its scan; and a slot in the map    *)
(* that is not warm is in the hands of a goroutine that will mark it warm  *)
(* or take it out of the map.  No path returns with the one or the other.  *)
Holding == {"warm", "ready", "busy", "booted", "holding", "release", "rewarm", "dead", "delete"}

MuInScan == \A c \in Caller : mu = c => pc[c] \in {"scan", "claim"}

NoSlotStranded ==
  \A s \in slots : state[s] # "warm" => \E a \in Actor : cur[a] = s /\ pc[a] \in Holding

Returning == MuInScan /\ NoSlotStranded

LEMMA ReturningInit == PoolInit => Returning
BY PoolAssumption, SMT DEF PoolInit, Returning, MuInScan, NoSlotStranded, Actor

LEMMA ReturningStep ==
  TypeOK /\ Tracking /\ Returning /\ [PoolNext]_poolVars => Returning'
<1> SUFFICES ASSUME TypeOK, Tracking, Returning, [PoolNext]_poolVars PROVE Returning'
  OBVIOUS
<1> USE PoolAssumption DEF Returning, MuInScan, NoSlotStranded, Holding
<1>typ. /\ slots \subseteq Slot /\ state \in [Slot -> SlotState]
        /\ pc \in [Actor -> CallerPc \cup MainPc \cup ReaperPc]
        /\ cur \in [Actor -> Slot \cup {None}]
        /\ then \in [Actor -> {"next", "create", "failed", "release", "released", "sweep"}]
        /\ \A a \in Actor : pc[a] \in OnSlot => cur[a] \in Slot
        /\ \A c \in Caller : c \in Actor
  BY DEF TypeOK, Actor
<1>out. \A a \in Actor : pc[a] = "remove" => cur[a] \notin slots
  BY DEF Tracking, RemoveUntracked
<1> USE DEF OnSlot
<1>stp. PoolNext \/ UNCHANGED poolVars
  OBVIOUS
<1>1. ASSUME NEW c \in Caller, NEW r \in Runtime, Call(c, r) PROVE Returning'
  BY <1>1, <1>typ, SMT DEF Call
<1>2. ASSUME NEW c \in Caller, Lock(c) PROVE Returning'
  BY <1>2, <1>typ, SMT DEF Lock
<1>3. ASSUME NEW c \in Caller, NEW s \in Slot, Skip(c, s) PROVE Returning'
  BY <1>3, <1>typ, SMT DEF Skip, Fits
<1>4. ASSUME NEW c \in Caller, NEW s \in Slot, Hit(c, s) PROVE Returning'
  BY <1>4, <1>typ, SMT DEF Hit, Fits
<1>5. ASSUME NEW c \in Caller, Claim(c) PROVE Returning'
  BY <1>5, <1>typ, SMT DEF Claim
<1>6. ASSUME NEW c \in Caller, Miss(c) PROVE Returning'
  BY <1>6, <1>typ, SMT DEF Miss
<1>7. ASSUME NEW c \in Caller, Ready(c) PROVE Returning'
  BY <1>7, <1>typ, SMT DEF Ready
<1>8. ASSUME NEW c \in Caller, NotReady(c) PROVE Returning'
  BY <1>8, <1>typ, SMT DEF NotReady, BeginDiscard
<1>9. ASSUME NEW a \in Caller \cup {Main}, NEW s \in Slot, CreateSandbox(a, s) PROVE Returning'
  BY <1>9, <1>typ, SMT DEF CreateSandbox, MayCreate, CreateBy
<1>10. ASSUME NEW a \in Caller \cup {Main}, CreateFails(a) PROVE Returning'
  BY <1>10, <1>typ, SMT DEF CreateFails, MayCreate, AfterCreate, CountWarmup
<1>11. ASSUME NEW a \in Caller \cup {Main}, Insert(a) PROVE Returning'
  BY <1>11, <1>typ, SMT DEF Insert
<1>12. ASSUME NEW a \in Caller \cup {Main}, MarkWarm(a) PROVE Returning'
  BY <1>12, <1>typ, SMT DEF MarkWarm, AfterCreate, CountWarmup
<1>13. ASSUME NEW c \in Caller, MarkBusy(c) PROVE Returning'
  BY <1>13, <1>typ, SMT DEF MarkBusy
<1>14. ASSUME NEW c \in Caller, Answered(c) PROVE Returning'
  BY <1>14, <1>typ, SMT DEF Answered
<1>15. ASSUME NEW c \in Caller, Errored(c) PROVE Returning'
  BY <1>15, <1>typ, SMT DEF Errored, BeginDiscard
<1>16. ASSUME NEW c \in Caller, ReleaseDead(c) PROVE Returning'
  BY <1>16, <1>typ, SMT DEF ReleaseDead
<1>17. ASSUME NEW c \in Caller, ReleaseLive(c) PROVE Returning'
  BY <1>17, <1>typ, SMT DEF ReleaseLive
<1>18. ASSUME NEW c \in Caller, MarkDead(c) PROVE Returning'
  BY <1>18, <1>typ, SMT DEF MarkDead, BeginDiscard
<1>19. ASSUME NEW c \in Caller, Rewarm(c) PROVE Returning'
  BY <1>19, <1>typ, SMT DEF Rewarm
<1>20. ASSUME NEW c \in Caller, Return(c) PROVE Returning'
  BY <1>20, <1>typ, SMT DEF Return
<1>21. ASSUME NEW a \in Actor, Delete(a) PROVE Returning'
  BY <1>21, <1>typ, SMT DEF Delete
<1>22. ASSUME NEW a \in Actor, Remove(a) PROVE Returning'
  BY <1>22, <1>typ, <1>out, SMT DEF Remove
<1>23. ASSUME NEW s \in Slot, Age(s) PROVE Returning'
  BY <1>23, <1>typ, SMT DEF Age
<1>24. ASSUME Reap PROVE Returning'
  BY <1>24, <1>typ, SMT DEF Reap, Victims
<1>25. ASSUME NEW a \in {Reaper, Main}, NEW s \in Slot, SweepNext(a, s) PROVE Returning'
  BY <1>25, <1>typ, SMT DEF SweepNext, BeginDiscard
<1>26. ASSUME NEW a \in {Reaper, Main}, SweepDone(a) PROVE Returning'
  BY <1>26, <1>typ, SMT DEF SweepDone
<1>27. ASSUME Serve PROVE Returning'
  BY <1>27, <1>typ, SMT DEF Serve
<1>28. ASSUME Drain PROVE Returning'
  BY <1>28, <1>typ, SMT DEF Drain
<1>29. CASE UNCHANGED poolVars
  BY <1>29, <1>typ, SMT
<1>. HIDE DEF Returning, MuInScan, NoSlotStranded, Holding, OnSlot
<1>. QED
  BY Zenon, <1>stp, <1>1, <1>2, <1>3, <1>4, <1>5, <1>6, <1>7, <1>8, <1>9, <1>10, <1>11, <1>12, <1>13, <1>14, <1>15, <1>16, <1>17, <1>18, <1>19, <1>20, <1>21, <1>22, <1>23, <1>24, <1>25, <1>26, <1>27, <1>28, <1>29
  DEF PoolNext, Inside, CallerStep, Create, Discard, Sweep

(* p.mu is never left locked: the caller that holds it is in its scan, and *)
(* every end of that unlocks it.                                           *)
THEOREM PoolReleasesMu == PoolSpec => []MuInScan
<1>1. Returning => MuInScan
  BY DEF Returning
<1>. QED
  BY <1>1, TypeInit, TypeStep, TrackingInit, TrackingStep, ReturningInit, ReturningStep, PTL
  DEF PoolSpec

(* No slot is stranded: one in the map that is not warm is in the hands of *)
(* a goroutine that makes it warm or takes it out.                         *)
THEOREM PoolStrandsNoSlot == PoolSpec => []NoSlotStranded
<1>1. Returning => NoSlotStranded
  BY DEF Returning
<1>. QED
  BY <1>1, TypeInit, TypeStep, TrackingInit, TrackingStep, ReturningInit, ReturningStep, PTL
  DEF PoolSpec
-----------------------------------------------------------------------------
(* The pool implements SandboxLifecycle under the mapping PhaseOf.         *)
phases == [s \in Slot |-> PhaseOf(s)]
Fresh(s) == \E a \in Actor : cur[a] = s /\ pc[a] = "insert"

LEMMA SamePhases ==
  ASSUME slots' = slots, container' = container,
         \A s \in Slot : Fresh(s)' <=> Fresh(s)
  PROVE  [Lifecycle!Next]_phases
<1>1. \A s \in Slot : PhaseOf(s)' = PhaseOf(s)
  BY SMT DEF PhaseOf, Fresh
<1>. QED
  BY <1>1 DEF phases

LEMMA PhaseMove ==
  ASSUME NEW s \in Slot,
         \A x \in Slot \ {s} : phases'[x] = phases[x],
         \/ phases[s] = "unborn"  /\ phases'[s] \in {"fresh", "lost"}
         \/ phases[s] = "fresh"   /\ phases'[s] = "tracked"
         \/ phases[s] = "tracked" /\ phases'[s] = "doomed"
         \/ phases[s] = "doomed"  /\ phases'[s] \in {"gone", "lost"}
         \/ phases[s] = "lost"    /\ phases'[s] = "gone"
         \/ phases[s] = "gone"    /\ phases'[s] = "gone"
  PROVE  [Lifecycle!Next]_phases
<1>1. phases = [x \in Slot |-> phases[x]] /\ phases' = [x \in Slot |-> phases'[x]]
  BY Zenon DEF phases
<1>2. phases' = [phases EXCEPT ![s] = phases'[s]]
  BY <1>1, SMT
<1>3. phases'[s] = phases[s] => phases' = phases
  BY <1>1, SMT
<1>4. \A from, to : phases[s] = from /\ phases'[s] = to => Lifecycle!Become(s, from, to)
  BY <1>2 DEF Lifecycle!Become, phases
<1>. QED
  BY <1>3, <1>4
  DEF Lifecycle!Next, Lifecycle!Create, Lifecycle!Track, Lifecycle!Forget,
      Lifecycle!Destroy, Lifecycle!Lose, Lifecycle!Recover

LEMMA LifecycleStep ==
  TypeOK /\ Tracking /\ [PoolNext]_poolVars => [Lifecycle!Next]_phases
<1> SUFFICES ASSUME TypeOK, Tracking, [PoolNext]_poolVars PROVE [Lifecycle!Next]_phases
  OBVIOUS
<1> USE PoolAssumption
<1>typ. /\ slots \subseteq Slot /\ container \in [Slot -> Containers]
        /\ pc \in [Actor -> CallerPc \cup MainPc \cup ReaperPc]
        /\ cur \in [Actor -> Slot \cup {None}] /\ todo \in [Actor -> SUBSET Slot]
        /\ then \in [Actor -> {"next", "create", "failed", "release", "released", "sweep"}]
        /\ \A a \in Actor : pc[a] \in OnSlot => cur[a] \in Slot
  BY DEF TypeOK
<1>trk. UnbornUnseen /\ InsertPrivate /\ RemoveUntracked /\ TrackedSlotsRun
  BY DEF Tracking
<1> USE DEF OnSlot
<1>stp. PoolNext \/ UNCHANGED poolVars
  OBVIOUS
<1>1. ASSUME NEW c \in Caller, NEW r \in Runtime, Call(c, r) PROVE [Lifecycle!Next]_phases
  BY <1>1, <1>typ, SamePhases, SMT DEF Fresh, Call
<1>2. ASSUME NEW c \in Caller, Lock(c) PROVE [Lifecycle!Next]_phases
  BY <1>2, <1>typ, SamePhases, SMT DEF Fresh, Lock
<1>3. ASSUME NEW c \in Caller, NEW s \in Slot, Skip(c, s) PROVE [Lifecycle!Next]_phases
  BY <1>3, <1>typ, SamePhases, SMT DEF Fresh, Skip, Fits
<1>4. ASSUME NEW c \in Caller, NEW s \in Slot, Hit(c, s) PROVE [Lifecycle!Next]_phases
  BY <1>4, <1>typ, SamePhases, SMT DEF Fresh, Hit, Fits
<1>5. ASSUME NEW c \in Caller, Claim(c) PROVE [Lifecycle!Next]_phases
  BY <1>5, <1>typ, SamePhases, SMT DEF Fresh, Claim
<1>6. ASSUME NEW c \in Caller, Miss(c) PROVE [Lifecycle!Next]_phases
  BY <1>6, <1>typ, SamePhases, SMT DEF Fresh, Miss
<1>7. ASSUME NEW c \in Caller, Ready(c) PROVE [Lifecycle!Next]_phases
  BY <1>7, <1>typ, SamePhases, SMT DEF Fresh, Ready
<1>8. ASSUME NEW c \in Caller, NotReady(c) PROVE [Lifecycle!Next]_phases
  BY <1>8, <1>typ, SamePhases, SMT DEF Fresh, NotReady, BeginDiscard
<1>9. ASSUME NEW a \in Caller \cup {Main}, NEW s \in Slot, CreateSandbox(a, s) PROVE [Lifecycle!Next]_phases
  <2>1. container[s] = "none" /\ s \notin slots /\ ~Fresh(s)
    BY <1>9, <1>trk, SMT DEF CreateSandbox, MayCreate, UnbornUnseen, Unseen, Fresh
  <2>2. \A x \in Slot : Fresh(x)' <=> Fresh(x) \/ x = s
    BY <1>9, <1>typ, SMT DEF CreateSandbox, MayCreate, Fresh
  <2>3. \A x \in Slot \ {s} : phases'[x] = phases[x]
    BY <1>9, <1>typ, <2>2, SMT DEF CreateSandbox, phases, PhaseOf, Fresh, Containers
  <2>4. phases[s] = "unborn" /\ phases'[s] = "fresh"
    BY <1>9, <1>typ, <2>1, <2>2, SMT DEF CreateSandbox, phases, PhaseOf, Fresh, Containers
  <2>. QED
    BY <2>3, <2>4, PhaseMove
<1>10. ASSUME NEW a \in Caller \cup {Main}, CreateFails(a) PROVE [Lifecycle!Next]_phases
  <2>1. \A x \in Slot : Fresh(x)' <=> Fresh(x)
    BY <1>10, <1>typ, SMT DEF CreateFails, MayCreate, AfterCreate, Fresh
  <2>2. CASE UNCHANGED container
    BY <1>10, <2>1, <2>2, SamePhases DEF CreateFails
  <2>3. ASSUME NEW s \in Slot, container[s] = "none",
               container' = [container EXCEPT ![s] = "orphan"]
        PROVE  [Lifecycle!Next]_phases
    <3>1. \A x \in Slot \ {s} : phases'[x] = phases[x]
      BY <1>10, <1>typ, <2>1, <2>3, SMT DEF CreateFails, phases, PhaseOf, Fresh, Containers
    <3>2. phases[s] = "unborn" /\ phases'[s] = "lost"
      BY <1>typ, <2>3, SMT DEF phases, PhaseOf
    <3>. QED
      BY <3>1, <3>2, PhaseMove
  <2>. QED
    BY <1>10, <2>2, <2>3 DEF CreateFails
<1>11. ASSUME NEW a \in Caller \cup {Main}, Insert(a) PROVE [Lifecycle!Next]_phases
  <2>1. cur[a] \in Slot /\ container[cur[a]] = "up" /\ cur[a] \notin slots /\ Fresh(cur[a])
    BY <1>11, <1>typ, <1>trk, SMT DEF Insert, InsertPrivate, Fresh
  <2>2. \A x \in Slot : Fresh(x)' <=> Fresh(x) /\ x # cur[a]
    BY <1>11, <1>typ, <1>trk, SMT DEF Insert, InsertPrivate, Fresh
  <2>3. \A x \in Slot \ {cur[a]} : phases'[x] = phases[x]
    BY <1>11, <1>typ, <2>2, SMT DEF Insert, phases, PhaseOf, Fresh, Containers
  <2>4. phases[cur[a]] = "fresh"
    BY <2>1, SMT DEF phases, PhaseOf, Fresh, Containers
  <2>5. slots' = slots \cup {cur[a]} /\ UNCHANGED container /\ cur' = cur
    BY <1>11 DEF Insert
  <2>6. ASSUME NEW x \in Slot, x = cur[a] PROVE phases'[x] = "tracked"
    BY <2>1, <2>5, <2>6, SMT DEF phases, PhaseOf
  <2>7. ASSUME NEW x \in Slot, x = cur[a] PROVE [Lifecycle!Next]_phases
    BY <2>3, <2>4, <2>6, <2>7, PhaseMove
  <2>. QED
    BY <2>1, <2>7
<1>12. ASSUME NEW a \in Caller \cup {Main}, MarkWarm(a) PROVE [Lifecycle!Next]_phases
  BY <1>12, <1>typ, SamePhases, SMT DEF Fresh, MarkWarm, AfterCreate, CountWarmup
<1>13. ASSUME NEW c \in Caller, MarkBusy(c) PROVE [Lifecycle!Next]_phases
  BY <1>13, <1>typ, SamePhases, SMT DEF Fresh, MarkBusy
<1>14. ASSUME NEW c \in Caller, Answered(c) PROVE [Lifecycle!Next]_phases
  BY <1>14, <1>typ, SamePhases, SMT DEF Fresh, Answered
<1>15. ASSUME NEW c \in Caller, Errored(c) PROVE [Lifecycle!Next]_phases
  BY <1>15, <1>typ, SamePhases, SMT DEF Fresh, Errored, BeginDiscard
<1>16. ASSUME NEW c \in Caller, ReleaseDead(c) PROVE [Lifecycle!Next]_phases
  BY <1>16, <1>typ, SamePhases, SMT DEF Fresh, ReleaseDead
<1>17. ASSUME NEW c \in Caller, ReleaseLive(c) PROVE [Lifecycle!Next]_phases
  BY <1>17, <1>typ, SamePhases, SMT DEF Fresh, ReleaseLive
<1>18. ASSUME NEW c \in Caller, MarkDead(c) PROVE [Lifecycle!Next]_phases
  BY <1>18, <1>typ, SamePhases, SMT DEF Fresh, MarkDead, BeginDiscard
<1>19. ASSUME NEW c \in Caller, Rewarm(c) PROVE [Lifecycle!Next]_phases
  BY <1>19, <1>typ, SamePhases, SMT DEF Fresh, Rewarm
<1>20. ASSUME NEW c \in Caller, Return(c) PROVE [Lifecycle!Next]_phases
  BY <1>20, <1>typ, SamePhases, SMT DEF Fresh, Return
<1>21. ASSUME NEW a \in Actor, Delete(a) PROVE [Lifecycle!Next]_phases
  <2>1. cur[a] \in Slot /\ ~Fresh(cur[a])
    BY <1>21, <1>typ, <1>trk, SMT DEF Delete, InsertPrivate, Fresh
  <2>2. \A x \in Slot : Fresh(x)' <=> Fresh(x)
    BY <1>21, <1>typ, SMT DEF Delete, Fresh
  <2>3. CASE cur[a] \notin slots
    BY <1>21, <2>2, <2>3, SamePhases, SMT DEF Delete
  <2>4. ASSUME NEW x \in Slot, x = cur[a], x \in slots PROVE [Lifecycle!Next]_phases
    <3>1. container[x] = "up"
      BY <2>4, <1>trk DEF TrackedSlotsRun
    <3>2. \A y \in Slot \ {x} : phases'[y] = phases[y]
      BY <1>21, <1>typ, <2>2, <2>4, SMT DEF Delete, phases, PhaseOf, Fresh, Containers
    <3>3. phases[x] = "tracked" /\ phases'[x] = "doomed"
      BY <1>21, <2>1, <2>2, <2>4, <3>1, SMT DEF Delete, phases, PhaseOf, Fresh, Containers
    <3>. QED
      BY <3>2, <3>3, PhaseMove
  <2>. QED
    BY <2>1, <2>3, <2>4
<1>22. ASSUME NEW a \in Actor, Remove(a) PROVE [Lifecycle!Next]_phases
  <2>1. /\ cur[a] \in Slot /\ cur[a] \notin slots /\ ~Fresh(cur[a])
        /\ container[cur[a]] \in {"up", "removed", "orphan"}
    BY <1>22, <1>typ, <1>trk, SMT
    DEF Remove, InsertPrivate, RemoveUntracked, UnbornUnseen, Unseen, Fresh, Containers
  <2>2. \A x \in Slot : Fresh(x)' <=> Fresh(x)
    BY <1>22, <1>typ, SMT DEF Remove, Fresh
  <2>3. CASE UNCHANGED container
    BY <1>22, <2>2, <2>3, SamePhases DEF Remove
  <2>4. ASSUME NEW x \in Slot, x = cur[a], ~UNCHANGED container
        PROVE  [Lifecycle!Next]_phases
    <3>1. \A y \in Slot \ {x} : phases'[y] = phases[y]
      BY <1>22, <1>typ, <2>2, <2>4, SMT DEF Remove, phases, PhaseOf, Fresh, Containers
    <3>2. \/ container[x] = "up" /\ container'[x] \in {"removed", "orphan"}
          \/ container[x] = "orphan" /\ container'[x] = "removed"
          \/ container[x] = "removed" /\ container'[x] = "removed"
      BY <1>22, <1>typ, <2>1, <2>4, SMT DEF Remove
    <3>3. x \notin slots /\ x \notin slots' /\ ~Fresh(x)
      BY <1>22, <2>1, <2>4 DEF Remove
    <3>4. \/ phases[x] = "doomed" /\ phases'[x] \in {"gone", "lost"}
          \/ phases[x] = "lost" /\ phases'[x] = "gone"
          \/ phases[x] = "gone" /\ phases'[x] = "gone"
      BY <3>2, <3>3, SMT DEF phases, PhaseOf, Fresh, Containers
    <3>. QED
      BY <3>1, <3>4, PhaseMove
  <2>. QED
    BY <2>1, <2>3, <2>4
<1>23. ASSUME NEW s \in Slot, Age(s) PROVE [Lifecycle!Next]_phases
  BY <1>23, <1>typ, SamePhases, SMT DEF Fresh, Age
<1>24. ASSUME Reap PROVE [Lifecycle!Next]_phases
  BY <1>24, <1>typ, SamePhases, SMT DEF Fresh, Reap, Victims
<1>25. ASSUME NEW a \in {Reaper, Main}, NEW s \in Slot, SweepNext(a, s) PROVE [Lifecycle!Next]_phases
  BY <1>25, <1>typ, SamePhases, SMT DEF Fresh, SweepNext, BeginDiscard
<1>26. ASSUME NEW a \in {Reaper, Main}, SweepDone(a) PROVE [Lifecycle!Next]_phases
  BY <1>26, <1>typ, SamePhases, SMT DEF Fresh, SweepDone
<1>27. ASSUME Serve PROVE [Lifecycle!Next]_phases
  BY <1>27, <1>typ, SamePhases, SMT DEF Fresh, Serve
<1>28. ASSUME Drain PROVE [Lifecycle!Next]_phases
  BY <1>28, <1>typ, SamePhases, SMT DEF Fresh, Drain
<1>29. CASE UNCHANGED poolVars
  BY <1>29, SamePhases DEF Fresh
<1>. QED
  BY Zenon, <1>stp, <1>1, <1>2, <1>3, <1>4, <1>5, <1>6, <1>7, <1>8, <1>9, <1>10, <1>11, <1>12, <1>13, <1>14, <1>15, <1>16, <1>17, <1>18, <1>19, <1>20, <1>21, <1>22, <1>23, <1>24, <1>25, <1>26, <1>27, <1>28, <1>29
  DEF PoolNext, Inside, CallerStep, Create, Discard, Sweep

(* A container is created once, tracked at most once, removed only after   *)
(* it was forgotten, and never comes back to the map.                      *)
THEOREM PoolImplementsLifecycle == PoolSpec => LifecycleSpec
<1>1. PoolInit => Lifecycle!Init
  BY SMT DEF PoolInit, Lifecycle!Init, PhaseOf
<1>2. TypeOK /\ Tracking /\ [PoolNext]_poolVars
        => [Lifecycle!Next]_[s \in Slot |-> PhaseOf(s)]
  BY LifecycleStep DEF phases
<1>. QED
  BY <1>1, <1>2, TypeInit, TypeStep, TrackingInit, TrackingStep, PTL
  DEF PoolSpec, LifecycleSpec, Lifecycle!Spec
=============================================================================
