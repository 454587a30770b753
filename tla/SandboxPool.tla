---------------------------- MODULE SandboxPool ----------------------------
(***************************************************************************)
(* The pool of sandbox containers (internal/pool): the map p.slots guarded *)
(* by p.mu, the state of each slot guarded by the slot's own mutex, and    *)
(* the containers behind the slots, which Docker creates and removes.      *)
(*                                                                         *)
(* Three kinds of goroutines work on it: the callers of Acquire and        *)
(* Release (one per invocation), the reaper of idle slots, and the main    *)
(* goroutine, which warms the pool in Start and empties it in Drain.  A    *)
(* step of the model is one critical section of the code: p.mu and the     *)
(* mutex of a slot are different locks, so the state of a slot can change  *)
(* while another goroutine holds p.mu.                                     *)
(***************************************************************************)
EXTENDS Naturals, Sequences, FiniteSets

CONSTANTS Caller,      \* the goroutines that run an invocation
          Reaper,      \* the goroutine of reaper()
          Main,        \* the goroutine of main()
          Slot,        \* slot IDs; bounds how many sandboxes are ever created
          Runtime,     \* the runtimes of the registry
          WarmOrder,   \* the runtimes Start pre-warms, in turn
          WarmSize,    \* cfg.PoolWarmSize
          MaxOrphans,  \* bounds the containers Docker fails to remove
          None         \* no goroutine, no slot, no runtime

Actor == Caller \cup {Reaper, Main}

ASSUME PoolAssumption ==
  /\ Reaper # Main /\ Reaper \notin Caller /\ Main \notin Caller
  /\ None \notin Actor \cup Slot \cup Runtime
  /\ WarmOrder \in Seq(Runtime) /\ WarmOrder # << >>
  /\ WarmSize \in Nat /\ MaxOrphans \in Nat

VARIABLES
  slots,      \* the keys of p.slots
  state,      \* Slot.State
  runtime,    \* Slot.Runtime
  stale,      \* tracked slots with IdleFor() > cfg.PoolIdleTTL
  container,  \* what Docker knows of the slot's container
  mu,         \* who holds p.mu across steps
  pc,         \* where each goroutine is
  cur,        \* the slot it works on
  want,       \* the runtime it asked for
  todo,       \* slots it has still to visit: the scan, the victims, the drain
  then,       \* where it continues after discard()
  warmed,     \* the loop index of Start
  contested   \* history: slots another caller hit before cold()'s Mark(Busy)

memory == <<slots, state, runtime, stale, container>>
local  == <<cur, want, todo, then>>
ghosts == <<warmed, contested>>
poolVars == <<slots, state, runtime, stale, container, mu, pc, cur, want, todo,
              then, warmed, contested>>

SlotState == {"none", "booting", "warm", "busy", "dead"}

PoolInit ==
  /\ slots = {} /\ stale = {} /\ mu = None
  /\ state     = [s \in Slot |-> "none"]
  /\ runtime   = [s \in Slot |-> None]
  /\ container = [s \in Slot |-> "none"]
  /\ pc        = [a \in Actor |-> IF a = Main THEN "boot" ELSE "idle"]
  /\ cur       = [a \in Actor |-> None]
  /\ want      = [a \in Actor |-> None]
  /\ todo      = [a \in Actor |-> {}]
  /\ then      = [a \in Actor |-> "next"]
  /\ warmed = 0 /\ contested = {}

Goto(a, label) == pc' = [pc EXCEPT ![a] = label]
Mark(s, st)    == state' = [state EXCEPT ![s] = st]

(* discard() starts with Mark(Dead); the goroutine will continue at k.     *)
BeginDiscard(a, s, k) ==
  /\ Mark(s, "dead")
  /\ then' = [then EXCEPT ![a] = k]
  /\ Goto(a, "delete")
-----------------------------------------------------------------------------
(* Acquire: scan the map under p.mu for a warm slot of the runtime.        *)

Starting == pc[Main] \in {"boot", "insert", "warm"}

Call(c, r) ==
  /\ pc[c] = "idle" /\ ~Starting      \* the server listens after Start
  /\ want' = [want EXCEPT ![c] = r]
  /\ Goto(c, "lock")
  /\ UNCHANGED <<memory, mu, cur, todo, then, ghosts>>

Lock(c) ==
  /\ pc[c] = "lock" /\ mu = None
  /\ mu' = c
  /\ todo' = [todo EXCEPT ![c] = slots]
  /\ Goto(c, "scan")
  /\ UNCHANGED <<memory, cur, want, then, ghosts>>

Fits(c, s) == runtime[s] = want[c] /\ state[s] = "warm"

Skip(c, s) ==
  /\ pc[c] = "scan" /\ s \in todo[c] /\ ~Fits(c, s)
  /\ todo' = [todo EXCEPT ![c] = @ \ {s}]
  /\ UNCHANGED <<memory, mu, pc, cur, want, then, ghosts>>

(* Snapshot() saw a warm slot; the slot's mutex is free again before Mark. *)
(* A slot that create() has just marked warm is in the map before cold()   *)
(* has marked it busy for the caller that paid for it.                     *)
Booted(s) == {b \in Caller : cur[b] = s /\ pc[b] = "busy"}

Hit(c, s) ==
  /\ pc[c] = "scan" /\ s \in todo[c] /\ Fits(c, s)
  /\ cur' = [cur EXCEPT ![c] = s]
  /\ contested' = IF Booted(s) = {} THEN contested ELSE contested \cup {s}
  /\ Goto(c, "claim")
  /\ UNCHANGED <<memory, mu, want, todo, then, warmed>>

(* Mark(Busy), Touch and the unlock: IdleFor is read under p.mu only, and  *)
(* a step of another goroutine after Mark(Busy) commutes with the unlock.  *)
ClaimWithoutMark(c) ==
  /\ pc[c] = "claim"
  /\ stale' = stale \ {cur[c]}
  /\ mu' = None
  /\ todo' = [todo EXCEPT ![c] = {}]
  /\ Goto(c, "ready")
  /\ UNCHANGED <<slots, state, runtime, container, cur, want, then, ghosts>>

Claim(c) ==
  /\ pc[c] = "claim"
  /\ Mark(cur[c], "busy")
  /\ stale' = stale \ {cur[c]}
  /\ mu' = None
  /\ todo' = [todo EXCEPT ![c] = {}]
  /\ Goto(c, "ready")
  /\ UNCHANGED <<slots, runtime, container, cur, want, then, ghosts>>

MissHoldingLock(c) ==
  /\ pc[c] = "scan" /\ todo[c] = {}
  /\ Goto(c, "create")
  /\ UNCHANGED <<memory, mu, local, ghosts>>

Miss(c) ==
  /\ pc[c] = "scan" /\ todo[c] = {}
  /\ mu' = None
  /\ Goto(c, "create")
  /\ UNCHANGED <<memory, local, ghosts>>

(* waitReady, for 800ms after a warm hit and 3s after a cold start: only   *)
(* an agent whose socket is still there can answer.  One that does not, or *)
(* a cancelled request, costs the slot; a warm caller then goes cold, a    *)
(* cold one gives up.                                                      *)
Ready(c) ==
  /\ pc[c] \in {"ready", "booted"} /\ container[cur[c]] = "up"
  /\ Goto(c, "holding")
  /\ UNCHANGED <<memory, mu, local, ghosts>>

NotReadyKeepsSlot(c) ==
  /\ pc[c] \in {"ready", "booted"}
  /\ Goto(c, IF pc[c] = "ready" THEN "create" ELSE "failed")
  /\ UNCHANGED <<memory, mu, local, ghosts>>

NotReady(c) ==
  /\ pc[c] \in {"ready", "booted"}
  /\ BeginDiscard(c, cur[c], IF pc[c] = "ready" THEN "create" ELSE "failed")
  /\ UNCHANGED <<slots, runtime, stale, container, mu, cur, want, todo, ghosts>>
-----------------------------------------------------------------------------
(* create, used by cold() in Acquire and by the warm-up loop of Start.     *)

CreateBy(a) == IF a = Main THEN WarmOrder[(warmed % Len(WarmOrder)) + 1]
                           ELSE want[a]
AfterCreate(a, label) == IF a = Main THEN "boot" ELSE label
CountWarmup(a) == warmed' = IF a = Main THEN warmed + 1 ELSE warmed

MayOrphan == Cardinality({s \in Slot : container[s] = "orphan"}) < MaxOrphans

MayCreateOneMore(a) == \/ a \in Caller /\ pc[a] = "create"
                       \/ a = Main /\ pc[a] = "boot" /\ warmed <= WarmSize

MayCreate(a) == \/ a \in Caller /\ pc[a] = "create"
                \/ a = Main /\ pc[a] = "boot" /\ warmed < WarmSize

CreateSandbox(a, s) ==
  /\ MayCreate(a) /\ container[s] = "none"
  /\ container' = [container EXCEPT ![s] = "up"]
  /\ runtime' = [runtime EXCEPT ![s] = CreateBy(a)]
  /\ cur' = [cur EXCEPT ![a] = s]
  /\ Goto(a, "insert")
  /\ UNCHANGED <<slots, state, stale, mu, want, todo, then, ghosts>>

(* Docker refused.  When it was the start that failed, the container is    *)
(* removed on a best-effort basis and may stay behind.                     *)
CreateFails(a) ==
  /\ MayCreate(a)
  /\ \/ UNCHANGED container
     \/ \E s \in Slot : /\ container[s] = "none" /\ MayOrphan
                        /\ container' = [container EXCEPT ![s] = "orphan"]
  /\ CountWarmup(a)
  /\ Goto(a, AfterCreate(a, "failed"))
  /\ UNCHANGED <<slots, state, runtime, stale, mu, local, contested>>

InsertForgotten(a) ==
  /\ pc[a] = "insert" /\ mu = None
  /\ Mark(cur[a], "booting")
  /\ stale' = stale \ {cur[a]}
  /\ Goto(a, "warm")
  /\ UNCHANGED <<slots, runtime, container, mu, local, ghosts>>

Insert(a) ==
  /\ pc[a] = "insert" /\ mu = None
  /\ slots' = slots \cup {cur[a]}
  /\ Mark(cur[a], "booting")
  /\ stale' = stale \ {cur[a]}
  /\ Goto(a, "warm")
  /\ UNCHANGED <<runtime, container, mu, local, ghosts>>

MarkWarm(a) ==
  /\ pc[a] = "warm"
  /\ Mark(cur[a], "warm")
  /\ CountWarmup(a)
  /\ cur' = [cur EXCEPT ![a] = IF a = Main THEN None ELSE @]
  /\ Goto(a, AfterCreate(a, "busy"))
  /\ UNCHANGED <<slots, runtime, stale, container, mu, want, todo, then, contested>>

MarkBusy(c) ==
  /\ pc[c] = "busy"
  /\ Mark(cur[c], "busy")
  /\ Goto(c, "booted")
  /\ UNCHANGED <<slots, runtime, stale, container, mu, local, ghosts>>
-----------------------------------------------------------------------------
(* The caller is done with the slot: Release after an answer, Discard and  *)
(* then the deferred Release after an error.                               *)

Answered(c) ==
  /\ pc[c] = "holding" /\ container[cur[c]] # "removed"
  /\ Goto(c, "release")
  /\ UNCHANGED <<memory, mu, local, ghosts>>

Errored(c) ==
  /\ pc[c] = "holding"
  /\ BeginDiscard(c, cur[c], "release")
  /\ UNCHANGED <<slots, runtime, stale, container, mu, cur, want, todo, ghosts>>

(* Release: Touch, then the Snapshot that decides.  The reaper reads the   *)
(* two in one section, so the Touch can be taken at the Snapshot.          *)
ReleaseDead(c) ==
  /\ pc[c] = "release" /\ state[cur[c]] = "dead"
  /\ stale' = stale \ {cur[c]}
  /\ Goto(c, "dead")
  /\ UNCHANGED <<slots, state, runtime, container, mu, local, ghosts>>

ReleaseLive(c) ==
  /\ pc[c] = "release" /\ state[cur[c]] # "dead"
  /\ stale' = stale \ {cur[c]}
  /\ Goto(c, "rewarm")
  /\ UNCHANGED <<slots, state, runtime, container, mu, local, ghosts>>

RewarmReinserts(c) ==
  /\ pc[c] = "rewarm"
  /\ Mark(cur[c], "warm")
  /\ slots' = slots \cup {cur[c]}
  /\ cur' = [cur EXCEPT ![c] = None]
  /\ Goto(c, "released")
  /\ UNCHANGED <<runtime, stale, container, mu, want, todo, then, ghosts>>

Rewarm(c) ==
  /\ pc[c] = "rewarm"
  /\ Mark(cur[c], "warm")
  /\ cur' = [cur EXCEPT ![c] = None]
  /\ Goto(c, "released")
  /\ UNCHANGED <<slots, runtime, stale, container, mu, want, todo, then, ghosts>>

(* The call returns: with an error, or after its Release.                  *)
Return(c) ==
  /\ pc[c] \in {"failed", "released"}
  /\ Goto(c, "idle")
  /\ want' = [want EXCEPT ![c] = None]
  /\ UNCHANGED <<memory, mu, cur, todo, then, ghosts>>
-----------------------------------------------------------------------------
(* discard: mark the slot dead, forget it, remove its container.           *)

(* Deciding to discard a slot is local, so Mark(Dead) is taken with it,    *)
(* except after Release's Snapshot, which reads the state it decides on.   *)
MarkDead(c) ==
  /\ pc[c] = "dead"
  /\ BeginDiscard(c, cur[c], "released")
  /\ UNCHANGED <<slots, runtime, stale, container, mu, cur, want, todo, ghosts>>

DeleteForgotten(a) ==
  /\ pc[a] = "delete" /\ mu = None
  /\ Goto(a, "remove")
  /\ UNCHANGED <<memory, mu, local, ghosts>>

Delete(a) ==
  /\ pc[a] = "delete" /\ mu = None
  /\ slots' = slots \ {cur[a]}
  /\ stale' = stale \ {cur[a]}
  /\ Goto(a, "remove")
  /\ UNCHANGED <<state, runtime, container, mu, local, ghosts>>

(* RemoveContainer: a container already gone counts as removed; after 8s   *)
(* the error is logged and the container stays behind.                     *)
Remove(a) ==
  /\ pc[a] = "remove"
  /\ \/ container' = [container EXCEPT ![cur[a]] = "removed"]
     \/ /\ container[cur[a]] = "up" /\ MayOrphan
        /\ container' = [container EXCEPT ![cur[a]] = "orphan"]
     \/ container[cur[a]] = "orphan" /\ UNCHANGED container
  /\ cur' = [cur EXCEPT ![a] = IF then[a] = "release" THEN @ ELSE None]
  /\ then' = [then EXCEPT ![a] = "next"]
  /\ Goto(a, then[a])
  /\ UNCHANGED <<slots, state, runtime, stale, mu, want, todo, ghosts>>
-----------------------------------------------------------------------------
(* The reaper: collect the victims under p.mu, then discard them one after *)
(* the other, without looking at them again.                               *)

Age(s) ==
  /\ s \in slots \ stale /\ state[s] = "warm"   \* only then does anyone look
  /\ stale' = stale \cup {s}
  /\ UNCHANGED <<slots, state, runtime, container, mu, pc, local, ghosts>>

Victims == {s \in slots : state[s] = "warm" /\ s \in stale}

Reap ==
  /\ pc[Reaper] = "idle" /\ mu = None
  /\ Victims # {}
  /\ todo' = [todo EXCEPT ![Reaper] = Victims]
  /\ Goto(Reaper, "sweep")
  /\ UNCHANGED <<memory, mu, cur, want, then, ghosts>>

SweepNext(a, s) ==
  /\ pc[a] = "sweep" /\ s \in todo[a]
  /\ cur' = [cur EXCEPT ![a] = s]
  /\ todo' = [todo EXCEPT ![a] = @ \ {s}]
  /\ BeginDiscard(a, s, "sweep")
  /\ UNCHANGED <<slots, runtime, stale, container, mu, want, ghosts>>

SweepDone(a) ==
  /\ pc[a] = "sweep" /\ todo[a] = {}
  /\ Goto(a, IF a = Main THEN "exited" ELSE "idle")
  /\ UNCHANGED <<memory, mu, local, ghosts>>
-----------------------------------------------------------------------------
(* main: Start has warmed the pool, the server runs, Drain empties it.     *)

Serve ==
  /\ pc[Main] = "boot" /\ warmed = WarmSize
  /\ Goto(Main, "serving")
  /\ UNCHANGED <<memory, mu, local, ghosts>>

(* The signal: the root context is cancelled, the HTTP server is given 15s *)
(* (invocations may outlive it), and Drain runs as a deferred call.  The   *)
(* reaper sees the cancelled context at its next select, so it may or may  *)
(* not reap again.                                                         *)
Drain ==
  /\ pc[Main] = "serving" /\ mu = None
  /\ todo' = [todo EXCEPT ![Main] = slots]
  /\ Goto(Main, "sweep")
  /\ UNCHANGED <<memory, mu, cur, want, then, ghosts>>

CallerStep(c) ==
  \/ Lock(c) \/ (\E s \in Slot : Skip(c, s) \/ Hit(c, s)) \/ Claim(c) \/ Miss(c)
  \/ Ready(c) \/ NotReady(c) \/ MarkBusy(c) \/ Answered(c) \/ Errored(c)
  \/ ReleaseDead(c) \/ ReleaseLive(c) \/ MarkDead(c) \/ Rewarm(c)

Create(a)  == \/ \E s \in Slot : CreateSandbox(a, s)
              \/ CreateFails(a) \/ Insert(a) \/ MarkWarm(a)
Discard(a) == Delete(a) \/ Remove(a)
Sweep(a)   == (\E s \in Slot : SweepNext(a, s)) \/ SweepDone(a)

(* What the pool does once called, and what its environment does to it.    *)
Inside ==
  \/ \E c \in Caller : CallerStep(c)
  \/ \E a \in Caller \cup {Main} : Create(a)
  \/ \E a \in Actor : Discard(a)
  \/ \E a \in {Reaper, Main} : Sweep(a)
  \/ Reap \/ Serve \/ Drain
  \/ \E s \in Slot : Age(s)

(* When main returns the process ends and every goroutine with it.         *)
PoolNext ==
  /\ pc[Main] # "exited"
  /\ \/ Inside
     \/ \E c \in Caller : Return(c) \/ \E r \in Runtime : Call(c, r)

PoolSpec == PoolInit /\ [][PoolNext]_poolVars

(* A runnable goroutine runs, and sync.Mutex serves a starving waiter.     *)
(* Every wait inside a step has a timeout: 800ms and 3s for readiness, the *)
(* agent call's, 8s for a removal; Docker answers a creation or refuses.   *)
Running(a) ==
  /\ pc[Main] # "exited"
  /\ \/ a \in Caller /\ (CallerStep(a) \/ Return(a))
     \/ a \in Caller \cup {Main} /\ Create(a)
     \/ a \in {Reaper, Main} /\ Sweep(a)
     \/ Discard(a)

PoolFairness == \A a \in Actor : SF_poolVars(Running(a))
PoolFairSpec == PoolSpec /\ PoolFairness
-----------------------------------------------------------------------------
CallerPc == {"idle", "lock", "scan", "claim", "ready", "create", "insert",
             "warm", "busy", "booted", "holding", "release", "rewarm",
             "dead", "delete", "remove", "released", "failed"}
MainPc   == {"boot", "insert", "warm", "serving", "sweep",
             "delete", "remove", "exited"}
ReaperPc == {"idle", "sweep", "delete", "remove"}

Containers == {"none", "up", "removed", "orphan"}

(* Where a goroutine has a slot in hand.                                   *)
OnSlot == {"claim", "ready", "insert", "warm", "busy", "booted", "holding",
           "release", "rewarm", "dead", "delete", "remove"}

(* Every variable holds a value of its kind, a goroutine that works on a   *)
(* slot has one, and the warm-up loop makes at most PoolWarmSize rounds.   *)
TypeOK ==
  /\ slots \subseteq Slot /\ stale \subseteq Slot
  /\ contested \subseteq Slot
  /\ state \in [Slot -> SlotState]
  /\ runtime \in [Slot -> Runtime \cup {None}]
  /\ container \in [Slot -> Containers]
  /\ mu \in Caller \cup {None}
  /\ pc \in [Actor -> CallerPc \cup MainPc \cup ReaperPc]
  /\ \A c \in Caller : pc[c] \in CallerPc
  /\ pc[Main] \in MainPc /\ pc[Reaper] \in ReaperPc
  /\ cur \in [Actor -> Slot \cup {None}]
  /\ \A a \in Actor : pc[a] \in OnSlot => cur[a] \in Slot
  /\ want \in [Actor -> Runtime \cup {None}]
  /\ \A c \in Caller : pc[c] # "idle" => want[c] \in Runtime
  /\ todo \in [Actor -> SUBSET Slot]
  /\ then \in [Actor -> {"next", "create", "failed", "release", "released", "sweep"}]
  /\ \A c \in Caller : pc[c] \in {"delete", "remove"} => then[c] \notin {"next", "sweep"}
  /\ \A a \in {Reaper, Main} : pc[a] \in {"delete", "remove"} => then[a] = "sweep"
  /\ warmed \in 0 .. WarmSize
  /\ pc[Main] \in {"insert", "warm"} => warmed < WarmSize

(* discard() forgets a slot before it removes the container: whatever the  *)
(* interleaving of callers, reaper and Drain, a slot that Acquire can find *)
(* in the map has a container that nobody has removed.                     *)
TrackedSlotsRun == \A s \in slots : container[s] = "up"

(* The other way round: a container that was started and not removed is in *)
(* the map, or in the hands of the one goroutine about to insert it or to  *)
(* remove it.  No path through Acquire, Release, the reaper or Drain drops *)
(* a container on the floor while the process runs.                        *)
NoLeak ==
  \A s \in Slot : container[s] = "up" =>
     s \in slots \/ \E a \in Actor : cur[a] = s /\ pc[a] \in {"insert", "remove"}

(* Two invocations share a sandbox only when one of them hit it in the     *)
(* window that create() opens by marking a slot warm inside the map before *)
(* cold() marks it busy; every other path gives a slot to one caller.      *)
InUse == {"warm", "busy", "booted", "ready", "holding", "release", "rewarm"}
Users(s) == {c \in Caller : cur[c] = s /\ pc[c] \in InUse}

ExclusiveUnlessContested ==
  \A s \in Slot \ contested : \A b, c \in Users(s) : b = c

(* What the reaper's log line claims of a sandbox it removes: it is idle.  *)
ReapsOnlyIdle ==
  pc[Reaper] = "remove" => \A c \in Users(cur[Reaper]) : pc[c] # "holding"

(* The pool implements SandboxLifecycle: the phase of a slot is read off   *)
(* Docker's container, the map, and the goroutine about to insert it.      *)
PhaseOf(s) ==
  CASE container[s] = "none"    -> "unborn"
    [] container[s] = "removed" -> "gone"
    [] container[s] = "orphan"  -> "lost"
    [] container[s] = "up" /\ s \in slots -> "tracked"
    [] container[s] = "up" /\ s \notin slots ->
         IF \E a \in Actor : cur[a] = s /\ pc[a] = "insert" THEN "fresh" ELSE "doomed"

Lifecycle == INSTANCE SandboxLifecycle
               WITH Sandbox <- Slot, phase <- [s \in Slot |-> PhaseOf(s)]

(* A container is created once, tracked at most once, removed only after   *)
(* it was forgotten, and never comes back to the map.                      *)
LifecycleSpec == Lifecycle!Spec

(* No slot stays busy for ever: it comes back warm or leaves the map.      *)
SlotComesBack ==
  \A s \in Slot : s \in slots /\ state[s] = "busy"
                    ~> s \notin slots \/ state[s] = "warm" \/ pc[Main] = "exited"
=============================================================================
