-------------------------- MODULE SchedulerProofs --------------------------
(***************************************************************************)
(* Theorems about Scheduler, for any triggers, expressions, functions and  *)
(* calls, with failed queries and restarts: no due time fires twice, or is *)
(* passed over while the process runs; a trigger that is gone fires at most*)
(* once more; and a firing runs the function whose trigger it was.         *)
(***************************************************************************)
EXTENDS Scheduler, RecorderProofs

CronTypes ==
  /\ trig \in [Trigger -> Entry \cup {None}]
  /\ clock \in Instant /\ ticker \in 0 .. clock /\ now \in 0 .. clock
  /\ at \in {"wait", "list", "items"}
  /\ batch \subseteq [id : Trigger, fn : Fn, expr : Expr]
  /\ at # "items" => batch = {}
  /\ last \in [Trigger -> Nat] /\ \A t \in Trigger : last[t] <= now
  /\ owner \in [Firing -> Fn \cup {None}]
  /\ answered \subseteq Trigger \X Instant
  /\ faults \in 0 .. MaxFaults

(* A tick in the channel is not older than the one that is worked on.      *)
TicksInOrder == ticker # 0 => now <= ticker

(* What has been answered for is no later than the time that is remembered *)
(* of the trigger.  If none is, because the trigger is new or the process  *)
(* has started again, it is no later than the tick that will be remembered *)
(* when the trigger is met.                                                *)
Remembered ==
  \A t \in Trigger, d \in Instant :
     <<t, d>> \in answered =>
       /\ last[t] # 0 => d <= last[t]
       /\ d <= clock
       /\ ticker # 0 => d <= ticker
       /\ at # "wait" => d <= now

DueInv == CronTypes /\ TicksInOrder /\ Remembered /\ twice = {}

TimeVars == <<trig, clock, ticker, memory, owner, answered, twice, faults>>

LEMMA DueUnchanged == DueInv /\ UNCHANGED TimeVars => DueInv'
BY SMT DEF DueInv, CronTypes, TicksInOrder, Remembered, TimeVars, memory

LEMMA DueInit == CronInit => DueInv
BY SchedulerAssumption, SMT
DEF CronInit, DueInv, CronTypes, TicksInOrder, Remembered, Instant

LEMMA PutKeepsDue ==
  ASSUME DueInv, NEW i \in Fn, NEW T \in SUBSET Trigger,
                 NEW x \in [T -> Expr], NEW on \in [T -> BOOLEAN],
         Put(i, T, x, on)
  PROVE  DueInv'
<1>1. \A t \in T : [fn |-> i, expr |-> x[t], enabled |-> on[t]] \in Entry
  BY DEF Entry
<1>. QED
  BY <1>1, SMT DEF DueInv, CronTypes, TicksInOrder, Remembered, Put, Of, memory

LEMMA TickKeepsDue ==
  ASSUME DueInv, Advance \/ Tick \/ ListEnabledCron \/ ListFails \/ TickDone
  PROVE  DueInv'
<1> USE SchedulerAssumption DEF DueInv, CronTypes, TicksInOrder, Remembered, Instant
<1>1. CASE Advance
  BY <1>1, SMT DEF Advance, memory, history
<1>2. CASE Tick
  BY <1>2, SMT DEF Tick, history
<1>3. CASE ListEnabledCron
  <2>1. batch' \subseteq [id : Trigger, fn : Fn, expr : Expr]
    BY <1>3, SMT DEF ListEnabledCron, Entry, Enabled
  <2>. QED
    BY <1>3, <2>1, SMT DEF ListEnabledCron, history
<1>4. CASE ListFails
  BY <1>4, SMT DEF ListFails, history
<1>5. CASE TickDone
  BY <1>5, SMT DEF TickDone, history
<1>. QED
  BY <1>1, <1>2, <1>3, <1>4, <1>5

LEMMA MeetKeepsDue ==
  ASSUME DueInv, NEW b \in batch, Ignore(b) \/ Meet(b) \/ NotYet(b)
  PROVE  DueInv'
<1> USE SchedulerAssumption DEF DueInv, CronTypes, TicksInOrder, Remembered, Instant, LookAt
<1>1. CASE Ignore(b)
  BY <1>1, SMT DEF Ignore, history
<1>2. CASE Meet(b)
  BY <1>2, SMT DEF Meet, history
<1>3. CASE NotYet(b)
  BY <1>3, SMT DEF NotYet, history
<1>. QED
  BY <1>1, <1>2, <1>3

LEMMA FireKeepsDue ==
  ASSUME DueInv, NEW b \in batch, Fire(b)
  PROVE  DueInv'
<1> USE SchedulerAssumption DEF DueInv, CronTypes
<1>1. /\ b.id \in Trigger /\ b.fn \in Fn /\ last[b.id] # 0 /\ at = "items"
      /\ now \in Nat /\ last[b.id] \in Nat /\ last[b.id] <= now
  BY SMT DEF Fire, IsDue, LookAt, Instant
<1>2. \A d \in Instant : <<b.id, d>> \in answered => d <= last[b.id]
  BY <1>1 DEF Remembered
<1>3. answered \cap For(b) = {}
  <2>1. ASSUME NEW d \in Instant, last[b.id] < d, <<b.id, d>> \in answered PROVE FALSE
    BY <2>1, <1>1, <1>2, SMT DEF Instant
  <2>. QED
    BY <2>1 DEF For
<1>4. /\ twice' = {} /\ answered' = answered \cup For(b)
      /\ For(b) \subseteq Trigger \X Instant
  BY <1>1, <1>3 DEF Fire, Note, For
<1>5. owner' \in [Firing -> Fn \cup {None}]
  BY <1>1 DEF Fire, Start
<1>6. /\ last' = [last EXCEPT ![b.id] = now] /\ batch' \subseteq batch
      /\ UNCHANGED <<trig, clock, ticker, at, now, faults>>
  BY DEF Fire
<1>7. CronTypes'
  BY <1>1, <1>4, <1>5, <1>6
<1>8. Remembered'
  <2> SUFFICES ASSUME NEW t \in Trigger, NEW d \in Instant, <<t, d>> \in answered'
               PROVE  /\ last'[t] # 0 => d <= last'[t]
                      /\ d <= clock
                      /\ ticker # 0 => d <= ticker
                      /\ d <= now
    BY <1>6, <1>1 DEF Remembered
  <2>1. CASE <<t, d>> \in answered
    BY <2>1, <1>1, <1>2, <1>6, SMT DEF Remembered, Instant
  <2>2. CASE <<t, d>> \in For(b)
    <3>1. t = b.id /\ d <= now
      BY <2>2 DEF For
    <3>2. last'[t] = now
      BY <3>1, <1>1, <1>6
    <3>. QED
      BY <3>1, <3>2, SMT DEF TicksInOrder, Instant
  <2>. QED
    BY <2>1, <2>2, <1>4
<1>9. TicksInOrder'
  BY <1>6 DEF TicksInOrder
<1>. QED
  BY <1>4, <1>7, <1>8, <1>9

LEMMA RestartKeepsDue == DueInv /\ Restart => DueInv'
BY SchedulerAssumption, SMT
DEF DueInv, CronTypes, TicksInOrder, Remembered, Instant, Restart, history

LEMMA DueStep == DueInv /\ [CronNext]_allVars => DueInv'
<1> SUFFICES ASSUME DueInv, [CronNext]_allVars PROVE DueInv'
  OBVIOUS
<1>1. ASSUME NEW i \in Fn, Undeploy(i) PROVE DueInv'
  <2>1. /\ trig' \in [Trigger -> Entry \cup {None}]
        /\ UNCHANGED <<clock, ticker, memory, owner, history, faults>>
    BY <1>1 DEF Undeploy, DueInv, CronTypes
  <2>. QED
    BY <2>1, SMT DEF DueInv, CronTypes, TicksInOrder, Remembered, memory, history
<1>2. ASSUME NEW i \in Fn, Redeploy(i) PROVE DueInv'
  BY <1>2, DueUnchanged DEF Redeploy, cronVars, TimeVars, history
<1>3. ASSUME NEW i \in Fn, NEW T \in SUBSET Trigger,
             NEW x \in [T -> Expr], NEW on \in [T -> BOOLEAN],
             Put(i, T, x, on)
      PROVE  DueInv'
  BY <1>3, PutKeepsDue
<1>4. ASSUME Advance \/ Ticking \/ ListFails PROVE DueInv'
  BY <1>4, TickKeepsDue, MeetKeepsDue, FireKeepsDue DEF Ticking
<1>5. ASSUME Restart PROVE DueInv'
  BY <1>5, RestartKeepsDue
<1>6. ASSUME NEW k \in Firing, GetFunctionByID(k) \/ Invoke(k) PROVE DueInv'
  BY <1>6, DueUnchanged DEF GetFunctionByID, Invoke, cronVars, TimeVars, history
<1>7. ASSUME Recording, UNCHANGED cronVars PROVE DueInv'
  BY <1>7, DueUnchanged DEF cronVars, TimeVars, history
<1>8. ASSUME UNCHANGED allVars PROVE DueInv'
  BY <1>8, DueUnchanged DEF allVars, cronVars, TimeVars, history
<1>. QED
  BY <1>1, <1>2, <1>3, <1>4, <1>5, <1>6, <1>7, <1>8 DEF CronNext

(* The inductive invariant of the scheduler's times: what was answered for *)
(* is remembered, or older than the tick that is met next.                 *)
THEOREM CronDueInvariant == CronSpec => []DueInv
BY DueInit, DueStep, PTL DEF CronSpec

(* No due time of a trigger starts it twice, whatever ticks are late or    *)
(* dropped, triggers replaced, queries fail, and processes restart.        *)
THEOREM CronFiresOncePerDueTime == CronSpec => []FiresOncePerDueTime
<1>1. DueInv => FiresOncePerDueTime
  BY DEF DueInv, FiresOncePerDueTime
<1>. QED
  BY <1>1, CronDueInvariant, PTL
-----------------------------------------------------------------------------
(* Nor is one passed over: an instant in the future of a trigger that the  *)
(* scheduler has met stays there until a firing answers for it, whatever   *)
(* becomes of the trigger; only a restart forgets it.                      *)
DueTimesStay ==
  [][\A t \in Trigger, d \in Instant :
       last[t] # 0 /\ last[t] < d =>
         last'[t] < d \/ <<t, d>> \in answered' \/ Restart]_allVars

LEMMA LastSteps ==
  ASSUME [CronNext]_allVars
  PROVE  \/ UNCHANGED last
         \/ Restart
         \/ \E b \in batch : Meet(b) \/ Fire(b)
<1>1. CASE UNCHANGED allVars  BY <1>1, Zenon DEF allVars, cronVars, memory
<1>2. ASSUME NEW i \in Fn, Undeploy(i) \/ Redeploy(i)  PROVE UNCHANGED last
  BY <1>2, Zenon DEF Undeploy, Redeploy, cronVars, memory
<1>3. ASSUME NEW i \in Fn, NEW T \in SUBSET Trigger,
             NEW x \in [T -> Expr], NEW on \in [T -> BOOLEAN],
             Put(i, T, x, on)
      PROVE  UNCHANGED last
  BY <1>3, Zenon DEF Put, memory
<1>4. CASE Advance \/ Tick \/ ListEnabledCron \/ ListFails \/ TickDone
  BY <1>4, Zenon DEF Advance, Tick, ListEnabledCron, ListFails, TickDone, memory
<1>5. ASSUME NEW b \in batch, Ignore(b) \/ NotYet(b)  PROVE UNCHANGED last
  BY <1>5, Zenon DEF Ignore, NotYet
<1>6. ASSUME NEW k \in Firing, GetFunctionByID(k) \/ Invoke(k)  PROVE UNCHANGED last
  BY <1>6, Zenon DEF GetFunctionByID, Invoke, cronVars, memory
<1>7. CASE UNCHANGED cronVars  BY <1>7, Zenon DEF cronVars, memory
<1>. QED  BY <1>1, <1>2, <1>3, <1>4, <1>5, <1>6, <1>7, Zenon DEF CronNext, Ticking

LEMMA Answers ==
  ASSUME CronTypes, NEW b \in batch, Fire(b), NEW d \in Instant,
         last[b.id] < d, d <= now
  PROVE  <<b.id, d>> \in answered'
BY Zenon DEF Fire, Note, For

THEOREM CronDueTimesStay == CronSpec => DueTimesStay
<1>1. ASSUME CronTypes, [CronNext]_allVars, NEW t \in Trigger, NEW d \in Instant,
             last[t] # 0, last[t] < d
      PROVE  last'[t] < d \/ <<t, d>> \in answered' \/ Restart
  <2>1. CASE UNCHANGED last
    BY <1>1, <2>1
  <2>2. ASSUME NEW b \in batch, Meet(b)  PROVE last'[t] < d
    BY <1>1, <2>2 DEF Meet, CronTypes
  <2>3. ASSUME NEW b \in batch, Fire(b), ~(last'[t] < d)  PROVE <<t, d>> \in answered'
    <3>1. /\ last' = [last EXCEPT ![b.id] = now] /\ now \in Nat /\ d \in Nat
          /\ last \in [Trigger -> Nat]
      BY <1>1, <2>3, SchedulerAssumption, SMT DEF Fire, CronTypes, Instant
    <3>2. b.id = t /\ d <= now
      BY <1>1, <2>3, <3>1, SMT
    <3>. QED
      BY <1>1, <2>3, <3>2, Answers
  <2>. QED
    BY <1>1, <2>1, <2>2, <2>3, LastSteps
<1>2. CronTypes /\ [CronNext]_allVars =>
        [\A t \in Trigger, d \in Instant :
           last[t] # 0 /\ last[t] < d =>
             last'[t] < d \/ <<t, d>> \in answered' \/ Restart]_allVars
  BY <1>1
<1>3. DueInv => CronTypes
  BY DEF DueInv
<1>. QED
  BY <1>2, <1>3, CronDueInvariant, PTL DEF CronSpec, DueTimesStay
-----------------------------------------------------------------------------
(* The tick has read each trigger once, and those that were enabled.  One  *)
(* that has fired late is no longer among them, and it takes a new one     *)
(* under its id to be read again.                                          *)
Lateness ==
  /\ late \in [Trigger -> 0 .. 1]
  /\ \A t \in Trigger : Enabled(t) => late[t] = 0
  /\ \A b \in batch : late[b.id] = 0
  /\ \A b, c \in batch : b.id = c.id => b = c

LateVars == <<trig, batch, late>>

LEMMA LateUnchanged == Lateness /\ UNCHANGED LateVars => Lateness'
BY SMT DEF Lateness, Enabled, LateVars

LEMMA LateInit == CronInit => Lateness
BY SchedulerAssumption, SMT DEF CronInit, Lateness, Enabled

LEMMA TickKeepsLate ==
  ASSUME DueInv, Lateness, Advance \/ Tick \/ ListEnabledCron \/ ListFails \/ TickDone
  PROVE  Lateness'
<1>1. CASE Advance \/ Tick \/ ListFails \/ TickDone
  BY <1>1, LateUnchanged DEF Advance, Tick, ListFails, TickDone, LateVars, memory, history
<1>2. CASE ListEnabledCron
  <2>1. \A b \in batch' : b.id \in Trigger /\ Enabled(b.id)
    BY <1>2, SMT DEF ListEnabledCron
  <2>2. \A b, c \in batch' : b.id = c.id => b = c
    BY <1>2, SMT DEF ListEnabledCron
  <2>3. UNCHANGED <<trig, late>>
    BY <1>2 DEF ListEnabledCron, history
  <2>. QED
    BY <2>1, <2>2, <2>3 DEF Lateness, Enabled
<1>. QED
  BY <1>1, <1>2

LEMMA PutKeepsLate ==
  ASSUME DueInv, Lateness, NEW i \in Fn, NEW T \in SUBSET Trigger, NEW x \in [T -> Expr],
         NEW on \in [T -> BOOLEAN], Put(i, T, x, on)
  PROVE  Lateness'
<1> DEFINE e(t) == [fn |-> i, expr |-> x[t], enabled |-> on[t]]
<1>1. \A t \in T : e(t) \in Entry /\ e(t) # None /\ e(t).enabled = on[t]
  BY SchedulerAssumption DEF Entry
<1>2. /\ trig' = [t \in Trigger |-> IF t \in T THEN e(t)
                                   ELSE IF t \in Of(i) THEN None ELSE trig[t]]
      /\ late' = [t \in Trigger |-> IF t \in T /\ on[t] THEN 0 ELSE late[t]]
      /\ batch' = batch
  BY DEF Put, memory
<1> HIDE DEF e
<1>3. late' \in [Trigger -> 0 .. 1] /\ \A t \in Trigger : late'[t] = 0 \/ late'[t] = late[t]
  BY <1>2, SMT DEF Lateness
<1>4. \A t \in Trigger : Enabled(t)' => late'[t] = 0
  BY <1>1, <1>2, SMT DEF Lateness, Enabled
<1>5. \A b \in batch : b.id \in Trigger
  BY DEF DueInv, CronTypes
<1>. QED
  BY <1>2, <1>3, <1>4, <1>5, Zenon DEF Lateness

LEMMA ItemKeepsLate ==
  ASSUME DueInv, Lateness, NEW b \in batch, Ignore(b) \/ Meet(b) \/ NotYet(b) \/ Fire(b)
  PROVE  Lateness'
<1>1. /\ b.id \in Trigger /\ trig' = trig /\ batch' = batch \ {b}
  BY DEF DueInv, CronTypes, Ignore, Meet, NotYet, Fire
<1>2. late[b.id] = 0 /\ late \in [Trigger -> 0 .. 1]
  BY DEF Lateness
<1>3. CASE Fire(b)
  <2>1. late' = [late EXCEPT ![b.id] = IF Enabled(b.id) THEN 0 ELSE 1]
    BY <1>2, <1>3, SMT DEF Fire, Note
  <2>. QED
    BY <1>1, <1>2, <2>1, SMT DEF Lateness, Enabled
<1>4. CASE Ignore(b) \/ Meet(b) \/ NotYet(b)
  BY <1>1, <1>4, SMT DEF Ignore, Meet, NotYet, history, Lateness, Enabled
<1>. QED
  BY <1>3, <1>4

LEMMA LateStep == DueInv /\ Lateness /\ [CronNext]_allVars => Lateness'
<1> SUFFICES ASSUME DueInv, Lateness, [CronNext]_allVars PROVE Lateness'
  OBVIOUS
<1>1. ASSUME NEW i \in Fn, Undeploy(i) PROVE Lateness'
  BY <1>1, SMT DEF Undeploy, Lateness, Enabled, memory, history
<1>2. ASSUME NEW i \in Fn, Redeploy(i) PROVE Lateness'
  BY <1>2, LateUnchanged DEF Redeploy, cronVars, LateVars, memory, history
<1>3. ASSUME NEW i \in Fn, NEW T \in SUBSET Trigger,
             NEW x \in [T -> Expr], NEW on \in [T -> BOOLEAN],
             Put(i, T, x, on)
      PROVE  Lateness'
  BY <1>3, PutKeepsLate
<1>4. ASSUME Advance \/ Ticking \/ ListFails PROVE Lateness'
  BY <1>4, TickKeepsLate, ItemKeepsLate DEF Ticking
<1>5. ASSUME Restart PROVE Lateness'
  BY <1>5, SMT DEF Lateness, Enabled, Restart, history
<1>6. ASSUME NEW k \in Firing, GetFunctionByID(k) \/ Invoke(k) PROVE Lateness'
  BY <1>6, LateUnchanged DEF GetFunctionByID, Invoke, cronVars, LateVars, memory, history
<1>7. ASSUME Recording, UNCHANGED cronVars PROVE Lateness'
  BY <1>7, LateUnchanged DEF cronVars, LateVars, memory, history
<1>8. ASSUME UNCHANGED allVars PROVE Lateness'
  BY <1>8, LateUnchanged DEF allVars, cronVars, LateVars, memory, history
<1>. QED
  BY <1>1, <1>2, <1>3, <1>4, <1>5, <1>6, <1>7, <1>8 DEF CronNext

(* The inductive invariant of triggers that are gone: none that has fired  *)
(* late is still in the tick.                                              *)
THEOREM CronLateInvariant == CronSpec => []Lateness
BY LateInit, LateStep, CronDueInvariant, PTL DEF CronSpec

(* A trigger that was disabled, removed or deleted with its function fires *)
(* at most once more.                                                      *)
THEOREM CronAtMostOneLateFiring == CronSpec => []AtMostOneLateFiring
<1>1. Lateness => AtMostOneLateFiring
  BY DEF Lateness, AtMostOneLateFiring
<1>. QED
  BY <1>1, CronLateInvariant, PTL
-----------------------------------------------------------------------------
(* Whatever refers to a function refers to one that did exist.             *)
Owners ==
  /\ \A t \in Trigger : trig[t] # None => status[trig[t].fn] # "none"
  /\ \A b \in batch : status[b.fn] # "none"
  /\ \A k \in Firing :
       /\ owner[k] # None => status[owner[k]] # "none"
       /\ pc[k] # "idle" => owner[k] \in Fn
       /\ ran[k] # None => /\ owner[k] \in Fn
                           /\ NameOf[ran[k]] = NameOf[owner[k]]
                           /\ Mistaken(owner[k], ran[k])
       /\ found[k] # None => pc[k] = "insert"

CallInv == RowInv /\ Holding /\ Owners

LEMMA CallInit == CronInit => CallInv
<1>1. CronInit => RowInv
  BY RecInit0 DEF CronInit
<1>2. CronInit => Holding
  BY HubAssumption, SMT DEF CronInit, RecInit, HubInit, Holding, Call
<1>3. CronInit => Owners
  BY RecorderAssumption, SMT DEF CronInit, RecInit, Owners, Firing, Call
<1>. QED
  BY <1>1, <1>2, <1>3 DEF CallInv

(* A function that did exist still did, and a deleted one stays deleted.   *)
LEMMA FunctionsKeepCalls ==
  ASSUME DueInv, CallInv, NEW i \in Fn, CreateFunction(i) \/ SetStatus(i) \/ DeleteFunction(i),
         \A t \in Trigger : trig'[t] # None => trig'[t] = trig[t],
         UNCHANGED <<batch, owner>>
  PROVE  CallInv'
<1>1. RowInv'
  BY FunctionsKeepRows DEF CallInv
<1>2. UNCHANGED <<hubVars, calls>>
  BY DEF CreateFunction, SetStatus, DeleteFunction
<1>3. \A j \in Fn : /\ status[j] # "none" => status'[j] # "none"
                    /\ status[j] = "deleted" => status'[j] = "deleted"
  <2>1. status \in [Fn -> {"none", "READY", "other", "deleted"}]
    BY DEF CallInv, RowInv, CallTypes
  <2>. QED
    BY <2>1, SMT DEF CreateFunction, SetStatus, DeleteFunction, Live
<1>4. Holding'
  BY <1>2 DEF Holding, CallInv, hubVars, calls
<1>5. Owners'
  <2>1. /\ \A b \in batch : b.fn \in Fn
        /\ \A t \in Trigger : trig[t] # None => trig[t].fn \in Fn
        /\ \A k \in Firing : owner[k] \in Fn \cup {None}
    BY DEF DueInv, CronTypes, Entry
  <2>. QED
    BY <1>2, <1>3, <2>1 DEF CallInv, Owners, Mistaken, calls
<1>. QED
  BY <1>1, <1>4, <1>5 DEF CallInv

LEMMA CallsUnchanged ==
  ASSUME CallInv, UNCHANGED <<hubVars, recVars, trig, batch, owner>>
  PROVE  CallInv'
<1>1. RowInv'
  BY RowsUnchanged DEF CallInv
<1>. QED
  BY <1>1 DEF CallInv, Holding, Owners, Mistaken, hubVars, recVars, calls

LEMMA PutKeepsCalls ==
  ASSUME DueInv, CallInv, NEW i \in Fn, NEW T \in SUBSET Trigger, NEW x \in [T -> Expr],
         NEW on \in [T -> BOOLEAN], Put(i, T, x, on)
  PROVE  CallInv'
<1>1. RowInv'
  BY RowsUnchanged DEF CallInv, Put
<1>2. /\ UNCHANGED <<hubVars, recVars, batch, owner>> /\ status[i] # "none"
      /\ \A t \in Trigger : \/ trig'[t] = None \/ trig'[t] = trig[t]
                            \/ trig'[t].fn = i
  BY DEF Put, memory, Live
<1>. QED
  BY <1>1, <1>2 DEF CallInv, Holding, Owners, Mistaken, hubVars, recVars, calls

LEMMA TickKeepsCalls ==
  ASSUME DueInv, CallInv, Advance \/ Tick \/ ListEnabledCron \/ ListFails \/ TickDone
  PROVE  CallInv'
<1>1. CASE Advance \/ Tick \/ ListFails \/ TickDone
  BY <1>1, CallsUnchanged DEF Advance, Tick, ListFails, TickDone, memory
<1>2. CASE ListEnabledCron
  <2>1. RowInv'
    BY <1>2, RowsUnchanged DEF CallInv, ListEnabledCron
  <2>2. \A b \in batch' : status[b.fn] # "none"
    BY <1>2, SMT DEF ListEnabledCron, Enabled, CallInv, Owners
  <2>. QED
    BY <1>2, <2>1, <2>2
    DEF CallInv, Holding, Owners, Mistaken, ListEnabledCron, hubVars, recVars, calls
<1>. QED
  BY <1>1, <1>2

LEMMA MeetKeepsCalls ==
  ASSUME CallInv, NEW b \in batch, Ignore(b) \/ Meet(b) \/ NotYet(b)
  PROVE  CallInv'
<1>1. /\ RowInv' /\ batch' \subseteq batch
      /\ UNCHANGED <<hubVars, recVars, trig, owner>>
  BY RowsUnchanged DEF CallInv, Ignore, Meet, NotYet
<1>. QED
  BY <1>1 DEF CallInv, Holding, Owners, Mistaken, hubVars, recVars, calls

LEMMA FireKeepsCalls ==
  ASSUME DueInv, CallInv, NEW b \in batch, Fire(b)
  PROVE  CallInv'
<1>1. /\ b.fn \in Fn /\ status[b.fn] # "none"
      /\ batch' \subseteq batch
      /\ UNCHANGED <<hubVars, status, records, found, logged, trig>>
  BY DEF DueInv, CronTypes, CallInv, Owners, Fire
<1>2. CASE UNCHANGED <<pc, ran, owner>>
  <2>1. RowInv'
    BY <1>1, <1>2, RowsUnchanged DEF CallInv, recVars, calls
  <2>. QED
    BY <1>1, <1>2, <2>1 DEF CallInv, Holding, Owners, Mistaken, hubVars
<1>3. ASSUME NEW k \in Firing, pc[k] \in {"idle", "done"},
             Goto(k, "fire"), ran' = [ran EXCEPT ![k] = None],
             owner' = [owner EXCEPT ![k] = b.fn]
      PROVE  CallInv'
  <2> USE DEF CallInv, RowInv, CallTypes
  <2>1. k \in Call
    BY DEF Firing
  <2>2. RowInv'
    BY <1>1, <1>3, <2>1, SMT
    DEF Label, CallPc, Goto, UniqueNames, Lookups, RecordsBelong, Live, Mistaken
  <2>3. Holding'
    BY <1>1, <1>3, <2>1, SMT DEF Holding, Goto, hubVars
  <2>4. owner \in [Firing -> Fn \cup {None}] /\ Firing \subseteq Call
    BY DEF DueInv, CronTypes, Firing
  <2>5. Owners'
    BY <1>1, <1>3, <2>4, RecorderAssumption, SMT DEF Owners, Goto, Mistaken
  <2>. QED
    BY <2>2, <2>3, <2>5
<1>. QED
  BY <1>2, <1>3 DEF Fire, Start

LEMMA RestartKeepsCalls ==
  ASSUME CallInv, Restart
  PROVE  CallInv'
<1> USE DEF CallInv, RowInv, CallTypes
<1>1. RowInv'
  BY SMT DEF Restart, Label, CallPc, UniqueNames, Lookups, RecordsBelong, Live, Mistaken
<1>2. Holding'
  BY HubAssumption, SMT DEF Restart, Holding, Call
<1>3. Owners'
  BY SMT DEF Restart, Owners, Firing, Mistaken
<1>. QED
  BY <1>1, <1>2, <1>3

(* fire() runs the function that is READY under the name of its owner.     *)
LEMMA FiringKeepsCalls ==
  ASSUME DueInv, CallInv, NEW k \in Firing, GetFunctionByID(k) \/ Invoke(k)
  PROVE  CallInv'
<1> USE RecorderAssumption DEF CallInv, RowInv, CallTypes
<1>1. /\ k \in Call /\ pc[k] \in {"fire", "invoke"} /\ owner[k] \in Fn
      /\ owner \in [Firing -> Fn \cup {None}] /\ Firing \subseteq Call
  BY DEF Firing, GetFunctionByID, Invoke, Owners, DueInv, CronTypes
<1>2. UNCHANGED <<hubVars, status, records, found, trig, batch, owner>>
  BY DEF GetFunctionByID, Invoke, Run, cronVars, memory
<1>3. ASSUME NEW l \in {"invoke", "done"}, Goto(k, l), UNCHANGED <<ran, logged>> PROVE CallInv'
  <2>1. RowInv'
    BY <1>1, <1>2, <1>3, SMT
    DEF Label, CallPc, Goto, UniqueNames, Lookups, RecordsBelong, Live, Mistaken
  <2>2. Holding'
    BY <1>1, <1>2, <1>3, SMT DEF Holding, Goto, hubVars
  <2>3. Owners'
    BY <1>1, <1>2, <1>3, SMT DEF Owners, Goto, Mistaken
  <2>. QED
    BY <2>1, <2>2, <2>3
<1>4. ASSUME Run(k, NameOf[owner[k]]) PROVE CallInv'
  <2>1. RowInv'
    BY <1>1, <1>4, RunKeepsRows
  <2>2. PICK i \in Fn : /\ Live(i) /\ NameOf[i] = NameOf[owner[k]]
                        /\ ran' = [ran EXCEPT ![k] = i] /\ Goto(k, "lookup")
    BY <1>4 DEF Run, Named
  <2>3. Holding'
    BY <1>1, <1>2, <2>2, SMT DEF Holding, Goto, hubVars
  <2>4. Mistaken(owner[k], i)
    BY <1>1, <2>2, SMT DEF UniqueNames, Live, Mistaken, Owners
  <2>5. Owners'
    BY <1>1, <1>2, <2>2, <2>4, SMT DEF Owners, Goto, Mistaken
  <2>. QED
    BY <2>1, <2>3, <2>5
<1>. QED
  BY <1>3, <1>4 DEF GetFunctionByID, Invoke

(* What Record has found it keeps for the insert alone.                    *)
LEMMA RecordingFinds ==
  ASSUME CallInv, Recording, NEW k \in Firing
  PROVE  found'[k] # None => pc'[k] = "insert"
<1> DEFINE Finds == found'[k] # None => pc'[k] = "insert"
<1>typ. /\ pc \in [Call -> Label] /\ found \in [Call -> Fn \cup {None}] /\ k \in Call
        /\ found[k] # None => pc[k] = "insert"
        /\ k \notin Request
  BY DEF CallInv, RowInv, CallTypes, Owners, Firing
<1>1. ASSUME NEW j \in Call, Record(j) PROVE Finds
  <2>1. CASE LookUp(j) \/ Skip(j)
    BY <2>1, <1>typ, SMT DEF LookUp, Skip, Goto
  <2>2. CASE Insert(j) \/ InsertFails(j)
    BY <2>2, <1>typ, SMT DEF Insert, InsertFails, Inserted, Goto
  <2>3. CASE Publish(j)
    BY <2>3, <1>typ, SMT DEF Publish, Goto
  <2>4. CASE \E s \in Viewer : OfferTo(j, s)
    BY <2>4, <1>typ, Zenon DEF OfferTo, recVars, calls
  <2>5. CASE Published(j)
    <3>1. pc[j] = "publishing"
      BY <2>5, HubAssumption DEF Published, Unlock, CallInv, Holding, Call
    <3>. QED
      BY <2>5, <3>1, <1>typ, SMT DEF Published, Goto
  <2>. QED
    BY <1>1, <2>1, <2>2, <2>3, <2>4, <2>5 DEF Record
<1>2. ASSUME NEW j \in Call, NEW n \in Name, Serve(j, n) PROVE Finds
  BY <1>2, <1>typ, SMT DEF Serve, Run, Goto
<1>3. ASSUME NEW s \in Viewer, Open(s) \/ Watch(s) PROVE Finds
  BY <1>3, <1>typ, Zenon DEF Open, Watch, recVars, calls
<1>. QED
  BY <1>1, <1>2, <1>3 DEF Recording

LEMMA RecordingKeepsCalls ==
  ASSUME DueInv, CallInv, Recording, UNCHANGED cronVars
  PROVE  CallInv'
<1>1. RowInv' /\ Holding'
  BY RecordingKeepsRows, RecordingHolds DEF CallInv
<1>2. UNCHANGED <<trig, batch, owner>>
  BY DEF cronVars, memory
<1>3. UNCHANGED status
  BY DEF Recording, Record, LookUp, Skip, Insert, InsertFails, Publish, OfferTo, Published,
         Serve, Run, Open, Watch, recVars
<1>4. \A k \in Firing : ran'[k] = ran[k] /\ (pc[k] = "idle" => pc'[k] = "idle")
  BY RecordingMoves DEF CallInv, Firing
<1>. QED
  BY <1>1, <1>2, <1>3, <1>4, RecordingFinds DEF CallInv, Owners, Mistaken

LEMMA CallStep == DueInv /\ CallInv /\ [CronNext]_allVars => CallInv'
<1> SUFFICES ASSUME DueInv, CallInv, [CronNext]_allVars PROVE CallInv'
  OBVIOUS
<1>1. ASSUME NEW i \in Fn, Undeploy(i) PROVE CallInv'
  <2>1. /\ DeleteFunction(i) /\ UNCHANGED <<batch, owner>>
        /\ \A t \in Trigger : trig'[t] # None => trig'[t] = trig[t]
    BY <1>1 DEF Undeploy, memory
  <2>. QED
    BY <2>1, FunctionsKeepCalls
<1>2. ASSUME NEW i \in Fn, Redeploy(i) PROVE CallInv'
  <2>1. UNCHANGED <<trig, batch, owner>>
    BY <1>2 DEF Redeploy, cronVars, memory
  <2>. QED
    BY <1>2, <2>1, FunctionsKeepCalls DEF Redeploy
<1>3. ASSUME NEW i \in Fn, NEW T \in SUBSET Trigger,
             NEW x \in [T -> Expr], NEW on \in [T -> BOOLEAN],
             Put(i, T, x, on)
      PROVE  CallInv'
  BY <1>3, PutKeepsCalls
<1>4. ASSUME Advance \/ Ticking \/ ListFails PROVE CallInv'
  BY <1>4, TickKeepsCalls, MeetKeepsCalls, FireKeepsCalls DEF Ticking
<1>5. ASSUME Restart PROVE CallInv'
  BY <1>5, RestartKeepsCalls
<1>6. ASSUME NEW k \in Firing, GetFunctionByID(k) \/ Invoke(k) PROVE CallInv'
  BY <1>6, FiringKeepsCalls
<1>7. ASSUME Recording, UNCHANGED cronVars PROVE CallInv'
  BY <1>7, RecordingKeepsCalls
<1>8. ASSUME UNCHANGED allVars PROVE CallInv'
  BY <1>8, CallsUnchanged DEF allVars, cronVars, memory
<1>. QED
  BY <1>1, <1>2, <1>3, <1>4, <1>5, <1>6, <1>7, <1>8 DEF CronNext

(* The inductive invariant of the firings: their functions existed, and    *)
(* they run them or, once deleted, one of the same name.                   *)
THEOREM CronCallInvariant == CronSpec => []CallInv
BY CallInit, CallStep, CronDueInvariant, PTL DEF CronSpec

(* A firing runs the function whose trigger it is, or after it was deleted *)
(* one of its name, and so does it file its record.                        *)
THEOREM CronFiringRunsItsFunction == CronSpec => []FiringRunsItsFunction
<1>1. ASSUME CallInv, NEW k \in Firing, ran[k] # None  PROVE Stands(k, ran[k])
  BY <1>1, Zenon DEF CallInv, Owners, Mistaken, Stands
<1>2. ASSUME CallInv, NEW k \in Firing, found[k] # None  PROVE Stands(k, found[k])
  <2>1. k \in Call /\ pc[k] = "insert" /\ ran[k] # None
    BY <1>2, RecorderAssumption DEF Firing, CallInv, Owners, RowInv, CallTypes
  <2>2. NameOf[found[k]] = NameOf[ran[k]] /\ Mistaken(ran[k], found[k])
    BY <1>2, <2>1 DEF CallInv, RowInv, Lookups
  <2>. QED
    BY <1>1, <1>2, <2>1, <2>2, Zenon DEF Stands, Mistaken
<1>3. CallInv => FiringRunsItsFunction
  BY <1>1, <1>2 DEF FiringRunsItsFunction
<1>. QED
  BY <1>3, CronCallInvariant, PTL

(* Records belong to functions that exist also when a scheduler fires.     *)
THEOREM CronRecordsBelong == CronSpec => []RecordsBelong
<1>1. CallInv => RecordsBelong
  BY DEF CallInv, RowInv
<1>. QED
  BY <1>1, CronCallInvariant, PTL

-----------------------------------------------------------------------------
(* The hub under a scheduler that may crash.  No viewer outlives a crash,  *)
(* and none that was there before comes back.                              *)
LEMMA RestartKeepsHub == ASSUME HubInv, Restart PROVE HubInv' /\ StreamInv'
<1>1. /\ subs' = {} /\ visit' = {} /\ hubMu' = None /\ sent' = got /\ UNCHANGED got
      /\ chan' = [s \in Viewer |-> << >>] /\ missed' = [s \in Viewer |-> {}]
      /\ viewing' = [s \in Viewer |-> IF viewing[s] = "away" THEN "away" ELSE "gone"]
  BY DEF Restart
<1>2. got \in [Viewer -> Seq(Publisher)]
  BY DEF HubInv, HubTypeOK
<1>3. << >> \in Seq(Publisher) /\ Len(<< >>) = 0
  BY EmptySeq
<1>4. HubInv'
  BY <1>1, <1>2, <1>3, HubAssumption, SMT DEF HubInv, HubTypeOK, Subscriptions, Backlog
<1>5. ASSUME NEW s \in Viewer PROVE FaithfulTo(s)'
  <2>1. /\ got'[s] = got[s] /\ sent'[s] = got[s] /\ chan'[s] = << >>
        /\ missed'[s] = {} /\ visit' = {}
    BY <1>1
  <2>2. \A q \in Seq(Publisher) : q \o << >> = q /\ Picks(q, q, 1 .. Len(q))
    BY ConcatEmptySeq, PicksAll
  <2>3. Stream(s)' = got[s] /\ Kept(s)' = 1 .. Len(got[s])
    BY <2>1, <2>2, <1>2 DEF Stream, Kept, Pending
  <2>4. PositionsOf(s)'
    BY <2>1 DEF PositionsOf
  <2>5. Picks(got[s], got[s], 1 .. Len(got[s]))
    BY <2>2, <1>2
  <2>. QED
    BY <2>1, <2>3, <2>4, <2>5 DEF FaithfulTo
<1>6. StreamInv'
  BY <1>5 DEF StreamInv, Positions, StreamIsFaithful, FaithfulTo, PositionsOf
<1>. QED
  BY <1>4, <1>6

LEMMA CronHubStep ==
  RowInv /\ HubInv /\ StreamInv /\ [CronNext]_allVars => HubInv' /\ StreamInv'
<1> SUFFICES ASSUME RowInv, HubInv, StreamInv, [CronNext]_allVars PROVE HubInv' /\ StreamInv'
  OBVIOUS
<1>1. ASSUME UNCHANGED hubVars PROVE HubInv' /\ StreamInv'
  BY <1>1, HubStep, StreamStep
<1>2. ASSUME NEW i \in Fn, Undeploy(i) \/ Redeploy(i) PROVE UNCHANGED hubVars
  BY <1>2 DEF Undeploy, Redeploy, CreateFunction, SetStatus, DeleteFunction
<1>3. ASSUME NEW i \in Fn, NEW T \in SUBSET Trigger,
             NEW x \in [T -> Expr], NEW on \in [T -> BOOLEAN],
             Put(i, T, x, on)
      PROVE  UNCHANGED hubVars
  BY <1>3 DEF Put
<1>4. ASSUME Advance \/ Ticking \/ ListFails PROVE UNCHANGED hubVars
  BY <1>4 DEF Advance, Ticking, ListFails, Tick, ListEnabledCron, TickDone, Ignore, Meet,
         NotYet, Fire
<1>5. ASSUME NEW k \in Firing, GetFunctionByID(k) \/ Invoke(k) PROVE UNCHANGED hubVars
  BY <1>5 DEF GetFunctionByID, Invoke, Run
<1>6. ASSUME Recording PROVE HubInv' /\ StreamInv'
  <2>1. [HubNext]_hubVars
    BY <1>6, HubMove DEF RecNext
  <2>. QED
    BY <2>1, HubStep, StreamStep
<1>7. ASSUME UNCHANGED allVars PROVE UNCHANGED hubVars
  BY <1>7 DEF allVars
<1>. QED
  BY <1>1, <1>2, <1>3, <1>4, <1>5, <1>6, <1>7, RestartKeepsHub DEF CronNext

(* The hub keeps its promises when firings publish too, and over crashes   *)
(* of the process in the middle of a Publish.                              *)
THEOREM CronStreamsFaithfully ==
  CronSpec => [](NoSendOnClosed /\ OnlySlowViewersMiss /\ StreamIsFaithful)
<1>1. CronInit => HubInv /\ StreamInv
  BY HubInit0, StreamInit DEF CronInit, RecInit
<1>2. CallInv => RowInv
  BY DEF CallInv
<1>3. CronSpec => [](HubInv /\ StreamInv)
  BY <1>1, <1>2, CronHubStep, CronCallInvariant, PTL DEF CronSpec
<1>4. HubInv /\ StreamInv => NoSendOnClosed /\ OnlySlowViewersMiss /\ StreamIsFaithful
  BY HubInvMeans DEF StreamInv
<1>. QED
  BY <1>3, <1>4, PTL
-----------------------------------------------------------------------------
(* Types, and no time is remembered or worked on that has not come.        *)
THEOREM CronTypeCorrect == CronSpec => []CronTypeOK
<1>1. DueInv /\ Lateness /\ CallInv => CronTypeOK
  <2> SUFFICES ASSUME DueInv, Lateness, CallInv PROVE CronTypeOK
    OBVIOUS
  <2>1. CronTypes /\ twice = {}
    BY DEF DueInv
  <2>2. late \in [Trigger -> 0 .. 2]
    BY SMT DEF Lateness
  <2>3. /\ pc \in [Call -> CallPc \cup {"fire", "invoke"}]
        /\ \A k \in Firing : pc[k] # "idle" => owner[k] \in Fn
    BY DEF CallInv, RowInv, CallTypes, Label, Owners
  <2>4. \A t \in Trigger : last[t] \in 0 .. clock
    BY <2>1, SMT DEF CronTypes, Instant
  <2>5. last \in [Trigger -> 0 .. clock]
    BY <2>1, <2>4 DEF CronTypes
  <2>. QED
    BY <2>1, <2>2, <2>3, <2>5 DEF CronTypes, CronTypeOK
<1>. QED
  BY <1>1, CronDueInvariant, CronLateInvariant, CronCallInvariant, PTL
=============================================================================
