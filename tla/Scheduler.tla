----------------------------- MODULE Scheduler -----------------------------
(***************************************************************************)
(* The scheduler of cron triggers (internal/scheduler) over table          *)
(* triggers.  A ticker offers the time once a second to a channel of one   *)
(* place; the scheduler goroutine receives it, reads the enabled cron      *)
(* triggers, and starts a goroutine fire() for each that is due since the  *)
(* time it remembers in s.last.  Meanwhile triggers are replaced, functions*)
(* deleted and created again, ticks dropped because the last one is still  *)
(* being worked on, and the process restarted, which forgets s.last.       *)
(*                                                                         *)
(* An instant is a second, 0 is Go's zero time.                            *)
(***************************************************************************)
EXTENDS Recorder

CONSTANTS Trigger,    \* ids of triggers; a client may use one again
          Expr,       \* the expressions that triggers are stored with
          Parsed,     \* external: those that tick can parse
          Due,        \* external: the instants each is due at, after a given one
          MaxTime,    \* bounds the clock, which then stands still
          Followed,   \* bounds the due times that DueTimesFire follows
          MaxFaults   \* bounds failed queries and restarts

Firing  == Call \ Request              \* the goroutines of fire()
Instant == 1 .. MaxTime
Entry   == [fn : Fn, expr : Expr, enabled : BOOLEAN]

(* What a calendar expression matches does not depend on the instant that  *)
(* one counts from, what @every is due at is a delay after it.  No such    *)
(* schedule ends, but one may be empty: February 30th parses.              *)
ASSUME SchedulerAssumption ==
  /\ Parsed \subseteq Expr
  /\ Due \in [Parsed -> [0 .. MaxTime -> SUBSET Nat]]
  /\ \A x \in Parsed, t \in 0 .. MaxTime : \A d \in Due[x][t] : d > t
  /\ \A x \in Parsed : \/ \A t \in 0 .. MaxTime : Due[x][t] = {}
                       \/ \A t \in 0 .. MaxTime : Due[x][t] # {}
  /\ MaxTime \in Nat \ {0} /\ MaxFaults \in Nat /\ Followed \subseteq Instant
  /\ None \notin Entry

VARIABLES
  trig,      \* table triggers: the cron entry under each id, or None
  clock,     \* the time
  ticker,    \* the channel of the ticker: an instant, or 0
  at,        \* where the scheduler goroutine is
  now,       \* the tick it works on
  batch,     \* the triggers it has still to look at, as it read them
  last,      \* s.last; 0 if there is no entry
  owner,     \* the function whose trigger a fire() was started for
  answered,  \* history: instants of an id that a firing answers for
  twice,     \* history: those that two firings answer for
  late,      \* history: firings of an id since it left the table
  faults     \* failed queries and restarts so far

memory   == <<at, now, batch, last>>
history  == <<answered, twice, late>>
cronVars == <<trig, clock, ticker, memory, owner, history, faults>>
allVars  == <<hubVars, recVars, cronVars>>

CronInit ==
  /\ RecInit
  /\ trig = [t \in Trigger |-> None]
  /\ clock = 1 /\ ticker = 0
  /\ at = "wait" /\ now = 0 /\ batch = {}
  /\ last  = [t \in Trigger |-> 0]
  /\ owner = [k \in Firing |-> None]
  /\ late  = [t \in Trigger |-> 0]
  /\ answered = {} /\ twice = {}
  /\ faults = 0

Enabled(t) == trig[t] # None /\ trig[t].enabled
-----------------------------------------------------------------------------
(* ReplaceTriggers: one transaction that deletes the entries of a function *)
(* and inserts new ones, each with the expression and the flag that the    *)
(* client gave it.  It fails if an id belongs to another function.         *)

Of(i)   == {t \in Trigger : trig[t] # None /\ trig[t].fn = i}
Unused  == {t \in Trigger : trig[t] = None}

Put(i, T, x, on) ==
  /\ Live(i)
  /\ T \subseteq Of(i) \cup Unused
  /\ trig' = [t \in Trigger |->
                IF t \in T THEN [fn |-> i, expr |-> x[t], enabled |-> on[t]]
                ELSE IF t \in Of(i) THEN None ELSE trig[t]]
  /\ late' = [t \in Trigger |-> IF t \in T /\ on[t] THEN 0 ELSE late[t]]
  /\ UNCHANGED <<hubVars, recVars, clock, ticker, memory, owner, answered, twice, faults>>

(* The entries of a function go with it.                                   *)
Undeploy(i) ==
  /\ DeleteFunction(i)
  /\ trig' = [t \in Trigger |-> IF t \in Of(i) THEN None ELSE trig[t]]
  /\ UNCHANGED <<clock, ticker, memory, owner, history, faults>>

Redeploy(i) ==
  /\ CreateFunction(i) \/ SetStatus(i)
  /\ UNCHANGED cronVars
-----------------------------------------------------------------------------
(* time.Ticker drops the tick that finds its channel full.                 *)
Advance ==
  /\ clock' = IF clock < MaxTime THEN clock + 1 ELSE clock
  /\ ticker' = IF ticker = 0 THEN clock' ELSE ticker
  /\ UNCHANGED <<hubVars, recVars, trig, memory, owner, history, faults>>

Tick ==
  /\ at = "wait" /\ ticker # 0
  /\ now' = ticker /\ ticker' = 0
  /\ at' = "list"
  /\ UNCHANGED <<hubVars, recVars, trig, clock, batch, last, owner, history, faults>>

ListAllCron ==
  /\ at = "list"
  /\ batch' = {[id |-> t, fn |-> trig[t].fn, expr |-> trig[t].expr] :
                 t \in {u \in Trigger : trig[u] # None}}
  /\ at' = "items"
  /\ UNCHANGED <<hubVars, recVars, trig, clock, ticker, now, last, owner, history, faults>>

ListEnabledCron ==
  /\ at = "list"
  /\ batch' = {[id |-> t, fn |-> trig[t].fn, expr |-> trig[t].expr] :
                 t \in {u \in Trigger : Enabled(u)}}
  /\ at' = "items"
  /\ UNCHANGED <<hubVars, recVars, trig, clock, ticker, now, last, owner, history, faults>>

ListFails ==
  /\ at = "list" /\ faults < MaxFaults
  /\ at' = "wait"
  /\ faults' = faults + 1
  /\ UNCHANGED <<hubVars, recVars, trig, clock, ticker, now, batch, last, owner, history>>

TickDone ==
  /\ at = "items" /\ batch = {}
  /\ at' = "wait"
  /\ UNCHANGED <<hubVars, recVars, trig, clock, ticker, now, batch, last, owner, history, faults>>

(* sched.Next: the next instant the expression is due at, or the zero time *)
Next(x, t) ==
  IF Due[x][t] = {} THEN 0 ELSE CHOOSE d \in Due[x][t] : \A e \in Due[x][t] : d <= e

LookAt(b) == at = "items" /\ b \in batch /\ b.expr \in Parsed

Ignore(b) ==       \* the check of a trigger trims the expression, tick does not
  /\ at = "items" /\ b \in batch /\ b.expr \notin Parsed
  /\ batch' = batch \ {b}
  /\ UNCHANGED <<hubVars, recVars, trig, clock, ticker, at, now, last, owner, history, faults>>

MeetAtClock(b) ==
  /\ LookAt(b) /\ last[b.id] = 0
  /\ last' = [last EXCEPT ![b.id] = clock]
  /\ batch' = batch \ {b}
  /\ UNCHANGED <<hubVars, recVars, trig, clock, ticker, at, now, owner, history, faults>>

Meet(b) ==                       \* the first sight of a trigger only starts it
  /\ LookAt(b) /\ last[b.id] = 0
  /\ last' = [last EXCEPT ![b.id] = now]
  /\ batch' = batch \ {b}
  /\ UNCHANGED <<hubVars, recVars, trig, clock, ticker, at, now, owner, history, faults>>

NotYet(b) ==
  /\ LookAt(b) /\ last[b.id] # 0
  /\ now < Next(b.expr, last[b.id])
  /\ batch' = batch \ {b}
  /\ UNCHANGED <<hubVars, recVars, trig, clock, ticker, at, now, last, owner, history, faults>>

IsDue(b) == LookAt(b) /\ last[b.id] # 0 /\ now >= Next(b.expr, last[b.id])

(* A firing answers for the due times since the last one of this id, also  *)
(* those of another expression that the id has been given meanwhile.       *)
For(b) == {<<b.id, d>> : d \in {d \in Instant : last[b.id] < d /\ d <= now}}

Note(b) ==
  /\ answered' = answered \cup For(b)
  /\ twice' = twice \cup (answered \cap For(b))
  /\ late' = [late EXCEPT ![b.id] =
                IF Enabled(b.id) \/ @ = 2 THEN @ ELSE @ + 1]  \* counts up to 2

(* Start fire() for the trigger as it was read.  Firing bounds the calls   *)
(* that are followed to their end; one more is started and not followed.   *)
Start(b) ==
  LET Free == {k \in Firing : pc[k] \in {"idle", "done"}} IN
  \/ /\ Free = {}
     /\ UNCHANGED <<pc, ran, owner>>
  \/ \E k \in Free :
       /\ Goto(k, "fire")
       /\ ran' = [ran EXCEPT ![k] = None]
       /\ owner' = [owner EXCEPT ![k] = b.fn]

StartWithoutNoting(b) ==
  /\ IsDue(b)
  /\ batch' = batch \ {b}
  /\ Note(b) /\ Start(b)
  /\ UNCHANGED <<hubVars, status, records, found, logged, trig, clock, ticker, at, now,
                 last, faults>>

SkipIfBusy(b) ==
  /\ IsDue(b)
  /\ last' = [last EXCEPT ![b.id] = now]
  /\ batch' = batch \ {b}
  /\ \/ /\ \A k \in Firing : pc[k] \in {"idle", "done"}
        /\ Note(b) /\ Start(b)
     \/ /\ \E k \in Firing : pc[k] \notin {"idle", "done"}
        /\ UNCHANGED <<pc, ran, owner, answered, twice, late>>
  /\ UNCHANGED <<hubVars, status, records, found, logged, trig, clock, ticker, at, now,
                 faults>>

Fire(b) ==
  /\ IsDue(b)
  /\ last' = [last EXCEPT ![b.id] = now]
  /\ batch' = batch \ {b}
  /\ Note(b) /\ Start(b)
  /\ UNCHANGED <<hubVars, status, records, found, logged, trig, clock, ticker, at, now,
                 faults>>
-----------------------------------------------------------------------------
(* fire(): the function by the id in the trigger, then Invoke and Record   *)
(* by its name.                                                            *)

GetFunctionByID(k) ==
  /\ pc[k] = "fire"
  /\ \/ status[owner[k]] = "READY" /\ Goto(k, "invoke")
     \/ Goto(k, "done")                  \* it is not, or the query fails
  /\ UNCHANGED <<hubVars, status, records, ran, found, logged, cronVars>>

Invoke(k) ==
  /\ pc[k] = "invoke"
  /\ \/ Run(k, NameOf[owner[k]])
     \/ Goto(k, "done") /\ UNCHANGED <<hubVars, status, records, ran, found, logged>>
  /\ UNCHANGED cronVars

(* The process dies and starts again: goroutines, channels and s.last are  *)
(* gone, the tables stay.  A stream ends with what it has delivered.       *)
Restart ==
  /\ faults < MaxFaults /\ faults' = faults + 1
  /\ ticker' = 0 /\ at' = "wait" /\ now' = 0 /\ batch' = {}
  /\ last' = [t \in Trigger |-> 0]
  /\ pc' = [k \in Call |-> IF pc[k] = "idle" THEN "idle" ELSE "done"]
  /\ found' = [k \in Call |-> None] /\ logged' = [k \in Call |-> FALSE]
  /\ hubMu' = None /\ visit' = {} /\ subs' = {}
  /\ viewing' = [s \in Viewer |-> IF viewing[s] = "away" THEN "away" ELSE "gone"]
  /\ chan' = [s \in Viewer |-> << >>]
  /\ sent' = got /\ missed' = [s \in Viewer |-> {}]
  /\ UNCHANGED <<got, status, records, ran, trig, clock, owner, history>>

Ticking == Tick \/ ListEnabledCron \/ TickDone
           \/ \E b \in batch : Ignore(b) \/ Meet(b) \/ NotYet(b) \/ Fire(b)

CronNext ==
  \/ \E i \in Fn : \/ Undeploy(i) \/ Redeploy(i)
                   \/ \E T \in SUBSET Trigger :
                        \E x \in [T -> Expr], on \in [T -> BOOLEAN] : Put(i, T, x, on)
  \/ Advance \/ Ticking \/ ListFails \/ Restart
  \/ \E k \in Firing : GetFunctionByID(k) \/ Invoke(k)
  \/ Recording /\ UNCHANGED cronVars

CronSpec == CronInit /\ [][CronNext]_allVars

(* Time passes, and the scheduler goroutine runs.  Its query returns, with *)
(* the triggers or with an error.                                          *)
CronFairSpec == CronSpec /\ WF_allVars(Advance) /\ WF_allVars(Ticking)
-----------------------------------------------------------------------------
(* Every variable holds a value of its kind; the scheduler never remembers *)
(* or works on a time that has not come.                                   *)
CronTypeOK ==
  /\ trig \in [Trigger -> Entry \cup {None}]
  /\ clock \in Instant /\ ticker \in 0 .. clock /\ now \in 0 .. clock
  /\ at \in {"wait", "list", "items"}
  /\ batch \subseteq [id : Trigger, fn : Fn, expr : Expr]
  /\ at # "items" => batch = {}
  /\ last \in [Trigger -> 0 .. clock] /\ \A t \in Trigger : last[t] <= now
  /\ pc \in [Call -> CallPc \cup {"fire", "invoke"}]
  /\ owner \in [Firing -> Fn \cup {None}]
  /\ \A k \in Firing : pc[k] # "idle" => owner[k] \in Fn
  /\ answered \subseteq Trigger \X Instant /\ twice \subseteq answered
  /\ late \in [Trigger -> 0 .. 2]
  /\ faults \in 0 .. MaxFaults

(* A due time of a trigger starts it at most once: whatever ticks are late *)
(* or dropped, entries replaced, and even when the process restarts right  *)
(* after a firing, which forgets the time of it.                           *)
FiresOncePerDueTime == twice = {}

(* After a trigger was disabled, removed or deleted with its function, the *)
(* tick that has already read it may start it once, and then never again.  *)
AtMostOneLateFiring == \A t \in Trigger : late[t] <= 1

(* A firing runs the function whose trigger it is, or one of the same name *)
(* once that was deleted; and the function that it has found and is about  *)
(* to insert its record for is that function, or again one of its name     *)
(* once it was deleted.                                                    *)
Stands(k, i) == NameOf[i] = NameOf[owner[k]] /\ (i = owner[k] \/ status[owner[k]] = "deleted")

FiringRunsItsFunction ==
  \A k \in Firing : /\ ran[k] # None => Stands(k, ran[k])
                    /\ found[k] # None => Stands(k, found[k])

(* A due time of a trigger that the scheduler has met is not forgotten:    *)
(* late ticks, failed queries and other triggers only put it off, as long  *)
(* as the trigger stays enabled with its expression, and s.last is kept.   *)
(* The delay of an @every alone may begin again, when a tick that read the *)
(* expression the trigger had before fires it before its time.             *)
Met(t, x) == Enabled(t) /\ trig[t].expr = x /\ last[t] # 0

Rebased(t, x, d) == last[t] < d /\ d \notin Due[x][last[t]]

DueTimes(x) == Followed \cap UNION {Due[x][t] : t \in 2 .. MaxTime}    \* 2: the first tick

DueTimesFire ==
  \A t \in Trigger, x \in Parsed : \A d \in DueTimes(x) :
     (Met(t, x) /\ d \in Due[x][last[t]] /\ d <= clock)
       ~> (<<t, d>> \in answered \/ ~Met(t, x) \/ Rebased(t, x, d))
=============================================================================
