---------------------------- MODULE Deployments ----------------------------
(***************************************************************************)
(* Functions and their versions (internal/service, internal/builder,       *)
(* internal/store): the API handlers that deploy, patch and delete a       *)
(* function, and the one goroutine that builds.  PostgreSQL runs each      *)
(* statement atomically, but no handler holds a transaction over several:  *)
(* a handler reads the row of a function, works on its copy, and writes    *)
(* the whole copy back.  A step of the model is one statement, or one      *)
(* operation on the artifact directory.  Code is abstracted away, and with *)
(* it the difference between Deploy and Rollback, which deploys the code   *)
(* of an old version as a new one.                                         *)
(***************************************************************************)
EXTENDS Naturals, FiniteSets

CONSTANTS Fn,          \* the ids of functions
          NameOf,      \* the name each one is created with
          Deployer,    \* goroutines that handle a Deploy or a Rollback
          Patcher,     \* goroutines that handle an Update
          Deleter,     \* goroutines that handle a Delete
          Builder,     \* the goroutine of Pipeline.Start
          Setting,     \* what an Update may change in a row
          Keep,        \* versions that NewVersion keeps: 10
          MaxVersion,  \* bounds the version numbers
          MaxFaults,   \* bounds failed statements and restarts
          None         \* no function, no row

Handler == Deployer \cup Patcher \cup Deleter
Actor   == Handler \cup {Builder}
Name    == {NameOf[i] : i \in Fn}
Number  == 0 .. MaxVersion

ASSUME DeploymentsAssumption ==
  /\ Builder \notin Handler
  /\ Deployer \cap Patcher = {} /\ Deployer \cap Deleter = {} /\ Patcher \cap Deleter = {}
  /\ NameOf \in [Fn -> Name]
  /\ Keep \in Nat \ {0} /\ MaxVersion \in Nat /\ MaxFaults \in Nat
  /\ None \notin Fn

Status        == {"DRAFT", "BUILDING", "READY", "FAILED"}
VersionStatus == Status \cup {"none"}          \* "none": there is no such row
Row           == [status : Status, current : Number, setting : Setting]

ASSUME NoneIsNoRow == None \notin Row

VARIABLES
  row,       \* table functions: the row of each id, or None
  ver,       \* table function_versions: the status of each version
  artifact,  \* the directory of each name and version: whose build it holds
  jobs,      \* Pipeline.jobs, and the goroutines waiting to send to it
  pc,        \* where each goroutine is
  target,    \* the function it read
  copy,      \* its copy of the row
  num,       \* the number that NextVersion gave a deployer
  dropped,   \* the version row the builder read has been trimmed since
  born,      \* ids that have been used
  newest,    \* history: the largest number a version of the function had
  swept,     \* history: live functions whose directory a Delete removed
  faults     \* failed statements and restarts so far

tables  == <<row, ver>>
local   == <<pc, target, copy, num>>
history == <<born, newest, swept, faults>>
vars    == <<row, ver, artifact, jobs, pc, target, copy, num, dropped, born,
             newest, swept, faults>>

Init ==
  /\ row = [i \in Fn |-> None]
  /\ ver = [i \in Fn |-> [v \in Number |-> "none"]]
  /\ artifact = [n \in Name |-> [v \in Number |-> None]]
  /\ jobs = [n \in Name |-> 0]
  /\ pc = [a \in Actor |-> "idle"] /\ num = [a \in Actor |-> 0]
  /\ target = [a \in Actor |-> None] /\ copy = [a \in Actor |-> None]
  /\ dropped = FALSE
  /\ born = {} /\ newest = [i \in Fn |-> 0] /\ swept = {} /\ faults = 0

Live(i)     == row[i] # None
Named(n)    == {i \in Fn : Live(i) /\ NameOf[i] = n}
Versions(i) == {v \in Number : ver[i][v] # "none"}

(* UPDATE functions ... WHERE id: every column, from the copy.             *)
WriteRow(i, r) == row' = IF Live(i) THEN [row EXCEPT ![i] = r] ELSE row

Goto(a, label) == pc' = [pc EXCEPT ![a] = label]

Begin(a, i, r, label) ==
  /\ Goto(a, label)
  /\ target' = [target EXCEPT ![a] = i]
  /\ copy' = [copy EXCEPT ![a] = r]
  /\ num' = num

End(a) ==
  /\ Goto(a, "idle")
  /\ target' = [target EXCEPT ![a] = None]
  /\ copy' = [copy EXCEPT ![a] = None]
  /\ num' = [num EXCEPT ![a] = 0]

Continue(a, label) == Goto(a, label) /\ UNCHANGED <<target, copy, num>>
-----------------------------------------------------------------------------
(* Create: one transaction inserts the function and its draft, version 0.  *)
CreateTwice(i, s) ==
  /\ i \notin born
  /\ row' = [row EXCEPT ![i] = [status |-> "DRAFT", current |-> 0, setting |-> s]]
  /\ ver' = [ver EXCEPT ![i][0] = "DRAFT"]
  /\ born' = born \cup {i}
  /\ UNCHANGED <<artifact, jobs, local, dropped, newest, swept, faults>>

Create(i, s) ==
  /\ i \notin born /\ Named(NameOf[i]) = {}     \* name is UNIQUE
  /\ row' = [row EXCEPT ![i] = [status |-> "DRAFT", current |-> 0, setting |-> s]]
  /\ ver' = [ver EXCEPT ![i][0] = "DRAFT"]
  /\ born' = born \cup {i}
  /\ UNCHANGED <<artifact, jobs, local, dropped, newest, swept, faults>>

(* Update: read the row, change the copy, write it.                        *)
Patch(p, i, s) ==
  /\ pc[p] = "idle" /\ Live(i)
  /\ Begin(p, i, [row[i] EXCEPT !.setting = s], "patch")
  /\ UNCHANGED <<tables, artifact, jobs, dropped, history>>

PatchWrite(p) ==
  /\ pc[p] = "patch"
  /\ WriteRow(target[p], copy[p])
  /\ End(p)
  /\ UNCHANGED <<ver, artifact, jobs, dropped, history>>
-----------------------------------------------------------------------------
(* Deploy, whose NewVersion runs four statements.                          *)
Deploy(d, i) ==
  /\ pc[d] = "idle" /\ Live(i)
  /\ Begin(d, i, row[i], "next")
  /\ UNCHANGED <<tables, artifact, jobs, dropped, history>>

(* SELECT COALESCE(MAX(version), 0), and one more.                         *)
FollowsAll(i, n) ==
  /\ \A v \in Versions(i) : v < n
  /\ n - 1 \in Versions(i) \/ (Versions(i) = {} /\ n = 1)

NextVersion(d, n) ==
  /\ pc[d] = "next" /\ FollowsAll(target[d], n)
  /\ num' = [num EXCEPT ![d] = n]
  /\ Goto(d, "insert")
  /\ UNCHANGED <<tables, artifact, jobs, target, copy, dropped, history>>

InsertOrReplace(d) ==
  /\ pc[d] = "insert" /\ Live(target[d])
  /\ ver' = [ver EXCEPT ![target[d]][num[d]] = "BUILDING"]
  /\ newest' = [newest EXCEPT ![target[d]] = IF num[d] > @ THEN num[d] ELSE @]
  /\ Continue(d, "point")
  /\ UNCHANGED <<row, artifact, jobs, dropped, born, swept, faults>>

(* The foreign key and UNIQUE (function_id, version) hold at the insert.   *)
MayInsert(d) == Live(target[d]) /\ ver[target[d]][num[d]] = "none"

InsertVersion(d) ==
  /\ pc[d] = "insert" /\ MayInsert(d)
  /\ ver' = [ver EXCEPT ![target[d]][num[d]] = "BUILDING"]
  /\ newest' = [newest EXCEPT ![target[d]] = IF num[d] > @ THEN num[d] ELSE @]
  /\ Continue(d, "point")
  /\ UNCHANGED <<row, artifact, jobs, dropped, born, swept, faults>>

PointRow(d) ==
  /\ pc[d] = "point" /\ Live(target[d])
  /\ WriteRow(target[d], [status |-> "BUILDING", current |-> num[d], setting |-> copy[d].setting])
  /\ Continue(d, "trim")
  /\ UNCHANGED <<ver, artifact, jobs, dropped, history>>

(* The number is taken, or the function has gone: the deploy is over.      *)
Refused(d) ==
  /\ (pc[d] = "insert" /\ ~MayInsert(d)) \/ (pc[d] = "point" /\ ~Live(target[d]))
  /\ End(d)
  /\ UNCHANGED <<tables, artifact, jobs, dropped, history>>

(* TrimVersions keeps the Keep newest rows.                                *)
TrimmedOf(i) == {v \in Versions(i) : Cardinality({w \in Versions(i) : w > v}) >= Keep}

OldestOf(i) == {v \in Versions(i) : Cardinality({w \in Versions(i) : w < v}) >= Keep}

Trim(i, gone) ==
  /\ ver' = [ver EXCEPT ![i] = [v \in Number |-> IF v \in gone THEN "none" ELSE @[v]]]
  /\ dropped' = (dropped \/ (target[Builder] = i /\ copy[Builder].current \in gone))

TrimOldestFirst(d) ==
  /\ pc[d] = "trim"
  /\ Trim(target[d], OldestOf(target[d])) \/ UNCHANGED <<ver, dropped>>
  /\ jobs' = [jobs EXCEPT ![NameOf[target[d]]] = @ + 1]
  /\ End(d)
  /\ UNCHANGED <<row, artifact, history>>

TrimOnly(d) ==
  /\ pc[d] = "trim"
  /\ Trim(target[d], TrimmedOf(target[d])) \/ UNCHANGED <<ver, dropped>>
  /\ End(d)
  /\ UNCHANGED <<row, artifact, jobs, history>>

(* An error of TrimVersions is ignored.  Enqueue never blocks: with the    *)
(* channel full a goroutine of its own waits to send, so jobs are a bag.   *)
TrimAndEnqueue(d) ==
  /\ pc[d] = "trim"
  /\ Trim(target[d], TrimmedOf(target[d])) \/ UNCHANGED <<ver, dropped>>
  /\ jobs' = [jobs EXCEPT ![NameOf[target[d]]] = @ + 1]
  /\ End(d)
  /\ UNCHANGED <<row, artifact, history>>
-----------------------------------------------------------------------------
(* Delete: by name, and the directory of the name after the row.           *)
Delete(d, i) ==
  /\ pc[d] = "idle" /\ Live(i)
  /\ Begin(d, i, row[i], "delete")
  /\ UNCHANGED <<tables, artifact, jobs, dropped, history>>

DeleteRow(d, i) ==
  /\ pc[d] = "delete" /\ i \in Named(NameOf[target[d]])
  /\ row' = [row EXCEPT ![i] = None]
  /\ ver' = [ver EXCEPT ![i] = [v \in Number |-> "none"]]   \* ON DELETE CASCADE
  /\ Continue(d, "sweep")
  /\ UNCHANGED <<artifact, jobs, dropped, history>>

DeleteRefused(d) ==
  /\ pc[d] = "delete" /\ Named(NameOf[target[d]]) = {}
  /\ End(d)
  /\ UNCHANGED <<tables, artifact, jobs, dropped, history>>

SweepFiles(d) ==
  /\ pc[d] = "sweep"
  /\ artifact' = [artifact EXCEPT ![NameOf[target[d]]] = [v \in Number |-> None]]
  /\ swept' = swept \cup Named(NameOf[target[d]])
  /\ End(d)
  /\ UNCHANGED <<tables, jobs, dropped, born, newest, faults>>
-----------------------------------------------------------------------------
(* The builder: buildOne.  The job is only a name, so it builds whatever   *)
(* version is current when it gets there.                                  *)
Take(n) ==
  /\ pc[Builder] = "idle" /\ jobs[n] > 0
  /\ jobs' = [jobs EXCEPT ![n] = @ - 1]
  /\ \/ \E i \in Named(n) : Begin(Builder, i, row[i], "find")
     \/ Named(n) = {} /\ UNCHANGED local
  /\ UNCHANGED <<tables, artifact, dropped, history>>

Building == copy[Builder].current

FindVersion ==
  /\ pc[Builder] = "find"
  /\ IF ver[target[Builder]][Building] = "none"
       THEN End(Builder) ELSE Continue(Builder, "build")
  /\ dropped' = FALSE                            \* this row, not an earlier one
  /\ UNCHANGED <<tables, artifact, jobs, history>>

SetArtifact(i) ==
  artifact' = [artifact EXCEPT ![NameOf[target[Builder]]][Building] = i]

(* Prepare, Build and Pack: a Go build that fails leaves the version's     *)
(* directory alone, a Node one is prepared in it; from then on until       *)
(* FinishWrite it is half written.                                         *)
IgnoreBuildError ==
  /\ pc[Builder] = "build"
  /\ Continue(Builder, "saveVersion")
  /\ UNCHANGED <<tables, artifact, jobs, dropped, history>>

BuildFails ==
  /\ pc[Builder] = "build"
  /\ Continue(Builder, "failVersion")
  /\ UNCHANGED <<tables, artifact, jobs, dropped, history>>

StartWrite ==
  /\ pc[Builder] = "build"
  /\ SetArtifact(None)
  /\ Continue(Builder, "write")
  /\ UNCHANGED <<tables, jobs, dropped, history>>

IgnoreWriteError ==
  /\ pc[Builder] = "write"
  /\ SetArtifact(target[Builder]) \/ UNCHANGED artifact
  /\ Continue(Builder, "saveVersion")
  /\ UNCHANGED <<tables, jobs, dropped, history>>

(* A Delete of the name may have removed the directory under the write.    *)
FinishWrite ==
  /\ pc[Builder] = "write"
  /\ \/ SetArtifact(target[Builder]) /\ Continue(Builder, "saveVersion")
     \/ /\ ~Live(target[Builder]) \/ target[Builder] \in swept
        /\ UNCHANGED artifact /\ Continue(Builder, "saveVersion")
     \/ UNCHANGED artifact /\ Continue(Builder, "failVersion")
  /\ UNCHANGED <<tables, jobs, dropped, history>>

(* UPDATE function_versions ... WHERE id: no row, no effect, no error.     *)
WriteVersion(st) ==
  ver' = IF dropped \/ ver[target[Builder]][Building] = "none" THEN ver
         ELSE [ver EXCEPT ![target[Builder]][Building] = st]

SaveVersionLater ==
  /\ pc[Builder] = "saveVersion"
  /\ Continue(Builder, "saveRow")
  /\ UNCHANGED <<tables, artifact, jobs, dropped, history>>

SaveVersion ==
  /\ pc[Builder] = "saveVersion"
  /\ WriteVersion("READY")
  /\ Continue(Builder, "saveRow")
  /\ UNCHANGED <<row, artifact, jobs, dropped, history>>

FailVersion ==
  /\ pc[Builder] = "failVersion"
  /\ WriteVersion("FAILED")
  /\ Continue(Builder, "failRow")
  /\ UNCHANGED <<row, artifact, jobs, dropped, history>>

SaveRow ==
  /\ pc[Builder] \in {"saveRow", "failRow"}
  /\ WriteRow(target[Builder],
       [copy[Builder] EXCEPT !.status = IF pc[Builder] = "saveRow" THEN "READY" ELSE "FAILED"])
  /\ End(Builder)
  /\ UNCHANGED <<ver, artifact, jobs, dropped, history>>
-----------------------------------------------------------------------------
(* A statement fails (the database, or the client's context is cancelled), *)
(* or fails although it was executed; fail() alone carries on.  An error   *)
(* of the write of an artifact is a case of FinishWrite.                   *)
Fault(a) ==
  /\ pc[a] \notin {"idle", "write"} /\ faults < MaxFaults
  /\ faults' = faults + 1
  /\ IF pc[a] = "failVersion" THEN Continue(a, "failRow") ELSE End(a)
  /\ UNCHANGED <<tables, artifact, jobs, dropped, born, newest, swept>>

(* The process dies and is started again: the queue was in memory.         *)
Restart ==
  /\ faults < MaxFaults
  /\ faults' = faults + 1
  /\ jobs' = [n \in Name |-> 0]
  /\ pc' = [a \in Actor |-> "idle"] /\ num' = [a \in Actor |-> 0]
  /\ target' = [a \in Actor |-> None] /\ copy' = [a \in Actor |-> None]
  /\ dropped' = FALSE
  /\ UNCHANGED <<tables, artifact, born, newest, swept>>

Deploying(d) == \/ (\E n \in Number \ {0} : NextVersion(d, n))
                \/ InsertVersion(d) \/ PointRow(d) \/ Refused(d) \/ TrimAndEnqueue(d)
Deleting(d)  == (\E i \in Fn : DeleteRow(d, i)) \/ DeleteRefused(d) \/ SweepFiles(d)
Build        == \/ (\E n \in Name : Take(n)) \/ FindVersion
                \/ BuildFails \/ StartWrite \/ FinishWrite
                \/ SaveVersion \/ FailVersion \/ SaveRow

Handling ==
  \/ \E i \in Fn, s \in Setting : Create(i, s)
  \/ \E p \in Patcher : PatchWrite(p) \/ \E i \in Fn, s \in Setting : Patch(p, i, s)
  \/ \E d \in Deployer : Deploying(d) \/ \E i \in Fn : Deploy(d, i)
  \/ \E d \in Deleter : Deleting(d) \/ \E i \in Fn : Delete(d, i)

Next ==
  \/ Handling
  \/ Build
  \/ \E a \in Actor : Fault(a)
  \/ Restart

Spec == Init /\ [][Next]_vars

(* Nothing fails; handlers run on, the builder goroutine loops over a FIFO *)
(* channel, and a build container comes to an end.                         *)
FairSpec ==
  /\ Init /\ [][Handling \/ Build]_vars
  /\ \A d \in Deployer : WF_vars(Deploying(d))
  /\ \A d \in Deleter : WF_vars(Deleting(d))
  /\ \A p \in Patcher : WF_vars(PatchWrite(p))
  /\ WF_vars(Build) /\ \A n \in Name : SF_vars(Take(n))
-----------------------------------------------------------------------------
HandlerPc == {"idle", "patch", "next", "insert", "point", "trim", "delete", "sweep"}
BuilderPc == {"idle", "find", "build", "write", "saveVersion", "failVersion",
              "saveRow", "failRow"}

(* Every variable holds a value of its kind, a goroutine at work holds a   *)
(* function and a row, and no two live functions have the same name.       *)
TypeOK ==
  /\ row \in [Fn -> Row \cup {None}]
  /\ ver \in [Fn -> [Number -> VersionStatus]]
  /\ artifact \in [Name -> [Number -> Fn \cup {None}]]
  /\ jobs \in [Name -> Nat]
  /\ pc \in [Actor -> HandlerPc \cup BuilderPc]
  /\ \A h \in Handler : pc[h] \in HandlerPc
  /\ pc[Builder] \in BuilderPc
  /\ target \in [Actor -> Fn \cup {None}]
  /\ copy \in [Actor -> Row \cup {None}]
  /\ \A a \in Actor : pc[a] # "idle" => target[a] \in born /\ copy[a] \in Row
  /\ num \in [Actor -> Number]
  /\ dropped \in BOOLEAN
  /\ born \subseteq Fn /\ swept \subseteq born /\ newest \in [Fn -> Number]
  /\ faults \in 0 .. MaxFaults
  /\ \A i \in Fn : Live(i) => i \in born
  /\ \A i, j \in Fn : Live(i) /\ Live(j) /\ NameOf[i] = NameOf[j] => i = j

(* What TrimVersions may take: the Keep newest numbers of a live function  *)
(* are all in the table, so a number is issued twice, or the version a row *)
(* points to goes missing, only when Keep deploys overtook another.        *)
RecentVersionsKept ==
  \A i \in Fn : Live(i) =>
    {v \in 0 .. newest[i] : newest[i] - v < Keep} \subseteq Versions(i)

(* The tables implement VersionTable, statement by statement, with the     *)
(* history of the model for its top and used: neither a deploy that is     *)
(* late nor a build whose version was trimmed under it undoes a version.   *)
Table == INSTANCE VersionTable WITH top <- newest, used <- born

VersionTableSpec == Table!Spec

Overtaken(i, v) == newest[i] - v >= Keep

(* Whatever stale copies are written over it by patches, deploys and the   *)
(* builder, the row of a READY function points to a version whose build    *)
(* has ended, never to a draft or to one that is still to be built.        *)
ReadyRowWasBuilt ==
  \A i \in Fn : Live(i) /\ row[i].status = "READY" =>
     \/ ver[i][row[i].current] \in {"READY", "FAILED", "none"}
     \/ Overtaken(i, row[i].current)

Rewriting(i, v) == /\ target[Builder] = i /\ Building = v
                   /\ pc[Builder] \in {"write", "failVersion"}

(* A READY version has a complete artifact of its own function behind it,  *)
(* but while the builder is writing the same version again, and when the   *)
(* Delete of a function of the same name removed the directory late; a     *)
(* builder that dies, or whose UPDATE fails, may leave half a rebuild.     *)
ReadyHasArtifact ==
  faults = 0 =>
    \A i \in Fn, v \in Number : ver[i][v] = "READY" =>
       artifact[NameOf[i]][v] = i \/ Rewriting(i, v) \/ i \in swept

(* A function that is deployed does not stay BUILDING for ever, provided   *)
(* that no Update has read the row while it was BUILDING (it would write   *)
(* that back later), and unless Keep deploys overtook the one that wrote   *)
(* it, whose version is trimmed before the builder finds it.               *)
PatchesWait == \A p \in Patcher : pc[p] = "patch" => copy[p].status # "BUILDING"

Waiting(i) == /\ Live(i) /\ row[i].status = "BUILDING"
              /\ ~Overtaken(i, row[i].current)

BuildingEnds == []PatchesWait => \A i \in Fn : Waiting(i) ~> ~Waiting(i)

(* And so its build is never lost, under the same proviso, whatever        *)
(* handlers and the builder write over each other: the deploy that set it  *)
(* to BUILDING has still to queue a job, or one is queued for the name, or *)
(* the builder is at work on the function and, if it has the version still *)
(* to find, it is the one that is current.                                 *)
Queues(d, i) == pc[d] = "trim" /\ target[d] = i

AtWork(i) == /\ pc[Builder] # "idle" /\ target[Builder] = i
             /\ pc[Builder] = "find" => Building = row[i].current

Owed(i) == (\E d \in Deployer : Queues(d, i)) \/ jobs[NameOf[i]] > 0 \/ AtWork(i)

BuildOwed == \A i \in Fn : Waiting(i) => Owed(i)

BuildNotLost == []PatchesWait => []BuildOwed

(* "Asynchronous, does not block the call path": a function that can be    *)
(* invoked can still be invoked when a deploy has been submitted.          *)
Servable(i) == /\ Live(i) /\ row[i].status = "READY"
               /\ ver[i][row[i].current] = "READY"

DeployKeepsServing ==
  [][\A d \in Deployer : PointRow(d) /\ Servable(target[d]) => Servable(target[d])']_vars

(* "Build submitted": the version that a deploy adds is built.             *)
DeployedVersionIsBuilt ==
  \A i \in Fn, v \in Number : ver[i][v] = "BUILDING" ~> ver[i][v] # "BUILDING"
=============================================================================
