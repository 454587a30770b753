--------------------------- MODULE ServingProofs ---------------------------
(***************************************************************************)
(* Theorems about Serving, for any functions, handlers, callers and        *)
(* bounds.  The facts about tables and directories are theorems about      *)
(* Deployments, which Serving implements.                                  *)
(***************************************************************************)
EXTENDS Serving, DeploymentsProofs

(* The builder is at work for another function of the name of i, which was *)
(* deleted since: names are unique when a job begins.                      *)
NamesakeBuilt(i) == /\ pc[Builder] # "idle" /\ target[Builder] # i
                    /\ NameOf[target[Builder]] = NameOf[i]

Written == artifact[NameOf[target[Builder]]][Building]

(* The rows of versions go with their function; while the builder works    *)
(* for a deleted namesake no version of a function can be READY; behind a  *)
(* READY version there is nothing but a build of its own function.         *)
RowsCascade   == \A i \in Fn : ~Live(i) => \A v \in Number : ver[i][v] = "none"
NamesakeFirst == \A i \in Fn : NamesakeBuilt(i) /\ Live(i) => \A v \in Number : ver[i][v] # "READY"
FilesOwn      == \A i \in Fn, v \in Number :
                   ver[i][v] = "READY" => artifact[NameOf[i]][v] \in {i, None}
WritesOwn     == pc[Builder] \in {"write", "saveVersion"} => Written \in {target[Builder], None}

(* A version that was trimmed under the builder is not READY again, so the *)
(* UPDATE of a failed rebuild does reach a READY one; and without a fault  *)
(* the builder comes to mark a version READY only when its write is whole. *)
DroppedUnbuilt == pc[Builder] \notin {"idle", "find"} /\ dropped
                    => ver[target[Builder]][Building] \in {"none", "BUILDING"}
SavesWhole     == faults = 0 /\ pc[Builder] = "saveVersion"
                    => \/ Written = target[Builder] \/ target[Builder] \in swept
                       \/ ~Live(target[Builder])

Owned == /\ RowsCascade /\ NamesakeFirst /\ FilesOwn /\ WritesOwn
         /\ DroppedUnbuilt /\ SavesWhole /\ ReadyHasArtifact

LEMMA BuilderAtWork ==
  ASSUME TypeOK, pc[Builder] # "idle"
  PROVE  /\ target[Builder] \in born /\ target[Builder] \in Fn
         /\ Building \in Number /\ NameOf[target[Builder]] \in Name
BY SMT DEF TypeOK, Actor, Building, Row, Name

(* What a step of a handler other than the sweep may do.                   *)
Aside ==
  /\ artifact' = artifact /\ swept' = swept /\ (faults' = 0 => faults = 0)
  /\ pc'[Builder] = pc[Builder] /\ target'[Builder] = target[Builder]
  /\ copy'[Builder] = copy[Builder]
  /\ \A i \in Fn : Live(i)' => Live(i) \/ i \notin born
  /\ \A i \in Fn, v \in Number :
       \/ ver'[i][v] = ver[i][v] \/ ver'[i][v] = "none"
       \/ Live(i)' /\ ver'[i][v] = "BUILDING"
       \/ Live(i)' /\ ver'[i][v] = "DRAFT" /\ i \notin born
  /\ \A i \in Fn, v \in Number : Live(i) /\ ~Live(i)' => ver'[i][v] = "none"
  /\ dropped' => dropped \/ (pc[Builder] # "idle" => ver'[target[Builder]][Building] = "none")

LEMMA AsideKeeps ==
  ASSUME TypeOK, Owned, Aside
  PROVE  Owned'
<1> USE DEF Live
<1>has. /\ RowsCascade /\ NamesakeFirst /\ FilesOwn /\ WritesOwn
        /\ DroppedUnbuilt /\ SavesWhole /\ ReadyHasArtifact
  BY DEF Owned
<1>at. pc[Builder] # "idle" => /\ target[Builder] \in born /\ target[Builder] \in Fn
                               /\ Building \in Number
  BY BuilderAtWork
<1>same. /\ Building' = Building /\ Written' = Written
         /\ \A i \in Fn : NamesakeBuilt(i)' <=> NamesakeBuilt(i)
  BY DEF Building, Written, NamesakeBuilt, Aside
<1>dead. \A i \in Fn, v \in Number : ~Live(i) \/ i \notin born => ver[i][v] = "none"
  BY <1>has DEF TypeOK, RowsCascade
<1>ready. \A i \in Fn, v \in Number : ver'[i][v] = "READY" => ver[i][v] = "READY" /\ Live(i)
  BY <1>dead DEF Aside
<1>1. RowsCascade'
  BY <1>dead DEF RowsCascade, Aside
<1>2. NamesakeFirst'
  BY <1>has, <1>same, <1>ready DEF NamesakeFirst
<1>3. FilesOwn'
  BY <1>has, <1>ready DEF FilesOwn, Aside
<1>4. WritesOwn'
  BY <1>has, <1>same DEF WritesOwn, Aside
<1>5. DroppedUnbuilt'
  BY <1>has, <1>at, <1>same DEF DroppedUnbuilt, Aside
<1>6. SavesWhole'
  BY <1>has, <1>at, <1>same DEF SavesWhole, Aside
<1>7. ReadyHasArtifact'
  BY <1>has, <1>ready, <1>same DEF ReadyHasArtifact, Rewriting, Aside
<1>. QED
  BY <1>1, <1>2, <1>3, <1>4, <1>5, <1>6, <1>7 DEF Owned

LEMMA HandlingAside ==
  ASSUME TypeOK, Owned, Handling, \A d \in Deleter : ~SweepFiles(d)
  PROVE  Aside
<1> USE DeploymentsAssumption
<1>role. /\ Handler \subseteq Actor /\ Builder \in Actor /\ Builder \notin Handler
         /\ Deployer \subseteq Handler /\ Patcher \subseteq Handler /\ Deleter \subseteq Handler
  BY DEF Handler, Actor
<1>at. \A a \in Actor : pc[a] # "idle" => /\ target[a] \in born /\ target[a] \in Fn
                                          /\ copy[a] \in Row
  BY SMT DEF TypeOK
<1>rows. /\ row \in [Fn -> Row \cup {None}] /\ ver \in [Fn -> [Number -> VersionStatus]]
         /\ \A i \in Fn : Live(i) => i \in born
  BY DEF TypeOK
<1>local. pc \in [Actor -> HandlerPc \cup BuilderPc] /\ target \in [Actor -> Fn \cup {None}]
          /\ copy \in [Actor -> Row \cup {None}]
  BY DEF TypeOK
<1> DEFINE Own(a) == \/ UNCHANGED local \/ End(a)
                     \/ \E label : Continue(a, label)
                     \/ \E label, i, r : Begin(a, i, r, label)
                     \/ UNCHANGED <<target, copy>> /\ \E label : Goto(a, label)
<1>apart. ASSUME NEW a \in Handler, Own(a)
          PROVE  /\ pc'[Builder] = pc[Builder] /\ target'[Builder] = target[Builder]
                 /\ copy'[Builder] = copy[Builder]
  <2>1. a # Builder
    BY <1>role
  <2>2. CASE UNCHANGED local
    BY <2>2 DEF local
  <2>3. CASE End(a)
    BY <2>1, <2>3, <1>local, <1>role, SMT DEF End, Goto
  <2>4. ASSUME NEW label, Continue(a, label) \/ (UNCHANGED <<target, copy>> /\ Goto(a, label))
        PROVE  /\ pc'[Builder] = pc[Builder] /\ target'[Builder] = target[Builder]
               /\ copy'[Builder] = copy[Builder]
    BY <2>1, <2>4, <1>local, <1>role, SMT DEF Continue, Goto
  <2>5. ASSUME NEW label, NEW i, NEW r, Begin(a, i, r, label)
        PROVE  /\ pc'[Builder] = pc[Builder] /\ target'[Builder] = target[Builder]
               /\ copy'[Builder] = copy[Builder]
    BY <2>1, <2>5, <1>local, <1>role, SMT DEF Begin, Goto
  <2>. QED
    BY <1>apart, <2>2, <2>3, <2>4, <2>5
<1>quiet. ASSUME NEW a \in Handler, Own(a), UNCHANGED <<artifact, swept, faults, ver, dropped>>,
                 \A i \in Fn : Live(i)' <=> Live(i)
          PROVE  Aside
  BY <1>quiet, <1>apart, Zenon DEF Aside
<1> HIDE DEF Own
<1>1. ASSUME NEW i \in Fn, NEW s \in Setting, Create(i, s) PROVE Aside
  <2>1. row' = [row EXCEPT ![i] = [status |-> "DRAFT", current |-> 0, setting |-> s]]
        /\ ver' = [ver EXCEPT ![i][0] = "DRAFT"] /\ i \notin born
        /\ UNCHANGED <<artifact, pc, target, copy, swept, faults, dropped>>
    BY <1>1 DEF Create, local
  <2>2. \A j \in Fn : j # i => (Live(j)' <=> Live(j))
    BY <2>1, <1>rows DEF Live
  <2>3. Live(i)'
    BY <2>1, <1>rows, NoneIsNoRow, SMT DEF Live, Row, Status, Number
  <2>4. \A j \in Fn, v \in Number : ver'[j][v] = ver[j][v] \/ (j = i /\ ver'[j][v] = "DRAFT")
    BY <2>1, <1>rows
  <2>. QED
    BY <2>1, <2>2, <2>3, <2>4 DEF Aside
<1>2. ASSUME NEW p \in Patcher, PatchWrite(p) PROVE Aside
  <2>1. p \in Handler /\ target[p] \in Fn /\ copy[p] \in Row
    BY <1>2, <1>role, <1>at DEF PatchWrite
  <2>2. \A i \in Fn : Live(i)' <=> Live(i)
    BY <1>2, <2>1, <1>rows, WriteRowTypes DEF PatchWrite
  <2>. QED
    BY <1>2, <2>1, <2>2, <1>quiet DEF PatchWrite, Own, history
<1>3. ASSUME NEW p \in Patcher, NEW i \in Fn, NEW s \in Setting, Patch(p, i, s) PROVE Aside
  BY <1>3, <1>role, <1>quiet DEF Patch, Own, tables, history, Live
<1>4. ASSUME NEW d \in Deployer, NEW i \in Fn, Deploy(d, i) PROVE Aside
  BY <1>4, <1>role, <1>quiet DEF Deploy, Own, tables, history, Live
<1>5. ASSUME NEW d \in Deployer, NEW n \in Number \ {0}, NextVersion(d, n) PROVE Aside
  BY <1>5, <1>role, <1>quiet DEF NextVersion, Own, tables, history, Live
<1>6. ASSUME NEW d \in Deployer, InsertVersion(d) PROVE Aside
  <2>1. PICK f \in Fn : f = target[d]
    BY <1>6, <1>role, <1>at DEF InsertVersion
  <2>2. /\ Live(f) /\ ver' = [ver EXCEPT ![f][num[d]] = "BUILDING"]
        /\ UNCHANGED <<row, artifact, swept, faults, dropped>>
        /\ Own(d) /\ d \in Handler
    BY <1>6, <2>1, <1>role DEF InsertVersion, MayInsert, Own
  <2>3. \A i \in Fn, v \in Number : ver'[i][v] = ver[i][v] \/ (i = f /\ ver'[i][v] = "BUILDING")
    BY <2>2, <1>rows
  <2>. QED
    BY <2>2, <2>3, <1>apart DEF Aside, Live
<1>7. ASSUME NEW d \in Deployer, Refused(d) PROVE Aside
  BY <1>7, <1>role, <1>quiet DEF Refused, Own, tables, history, Live
<1>8. ASSUME NEW d \in Deployer, PointRow(d) PROVE Aside
  <2>1. /\ d \in Handler /\ target[d] \in Fn /\ num[d] \in Number
        /\ [status |-> "BUILDING", current |-> num[d], setting |-> copy[d].setting] \in Row
    BY <1>8, <1>role, <1>at, SMT DEF PointRow, TypeOK, Row, Status
  <2>2. \A i \in Fn : Live(i)' <=> Live(i)
    BY <1>8, <2>1, <1>rows, WriteRowTypes DEF PointRow
  <2>. QED
    BY <1>8, <2>1, <2>2, <1>quiet DEF PointRow, Own, history
<1>9. ASSUME NEW d \in Deployer, TrimAndEnqueue(d) PROVE Aside
  <2>1. d \in Handler /\ Own(d) /\ UNCHANGED <<row, artifact, swept, faults>>
    BY <1>9, <1>role DEF TrimAndEnqueue, Own, history
  <2>2. CASE UNCHANGED <<ver, dropped>>
    BY <2>1, <2>2, <1>quiet DEF Live
  <2>3. CASE Trim(target[d], TrimmedOf(target[d]))
    <3> DEFINE gone == TrimmedOf(target[d])
    <3>1. target[d] \in Fn
      BY <1>9, <1>role, <1>at DEF TrimAndEnqueue
    <3>2. /\ ver' = [ver EXCEPT ![target[d]] = [v \in Number |-> IF v \in gone THEN "none" ELSE @[v]]]
          /\ dropped' = (dropped \/ (target[Builder] = target[d] /\ copy[Builder].current \in gone))
      BY <2>3, Zenon DEF Trim
    <3> HIDE DEF gone
    <3>3. \A i \in Fn, v \in Number : ver'[i][v] = ver[i][v] \/ ver'[i][v] = "none"
      BY <3>1, <3>2, <1>rows, SMT
    <3>4. dropped' => dropped \/ (pc[Builder] # "idle" => ver'[target[Builder]][Building] = "none")
      <4>1. dropped' => dropped \/ (target[Builder] = target[d] /\ Building \in gone)
        BY <3>2, Zenon DEF Building
      <4>2. ASSUME pc[Builder] # "idle", target[Builder] = target[d], Building \in gone
            PROVE  ver'[target[Builder]][Building] = "none"
        BY <3>1, <3>2, <4>2, <1>rows, BuilderAtWork, SMT
      <4>. QED
        BY <4>1, <4>2
    <3>. QED
      BY <2>1, <3>3, <3>4, <1>apart DEF Aside, Live
  <2>. QED
    BY <1>9, <2>2, <2>3 DEF TrimAndEnqueue
<1>10. ASSUME NEW d \in Deleter, NEW i \in Fn, Delete(d, i) PROVE Aside
  BY <1>10, <1>role, <1>quiet DEF Delete, Own, tables, history, Live
<1>11. ASSUME NEW d \in Deleter, NEW i \in Fn, DeleteRow(d, i) PROVE Aside
  <2>1. /\ row' = [row EXCEPT ![i] = None]
        /\ ver' = [ver EXCEPT ![i] = [v \in Number |-> "none"]]
        /\ UNCHANGED <<artifact, swept, faults, dropped>> /\ d \in Handler /\ Own(d)
    BY <1>11, <1>role DEF DeleteRow, Own, history
  <2>2. \A j \in Fn : /\ Live(j)' => Live(j)
                      /\ j # i => (Live(j) <=> Live(j)')
    BY <2>1, <1>rows DEF Live
  <2>3. \A j \in Fn, v \in Number : ver'[j][v] = IF j = i THEN "none" ELSE ver[j][v]
    BY <2>1, <1>rows
  <2>. QED
    BY <2>1, <2>2, <2>3, <1>apart DEF Aside
<1>12. ASSUME NEW d \in Deleter, DeleteRefused(d) PROVE Aside
  BY <1>12, <1>role, <1>quiet DEF DeleteRefused, Own, tables, history, Live
<1>. QED
  BY Zenon, <1>1, <1>2, <1>3, <1>4, <1>5, <1>6, <1>7, <1>8, <1>9, <1>10, <1>11, <1>12
     DEF Handling, Deploying, Deleting

LEMMA SweepKeeps ==
  ASSUME TypeOK, Owned, NEW d \in Deleter, SweepFiles(d)
  PROVE  Owned'
<1> USE DEF Owned
<1>1. /\ d \in Actor /\ d # Builder /\ Builder \in Actor
      /\ pc \in [Actor -> HandlerPc \cup BuilderPc] /\ target \in [Actor -> Fn \cup {None}]
      /\ copy \in [Actor -> Row \cup {None}] /\ artifact \in [Name -> [Number -> Fn \cup {None}]]
  BY DeploymentsAssumption DEF TypeOK, Actor, Handler
<1>2. /\ pc'[Builder] = pc[Builder] /\ target'[Builder] = target[Builder]
      /\ copy'[Builder] = copy[Builder] /\ Building' = Building
      /\ UNCHANGED <<row, ver, dropped, born, faults>>
  BY <1>1, SMT DEF SweepFiles, End, Goto, tables, Building
<1>3. \A i \in Fn : /\ Live(i)' <=> Live(i)
                    /\ NamesakeBuilt(i)' <=> NamesakeBuilt(i)
  BY <1>2 DEF Live, NamesakeBuilt
<1>4. target[d] \in Fn /\ NameOf[target[d]] \in Name
  BY <1>1, SMT DEF SweepFiles, TypeOK, Name
<1>5. \A n \in Name, v \in Number :
        artifact'[n][v] = IF n = NameOf[target[d]] THEN None ELSE artifact[n][v]
  BY <1>1, SMT DEF SweepFiles
<1>6. \A i \in Fn : i \in swept' <=> i \in swept \/ (Live(i) /\ NameOf[i] = NameOf[target[d]])
  BY DEF SweepFiles, Named
<1>7. RowsCascade' /\ NamesakeFirst' /\ DroppedUnbuilt'
  BY <1>2, <1>3 DEF RowsCascade, NamesakeFirst, DroppedUnbuilt
<1>8. FilesOwn'
  BY <1>2, <1>5, SMT DEF FilesOwn, Name
<1>9. pc[Builder] # "idle" => \/ Written' = Written
                              \/ Written' = None /\ NameOf[target[Builder]] = NameOf[target[d]]
  BY <1>2, <1>5, BuilderAtWork DEF Written
<1>10. WritesOwn'
  BY <1>2, <1>9 DEF WritesOwn
<1>11. SavesWhole'
  BY <1>2, <1>3, <1>6, <1>9, BuilderAtWork DEF SavesWhole
<1>12. ReadyHasArtifact'
  <2> SUFFICES ASSUME faults = 0, NEW i \in Fn, NEW v \in Number, ver[i][v] = "READY"
               PROVE  artifact'[NameOf[i]][v] = i \/ Rewriting(i, v) \/ i \in swept'
    BY <1>2 DEF ReadyHasArtifact, Rewriting
  <2>1. Live(i) /\ NameOf[i] \in Name
    BY SMT DEF RowsCascade, Name
  <2>2. artifact[NameOf[i]][v] = i \/ Rewriting(i, v) \/ i \in swept
    BY DEF ReadyHasArtifact
  <2>. QED
    BY <2>1, <2>2, <1>5, <1>6
<1>. QED
  BY <1>7, <1>8, <1>10, <1>11, <1>12

(* The builder takes a job, or ends one: it knows nothing any more.        *)
LEMMA TurnKeeps ==
  ASSUME TypeOK, Owned, UNCHANGED <<ver, artifact, swept, born>>, faults' = 0 => faults = 0,
         \A i \in Fn : Live(i)' <=> Live(i),
         \/ pc'[Builder] = "idle"
         \/ pc'[Builder] = "find" /\ target'[Builder] \in Fn /\ Live(target'[Builder]),
         pc[Builder] \notin {"write", "failVersion"} \/ faults' # 0
  PROVE  Owned'
<1> USE DEF Owned
<1>1. RowsCascade' /\ FilesOwn' /\ WritesOwn' /\ DroppedUnbuilt' /\ SavesWhole'
  BY DEF RowsCascade, FilesOwn, WritesOwn, DroppedUnbuilt, SavesWhole
<1>2. NamesakeFirst'
  BY DEF NamesakeFirst, NamesakeBuilt, TypeOK
<1>3. ReadyHasArtifact'
  BY DEF ReadyHasArtifact, Rewriting
<1>. QED
  BY <1>1, <1>2, <1>3

(* The builder goes on with its job.                                       *)
Goes(label) == /\ pc[Builder] # "idle" /\ pc'[Builder] = label /\ label # "idle"
               /\ target'[Builder] = target[Builder] /\ copy'[Builder] = copy[Builder]
               /\ UNCHANGED <<row, swept, born, faults>>

LEMMA ContinueGoes ==
  ASSUME TypeOK, NEW label, Continue(Builder, label), label # "idle", pc[Builder] # "idle",
         UNCHANGED <<row, swept, born, faults>>
  PROVE  Goes(label)
BY Builder \in Actor, SMT DEF TypeOK, Continue, Goto, Goes, Actor

LEMMA GoesSame ==
  ASSUME TypeOK, NEW label, Goes(label)
  PROVE  /\ Building' = Building
         /\ \A i \in Fn : (Live(i)' <=> Live(i)) /\ (NamesakeBuilt(i)' <=> NamesakeBuilt(i))
         /\ artifact' = artifact => Written' = Written
BY DEF Goes, Building, Live, NamesakeBuilt, Written

LEMMA GoKeeps ==
  ASSUME TypeOK, Owned, NEW label, Goes(label), UNCHANGED <<ver, artifact>>,
         \/ label \in {"build", "failVersion"} /\ pc[Builder] \in {"find", "build"}
         \/ label = "failVersion" /\ pc[Builder] = "write",
         pc[Builder] = "find" => ~dropped',
         pc[Builder] # "find" => dropped' = dropped
  PROVE  Owned'
<1> USE DEF Owned
<1>1. RowsCascade' /\ NamesakeFirst' /\ FilesOwn'
  BY GoesSame DEF RowsCascade, NamesakeFirst, FilesOwn
<1>2. WritesOwn' /\ SavesWhole'
  BY DEF WritesOwn, SavesWhole, Goes
<1>3. DroppedUnbuilt'
  BY GoesSame DEF DroppedUnbuilt, Goes
<1>4. ReadyHasArtifact'
  BY GoesSame DEF ReadyHasArtifact, Rewriting, Goes
<1>. QED
  BY <1>1, <1>2, <1>3, <1>4

(* Only a function of the same name is touched by a write, and if it lives *)
(* the builder is at work for it or none of its versions is READY.         *)
LEMMA WriteKeeps ==
  ASSUME TypeOK, Owned, NEW label, Goes(label), UNCHANGED <<ver, dropped>>,
         NEW x \in {target[Builder], None},
         artifact' = [artifact EXCEPT ![NameOf[target[Builder]]][Building] = x],
         \/ pc[Builder] = "build" /\ label = "write"
         \/ pc[Builder] = "write" /\ label = "saveVersion" /\ x = target[Builder]
  PROVE  Owned'
<1> USE DEF Owned
<1>at. /\ target[Builder] \in born /\ target[Builder] \in Fn
       /\ Building \in Number /\ NameOf[target[Builder]] \in Name
  BY BuilderAtWork
<1>1. \A n \in Name, v \in Number :
        artifact'[n][v] = IF n = NameOf[target[Builder]] /\ v = Building THEN x ELSE artifact[n][v]
  BY SMT DEF TypeOK
<1>2. Written' = x
  BY <1>at, <1>1, GoesSame DEF Written, Goes
<1>3. \A i \in Fn, v \in Number : ver[i][v] = "READY" =>
         /\ Live(i) /\ NameOf[i] \in Name
         /\ \/ artifact'[NameOf[i]][v] = artifact[NameOf[i]][v]
            \/ i = target[Builder] /\ v = Building /\ artifact'[NameOf[i]][v] = x
  <2> SUFFICES ASSUME NEW i \in Fn, NEW v \in Number, ver[i][v] = "READY"
               PROVE  /\ Live(i) /\ NameOf[i] \in Name
                      /\ \/ artifact'[NameOf[i]][v] = artifact[NameOf[i]][v]
                         \/ i = target[Builder] /\ v = Building /\ artifact'[NameOf[i]][v] = x
    OBVIOUS
  <2>1. Live(i) /\ NameOf[i] \in Name
    BY SMT DEF RowsCascade, Name
  <2>2. ~NamesakeBuilt(i)
    BY <2>1 DEF NamesakeFirst
  <2>. QED
    BY <2>1, <2>2, <1>1 DEF NamesakeBuilt, Goes
<1>4. RowsCascade' /\ NamesakeFirst' /\ DroppedUnbuilt'
  BY GoesSame DEF RowsCascade, NamesakeFirst, DroppedUnbuilt, Goes
<1>5. FilesOwn'
  BY <1>3 DEF FilesOwn
<1>6. WritesOwn' /\ SavesWhole'
  BY <1>2 DEF WritesOwn, SavesWhole, Goes
<1>7. ReadyHasArtifact'
  <2> SUFFICES ASSUME faults = 0, NEW i \in Fn, NEW v \in Number, ver[i][v] = "READY"
               PROVE  artifact'[NameOf[i]][v] = i \/ Rewriting(i, v)' \/ i \in swept
    BY DEF ReadyHasArtifact, Goes
  <2>1. CASE i = target[Builder] /\ v = Building
    BY <2>1, <1>at, <1>1, GoesSame DEF Rewriting, Goes
  <2>2. CASE ~(i = target[Builder] /\ v = Building)
    BY <2>2, <1>3 DEF ReadyHasArtifact, Rewriting
  <2>. QED
    BY <2>1, <2>2
<1>. QED
  BY <1>4, <1>5, <1>6, <1>7

(* The write is lost to a Delete of the name.                              *)
LEMMA LostWriteKeeps ==
  ASSUME TypeOK, Owned, Goes("saveVersion"), UNCHANGED <<ver, dropped, artifact>>,
         pc[Builder] = "write", ~Live(target[Builder]) \/ target[Builder] \in swept
  PROVE  Owned'
<1> USE DEF Owned
<1>at. target[Builder] \in Fn /\ Building \in Number
  BY BuilderAtWork
<1>1. RowsCascade' /\ NamesakeFirst' /\ FilesOwn' /\ DroppedUnbuilt'
  BY GoesSame DEF RowsCascade, NamesakeFirst, FilesOwn, DroppedUnbuilt, Goes
<1>2. WritesOwn' /\ SavesWhole'
  BY <1>at, GoesSame DEF WritesOwn, SavesWhole, Goes
<1>3. ReadyHasArtifact'
  BY <1>at DEF ReadyHasArtifact, Rewriting, RowsCascade, Goes
<1>. QED
  BY <1>1, <1>2, <1>3

LEMMA SaveKeeps ==
  ASSUME TypeOK, Owned, NEW label, Goes(label), UNCHANGED <<artifact, dropped>>,
         NEW st, WriteVersion(st),
         \/ pc[Builder] = "saveVersion" /\ label = "saveRow" /\ st = "READY"
         \/ pc[Builder] = "failVersion" /\ label = "failRow" /\ st = "FAILED"
  PROVE  Owned'
<1> USE DEF Owned
<1>at. /\ target[Builder] \in born /\ target[Builder] \in Fn
       /\ Building \in Number /\ NameOf[target[Builder]] \in Name
  BY BuilderAtWork
<1> DEFINE hits == ~dropped /\ ver[target[Builder]][Building] # "none"
<1>1. \A i \in Fn, v \in Number :
        ver'[i][v] = IF hits /\ i = target[Builder] /\ v = Building THEN st ELSE ver[i][v]
  <2>1. CASE hits
    <3>1. ver' = [ver EXCEPT ![target[Builder]][Building] = st]
      BY <2>1, Zenon DEF WriteVersion
    <3>. QED
      BY <2>1, <3>1, <1>at, SMT DEF TypeOK
  <2>2. CASE ~hits
    BY <2>2, Zenon DEF WriteVersion
  <2>. QED
    BY <2>1, <2>2
<1>2. RowsCascade'
  BY <1>1, GoesSame DEF RowsCascade
<1>3. NamesakeFirst'
  BY <1>1, GoesSame DEF NamesakeFirst, NamesakeBuilt
<1>4. FilesOwn'
  BY <1>1 DEF FilesOwn, WritesOwn, Written
<1>5. WritesOwn' /\ SavesWhole'
  BY DEF WritesOwn, SavesWhole, Goes
<1>6. DroppedUnbuilt'
  BY <1>1, <1>at, GoesSame DEF DroppedUnbuilt, Goes
<1>7. ReadyHasArtifact'
  <2> SUFFICES ASSUME faults = 0, NEW i \in Fn, NEW v \in Number, ver'[i][v] = "READY"
               PROVE  artifact[NameOf[i]][v] = i \/ i \in swept
    BY DEF ReadyHasArtifact, Goes
  <2>1. CASE i = target[Builder] /\ v = Building
    <3>1. CASE pc[Builder] = "saveVersion"
      <4>1. ver[i][v] # "none" => Live(i)
        BY DEF RowsCascade
      <4>2. Live(i)
        BY <1>1, <4>1
      <4>. QED
        BY <2>1, <3>1, <4>2 DEF SavesWhole, Written
    <3>2. CASE pc[Builder] = "failVersion"
      <4>1. ~hits /\ ver[i][v] = "READY"
        BY <2>1, <3>2, <1>1
      <4>. QED
        BY <2>1, <3>2, <4>1 DEF DroppedUnbuilt
    <3>. QED
      BY <3>1, <3>2
  <2>2. CASE ~(i = target[Builder] /\ v = Building)
    BY <2>2, <1>1 DEF ReadyHasArtifact, Rewriting
  <2>. QED
    BY <2>1, <2>2
<1>. QED
  BY <1>2, <1>3, <1>4, <1>5, <1>6, <1>7

LEMMA OwnedInit == Init => Owned
<1> SUFFICES ASSUME Init PROVE Owned
  OBVIOUS
<1>1. /\ \A i \in Fn, v \in Number : ver[i][v] = "none"
      /\ pc[Builder] = "idle"
  BY SMT DEF Init, Actor
<1>. QED
  BY <1>1 DEF Owned, RowsCascade, NamesakeFirst, NamesakeBuilt, FilesOwn, WritesOwn,
              DroppedUnbuilt, SavesWhole, ReadyHasArtifact

LEMMA OwnedStep == TypeOK /\ Owned /\ [Next]_vars => Owned'
<1> SUFFICES ASSUME TypeOK, Owned, [Next]_vars PROVE Owned'
  OBVIOUS
<1>role. Builder \in Actor /\ pc \in [Actor -> HandlerPc \cup BuilderPc]
  BY DEF TypeOK, Actor
<1>1. ASSUME Handling PROVE Owned'
  <2>1. CASE \E d \in Deleter : SweepFiles(d)
    BY <2>1, SweepKeeps
  <2>2. CASE \A d \in Deleter : ~SweepFiles(d)
    BY <1>1, <2>2, HandlingAside, AsideKeeps
  <2>. QED
    BY <2>1, <2>2
<1>2. ASSUME NEW n \in Name, Take(n) PROVE Owned'
  <2>1. CASE Named(n) = {} /\ UNCHANGED local
    BY <1>2, <2>1, <1>role, TurnKeeps DEF Take, local, tables, history, Live
  <2>2. ASSUME NEW i \in Named(n), Begin(Builder, i, row[i], "find") PROVE Owned'
    <3>1. pc'[Builder] = "find" /\ target'[Builder] = i /\ i \in Fn /\ Live(i)
      BY <2>2, <1>role, SMT DEF Begin, Goto, Named, TypeOK
    <3>. QED
      BY <1>2, <3>1, TurnKeeps DEF Take, tables, history, Live
  <2>. QED
    BY <1>2, <2>1, <2>2 DEF Take
<1>3. ASSUME FindVersion PROVE Owned'
  <2>1. CASE End(Builder)
    <3>1. pc'[Builder] = "idle"
      BY <2>1, <1>role DEF End, Goto
    <3>. QED
      BY <1>3, <3>1, TurnKeeps DEF FindVersion, tables, history, Live
  <2>2. CASE Continue(Builder, "build")
    BY <1>3, <2>2, ContinueGoes, GoKeeps DEF FindVersion, tables, history
  <2>. QED
    BY <1>3, <2>1, <2>2 DEF FindVersion
<1>4. ASSUME BuildFails PROVE Owned'
  BY <1>4, ContinueGoes, GoKeeps DEF BuildFails, tables, history
<1>5. ASSUME StartWrite PROVE Owned'
  <2>1. Goes("write")
    BY <1>5, ContinueGoes DEF StartWrite, tables, history
  <2>. QED
    BY <1>5, <2>1, WriteKeeps DEF StartWrite, SetArtifact, tables
<1>6. ASSUME FinishWrite PROVE Owned'
  <2>1. CASE SetArtifact(target[Builder]) /\ Continue(Builder, "saveVersion")
    <3>1. Goes("saveVersion")
      BY <1>6, <2>1, ContinueGoes DEF FinishWrite, tables, history
    <3>. QED
      BY <1>6, <2>1, <3>1, WriteKeeps DEF FinishWrite, SetArtifact, tables
  <2>2. CASE /\ ~Live(target[Builder]) \/ target[Builder] \in swept
             /\ UNCHANGED artifact /\ Continue(Builder, "saveVersion")
    BY <1>6, <2>2, ContinueGoes, LostWriteKeeps DEF FinishWrite, tables, history
  <2>3. CASE UNCHANGED artifact /\ Continue(Builder, "failVersion")
    BY <1>6, <2>3, ContinueGoes, GoKeeps DEF FinishWrite, tables, history
  <2>. QED
    BY <1>6, <2>1, <2>2, <2>3 DEF FinishWrite
<1>7. ASSUME SaveVersion PROVE Owned'
  BY <1>7, ContinueGoes, SaveKeeps DEF SaveVersion, history
<1>8. ASSUME FailVersion PROVE Owned'
  BY <1>8, ContinueGoes, SaveKeeps DEF FailVersion, history
<1>9. ASSUME SaveRow PROVE Owned'
  <2>1. pc'[Builder] = "idle" /\ target[Builder] \in Fn
    BY <1>9, <1>role, BuilderAtWork DEF SaveRow, End, Goto
  <2>2. [copy[Builder] EXCEPT !.status = IF pc[Builder] = "saveRow" THEN "READY" ELSE "FAILED"] \in Row
    <3>1. pc[Builder] \in {"saveRow", "failRow"} /\ copy[Builder] \in Row
      BY <1>9, <1>role DEF SaveRow, TypeOK
    <3>. QED
      BY <3>1, SMT DEF Row, Status
  <2>3. \A i \in Fn : Live(i)' <=> Live(i)
    BY <1>9, <2>1, <2>2, WriteRowTypes DEF SaveRow, TypeOK
  <2>. QED
    BY <1>9, <2>1, <2>3, TurnKeeps DEF SaveRow, history
<1>10. ASSUME NEW a \in Actor, Fault(a) PROVE Owned'
  <2>1. faults' # 0 /\ UNCHANGED <<row, ver, artifact, swept, born, dropped>>
    BY <1>10, SMT DEF Fault, TypeOK, tables
  <2>2. CASE a = Builder /\ pc[a] # "failVersion"
    <3>1. pc'[Builder] = "idle"
      BY <1>10, <2>2, <1>role DEF Fault, End, Goto
    <3>. QED
      BY <2>1, <3>1, TurnKeeps DEF Live
  <2>3. CASE a = Builder /\ pc[a] = "failVersion"
    <3> USE DEF Owned
    <3>1. /\ pc'[Builder] = "failRow" /\ UNCHANGED <<target, copy>> /\ Building' = Building
      BY <1>10, <2>3, <1>role DEF Fault, Continue, Goto, Building
    <3>2. RowsCascade' /\ NamesakeFirst' /\ FilesOwn' /\ WritesOwn' /\ DroppedUnbuilt'
      BY <2>1, <2>3, <3>1 DEF RowsCascade, NamesakeFirst, FilesOwn, WritesOwn, DroppedUnbuilt,
                              NamesakeBuilt, Live
    <3>. QED
      BY <2>1, <3>2 DEF SavesWhole, ReadyHasArtifact
  <2>4. CASE a # Builder
    <3>1. /\ pc'[Builder] = pc[Builder] /\ target'[Builder] = target[Builder]
          /\ copy'[Builder] = copy[Builder]
      BY <1>10, <2>4, <1>role, SMT DEF Fault, End, Continue, Goto, TypeOK
    <3>. QED
      BY <2>1, <3>1, AsideKeeps DEF Aside, Live
  <2>. QED
    BY <2>2, <2>3, <2>4
<1>11. ASSUME Restart PROVE Owned'
  <2>1. pc'[Builder] = "idle" /\ faults' # 0
    BY <1>11, <1>role, SMT DEF Restart, TypeOK
  <2>. QED
    BY <1>11, <2>1, TurnKeeps DEF Restart, tables, Live
<1>12. ASSUME UNCHANGED vars PROVE Owned'
  BY <1>12, AsideKeeps DEF Aside, vars, Live
<1>. QED
  BY Zenon, <1>1, <1>2, <1>3, <1>4, <1>5, <1>6, <1>7, <1>8, <1>9, <1>10, <1>11, <1>12 DEF Next, Build

LEMMA OwnedAlways == Spec => []Owned
BY DeploymentsTypeCorrect, OwnedInit, OwnedStep, PTL DEF Spec

(* Behind a READY version of any function there is a complete artifact of  *)
(* its own, unless it is just being written again, or the Delete of a      *)
(* namesake removed it late, as long as no statement of the builder fails: *)
(* buildOne, copyFile, Prepare, Delete.                                    *)
THEOREM ReadyVersionsHaveArtifacts == Spec => []ReadyHasArtifact
<1>1. Owned => ReadyHasArtifact
  BY DEF Owned
<1>. QED
  BY <1>1, OwnedAlways, PTL
-----------------------------------------------------------------------------
(* While a function lives and the builder is not at work for a namesake,   *)
(* neither changes, and no other code gets to its name.                    *)
Undisturbed(i, v) == ~NamesakeBuilt(i) /\ artifact[NameOf[i]][v] \in {i, None}

LEMMA UndisturbedStays ==
  ASSUME TypeOK, Owned, [Next]_vars, NEW i \in born, NEW v \in Number,
         Live(i)', Live(i) => Undisturbed(i, v)
  PROVE  Live(i) /\ Undisturbed(i, v)'
<1>role. /\ Builder \in Actor /\ pc \in [Actor -> HandlerPc \cup BuilderPc]
         /\ target \in [Actor -> Fn \cup {None}] /\ copy \in [Actor -> Row \cup {None}]
         /\ artifact \in [Name -> [Number -> Fn \cup {None}]] /\ i \in Fn /\ NameOf[i] \in Name
  BY SMT DEF TypeOK, Actor, Name
<1>quiet. ASSUME UNCHANGED artifact, Live(i),
                 pc'[Builder] = "idle" \/ (target'[Builder] = target[Builder] /\ pc[Builder] # "idle")
          PROVE  Live(i) /\ Undisturbed(i, v)'
  BY <1>quiet DEF Undisturbed, NamesakeBuilt
<1>same. UNCHANGED row => Live(i)
  BY DEF Live
<1>1. ASSUME Handling PROVE Live(i) /\ Undisturbed(i, v)'
  <2>1. ASSUME NEW d \in Deleter, SweepFiles(d) PROVE Live(i) /\ Undisturbed(i, v)'
    <3>1. d \in Actor /\ d # Builder
      BY DeploymentsAssumption DEF Actor, Handler
    <3>2. /\ UNCHANGED row /\ pc'[Builder] = pc[Builder] /\ target'[Builder] = target[Builder]
      BY <2>1, <3>1, <1>role, SMT DEF SweepFiles, End, Goto, tables
    <3>3. artifact'[NameOf[i]][v] \in {artifact[NameOf[i]][v], None}
      BY <2>1, <1>role, SMT DEF SweepFiles
    <3>. QED
      BY <3>2, <3>3, <1>same DEF Undisturbed, NamesakeBuilt
  <2>2. CASE \A d \in Deleter : ~SweepFiles(d)
    <3>1. Aside
      BY <1>1, <2>2, HandlingAside
    <3>2. Live(i)
      BY <3>1, <1>role DEF Aside
    <3>. QED
      BY <3>1, <3>2 DEF Aside, Undisturbed, NamesakeBuilt
  <2>. QED
    BY <2>1, <2>2
<1>2. ASSUME NEW n \in Name, Take(n) PROVE Live(i) /\ Undisturbed(i, v)'
  <2>1. CASE Named(n) = {} /\ UNCHANGED local
    BY <1>2, <2>1, <1>same DEF Take, local, tables, Undisturbed, NamesakeBuilt
  <2>2. ASSUME NEW j \in Named(n), Begin(Builder, j, row[j], "find")
        PROVE  Live(i) /\ Undisturbed(i, v)'
    <3>1. target'[Builder] = j /\ j \in Fn /\ Live(j) /\ Live(i) /\ UNCHANGED artifact
      BY <1>2, <2>2, <1>role, <1>same DEF Begin, Named, Take, tables
    <3>2. NameOf[j] = NameOf[i] => j = i
      BY <3>1, <1>role DEF TypeOK
    <3>. QED
      BY <3>1, <3>2 DEF Undisturbed, NamesakeBuilt
  <2>. QED
    BY <1>2, <2>1, <2>2 DEF Take
<1>3. ASSUME StartWrite \/ FinishWrite PROVE Live(i) /\ Undisturbed(i, v)'
  <2>1. /\ pc[Builder] # "idle" /\ UNCHANGED <<row, target>>
        /\ \/ UNCHANGED artifact \/ SetArtifact(None) \/ SetArtifact(target[Builder])
    BY <1>3 DEF StartWrite, FinishWrite, Continue, tables
  <2>2. \/ artifact'[NameOf[i]][v] \in {artifact[NameOf[i]][v], None}
        \/ /\ artifact'[NameOf[i]][v] = target[Builder]
           /\ NameOf[i] = NameOf[target[Builder]]
    BY <2>1, <1>role, SMT DEF SetArtifact
  <2>. QED
    BY <2>1, <2>2, <1>same DEF Undisturbed, NamesakeBuilt
<1>4. ASSUME FindVersion \/ BuildFails \/ SaveVersion \/ FailVersion
      PROVE  Live(i) /\ Undisturbed(i, v)'
  <2>1. pc[Builder] # "idle" /\ UNCHANGED <<row, artifact>>
    BY <1>4 DEF FindVersion, BuildFails, SaveVersion, FailVersion, tables
  <2>2. End(Builder) \/ UNCHANGED target
    BY <1>4 DEF FindVersion, BuildFails, SaveVersion, FailVersion, Continue
  <2>3. pc'[Builder] = "idle" \/ target'[Builder] = target[Builder]
    BY <2>2, <1>role DEF End, Goto
  <2>. QED
    BY <2>1, <2>3, <1>same, <1>quiet
<1>5. ASSUME SaveRow PROVE Live(i) /\ Undisturbed(i, v)'
  <2>1. /\ pc'[Builder] = "idle" /\ UNCHANGED artifact /\ target[Builder] \in Fn
        /\ pc[Builder] \in {"saveRow", "failRow"} /\ copy[Builder] \in Row
    BY <1>5, <1>role, BuilderAtWork DEF SaveRow, End, Goto, TypeOK
  <2>2. [copy[Builder] EXCEPT !.status = IF pc[Builder] = "saveRow" THEN "READY" ELSE "FAILED"] \in Row
    BY <2>1, SMT DEF Row, Status
  <2>3. Live(i)' <=> Live(i)
    BY <1>5, <2>1, <2>2, <1>role, WriteRowTypes DEF SaveRow, TypeOK
  <2>. QED
    BY <2>1, <2>3, <1>quiet
<1>6. ASSUME NEW a \in Actor, Fault(a) PROVE Live(i) /\ Undisturbed(i, v)'
  <2>1. UNCHANGED <<row, artifact>> /\ pc[a] # "idle"
    BY <1>6 DEF Fault, tables
  <2>2. \/ pc'[Builder] = "idle"
        \/ pc'[Builder] = pc[Builder] /\ target'[Builder] = target[Builder]
        \/ pc[Builder] # "idle" /\ target'[Builder] = target[Builder]
    BY <1>6, <2>1, <1>role, SMT DEF Fault, End, Continue, Goto
  <2>3. CASE pc'[Builder] = "idle"
    BY <2>1, <2>3, <1>same, <1>quiet
  <2>4. CASE pc'[Builder] = pc[Builder] \/ pc[Builder] # "idle"
    BY <2>1, <2>2, <2>4, <1>same DEF Undisturbed, NamesakeBuilt
  <2>. QED
    BY <2>2, <2>3, <2>4
<1>7. ASSUME Restart PROVE Live(i) /\ Undisturbed(i, v)'
  BY <1>7, <1>same, <1>quiet, <1>role DEF Restart, tables
<1>8. ASSUME UNCHANGED vars PROVE Live(i) /\ Undisturbed(i, v)'
  BY <1>8, <1>same DEF vars, Undisturbed, NamesakeBuilt
<1>. QED
  BY Zenon, <1>1, <1>2, <1>3, <1>4, <1>5, <1>6, <1>7, <1>8 DEF Next, Build
-----------------------------------------------------------------------------
(* Every step of Serving is a step of Deployments, or none of it.          *)
LEMMA ServingStepRefines == [SNext]_svars => [Next]_vars
<1>1. ASSUME NEW c \in Caller, Serve(c) PROVE UNCHANGED vars
  BY <1>1 DEF Serve
<1>2. RunBuilder => UNCHANGED vars
  BY DEF RunBuilder
<1>3. (CompileFails => BuildFails) /\ (Publish => StartWrite) /\ (Crash => Restart)
  BY DEF CompileFails, Publish, Crash
<1>4. Elsewhere => Next
  BY Zenon DEF Elsewhere, Next, Build
<1>5. BuildFails \/ StartWrite \/ Restart => Next
  BY Zenon DEF Next, Build
<1>6. UNCHANGED svars => UNCHANGED vars
  BY DEF svars
<1>. QED
  BY Zenon, <1>1, <1>2, <1>3, <1>4, <1>5, <1>6 DEF SNext

(* Invocations and build containers change nothing of what the service and *)
(* the builder do: Serving implements Deployments, and has its properties. *)
THEOREM ServingImplementsDeployments == SSpec => Spec
<1>1. SInit => Init
  BY DEF SInit
<1>. QED
  BY <1>1, ServingStepRefines, PTL DEF SSpec, Spec

(* Types of the invocations, and of the container of a build.              *)
CallTypes ==
  /\ at \in [Caller -> CallPc] /\ seen \in [Caller -> Number]
  /\ asked \in [Caller -> Fn \cup {None}] /\ runs \in [Caller -> Fn \cup {None}]
  /\ \A c \in Caller : /\ at[c] # "idle" => asked[c] \in born
                       /\ at[c] = "run" <=> runs[c] # None

BoxTypes ==
  /\ runtime \in [Fn -> {"go", "nodejs"}]
  /\ box \in {"none", "created", "running", "good", "bad"}
  /\ box # "none" => Compiling

LEMMA ServingTypeSplit == ServingTypeOK <=> CallTypes /\ BoxTypes
BY Zenon DEF ServingTypeOK, CallTypes, BoxTypes

LEMMA BornGrows == [Next]_vars => born \subseteq born'
<1>1. ASSUME NEW i \in Fn, NEW s \in Setting, Create(i, s) PROVE born \subseteq born'
  BY <1>1 DEF Create
<1>2. ASSUME \/ \E p \in Patcher : PatchWrite(p) \/ \E i \in Fn, s \in Setting : Patch(p, i, s)
             \/ \E d \in Deployer : Deploying(d) \/ \E i \in Fn : Deploy(d, i)
             \/ \E d \in Deleter : Deleting(d) \/ \E i \in Fn : Delete(d, i)
             \/ Build \/ (\E a \in Actor : Fault(a)) \/ Restart \/ UNCHANGED vars
      PROVE  born' = born
  BY <1>2, Zenon DEF PatchWrite, Patch, Deploying, Deploy, NextVersion, InsertVersion,
     PointRow, Refused, TrimAndEnqueue, Deleting, Delete, DeleteRow, DeleteRefused, SweepFiles,
     Build, Take, FindVersion, BuildFails, StartWrite, FinishWrite, SaveVersion, FailVersion,
     SaveRow, Fault, Restart, vars, tables, history
<1>. QED
  BY <1>1, <1>2, Zenon DEF Next, Handling

(* A step of an invocation.                                                *)
LEMMA ServeTypes ==
  ASSUME TypeOK, CallTypes, NEW c \in Caller, Serve(c)
  PROVE  CallTypes'
<1> USE DEF CallTypes, CallPc
<1>n. None \notin Fn /\ 0 \in Number /\ born' = born /\ born \subseteq Fn
  BY DeploymentsAssumption, SMT DEF Serve, vars, TypeOK, Number
<1>1. ASSUME Leave(c) PROVE CallTypes'
  BY <1>1, <1>n, SMT DEF Leave, Move
<1>2. ASSUME NEW i \in Fn, Invoke(c, i) PROVE CallTypes'
  <2>1. i \in born /\ row[i].current \in Number
    BY <1>2, SMT DEF Invoke, TypeOK, Row, Live
  <2>. QED
    BY <1>2, <1>n, <2>1, SMT DEF Invoke, Move
<1>3. ASSUME ReadVersion(c) PROVE CallTypes'
  BY <1>1, <1>3, <1>n, SMT DEF ReadVersion, Move
<1>4. ASSUME StartProcess(c) PROVE CallTypes'
  <2>1. at[c] = "wait" /\ asked[c] \in born
    BY <1>4 DEF StartProcess
  <2>2. asked[c] \in Fn /\ NameOf[asked[c]] \in Name /\ seen[c] \in Number
    BY <2>1 DEF TypeOK, Name, CallTypes
  <2>3. Found(c) \subseteq Fn \cup {None}
    BY <2>2, SMT DEF Found, TypeOK
  <2>. QED
    BY <1>1, <1>4, <1>n, <2>1, <2>3, SMT DEF StartProcess, Move
<1>5. ASSUME Deadline(c) PROVE CallTypes'
  BY <1>5, <1>n, SMT DEF Deadline, Move
<1>6. GiveUp(c) \/ Exit(c) \/ AnswerTimeout(c) \/ ClientTimeout(c) \/ ClientGone(c) => Leave(c)
  BY DEF GiveUp, Exit, AnswerTimeout, ClientTimeout, ClientGone
<1>. QED
  BY <1>1, <1>2, <1>3, <1>4, <1>5, <1>6 DEF Serve

(* The handlers leave the builder alone.                                   *)
LEMMA HandlingSpares ==
  ASSUME TypeOK, Owned, Handling
  PROVE  pc'[Builder] = pc[Builder] /\ target'[Builder] = target[Builder]
<1>1. ASSUME NEW d \in Deleter, SweepFiles(d)
      PROVE  pc'[Builder] = pc[Builder] /\ target'[Builder] = target[Builder]
  <2>1. d \in Actor /\ d # Builder /\ Builder \in Actor
    BY DeploymentsAssumption DEF Actor, Handler
  <2>. QED
    BY <1>1, <2>1, SMT DEF SweepFiles, End, Goto, TypeOK
<1>2. CASE \A d \in Deleter : ~SweepFiles(d)
  BY <1>2, HandlingAside DEF Aside
<1>. QED
  BY <1>1, <1>2

LEMMA BoxStep ==
  ASSUME TypeOK, Owned, BoxTypes, [SNext]_svars
  PROVE  BoxTypes'
<1> USE DEF BoxTypes
<1>1. ASSUME UNCHANGED <<runtime, box>>,
             box = "none" \/ (pc'[Builder] = pc[Builder] /\ target'[Builder] = target[Builder])
      PROVE  BoxTypes'
  BY <1>1 DEF Compiling
<1>2. ASSUME Elsewhere PROVE BoxTypes'
  <2>1. CASE Handling
    BY <1>1, <1>2, <2>1, HandlingSpares DEF Elsewhere
  <2>2. ASSUME \/ (\E n \in Name : Take(n)) \/ FindVersion
               \/ FinishWrite \/ SaveVersion \/ FailVersion \/ SaveRow
        PROVE  box = "none"
    BY <2>2 DEF Take, FindVersion, FinishWrite, SaveVersion, FailVersion, SaveRow, Compiling
  <2>3. ASSUME NEW a \in Actor, Fault(a), a = Builder => box = "none"
        PROVE  box = "none" \/ (pc'[Builder] = pc[Builder] /\ target'[Builder] = target[Builder])
    BY <2>3, SMT DEF Fault, End, Continue, Goto, TypeOK, Actor
  <2>. QED
    BY <1>1, <1>2, <2>1, <2>2, <2>3 DEF Elsewhere
<1>3. ASSUME RunBuilder PROVE BoxTypes'
  <2>1. Compiling /\ UNCHANGED <<pc, target, runtime>>
    BY <1>3 DEF RunBuilder, vars
  <2>. QED
    BY <1>3, <2>1 DEF RunBuilder, CreateBox, StartBox, ExitBox, Compiling
<1>4. ASSUME CompileFails \/ Publish \/ Crash PROVE BoxTypes'
  BY <1>4 DEF CompileFails, Publish, Crash
<1>5. ASSUME UNCHANGED svars \/ \E c \in Caller : Serve(c) PROVE BoxTypes'
  BY <1>1, <1>5 DEF svars, vars, Serve
<1>. QED
  BY Zenon, <1>2, <1>3, <1>4, <1>5 DEF SNext

LEMMA CallStep ==
  ASSUME TypeOK, CallTypes, [SNext]_svars
  PROVE  CallTypes'
<1>1. CASE UNCHANGED calls
  BY <1>1, ServingStepRefines, BornGrows DEF CallTypes, calls
<1>2. ASSUME NEW c \in Caller, Serve(c) PROVE CallTypes'
  BY <1>2, ServeTypes
<1>3. ASSUME Crash PROVE CallTypes'
  BY <1>3, DeploymentsAssumption, SMT DEF Crash, CallTypes, CallPc, Number
<1>4. RunBuilder \/ CompileFails \/ Publish \/ Elsewhere \/ UNCHANGED svars => UNCHANGED calls
  BY DEF RunBuilder, CompileFails, Publish, Elsewhere, svars
<1>. QED
  BY Zenon, <1>1, <1>2, <1>3, <1>4 DEF SNext

(* The label of an invocation is its place, its process is what it runs,   *)
(* and a build container is there only for a build that compiles.          *)
THEOREM ServingTypeCorrect == SSpec => []ServingTypeOK
<1>1. SInit => CallTypes /\ BoxTypes
  BY DeploymentsAssumption, SMT DEF SInit, CallTypes, BoxTypes, CallPc, Number
<1>2. TypeOK /\ Owned /\ CallTypes /\ BoxTypes /\ [SNext]_svars => CallTypes' /\ BoxTypes'
  BY BoxStep, CallStep
<1>3. SSpec => [](TypeOK /\ Owned)
  BY ServingImplementsDeployments, DeploymentsTypeCorrect, OwnedAlways, PTL
<1>4. CallTypes /\ BoxTypes => ServingTypeOK
  BY ServingTypeSplit
<1>. QED
  BY <1>1, <1>2, <1>3, <1>4, PTL DEF SSpec
-----------------------------------------------------------------------------
(* Until its process starts, an invocation that has seen a READY version   *)
(* finds a build of its own function there, or none that starts.           *)
WaitsForOwn == \A c \in Caller :
                 at[c] = "wait" /\ Live(asked[c]) => Undisturbed(asked[c], seen[c])

LEMMA WaitsStep ==
  ASSUME TypeOK, Owned, CallTypes, WaitsForOwn, [SNext]_svars
  PROVE  WaitsForOwn'
<1>next. [Next]_vars
  BY ServingStepRefines
<1>1. ASSUME NEW c \in Caller, at[c] = "wait", asked'[c] = asked[c], seen'[c] = seen[c],
             Live(asked[c])'
      PROVE  Undisturbed(asked[c], seen[c])'
  <2>1. PICK i \in born, v \in Number : i = asked[c] /\ v = seen[c]
    BY <1>1 DEF CallTypes
  <2>2. Live(i) => Undisturbed(i, v)
    BY <1>1, <2>1 DEF WaitsForOwn
  <2>3. Live(i)' /\ i = asked'[c] /\ v = seen'[c]
    BY <1>1, <2>1 DEF Live
  <2>4. Undisturbed(i, v)'
    BY <1>next, <2>2, <2>3, UndisturbedStays
  <2>. QED
    BY <2>3, <2>4 DEF Undisturbed, NamesakeBuilt
<1>2. ASSUME NEW c \in Caller, ReadVersion(c), Serve(c), at'[c] = "wait", Live(asked[c])'
      PROVE  Undisturbed(asked[c], seen[c])'
  <2>1. PICK i \in born, v \in Number : i = asked[c] /\ v = seen[c] /\ i \in Fn
    BY <1>2 DEF ReadVersion, CallTypes, TypeOK
  <2>2. ver[i][v] = "READY" /\ asked'[c] = i /\ seen'[c] = v /\ UNCHANGED vars
    BY <1>2, <2>1, SMT DEF ReadVersion, Leave, Move, CallTypes, Serve
  <2>3. Live(i)
    BY <1>2, <2>2 DEF vars, Live
  <2>4. Undisturbed(i, v)
    BY <2>1, <2>2, <2>3 DEF Undisturbed, Owned, NamesakeFirst, FilesOwn
  <2>. QED
    BY <2>2, <2>4 DEF Undisturbed, NamesakeBuilt, vars
<1>3. ASSUME NEW c \in Caller, at'[c] = "wait"
      PROVE  \/ at[c] = "wait" /\ asked'[c] = asked[c] /\ seen'[c] = seen[c]
             \/ ReadVersion(c) /\ Serve(c)
  <2>1. ASSUME NEW d \in Caller, Serve(d)
        PROVE  \/ at[c] = "wait" /\ asked'[c] = asked[c] /\ seen'[c] = seen[c]
               \/ ReadVersion(c) /\ Serve(c)
    <3>1. CASE c # d
      BY <1>3, <2>1, <3>1, SMT DEF Serve, Invoke, ReadVersion, GiveUp, StartProcess, Exit, Deadline,
         AnswerTimeout, ClientTimeout, ClientGone, Leave, Move, CallTypes
    <3>2. CASE c = d
      <4>1. ASSUME \/ \E i \in Fn : Invoke(c, i)
                   \/ GiveUp(c) \/ StartProcess(c) \/ Exit(c)
                   \/ Deadline(c) \/ AnswerTimeout(c) \/ ClientTimeout(c) \/ ClientGone(c)
            PROVE  FALSE
        BY <1>3, <4>1, SMT DEF Invoke, GiveUp, StartProcess, Exit, Deadline,
           AnswerTimeout, ClientTimeout, ClientGone, Leave, Move, CallTypes
      <4>. QED
        BY <2>1, <3>2, <4>1 DEF Serve
    <3>. QED
      BY <3>1, <3>2
  <2>2. CASE UNCHANGED calls
    BY <1>3, <2>2 DEF calls
  <2>3. CASE Crash
    BY <1>3, <2>3 DEF Crash
  <2>4. RunBuilder \/ CompileFails \/ Publish \/ Elsewhere \/ UNCHANGED svars => UNCHANGED calls
    BY DEF RunBuilder, CompileFails, Publish, Elsewhere, svars
  <2>. QED
    BY Zenon, <2>1, <2>2, <2>3, <2>4 DEF SNext
<1>. QED
  <2> SUFFICES ASSUME NEW c \in Caller, at'[c] = "wait", Live(asked[c])'
               PROVE  Undisturbed(asked[c], seen[c])'
    BY DEF WaitsForOwn
  <2>. QED
    BY <1>1, <1>2, <1>3

LEMMA StaysDead ==
  ASSUME TypeOK, Owned, [Next]_vars, NEW i \in born, ~Live(i)
  PROVE  ~Live(i)'
<1> DEFINE v == 0
<1>. QED
  BY UndisturbedStays, DeploymentsAssumption, SMT DEF Number

LEMMA NeverForeignStep ==
  ASSUME TypeOK, Owned, CallTypes, CallTypes', WaitsForOwn, NeverForeignCode, [SNext]_svars
  PROVE  NeverForeignCode'
<1>next. [Next]_vars
  BY ServingStepRefines
<1>1. ASSUME NEW c \in Caller, runs'[c] # None, runs'[c] = runs[c], asked'[c] = asked[c]
      PROVE  runs'[c] = asked'[c] \/ ~Live(asked[c])'
  <2>1. asked[c] \in born /\ (runs[c] = asked[c] \/ ~Live(asked[c]))
    BY <1>1 DEF CallTypes, NeverForeignCode
  <2>2. PICK i \in born : i = asked[c]
    BY <2>1
  <2>3. ~Live(i) => ~Live(i)'
    BY <1>next, StaysDead
  <2>. QED
    BY <1>1, <2>1, <2>2, <2>3 DEF Live
<1>2. ASSUME NEW c \in Caller, StartProcess(c), Serve(c), runs'[c] # None
      PROVE  runs'[c] = asked'[c] \/ ~Live(asked[c])'
  <2>1. at[c] = "wait" /\ runs'[c] \in Found(c) /\ asked' = asked /\ UNCHANGED vars
    BY <1>2, SMT DEF StartProcess, Leave, Move, CallTypes, Serve
  <2>2. Live(asked[c]) => Found(c) \subseteq {asked[c], None}
    BY <2>1 DEF WaitsForOwn, Undisturbed, Found
  <2>. QED
    BY <1>2, <2>1, <2>2 DEF vars, Live
<1>3. ASSUME NEW c \in Caller, runs'[c] # None
      PROVE  \/ runs'[c] = runs[c] /\ asked'[c] = asked[c]
             \/ StartProcess(c) /\ Serve(c)
  <2>1. ASSUME NEW d \in Caller, Serve(d)
        PROVE  \/ runs'[c] = runs[c] /\ asked'[c] = asked[c]
               \/ StartProcess(c) /\ Serve(c)
    <3>1. CASE c # d
      BY <1>3, <2>1, <3>1, SMT DEF Serve, Invoke, ReadVersion, GiveUp, StartProcess, Exit, Deadline,
         AnswerTimeout, ClientTimeout, ClientGone, Leave, Move, CallTypes
    <3>2. CASE c = d
      <4>1. ASSUME \/ GiveUp(c) \/ Exit(c) \/ Deadline(c)
                   \/ AnswerTimeout(c) \/ ClientTimeout(c) \/ ClientGone(c)
            PROVE  FALSE
        BY <1>3, <4>1, SMT DEF GiveUp, Exit, Deadline, AnswerTimeout, ClientTimeout, ClientGone,
           Leave, Move, CallTypes
      <4>2. ASSUME NEW i \in Fn, Invoke(c, i) PROVE FALSE
        BY <1>3, <4>2 DEF Invoke, CallTypes
      <4>3. ASSUME ReadVersion(c) PROVE runs'[c] = runs[c] /\ asked'[c] = asked[c]
        BY <1>3, <4>3, SMT DEF ReadVersion, Leave, Move, CallTypes
      <4>. QED
        BY <2>1, <3>2, <4>1, <4>2, <4>3 DEF Serve
    <3>. QED
      BY <3>1, <3>2
  <2>2. CASE UNCHANGED calls
    BY <1>3, <2>2 DEF calls
  <2>3. CASE Crash
    BY <1>3, <2>3 DEF Crash
  <2>4. RunBuilder \/ CompileFails \/ Publish \/ Elsewhere \/ UNCHANGED svars => UNCHANGED calls
    BY DEF RunBuilder, CompileFails, Publish, Elsewhere, svars
  <2>. QED
    BY Zenon, <2>1, <2>2, <2>3, <2>4 DEF SNext
<1>. QED
  BY <1>1, <1>2, <1>3 DEF NeverForeignCode

(* An invocation executes the code of the function whose row it read, or   *)
(* that function has been deleted since: ReadyFunction, the path of the    *)
(* artifact, buildOne and Delete together, whatever fails or overlaps.     *)
THEOREM ServingRunsOwnCode == SSpec => []NeverForeignCode
<1> DEFINE Inv == CallTypes /\ WaitsForOwn /\ NeverForeignCode
<1>1. SInit => Inv
  BY DeploymentsAssumption, SMT DEF SInit, CallTypes, CallPc, Number, WaitsForOwn, NeverForeignCode
<1>2. TypeOK /\ Owned /\ Inv /\ [SNext]_svars => Inv'
  BY CallStep, WaitsStep, NeverForeignStep
<1>3. SSpec => [](TypeOK /\ Owned)
  BY ServingImplementsDeployments, DeploymentsTypeCorrect, OwnedAlways, PTL
<1>. QED
  BY <1>1, <1>2, <1>3, PTL DEF SSpec
=============================================================================
