------------------------- MODULE DeploymentsProofs -------------------------
(***************************************************************************)
(* Theorems about Deployments, for any functions, handlers and bounds: the *)
(* numbers of versions and their trim, what READY stands for, the builds   *)
(* that are owed, and that the tables implement VersionTable.              *)
(***************************************************************************)
EXTENDS Deployments, FiniteSetTheorems, TLAPS

(* The local state of a goroutine keeps its types when it begins with a    *)
(* row, goes on, or ends.                                                  *)
LocalTypes ==
  /\ pc \in [Actor -> HandlerPc \cup BuilderPc]
  /\ \A h \in Handler : pc[h] \in HandlerPc
  /\ pc[Builder] \in BuilderPc
  /\ target \in [Actor -> Fn \cup {None}]
  /\ copy \in [Actor -> Row \cup {None}]
  /\ \A a \in Actor : pc[a] # "idle" => target[a] \in born /\ copy[a] \in Row
  /\ num \in [Actor -> Number]

Fits(a, label) == label \in IF a = Builder THEN BuilderPc ELSE HandlerPc

LEMMA BeginTypes ==
  ASSUME LocalTypes, born \subseteq Fn, NEW a \in Actor, NEW i \in born, NEW r \in Row,
         NEW label, Fits(a, label), Begin(a, i, r, label), born' = born
  PROVE  LocalTypes'
BY DeploymentsAssumption, SMT DEF LocalTypes, Begin, Goto, Fits, Actor

LEMMA ContinueTypes ==
  ASSUME LocalTypes, NEW a \in Actor, pc[a] # "idle",
         NEW label, Fits(a, label), Continue(a, label), born' = born
  PROVE  LocalTypes'
BY DeploymentsAssumption, SMT DEF LocalTypes, Continue, Goto, Fits, Actor

LEMMA EndTypes ==
  ASSUME LocalTypes, NEW a \in Actor, End(a), born' = born
  PROVE  LocalTypes'
BY DeploymentsAssumption, SMT DEF LocalTypes, End, Goto, Actor, Number, HandlerPc, BuilderPc

LEMMA SameLocalTypes ==
  ASSUME LocalTypes, UNCHANGED local, born \subseteq born'
  PROVE  LocalTypes'
BY SMT DEF LocalTypes, local

(* The tables, the directories and the queue keep their types.             *)
TableTypes ==
  /\ row \in [Fn -> Row \cup {None}]
  /\ ver \in [Fn -> [Number -> VersionStatus]]
  /\ artifact \in [Name -> [Number -> Fn \cup {None}]]
  /\ jobs \in [Name -> Nat]
  /\ dropped \in BOOLEAN
  /\ born \subseteq Fn /\ swept \subseteq born /\ newest \in [Fn -> Number]
  /\ faults \in 0 .. MaxFaults
  /\ \A i \in Fn : Live(i) => i \in born
  /\ \A i, j \in Fn : Live(i) /\ Live(j) /\ NameOf[i] = NameOf[j] => i = j

LEMMA TypeSplit == TypeOK <=> LocalTypes /\ TableTypes
BY Zenon DEF TypeOK, LocalTypes, TableTypes

LEMMA WriteRowTypes ==
  ASSUME row \in [Fn -> Row \cup {None}], NEW i \in Fn, NEW r \in Row, WriteRow(i, r)
  PROVE  /\ row' \in [Fn -> Row \cup {None}]
         /\ \A j \in Fn : Live(j)' <=> Live(j)
BY NoneIsNoRow, SMT DEF WriteRow, Live

LEMMA TypeInit == Init => TypeOK
<1> SUFFICES ASSUME Init PROVE LocalTypes /\ TableTypes
  BY TypeSplit
<1>1. LocalTypes
  BY DeploymentsAssumption, SMT DEF Init, LocalTypes, HandlerPc, BuilderPc, Number, Actor
<1>2. /\ row \in [Fn -> Row \cup {None}] /\ \A i \in Fn : ~Live(i)
      /\ ver \in [Fn -> [Number -> VersionStatus]]
  BY SMT DEF Init, Live, VersionStatus
<1>3. /\ artifact \in [Name -> [Number -> Fn \cup {None}]] /\ jobs \in [Name -> Nat]
      /\ newest \in [Fn -> Number] /\ faults \in 0 .. MaxFaults
  BY DeploymentsAssumption, SMT DEF Init, Number
<1>4. TableTypes
  BY <1>2, <1>3 DEF Init, TableTypes
<1>. QED
  BY <1>1, <1>4

LEMMA TypeStep == TypeOK /\ [Next]_vars => TypeOK'
<1> SUFFICES ASSUME LocalTypes, TableTypes, [Next]_vars PROVE LocalTypes' /\ TableTypes'
  BY Zenon DEF TypeOK, LocalTypes, TableTypes
<1> USE DeploymentsAssumption
<1>fn. born \subseteq Fn /\ \A i \in Fn : Live(i) => i \in born /\ row[i] \in Row
  BY SMT DEF TableTypes, Live
<1>at. \A a \in Actor : pc[a] # "idle" => target[a] \in born /\ target[a] \in Fn /\ copy[a] \in Row
  BY <1>fn DEF LocalTypes
<1>role. /\ Deployer \subseteq Handler /\ Patcher \subseteq Handler /\ Deleter \subseteq Handler
         /\ Handler \subseteq Actor /\ Builder \in Actor
         /\ \A h \in Handler : h # Builder
  BY DEF Handler, Actor
<1>b. pc[Builder] # "idle" => Building \in Number
  BY <1>at, <1>role, SMT DEF Building, Row
<1>same. ASSUME UNCHANGED <<tables, artifact, jobs, dropped, history>> PROVE TableTypes'
  BY <1>same, SMT DEF TableTypes, tables, history, Live
<1>1. ASSUME NEW i \in Fn, NEW s \in Setting, Create(i, s) PROVE LocalTypes' /\ TableTypes'
  <2>1. LocalTypes'
    BY <1>1, SameLocalTypes DEF Create
  <2>2. [status |-> "DRAFT", current |-> 0, setting |-> s] \in Row
    BY SMT DEF Row, Status, Number
  <2>3. row' \in [Fn -> Row \cup {None}] /\ \A j \in Fn : Live(j)' <=> Live(j) \/ j = i
    BY <1>1, <2>2, NoneIsNoRow, SMT DEF Create, TableTypes, Live
  <2>4. \A j \in Fn : Live(j) => NameOf[j] # NameOf[i]
    BY <1>1 DEF Create, Named
  <2>5. ver' \in [Fn -> [Number -> VersionStatus]]
    BY <1>1, SMT DEF Create, TableTypes, VersionStatus, Status, Number
  <2>6. \A j, k \in Fn : Live(j)' /\ Live(k)' /\ NameOf[j] = NameOf[k] => j = k
    BY <2>3, <2>4 DEF TableTypes
  <2>7. born' \subseteq Fn /\ swept' \subseteq born' /\ \A j \in Fn : Live(j)' => j \in born'
    BY <1>1, <2>3 DEF Create, TableTypes
  <2>. QED
    BY <1>1, <2>1, <2>3, <2>5, <2>6, <2>7 DEF Create, TableTypes
<1>2. ASSUME NEW p \in Patcher, NEW i \in Fn, NEW s \in Setting, Patch(p, i, s)
      PROVE  LocalTypes' /\ TableTypes'
  <2>1. [row[i] EXCEPT !.setting = s] \in Row /\ i \in born
    BY <1>2, <1>fn, SMT DEF Patch, Row
  <2>2. LocalTypes'
    BY <1>2, <2>1, <1>fn, <1>role, BeginTypes DEF Patch, history, Fits, HandlerPc
  <2>. QED
    BY <1>2, <2>2, <1>same DEF Patch
<1>3. ASSUME NEW p \in Patcher, PatchWrite(p) PROVE LocalTypes' /\ TableTypes'
  <2>1. LocalTypes'
    BY <1>3, <1>role, EndTypes DEF PatchWrite, history
  <2>2. /\ row' \in [Fn -> Row \cup {None}] /\ \A j \in Fn : Live(j)' <=> Live(j)
    BY <1>3, <1>at, <1>role, WriteRowTypes DEF PatchWrite, TableTypes
  <2>. QED
    BY <1>3, <2>1, <2>2, SMT DEF PatchWrite, TableTypes, history
<1>4. ASSUME NEW d \in Deployer, NEW i \in Fn, Deploy(d, i) PROVE LocalTypes' /\ TableTypes'
  <2>1. LocalTypes'
    BY <1>4, <1>fn, <1>role, BeginTypes DEF Deploy, history, Fits, HandlerPc
  <2>. QED
    BY <1>4, <2>1, <1>same DEF Deploy
<1>5. ASSUME NEW d \in Deployer, NEW n \in Number \ {0}, NextVersion(d, n)
      PROVE  LocalTypes' /\ TableTypes'
  <2>1. LocalTypes'
    BY <1>5, <1>role, SMT DEF NextVersion, Goto, LocalTypes, HandlerPc, history
  <2>2. TableTypes'
    BY <1>5, <1>same DEF NextVersion
  <2>. QED
    BY <2>1, <2>2
<1>6. ASSUME NEW d \in Deployer, InsertVersion(d) PROVE LocalTypes' /\ TableTypes'
  <2>1. LocalTypes'
    BY <1>6, <1>role, ContinueTypes DEF InsertVersion, Fits, HandlerPc
  <2>2. target[d] \in Fn /\ num[d] \in Number
    BY <1>6, <1>role, <1>at DEF InsertVersion, LocalTypes
  <2>. QED
    BY <1>6, <2>1, <2>2, SMT DEF InsertVersion, TableTypes, VersionStatus, Status, Live
<1>7. ASSUME NEW d \in Deployer, Refused(d) PROVE LocalTypes' /\ TableTypes'
  <2>1. LocalTypes'
    BY <1>7, <1>role, EndTypes DEF Refused, history
  <2>. QED
    BY <1>7, <2>1, <1>same DEF Refused
<1>8. ASSUME NEW d \in Deployer, PointRow(d) PROVE LocalTypes' /\ TableTypes'
  <2>1. LocalTypes'
    BY <1>8, <1>role, ContinueTypes DEF PointRow, Fits, HandlerPc, history
  <2>a. target[d] \in Fn /\ copy[d] \in Row /\ num[d] \in Number
    BY <1>8, <1>role, <1>at DEF PointRow, LocalTypes
  <2>2. [status |-> "BUILDING", current |-> num[d], setting |-> copy[d].setting] \in Row
    BY <2>a, SMT DEF Row, Status
  <2>3. /\ row' \in [Fn -> Row \cup {None}] /\ \A j \in Fn : Live(j)' <=> Live(j)
    BY <1>8, <2>a, <2>2, WriteRowTypes DEF PointRow, TableTypes
  <2>. QED
    BY <1>8, <2>1, <2>3, SMT DEF PointRow, TableTypes, history
<1>9. ASSUME NEW d \in Deployer, TrimAndEnqueue(d) PROVE LocalTypes' /\ TableTypes'
  <2>1. LocalTypes'
    BY <1>9, <1>role, EndTypes DEF TrimAndEnqueue, history
  <2>2. target[d] \in Fn /\ NameOf[target[d]] \in Name
    BY <1>9, <1>role, <1>at DEF TrimAndEnqueue
  <2>3. ver' \in [Fn -> [Number -> VersionStatus]] /\ dropped' \in BOOLEAN
    <3>1. CASE Trim(target[d], TrimmedOf(target[d]))
      BY <3>1, <2>2, SMT DEF Trim, TableTypes, VersionStatus
    <3>2. CASE UNCHANGED <<ver, dropped>>
      BY <3>2 DEF TableTypes
    <3>. QED
      BY <1>9, <3>1, <3>2 DEF TrimAndEnqueue
  <2>4. jobs' \in [Name -> Nat]
    BY <1>9, <2>2, SMT DEF TrimAndEnqueue, TableTypes
  <2>. QED
    BY <1>9, <2>1, <2>3, <2>4 DEF TrimAndEnqueue, TableTypes, history, Live
<1>10. ASSUME NEW d \in Deleter, NEW i \in Fn, Delete(d, i) PROVE LocalTypes' /\ TableTypes'
  <2>1. LocalTypes'
    BY <1>10, <1>fn, <1>role, BeginTypes DEF Delete, history, Fits, HandlerPc
  <2>. QED
    BY <1>10, <2>1, <1>same DEF Delete
<1>11. ASSUME NEW d \in Deleter, NEW i \in Fn, DeleteRow(d, i) PROVE LocalTypes' /\ TableTypes'
  <2>1. LocalTypes'
    BY <1>11, <1>role, ContinueTypes DEF DeleteRow, Fits, HandlerPc, history
  <2>2. row' \in [Fn -> Row \cup {None}] /\ \A j \in Fn : Live(j)' => Live(j)
    BY <1>11, SMT DEF DeleteRow, TableTypes, Live
  <2>3. ver' \in [Fn -> [Number -> VersionStatus]]
    BY <1>11, SMT DEF DeleteRow, TableTypes, VersionStatus
  <2>. QED
    BY <1>11, <2>1, <2>2, <2>3, SMT DEF DeleteRow, TableTypes, history
<1>12. ASSUME NEW d \in Deleter, DeleteRefused(d) PROVE LocalTypes' /\ TableTypes'
  <2>1. LocalTypes'
    BY <1>12, <1>role, EndTypes DEF DeleteRefused, history
  <2>. QED
    BY <1>12, <2>1, <1>same DEF DeleteRefused
<1>13. ASSUME NEW d \in Deleter, SweepFiles(d) PROVE LocalTypes' /\ TableTypes'
  <2>1. LocalTypes'
    BY <1>13, <1>role, EndTypes DEF SweepFiles
  <2>2. NameOf[target[d]] \in Name /\ Named(NameOf[target[d]]) \subseteq born
    BY <1>13, <1>role, <1>at, <1>fn DEF SweepFiles, Named
  <2>3. artifact' \in [Name -> [Number -> Fn \cup {None}]]
    BY <1>13, <2>2, SMT DEF SweepFiles, TableTypes
  <2>4. swept' \subseteq born
    BY <1>13, <2>2 DEF SweepFiles, TableTypes
  <2>. QED
    BY <1>13, <2>1, <2>3, <2>4 DEF SweepFiles, TableTypes, tables, Live
<1>14. ASSUME NEW n \in Name, Take(n) PROVE LocalTypes' /\ TableTypes'
  <2>1. ASSUME \E i \in Named(n) : Begin(Builder, i, row[i], "find") PROVE LocalTypes'
    <3>1. PICK i \in Fn : Live(i) /\ Begin(Builder, i, row[i], "find")
      BY <2>1 DEF Named
    <3>2. i \in born /\ row[i] \in Row /\ born' = born
      BY <1>14, <3>1, <1>fn DEF Take, history
    <3>. QED
      BY <3>1, <3>2, <1>fn, <1>role, BeginTypes DEF Fits, BuilderPc
  <2>2. ASSUME UNCHANGED local PROVE LocalTypes'
    <3>1. born \subseteq born'
      BY <1>14 DEF Take, history
    <3>. QED
      BY <2>2, <3>1, SameLocalTypes
  <2>3. jobs' \in [Name -> Nat]
    BY <1>14, SMT DEF Take, TableTypes
  <2>4. TableTypes'
    BY <1>14, <2>3 DEF Take, TableTypes, tables, history, Live
  <2>. QED
    BY <1>14, <2>1, <2>2, <2>4 DEF Take
<1>15. ASSUME FindVersion PROVE LocalTypes' /\ TableTypes'
  <2>1. LocalTypes'
    BY <1>15, <1>role, EndTypes, ContinueTypes DEF FindVersion, Fits, BuilderPc, history
  <2>. QED
    BY <1>15, <2>1 DEF FindVersion, TableTypes, tables, history, Live
<1>16. ASSUME BuildFails PROVE LocalTypes' /\ TableTypes'
  <2>1. LocalTypes'
    BY <1>16, <1>role, ContinueTypes DEF BuildFails, Fits, BuilderPc, history
  <2>. QED
    BY <1>16, <2>1, <1>same DEF BuildFails
<1>art. ASSUME pc[Builder] # "idle", NEW i \in Fn \cup {None}, SetArtifact(i)
        PROVE  artifact' \in [Name -> [Number -> Fn \cup {None}]]
  <2>1. NameOf[target[Builder]] \in Name
    BY <1>art, <1>at, <1>role
  <2>. QED
    BY <1>art, <2>1, <1>b, SMT DEF SetArtifact, TableTypes
<1>17. ASSUME StartWrite PROVE LocalTypes' /\ TableTypes'
  <2>1. LocalTypes'
    BY <1>17, <1>role, ContinueTypes DEF StartWrite, Fits, BuilderPc, history
  <2>2. artifact' \in [Name -> [Number -> Fn \cup {None}]]
    BY <1>17, <1>art DEF StartWrite
  <2>. QED
    BY <1>17, <2>1, <2>2 DEF StartWrite, TableTypes, tables, history, Live
<1>18. ASSUME FinishWrite PROVE LocalTypes' /\ TableTypes'
  <2>1. Continue(Builder, "saveVersion") \/ Continue(Builder, "failVersion")
    BY <1>18 DEF FinishWrite
  <2>2. LocalTypes'
    BY <1>18, <2>1, <1>role, ContinueTypes DEF FinishWrite, Fits, BuilderPc, history
  <2>3. artifact' \in [Name -> [Number -> Fn \cup {None}]]
    BY <1>18, <1>art, <1>at, <1>role DEF FinishWrite, TableTypes
  <2>. QED
    BY <1>18, <2>2, <2>3 DEF FinishWrite, TableTypes, tables, history, Live
<1>ver. ASSUME pc[Builder] # "idle", NEW st \in Status, WriteVersion(st)
        PROVE  ver' \in [Fn -> [Number -> VersionStatus]]
  BY <1>ver, <1>at, <1>b, <1>role, SMT DEF WriteVersion, TableTypes, VersionStatus
<1>19. ASSUME SaveVersion \/ FailVersion PROVE LocalTypes' /\ TableTypes'
  <2>1. LocalTypes'
    BY <1>19, <1>role, ContinueTypes DEF SaveVersion, FailVersion, Fits, BuilderPc, history
  <2>2. ver' \in [Fn -> [Number -> VersionStatus]]
    BY <1>19, <1>ver DEF SaveVersion, FailVersion, Status
  <2>. QED
    BY <1>19, <2>1, <2>2 DEF SaveVersion, FailVersion, TableTypes, history, Live
<1>20. ASSUME SaveRow PROVE LocalTypes' /\ TableTypes'
  <2>1. LocalTypes'
    BY <1>20, <1>role, EndTypes DEF SaveRow, history
  <2>2. target[Builder] \in Fn /\ \A st \in Status : [copy[Builder] EXCEPT !.status = st] \in Row
    BY <1>20, <1>role, <1>at, SMT DEF SaveRow, Row
  <2>3. /\ row' \in [Fn -> Row \cup {None}] /\ \A j \in Fn : Live(j)' <=> Live(j)
    BY <1>20, <2>2, WriteRowTypes DEF SaveRow, TableTypes, Status
  <2>. QED
    BY <1>20, <2>1, <2>3, SMT DEF SaveRow, TableTypes, history
<1>21. ASSUME NEW a \in Actor, Fault(a) PROVE LocalTypes' /\ TableTypes'
  <2>1. pc[a] = "failVersion" => a = Builder
    BY DEF LocalTypes, Actor, HandlerPc
  <2>2. LocalTypes'
    BY <1>21, <2>1, EndTypes, ContinueTypes DEF Fault, Fits, BuilderPc
  <2>3. faults' \in 0 .. MaxFaults
    BY <1>21, SMT DEF Fault, TableTypes
  <2>. QED
    BY <1>21, <2>2, <2>3 DEF Fault, TableTypes, tables, Live
<1>22. ASSUME Restart PROVE LocalTypes' /\ TableTypes'
  <2>1. LocalTypes'
    BY <1>22, SMT DEF Restart, LocalTypes, HandlerPc, BuilderPc, Number, Actor
  <2>2. faults' \in 0 .. MaxFaults /\ jobs' \in [Name -> Nat]
    BY <1>22, SMT DEF Restart, TableTypes
  <2>. QED
    BY <1>22, <2>1, <2>2 DEF Restart, TableTypes, tables, Live
<1>23. CASE UNCHANGED vars
  <2>1. UNCHANGED local /\ UNCHANGED <<tables, artifact, jobs, dropped, history>>
    BY <1>23 DEF vars, local, tables, history
  <2>. QED
    BY <2>1, <1>same, SameLocalTypes DEF history
<1>. QED
  BY Zenon, <1>1, <1>2, <1>3, <1>4, <1>5, <1>6, <1>7, <1>8, <1>9, <1>10, <1>11, <1>12, <1>13,
     <1>14, <1>15, <1>16, <1>17, <1>18, <1>19, <1>20, <1>21, <1>22, <1>23
     DEF Next, Handling, Deploying, Deleting, Build

(* Every variable keeps a value of its kind, and a name is never shared.   *)
THEOREM DeploymentsTypeCorrect == Spec => []TypeOK
BY TypeInit, TypeStep, PTL DEF Spec
-----------------------------------------------------------------------------
(* Version numbers: those in the table never exceed the largest one ever   *)
(* issued, a deployer about to insert is at most one ahead of it, and the  *)
(* recent ones are there.                                                  *)
Numbering ==
  /\ \A i \in Fn : Versions(i) \subseteq 0 .. newest[i]
  /\ \A i \in Fn : i \notin born => newest[i] = 0
  /\ \A d \in Deployer : pc[d] = "insert" => num[d] \in 1 .. newest[target[d]] + 1
  /\ RecentVersionsKept

NoNewNumber ==
  \A d \in Deployer : pc'[d] = "insert" =>
     pc[d] = "insert" /\ num'[d] = num[d] /\ target'[d] = target[d]

LEMMA LocalKeepsNumbers ==
  ASSUME TypeOK, NEW a \in Actor,
         \/ End(a)
         \/ \E label : label # "insert" /\ Continue(a, label)
         \/ \E label : label # "insert" /\ \E i \in Fn, r \in Row : Begin(a, i, r, label)
  PROVE  NoNewNumber
BY SMT DEF TypeOK, NoNewNumber, End, Continue, Begin, Goto, Actor, Handler

LEMMA NumberingFrame ==
  ASSUME Numbering, NoNewNumber, UNCHANGED <<newest, born>>,
         \A i \in Fn : Versions(i)' \subseteq Versions(i),
         \A i \in Fn : Live(i)' => Live(i) /\ Versions(i)' = Versions(i)
  PROVE  Numbering'
BY SMT DEF Numbering, NoNewNumber, RecentVersionsKept

(* A version that is not overtaken by Keep others is not trimmed.          *)
LEMMA TrimKeepsRecent ==
  ASSUME TypeOK, Numbering, NEW i \in Fn, NEW v \in TrimmedOf(i)
  PROVE  Overtaken(i, v)
<1> DEFINE above == {w \in Versions(i) : w > v}
<1>1. v \in Nat /\ newest[i] \in Nat /\ v <= newest[i] /\ Keep \in Nat
  <2>1. v \in Versions(i) /\ newest[i] \in 0 .. MaxVersion
    BY DEF TrimmedOf, TypeOK, Number
  <2>2. v \in 0 .. newest[i]
    BY <2>1 DEF Numbering
  <2>. QED
    BY <2>1, <2>2, DeploymentsAssumption, SMT
<1>2. above \subseteq v + 1 .. newest[i]
  BY <1>1, SMT DEF Numbering
<1>3. /\ IsFiniteSet(v + 1 .. newest[i])
      /\ Cardinality(v + 1 .. newest[i]) = newest[i] - v
  <2>1. v + 1 \in Int /\ newest[i] \in Int
    BY <1>1, SMT
  <2>2. newest[i] - v = IF v + 1 > newest[i] THEN 0 ELSE newest[i] - (v + 1) + 1
    BY <1>1, SMT
  <2>. QED
    BY <2>1, <2>2, FS_Interval
<1>4. Cardinality(above) \in Nat /\ Cardinality(above) <= newest[i] - v
  BY <1>2, <1>3, FS_Subset, FS_CardinalityType
<1>5. Cardinality(above) >= Keep
  BY DEF TrimmedOf
<1>. QED
  BY <1>1, <1>4, <1>5, SMT DEF Overtaken

LEMMA NumberingInit == Init => Numbering
BY DeploymentsAssumption, SMT DEF Init, Numbering, RecentVersionsKept, Versions, Live, Actor, Handler

LEMMA NumberingStep == TypeOK /\ Numbering /\ [Next]_vars => Numbering'
<1> SUFFICES ASSUME TypeOK, Numbering, [Next]_vars PROVE Numbering'
  OBVIOUS
<1> USE DeploymentsAssumption
<1>at. /\ \A a \in Actor : pc[a] # "idle" => target[a] \in Fn /\ copy[a] \in Row
       /\ \A i \in Fn : Live(i) => i \in born /\ row[i] \in Row
  BY SMT DEF TypeOK, Live
<1>role. /\ Deployer \subseteq Actor /\ Patcher \subseteq Actor /\ Deleter \subseteq Actor
         /\ Builder \in Actor
  BY DEF Handler, Actor
<1>same. ASSUME NoNewNumber, UNCHANGED <<tables, history>> PROVE Numbering'
  BY <1>same, NumberingFrame DEF tables, history, Versions, Live
<1>live. ASSUME NoNewNumber, UNCHANGED <<ver, history>>, \A j \in Fn : Live(j)' => Live(j)
         PROVE  Numbering'
  BY <1>live, NumberingFrame DEF history, Versions
<1>1. ASSUME NEW i \in Fn, NEW s \in Setting, Create(i, s) PROVE Numbering'
  <2>1. /\ Versions(i)' = Versions(i) \cup {0} /\ newest[i] = 0
        /\ \A j \in Fn : j # i => Versions(j)' = Versions(j) /\ (Live(j)' => Live(j))
    BY <1>1, SMT DEF Create, Versions, Live, TypeOK, Number, Numbering
  <2>2. UNCHANGED <<newest, pc, num, target>>
    BY <1>1 DEF Create, local
  <2>3. \A j \in Fn : j \notin born' => newest'[j] = 0
    BY <1>1, <2>2 DEF Create, Numbering
  <2>4. \A j \in Fn : Versions(j)' \subseteq 0 .. newest'[j]
    <3>1. 0 \in 0 .. newest[i]
      BY <2>1, SMT
    <3>. QED
      BY <2>1, <2>2, <3>1 DEF Numbering
  <2>5. RecentVersionsKept'
    <3>1. 0 .. newest[i] = {0}
      BY <2>1, SMT
    <3>. QED
      BY <2>1, <2>2, <3>1 DEF RecentVersionsKept, Numbering
  <2>. QED
    BY <2>2, <2>3, <2>4, <2>5 DEF Numbering
<1>2. ASSUME NEW p \in Patcher, NEW i \in Fn, NEW s \in Setting, Patch(p, i, s) PROVE Numbering'
  <2>1. [row[i] EXCEPT !.setting = s] \in Row
    BY <1>2, <1>at, SMT DEF Patch, Row
  <2>2. NoNewNumber
    BY <1>2, <2>1, <1>role, LocalKeepsNumbers DEF Patch
  <2>. QED
    BY <1>2, <2>2, <1>same DEF Patch
<1>3. ASSUME NEW p \in Patcher, PatchWrite(p) PROVE Numbering'
  <2>1. NoNewNumber
    BY <1>3, <1>role, LocalKeepsNumbers DEF PatchWrite
  <2>2. \A j \in Fn : Live(j)' => Live(j)
    BY <1>3, <1>at, <1>role, SMT DEF PatchWrite, WriteRow, Live, TypeOK
  <2>. QED
    BY <1>3, <2>1, <2>2, <1>live DEF PatchWrite
<1>4. ASSUME NEW d \in Deployer, NEW i \in Fn, Deploy(d, i) PROVE Numbering'
  <2>1. NoNewNumber
    BY <1>4, <1>at, <1>role, LocalKeepsNumbers DEF Deploy
  <2>. QED
    BY <1>4, <2>1, <1>same DEF Deploy
<1>5. ASSUME NEW d \in Deployer, NEW n \in Number \ {0}, NextVersion(d, n) PROVE Numbering'
  <2>1. target[d] \in Fn /\ newest[target[d]] \in Nat
    BY <1>5, <1>at, <1>role, SMT DEF NextVersion, TypeOK, Number
  <2>2. n \in 1 .. newest[target[d]] + 1
    <3>1. CASE Versions(target[d]) = {} /\ n = 1
      BY <2>1, <3>1, SMT
    <3>2. CASE n - 1 \in Versions(target[d])
      BY <2>1, <3>2, SMT DEF Numbering, Number
    <3>. QED
      BY <1>5, <3>1, <3>2 DEF NextVersion, FollowsAll
  <2>3. \A e \in Deployer : pc'[e] = "insert" => num'[e] \in 1 .. newest[target[e]] + 1
    BY <1>5, <2>2, <1>role, SMT DEF NextVersion, Goto, TypeOK, Numbering
  <2>. QED
    BY <1>5, <2>3 DEF NextVersion, Numbering, RecentVersionsKept, tables, history, Versions, Live
<1>6. ASSUME NEW d \in Deployer, InsertVersion(d) PROVE Numbering'
  <2>f. PICK f \in Fn : f = target[d]
    BY <1>6, <1>at, <1>role DEF InsertVersion
  <2>1. /\ f \in born /\ newest[f] \in Nat /\ num[d] \in 1 .. newest[f] + 1
        /\ num[d] \in Number
    <3>1. pc[d] = "insert" /\ d \in Actor /\ newest[f] \in Number
      BY <1>6, <1>role DEF InsertVersion, TypeOK
    <3>. QED
      BY <3>1, <2>f, SMT DEF TypeOK, Number, Numbering
  <2>2. /\ Versions(f)' = Versions(f) \cup {num[d]}
        /\ \A j \in Fn : j # f => Versions(j)' = Versions(j) /\ newest'[j] = newest[j]
        /\ newest'[f] = IF num[d] > newest[f] THEN num[d] ELSE newest[f]
        /\ \A j \in Fn : Live(j)' <=> Live(j)
    <3>1. /\ ver' = [ver EXCEPT ![f][num[d]] = "BUILDING"] /\ UNCHANGED row
          /\ newest' = [newest EXCEPT ![f] = IF num[d] > @ THEN num[d] ELSE @]
          /\ ver \in [Fn -> [Number -> VersionStatus]] /\ newest \in [Fn -> Number]
      BY <1>6, <2>f DEF InsertVersion, TypeOK
    <3>2. ASSUME NEW j \in Fn, NEW v \in Number
          PROVE  ver'[j][v] # "none" <=> ver[j][v] # "none" \/ (j = f /\ v = num[d])
      BY <2>1, <3>1, SMT
    <3>3. \A j \in Fn : Versions(j)' = Versions(j) \cup (IF j = f THEN {num[d]} ELSE {})
      BY <2>1, <3>2 DEF Versions
    <3>4. Versions(f)' = Versions(f) \cup {num[d]}
      BY <3>3
    <3>5. \A j \in Fn : j # f => Versions(j)' = Versions(j)
      BY <3>3
    <3>6. \A j \in Fn : newest'[j] = IF j # f THEN newest[j]
                                   ELSE IF num[d] > newest[f] THEN num[d] ELSE newest[f]
      BY <3>1
    <3>7. \A j \in Fn : Live(j)' <=> Live(j)
      BY <3>1 DEF Live
    <3>. QED
      BY <3>4, <3>5, <3>6, <3>7
  <2>3. NoNewNumber
    BY <1>6, <1>role, LocalKeepsNumbers DEF InsertVersion
  <2>6. \A j \in Fn : newest[j] \in Nat /\ newest'[j] \in Nat /\ newest[j] <= newest'[j]
    <3>1. \A j \in Fn : newest[j] \in Nat
      BY SMT DEF TypeOK, Number
    <3>2. \A j \in Fn : newest'[j] = newest[j] \/ (j = f /\ newest'[j] = num[d] /\ num[d] > newest[f])
      BY <2>2
    <3>. QED
      BY <2>1, <3>1, <3>2, SMT
  <2>4. ASSUME NEW j \in Fn, NEW v \in Versions(j)' PROVE v \in 0 .. newest'[j]
    <3>1. CASE v \in Versions(j)
      <4>1. v \in 0 .. newest[j]
        BY <3>1 DEF Numbering
      <4>. QED
        BY <4>1, <2>6, SMT
    <3>2. CASE j = f /\ v = num[d]
      BY <2>1, <2>2, <3>2, SMT
    <3>. QED
      BY <2>2, <3>1, <3>2
  <2>5. \A j \in Fn : j \notin born' => newest'[j] = 0
    BY <1>6, <2>1, <2>2 DEF InsertVersion, Numbering
  <2>7. \A e \in Deployer : pc'[e] = "insert" => num'[e] \in 1 .. newest'[target'[e]] + 1
    <3>1. \A e \in Deployer : pc[e] = "insert" => target[e] \in Fn /\ num[e] \in 1 .. newest[target[e]] + 1
      BY <1>at, <1>role DEF Numbering
    <3>. QED
      BY <2>3, <2>6, <3>1, SMT DEF NoNewNumber
  <2>8. RecentVersionsKept'
    <3> SUFFICES ASSUME NEW j \in Fn, Live(j), NEW v \in 0 .. newest'[j], newest'[j] - v < Keep
                 PROVE  v \in Versions(j)'
      BY <2>2 DEF RecentVersionsKept
    <3>1. CASE v \in 0 .. newest[j]
      <4>1. newest[j] - v < Keep
        BY <2>6, <3>1, SMT
      <4>2. v \in Versions(j)
        BY <3>1, <4>1 DEF Numbering, RecentVersionsKept
      <4>. QED
        BY <2>2, <4>2
    <3>2. CASE v \notin 0 .. newest[j]
      <4>1. v > newest[j] /\ v <= newest'[j]
        BY <2>6, <3>2, SMT
      <4>2. j = f
        BY <2>2, <2>6, <4>1, SMT
      <4>3. v = num[d]
        BY <2>1, <2>2, <4>1, <4>2, SMT
      <4>. QED
        BY <2>2, <4>2, <4>3
    <3>. QED
      BY <3>1, <3>2
  <2>. QED
    BY <2>4, <2>5, <2>7, <2>8 DEF Numbering
<1>7. ASSUME NEW d \in Deployer, Refused(d) PROVE Numbering'
  <2>1. NoNewNumber
    BY <1>7, <1>role, LocalKeepsNumbers DEF Refused
  <2>. QED
    BY <1>7, <2>1, <1>same DEF Refused
<1>8. ASSUME NEW d \in Deployer, PointRow(d) PROVE Numbering'
  <2>1. NoNewNumber
    BY <1>8, <1>role, LocalKeepsNumbers DEF PointRow
  <2>2. \A j \in Fn : Live(j)' => Live(j)
    BY <1>8, <1>at, <1>role, SMT DEF PointRow, WriteRow, Live, TypeOK
  <2>. QED
    BY <1>8, <2>1, <2>2, <1>live DEF PointRow
<1>9. ASSUME NEW d \in Deployer, TrimAndEnqueue(d) PROVE Numbering'
  <2>1. NoNewNumber
    BY <1>9, <1>role, LocalKeepsNumbers DEF TrimAndEnqueue
  <2>2. CASE UNCHANGED ver
    BY <1>9, <2>1, <2>2, <1>live DEF TrimAndEnqueue, Live
  <2>3. CASE Trim(target[d], TrimmedOf(target[d]))
    <3>1. PICK f \in Fn : f = target[d]
      BY <1>9, <1>at, <1>role DEF TrimAndEnqueue
    <3>2. /\ Versions(f)' = Versions(f) \ TrimmedOf(f)
          /\ \A j \in Fn : j # f => Versions(j)' = Versions(j)
      <4>1. /\ ver' = [ver EXCEPT ![f] = [v \in Number |-> IF v \in TrimmedOf(f) THEN "none" ELSE @[v]]]
            /\ ver \in [Fn -> [Number -> VersionStatus]]
        BY <2>3, <3>1 DEF Trim, TypeOK
      <4>2. ASSUME NEW j \in Fn, NEW v \in Number
            PROVE  ver'[j][v] = IF j = f /\ v \in TrimmedOf(f) THEN "none" ELSE ver[j][v]
        BY <3>1, <4>1, SMT
      <4>. QED
        BY <3>1, <4>2 DEF Versions
    <3>3. \A v \in TrimmedOf(f) : ~(newest[f] - v < Keep)
      <4> TAKE v \in TrimmedOf(f)
      <4>1. Overtaken(f, v)
        BY <3>1, TrimKeepsRecent
      <4>2. newest[f] - v \in Int /\ Keep \in Int
        BY <3>1, SMT DEF TypeOK, TrimmedOf, Versions, Number
      <4>. QED
        BY <4>1, <4>2, SMT DEF Overtaken
    <3>4. UNCHANGED <<row, newest, born>>
      BY <1>9 DEF TrimAndEnqueue, history
    <3>5. RecentVersionsKept'
      <4> SUFFICES ASSUME NEW j \in Fn, Live(j), NEW v \in 0 .. newest[j], newest[j] - v < Keep
                   PROVE  v \in Versions(j)'
        BY <3>4 DEF RecentVersionsKept, Live
      <4>1. v \in Versions(j)
        BY DEF Numbering, RecentVersionsKept
      <4>. QED
        BY <3>2, <3>3, <4>1
    <3>6. \A j \in Fn : Versions(j)' \subseteq 0 .. newest'[j]
      <4> SUFFICES ASSUME NEW j \in Fn PROVE Versions(j)' \subseteq 0 .. newest[j]
        BY <3>4
      <4>1. Versions(j)' \subseteq Versions(j)
        BY <3>2
      <4>. QED
        BY <4>1 DEF Numbering
    <3>. QED
      BY <2>1, <3>4, <3>5, <3>6 DEF Numbering, NoNewNumber
  <2>. QED
    BY <1>9, <2>2, <2>3 DEF TrimAndEnqueue
<1>10. ASSUME NEW d \in Deleter, NEW i \in Fn, Delete(d, i) PROVE Numbering'
  <2>1. NoNewNumber
    BY <1>10, <1>at, <1>role, LocalKeepsNumbers DEF Delete
  <2>. QED
    BY <1>10, <2>1, <1>same DEF Delete
<1>11. ASSUME NEW d \in Deleter, NEW i \in Fn, DeleteRow(d, i) PROVE Numbering'
  <2>1. NoNewNumber
    BY <1>11, <1>role, LocalKeepsNumbers DEF DeleteRow
  <2>2. /\ \A j \in Fn : Versions(j)' \subseteq Versions(j)
        /\ \A j \in Fn : Live(j)' => Live(j) /\ Versions(j)' = Versions(j)
    BY <1>11, SMT DEF DeleteRow, Versions, Live, TypeOK
  <2>. QED
    BY <1>11, <2>1, <2>2, NumberingFrame DEF DeleteRow, history
<1>12. ASSUME NEW d \in Deleter, DeleteRefused(d) PROVE Numbering'
  <2>1. NoNewNumber
    BY <1>12, <1>role, LocalKeepsNumbers DEF DeleteRefused
  <2>. QED
    BY <1>12, <2>1, <1>same DEF DeleteRefused
<1>13. ASSUME NEW d \in Deleter, SweepFiles(d) PROVE Numbering'
  <2>1. NoNewNumber
    BY <1>13, <1>role, LocalKeepsNumbers DEF SweepFiles
  <2>. QED
    BY <1>13, <2>1, NumberingFrame DEF SweepFiles, tables, Versions, Live
<1>14. ASSUME NEW n \in Name, Take(n) PROVE Numbering'
  <2>1. ASSUME \E i \in Named(n) : Begin(Builder, i, row[i], "find") PROVE NoNewNumber
    <3>1. PICK i \in Fn : Live(i) /\ Begin(Builder, i, row[i], "find")
      BY <2>1 DEF Named
    <3>. QED
      BY <3>1, <1>at, <1>role, LocalKeepsNumbers
  <2>2. ASSUME UNCHANGED local PROVE NoNewNumber
    BY <2>2 DEF local, NoNewNumber
  <2>3. UNCHANGED <<tables, history>>
    BY <1>14 DEF Take
  <2>. QED
    BY <1>14, <2>1, <2>2, <2>3, <1>same DEF Take
<1>15. ASSUME FindVersion PROVE Numbering'
  <2>1. NoNewNumber
    BY <1>15, <1>role, LocalKeepsNumbers DEF FindVersion
  <2>. QED
    BY <1>15, <2>1, <1>same DEF FindVersion
<1>16. ASSUME BuildFails \/ StartWrite PROVE Numbering'
  <2>1. NoNewNumber
    BY <1>16, <1>role, LocalKeepsNumbers DEF BuildFails, StartWrite
  <2>. QED
    BY <1>16, <2>1, <1>same DEF BuildFails, StartWrite
<1>17. ASSUME FinishWrite PROVE Numbering'
  <2>1. Continue(Builder, "saveVersion") \/ Continue(Builder, "failVersion")
    BY <1>17 DEF FinishWrite
  <2>2. NoNewNumber
    BY <2>1, <1>role, LocalKeepsNumbers
  <2>. QED
    BY <1>17, <2>2, <1>same DEF FinishWrite
<1>18. ASSUME SaveVersion \/ FailVersion PROVE Numbering'
  <2>1. NoNewNumber
    BY <1>18, <1>role, LocalKeepsNumbers DEF SaveVersion, FailVersion
  <2>2. target[Builder] \in Fn /\ Building \in Number
    BY <1>18, <1>at, <1>role, SMT DEF SaveVersion, FailVersion, Building, Row
  <2>3. WriteVersion("READY") \/ WriteVersion("FAILED")
    BY <1>18 DEF SaveVersion, FailVersion
  <2>4. \A j \in Fn : Versions(j)' = Versions(j)
    <3>1. ASSUME NEW j \in Fn, NEW v \in Number PROVE ver'[j][v] # "none" <=> ver[j][v] # "none"
      <4>1. PICK st \in {"READY", "FAILED"} : WriteVersion(st)
        BY <2>3
      <4>2. CASE UNCHANGED ver
        BY <4>2
      <4>3. CASE /\ ver[target[Builder]][Building] # "none"
                 /\ ver' = [ver EXCEPT ![target[Builder]][Building] = st]
        BY <2>2, <4>3, SMT DEF TypeOK
      <4>. QED
        BY <4>1, <4>2, <4>3 DEF WriteVersion
    <3>. QED
      BY <3>1 DEF Versions
  <2>. QED
    BY <1>18, <2>1, <2>4, NumberingFrame DEF SaveVersion, FailVersion, history, Live
<1>19. ASSUME SaveRow PROVE Numbering'
  <2>1. NoNewNumber
    BY <1>19, <1>role, LocalKeepsNumbers DEF SaveRow
  <2>2. \A j \in Fn : Live(j)' => Live(j)
    BY <1>19, <1>at, <1>role, SMT DEF SaveRow, WriteRow, Live, TypeOK
  <2>. QED
    BY <1>19, <2>1, <2>2, <1>live DEF SaveRow
<1>20. ASSUME NEW a \in Actor, Fault(a) PROVE Numbering'
  <2>1. NoNewNumber
    BY <1>20, LocalKeepsNumbers DEF Fault
  <2>. QED
    BY <1>20, <2>1, NumberingFrame DEF Fault, tables, Versions, Live
<1>21. ASSUME Restart PROVE Numbering'
  <2>1. NoNewNumber
    BY <1>21, <1>role, SMT DEF Restart, NoNewNumber
  <2>. QED
    BY <1>21, <2>1, NumberingFrame DEF Restart, tables, Versions, Live
<1>22. CASE UNCHANGED vars
  <2>1. NoNewNumber
    BY <1>22 DEF vars, NoNewNumber
  <2>. QED
    BY <1>22, <2>1, NumberingFrame DEF vars, Versions, Live
<1>. QED
  BY Zenon, <1>1, <1>2, <1>3, <1>4, <1>5, <1>6, <1>7, <1>8, <1>9, <1>10, <1>11, <1>12, <1>13,
     <1>14, <1>15, <1>16, <1>17, <1>18, <1>19, <1>20, <1>21, <1>22
     DEF Next, Handling, Deploying, Deleting, Build

(* The Keep newest numbers of a live function are never missing.           *)
THEOREM DeploymentsKeepRecent == Spec => []RecentVersionsKept
<1>1. Numbering => RecentVersionsKept
  BY DEF Numbering
<1>. QED
  BY <1>1, NumberingInit, NumberingStep, DeploymentsTypeCorrect, PTL DEF Spec
-----------------------------------------------------------------------------
(* The tables implement VersionTable.  Numbering is what its guards need:  *)
(* a number that is inserted is new or overtaken, and so is one trimmed.   *)
LEMMA InsertIssues ==
  ASSUME TypeOK, Numbering, NEW d \in Deployer, InsertVersion(d)
  PROVE  \E i \in Fn, v \in Number : Table!Issue(i, v)
<1> DEFINE i == target[d]
           v == num[d]
<1>1. /\ i \in Fn /\ v \in Number /\ Live(i) /\ ver[i][v] = "none"
      /\ newest[i] \in Nat /\ newest \in [Fn -> Number] /\ v \in 1 .. newest[i] + 1
      /\ ver' = [ver EXCEPT ![i][v] = "BUILDING"] /\ born' = born
      /\ newest' = [newest EXCEPT ![i] = IF v > @ THEN v ELSE @]
  <2>1. /\ d \in Actor /\ pc[d] = "insert" /\ Live(i) /\ ver[i][v] = "none"
        /\ ver' = [ver EXCEPT ![i][v] = "BUILDING"] /\ born' = born
        /\ newest' = [newest EXCEPT ![i] = IF v > @ THEN v ELSE @]
    BY Zenon DEF InsertVersion, MayInsert, Actor, Handler
  <2>2. i \in Fn /\ v \in Number /\ newest \in [Fn -> Number]
    BY <2>1, SMT DEF TypeOK
  <2>3. v \in 1 .. newest[i] + 1
    BY <2>1 DEF Numbering
  <2>4. newest[i] \in Nat
    BY <2>2, SMT DEF Number
  <2>. QED
    BY <2>1, <2>2, <2>3, <2>4
<1>2. \A w \in 0 .. newest[i] : newest[i] < w + Keep => ver[i][w] # "none"
  <2> SUFFICES ASSUME NEW w \in 0 .. newest[i], newest[i] < w + Keep
               PROVE  ver[i][w] # "none"
    OBVIOUS
  <2>1. newest[i] - w < Keep
    BY <1>1, DeploymentsAssumption, SMT
  <2>. QED
    BY <1>1, <2>1 DEF Numbering, RecentVersionsKept, Versions
<1>3. Table!Exists(i)
  <2>1. newest[i] \in 0 .. newest[i] /\ newest[i] < newest[i] + Keep
    BY <1>1, DeploymentsAssumption, SMT
  <2>2. newest[i] \in Table!Number
    BY <1>1 DEF Table!Number, Number
  <2>. QED
    BY <1>2, <2>1, <2>2 DEF Table!Exists
<1>4. CASE v = newest[i] + 1
  <2>0. v > newest[i]
    BY <1>1, <1>4, SMT
  <2>1. newest' = [newest EXCEPT ![i] = v]
    BY <1>1, <2>0, Zenon
  <2>. QED
    BY <1>1, <1>3, <1>4, <2>1 DEF Table!Issue
<1>5. CASE v # newest[i] + 1
  <2>1. v \in 1 .. newest[i] /\ v \in 0 .. newest[i] /\ newest' = newest
    BY <1>1, <1>5, SMT
  <2>2. ~Table!Recent(i, v)
    BY <1>1, <1>2, <2>1 DEF Table!Recent
  <2>. QED
    BY <1>1, <1>3, <2>1, <2>2 DEF Table!Issue
<1>. QED
  BY <1>4, <1>5

LEMMA TrimTrims ==
  ASSUME TypeOK, Numbering, NEW i \in Fn, Trim(i, TrimmedOf(i)), UNCHANGED <<newest, born>>
  PROVE  \E gone \in SUBSET Number : Table!Trim(i, gone)
<1>1. TrimmedOf(i) \in SUBSET Number
  BY DEF TrimmedOf, Versions
<1>2. ASSUME NEW v \in TrimmedOf(i)  PROVE v <= newest[i] /\ ~Table!Recent(i, v)
  <2>1. newest[i] - v >= Keep /\ v \in Nat /\ newest[i] \in Nat
    BY <1>1, TrimKeepsRecent, SMT DEF Overtaken, TypeOK, Number
  <2>. QED
    BY <2>1, DeploymentsAssumption, SMT DEF Table!Recent
<1>3. Table!Trim(i, TrimmedOf(i))
  BY <1>2, Zenon DEF Trim, Table!Trim, Number, Table!Number
<1>. QED
  BY <1>1, <1>3

LEMMA BuildSettles ==
  ASSUME TypeOK, SaveVersion \/ FailVersion
  PROVE  \/ UNCHANGED <<ver, newest, born>>
         \/ \E i \in Fn, v \in Number, st \in {"READY", "FAILED"} : Table!Settle(i, v, st)
<1>1. /\ target[Builder] \in Fn /\ Building \in Number /\ UNCHANGED <<newest, born>>
      /\ WriteVersion("READY") \/ WriteVersion("FAILED")
  BY DeploymentsAssumption, SMT DEF SaveVersion, FailVersion, history, TypeOK, Building, Row, Actor
<1>. QED
  BY <1>1, Zenon DEF WriteVersion, Table!Settle

LEMMA TableStep ==
  TypeOK /\ Numbering /\ [Next]_vars => [Table!Next]_<<ver, newest, born>>
<1> SUFFICES ASSUME TypeOK, Numbering, [Next]_vars
             PROVE  Table!Next \/ UNCHANGED <<ver, newest, born>>
  BY Zenon
<1> USE DEF Table!Next
<1>0. Table!Number = Number
  BY DEF Table!Number, Number
<1>1. ASSUME NEW i \in Fn, NEW s \in Setting, Create(i, s) PROVE Table!Open(i)
  BY <1>1, Zenon DEF Create, Table!Open
<1>2. ASSUME NEW d \in Deployer, InsertVersion(d) PROVE Table!Next
  BY <1>2, <1>0, InsertIssues, Zenon
<1>3. ASSUME NEW d \in Deployer, TrimAndEnqueue(d)
      PROVE  Table!Next \/ UNCHANGED <<ver, newest, born>>
  <2>1. target[d] \in Fn /\ UNCHANGED <<newest, born>>
    BY <1>3, SMT DEF TrimAndEnqueue, history, TypeOK, Actor, Handler
  <2>. QED
    BY <1>3, <1>0, <2>1, TrimTrims, Zenon DEF TrimAndEnqueue
<1>4. ASSUME NEW d \in Deleter, NEW i \in Fn, DeleteRow(d, i) PROVE Table!Close(i)
  <2>1. i \in born
    BY <1>4, Zenon DEF DeleteRow, Named, TypeOK
  <2>. QED
    BY <1>4, <1>0, <2>1, Zenon DEF DeleteRow, history, Table!Close
<1>5. ASSUME SaveVersion \/ FailVersion
      PROVE  Table!Next \/ UNCHANGED <<ver, newest, born>>
  BY <1>5, <1>0, BuildSettles, Zenon
<1>6. ASSUME \/ \E p \in Patcher : PatchWrite(p) \/ \E i \in Fn, s \in Setting : Patch(p, i, s)
             \/ \E d \in Deployer : \/ \E i \in Fn : Deploy(d, i)
                                    \/ \E n \in Number \ {0} : NextVersion(d, n)
                                    \/ PointRow(d) \/ Refused(d)
             \/ \E d \in Deleter : \/ \E i \in Fn : Delete(d, i)
                                   \/ DeleteRefused(d) \/ SweepFiles(d)
             \/ \E n \in Name : Take(n)
             \/ FindVersion \/ BuildFails \/ StartWrite \/ FinishWrite \/ SaveRow
             \/ \E a \in Actor : Fault(a)
             \/ Restart \/ UNCHANGED vars
      PROVE  UNCHANGED <<ver, newest, born>>
  BY <1>6, Zenon DEF PatchWrite, Patch, Deploy, NextVersion, PointRow, Refused,
     Delete, DeleteRefused, SweepFiles, Take, FindVersion, BuildFails, StartWrite, FinishWrite,
     SaveRow, Fault, Restart, vars, tables, history
<1>. QED
  BY Zenon, <1>1, <1>2, <1>3, <1>4, <1>5, <1>6 DEF Next, Handling, Deploying, Deleting, Build

(* Neither late deploys nor builds whose version was trimmed under them    *)
(* undo what VersionTable promises of a version.                           *)
THEOREM DeploymentsImplementVersionTable == Spec => VersionTableSpec
<1>1. Init => Table!Init
  BY DEF Init, Table!Init, Number, Table!Number
<1>. QED
  BY <1>1, TableStep, TypeInit, TypeStep, NumberingInit, NumberingStep, PTL
  DEF Spec, VersionTableSpec, Table!Spec, Table!table
-----------------------------------------------------------------------------
(* The other side of RecentVersionsKept: a trim that succeeds leaves Keep  *)
(* versions at most, however many it finds and whatever was issued since.  *)
TrimsTo ==
  [][\A d \in Deployer, i \in Fn :
       target[d] = i /\ TrimAndEnqueue(d) /\ Trim(i, TrimmedOf(i))
         => Cardinality(Versions(i)') <= Keep]_vars

LEMMA SmallestOf ==
  ASSUME NEW T, IsFiniteSet(T), T \subseteq Nat, T # {}
  PROVE  \E m \in T : \A k \in T : m <= k
<1> DEFINE below(x) == {y \in T : y < x}
           F == {below(x) : x \in T}
<1>1. F \subseteq FiniteSubsetsOf(T) /\ F # {}
  <2>1. \A x \in T : below(x) \subseteq T /\ IsFiniteSet(below(x))
    <3>. SUFFICES ASSUME NEW x \in T  PROVE below(x) \subseteq T /\ IsFiniteSet(below(x))
      OBVIOUS
    <3>1. below(x) \subseteq T
      OBVIOUS
    <3>. QED
      BY <3>1, FS_Subset
  <2>2. \A x \in T : below(x) \in FiniteSubsetsOf(T)
    BY <2>1 DEF FiniteSubsetsOf
  <2>. QED
    BY <2>2
<1>2. IsWellFoundedOn(StrictSubsetOrdering(T), FiniteSubsetsOf(T))
  BY FS_StrictSubsetOrderingWellFounded
<1>3. PICK X \in F : \A Y \in F : <<Y, X>> \notin StrictSubsetOrdering(T)
  <2> HIDE DEF F
  <2>. QED
    BY <1>1, <1>2, WFMin, Zenon
<1>4. PICK m \in T : X = below(m)
  BY <1>3
<1>5. ASSUME NEW k \in T, k < m  PROVE FALSE
  <2>1. below(k) \in F /\ below(k) \subseteq T /\ X \subseteq T
    BY <1>4
  <2>2. below(k) \subseteq X /\ below(k) # X
    <3>1. k \in X /\ k \notin below(k)
      BY <1>4, <1>5, SMT
    <3>2. \A y \in below(k) : y \in T /\ y < m
      BY <1>4, <1>5, SMT
    <3>. QED
      BY <1>4, <3>1, <3>2
  <2>3. <<below(k), X>> \in StrictSubsetOrdering(T)
    BY <2>1, <2>2 DEF StrictSubsetOrdering
  <2>. QED
    BY <1>3, <2>1, <2>3
<1>6. \A k \in T : m <= k
  BY <1>5, SMT
<1>. QED
  BY <1>6

(* Under the smallest of what is left there are fewer than Keep others.    *)
LEMMA TrimLeavesKeep ==
  ASSUME NEW V, IsFiniteSet(V), V \subseteq Nat
  PROVE  Cardinality({v \in V : ~(Cardinality({w \in V : w > v}) >= Keep)}) <= Keep
<1> DEFINE above(v) == {w \in V : w > v}
           left == {v \in V : ~(Cardinality(above(v)) >= Keep)}
<1>1. /\ IsFiniteSet(left) /\ left \subseteq Nat /\ Keep \in Nat
      /\ \A v : IsFiniteSet(above(v)) /\ Cardinality(above(v)) \in Nat
  <2>1. left \subseteq V /\ \A v : above(v) \subseteq V
    OBVIOUS
  <2>2. IsFiniteSet(left) /\ \A v : IsFiniteSet(above(v))
    <3> HIDE DEF left, above
    <3>. QED
      BY <2>1, FS_Subset
  <2>. QED
    BY <2>1, <2>2, FS_CardinalityType, DeploymentsAssumption
<1>2. CASE left = {}
  <2>1. Cardinality(left) = 0
    BY <1>2, FS_EmptySet
  <2>. QED
    BY <1>1, <2>1, SMT
<1>3. CASE left # {}
  <2>1. PICK m \in left : \A k \in left : m <= k
    <3> HIDE DEF left
    <3>. QED
      BY <1>1, <1>3, SmallestOf
  <2>2. left \subseteq above(m) \cup {m}
    BY <1>1, <2>1, SMT
  <2>3. /\ IsFiniteSet(above(m) \cup {m})
        /\ Cardinality(above(m) \cup {m}) = Cardinality(above(m)) + 1
    <3>1. m \notin above(m)
      BY <1>1, <2>1, SMT
    <3> HIDE DEF left, above
    <3>. QED
      BY <1>1, <3>1, FS_AddElement
  <2>4. Cardinality(left) <= Cardinality(above(m)) + 1 /\ Cardinality(left) \in Nat
    BY <1>1, <2>2, <2>3, FS_Subset, FS_CardinalityType, Zenon
  <2>5. Cardinality(above(m)) \in Nat /\ ~(Cardinality(above(m)) >= Keep)
    BY <1>1, <2>1
  <2>. QED
    BY <1>1, <2>4, <2>5, SMT
<1>. QED
  BY <1>2, <1>3

THEOREM DeploymentsTrimToKeep == Spec => TrimsTo
<1>1. ASSUME TypeOK, NEW i \in Fn, Trim(i, TrimmedOf(i))
      PROVE  Cardinality(Versions(i)') <= Keep
  <2>1. \A v \in Number : ver'[i][v] = IF v \in TrimmedOf(i) THEN "none" ELSE ver[i][v]
    BY <1>1, SMT DEF Trim, TypeOK
  <2>2. Versions(i)' = Versions(i) \ TrimmedOf(i)
    BY <2>1, Zenon DEF Versions, TrimmedOf
  <2>3. Versions(i)' = {v \in Versions(i) : ~(Cardinality({w \in Versions(i) : w > v}) >= Keep)}
    BY <2>2, Zenon DEF TrimmedOf
  <2>4. IsFiniteSet(Number) /\ Number \subseteq Nat
    BY FS_Interval, DeploymentsAssumption DEF Number
  <2>5. IsFiniteSet(Versions(i)) /\ Versions(i) \subseteq Nat
    BY <2>4, FS_Subset DEF Versions
  <2>. QED
    BY <2>3, <2>5, TrimLeavesKeep
<1>2. TypeOK /\ [Next]_vars =>
        [\A d \in Deployer, i \in Fn :
           target[d] = i /\ TrimAndEnqueue(d) /\ Trim(i, TrimmedOf(i))
             => Cardinality(Versions(i)') <= Keep]_vars
  BY <1>1
<1>. QED
  BY <1>2, DeploymentsTypeCorrect, PTL DEF Spec, TrimsTo
-----------------------------------------------------------------------------
(* What a row and the copies of it know: if the status is READY, the       *)
(* version was settled when it was read, and a settled version is never    *)
(* built again under the same number while the number is recent.           *)
Settled(status, top, v) == status[v] \in {"READY", "FAILED", "none"} \/ top - v >= Keep

Honest(status, top, r) == /\ r.current \in 0 .. top
                          /\ r.status = "READY" => Settled(status, top, r.current)

RowsHonest   == \A i \in Fn : Live(i) => Honest(ver[i], newest[i], row[i])
CopiesHonest == \A a \in Actor : pc[a] # "idle" => Honest(ver[target[a]], newest[target[a]], copy[a])
NumbersKnown == \A d \in Deployer : pc[d] = "point" => num[d] \in 0 .. newest[target[d]]
DroppedIsOld == pc[Builder] \notin {"idle", "find"} /\ dropped
                  => newest[target[Builder]] - Building >= Keep
BuildSettled == pc[Builder] = "saveRow"
                  => Settled(ver[target[Builder]], newest[target[Builder]], Building)

Snapshots == RowsHonest /\ CopiesHonest /\ NumbersKnown /\ DroppedIsOld /\ BuildSettled

(* No step unsettles a version of a function that exists.                  *)
Preserved ==
  \A i \in born :
    /\ newest[i] \in Nat /\ newest'[i] \in Nat /\ newest[i] <= newest'[i]
    /\ \A v \in 0 .. newest[i] : Settled(ver[i], newest[i], v) => Settled(ver'[i], newest'[i], v)

LEMMA SettledStays == TypeOK /\ Numbering /\ [Next]_vars => Preserved
<1> SUFFICES ASSUME TypeOK, Numbering, [Next]_vars PROVE Preserved
  OBVIOUS
<1> USE DeploymentsAssumption
<1>nat. \A i \in Fn : newest[i] \in Nat
  BY SMT DEF TypeOK, Number
<1>at. \A a \in Actor : pc[a] # "idle" => target[a] \in Fn /\ copy[a] \in Row
  BY SMT DEF TypeOK
<1>role. Deployer \subseteq Actor /\ Builder \in Actor
  BY DEF Handler, Actor
<1>same. ASSUME newest' = newest, \A i \in born : ver'[i] = ver[i] PROVE Preserved
  BY <1>same, <1>nat, SMT DEF Preserved, TypeOK
<1>less. ASSUME newest' = newest,
                \A i \in born, v \in Number : ver'[i][v] = ver[i][v] \/ ver'[i][v] \in {"READY", "FAILED", "none"}
         PROVE  Preserved
  <2> SUFFICES ASSUME NEW i \in born, NEW v \in 0 .. newest[i], Settled(ver[i], newest[i], v)
               PROVE  Settled(ver'[i], newest'[i], v)
    BY <1>less, <1>nat, SMT DEF Preserved, TypeOK
  <2>1. v \in Number /\ newest'[i] = newest[i]
    BY <1>less, SMT DEF TypeOK, Number
  <2>. QED
    BY <1>less, <2>1, Zenon DEF Settled
<1>1. ASSUME NEW i \in Fn, NEW s \in Setting, Create(i, s) PROVE Preserved
  BY <1>1, <1>same, SMT DEF Create, TypeOK
<1>2. ASSUME NEW d \in Deployer, InsertVersion(d) PROVE Preserved
  <2>1. PICK f \in Fn : f = target[d]
    BY <1>2, <1>at, <1>role DEF InsertVersion
  <2>2. /\ Live(f) /\ ver[f][num[d]] = "none" /\ num[d] \in Number
        /\ ver' = [ver EXCEPT ![f][num[d]] = "BUILDING"]
        /\ newest' = [newest EXCEPT ![f] = IF num[d] > @ THEN num[d] ELSE @]
    BY <1>2, <1>role, <2>1 DEF InsertVersion, MayInsert, TypeOK
  <2>3. num[d] \in Nat /\ \A i \in born : newest[i] \in Nat /\ newest'[i] \in Nat /\ newest[i] <= newest'[i]
    BY <2>2, <1>nat, SMT DEF TypeOK, Number
  <2>4. ASSUME NEW i \in born, NEW v \in 0 .. newest[i], Settled(ver[i], newest[i], v)
        PROVE  Settled(ver'[i], newest'[i], v)
    <3>1. v \in Number /\ i \in Fn
      BY SMT DEF TypeOK, Number
    <3>2. CASE newest[i] - v >= Keep
      BY <2>3, <3>2, SMT DEF Settled
    <3>3. CASE i = f /\ v = num[d]
      <4>1. v \notin Versions(f)
        BY <2>2, <3>3 DEF Versions
      <4>2. ~(newest[f] - v < Keep)
        BY <2>2, <3>3, <4>1 DEF Numbering, RecentVersionsKept
      <4>3. newest[i] - v >= Keep
        BY <3>1, <3>3, <4>2, <1>nat, SMT DEF Number
      <4>. QED
        BY <4>3, <3>2
    <3>4. CASE ~(i = f /\ v = num[d]) /\ ~(newest[i] - v >= Keep)
      <4>1. ver'[i][v] = ver[i][v]
        BY <2>2, <3>1, <3>4, SMT DEF TypeOK
      <4>. QED
        BY <2>4, <3>4, <4>1, Zenon DEF Settled
    <3>. QED
      BY <3>2, <3>3, <3>4
  <2>. QED
    BY <2>3, <2>4 DEF Preserved
<1>3. ASSUME NEW d \in Deployer, TrimAndEnqueue(d) PROVE Preserved
  <2>1. CASE Trim(target[d], TrimmedOf(target[d]))
    <3>1. target[d] \in Fn /\ newest' = newest
      BY <1>3, <1>at, <1>role DEF TrimAndEnqueue, history
    <3>. QED
      BY <2>1, <3>1, <1>less, SMT DEF Trim, TypeOK
  <2>2. CASE UNCHANGED ver
    BY <1>3, <2>2, <1>same DEF TrimAndEnqueue, history
  <2>. QED
    BY <1>3, <2>1, <2>2 DEF TrimAndEnqueue
<1>4. ASSUME NEW d \in Deleter, NEW i \in Fn, DeleteRow(d, i) PROVE Preserved
  BY <1>4, <1>less, SMT DEF DeleteRow, TypeOK, history
<1>5. ASSUME SaveVersion \/ FailVersion PROVE Preserved
  <2>1. /\ target[Builder] \in Fn /\ newest' = newest
        /\ \E st \in {"READY", "FAILED"} : WriteVersion(st)
    BY <1>5, <1>at, <1>role DEF SaveVersion, FailVersion, history
  <2>. QED
    BY <2>1, <1>less, SMT DEF WriteVersion, TypeOK
<1>6. CASE UNCHANGED <<ver, newest>>
  BY <1>6, <1>same
<1>7. ASSUME \/ \E p \in Patcher : PatchWrite(p) \/ \E i \in Fn, s \in Setting : Patch(p, i, s)
             \/ \E d \in Deployer : \/ \E i \in Fn : Deploy(d, i)
                                    \/ \E n \in Number \ {0} : NextVersion(d, n)
                                    \/ PointRow(d) \/ Refused(d)
             \/ \E d \in Deleter : \/ \E i \in Fn : Delete(d, i)
                                   \/ DeleteRefused(d) \/ SweepFiles(d)
             \/ \E n \in Name : Take(n)
             \/ FindVersion \/ BuildFails \/ StartWrite \/ FinishWrite \/ SaveRow
             \/ \E a \in Actor : Fault(a)
             \/ Restart \/ UNCHANGED vars
      PROVE  UNCHANGED <<ver, newest>>
  BY <1>7, Zenon DEF PatchWrite, Patch, Deploy, NextVersion, PointRow, Refused,
     Delete, DeleteRefused, SweepFiles, Take, FindVersion, BuildFails, StartWrite, FinishWrite,
     SaveRow, Fault, Restart, vars, tables, history
<1>. QED
  BY Zenon, <1>1, <1>2, <1>3, <1>4, <1>5, <1>6, <1>7 DEF Next, Handling, Deploying, Deleting, Build
-----------------------------------------------------------------------------
(* The goroutine a ends, goes on to label, or begins with an honest row.   *)
Moves(a, label) == \/ End(a)
                   \/ pc[a] # "idle" /\ Continue(a, label)
                   \/ \E i \in born, r \in Row :
                        Honest(ver[i], newest[i], r) /\ Begin(a, i, r, label)

LEMMA HonestStays ==
  ASSUME TypeOK, Preserved, NEW i \in born, NEW r \in Row, Honest(ver[i], newest[i], r)
  PROVE  Honest(ver'[i], newest'[i], r)
<1>1. r.current \in 0 .. newest[i]
  BY DEF Honest
<1>2. r.current \in 0 .. newest'[i]
  BY <1>1, SMT DEF Preserved
<1>3. Settled(ver[i], newest[i], r.current) => Settled(ver'[i], newest'[i], r.current)
  BY <1>1 DEF Preserved
<1>. QED
  BY <1>2, <1>3 DEF Honest

LEMMA CopiesStay ==
  ASSUME TypeOK, CopiesHonest, Preserved, NEW a \in Actor, NEW label, Moves(a, label)
  PROVE  CopiesHonest'
<1> SUFFICES ASSUME NEW b \in Actor, pc'[b] # "idle"
             PROVE  Honest(ver'[target'[b]], newest'[target'[b]], copy'[b])
  BY DEF CopiesHonest
<1>1. \E i \in born, r \in Row :
         target'[b] = i /\ copy'[b] = r /\ Honest(ver[i], newest[i], r)
  <2>1. CASE End(a)
    <3>1. b # a /\ pc[b] # "idle" /\ target'[b] = target[b] /\ copy'[b] = copy[b]
      BY <2>1, SMT DEF End, Goto, TypeOK
    <3>. QED
      BY <3>1 DEF CopiesHonest, TypeOK
  <2>2. CASE pc[a] # "idle" /\ Continue(a, label)
    <3>1. pc[b] # "idle" /\ target'[b] = target[b] /\ copy'[b] = copy[b]
      BY <2>2, SMT DEF Continue, Goto, TypeOK
    <3>. QED
      BY <3>1 DEF CopiesHonest, TypeOK
  <2>3. ASSUME NEW i \in born, NEW r \in Row,
               Honest(ver[i], newest[i], r), Begin(a, i, r, label)
        PROVE  \E j \in born, q \in Row :
                  target'[b] = j /\ copy'[b] = q /\ Honest(ver[j], newest[j], q)
    <3>1. CASE b = a
      <4>1. target'[b] = i /\ copy'[b] = r
        BY <2>3, <3>1 DEF Begin, TypeOK
      <4>. QED
        BY <2>3, <4>1
    <3>2. CASE b # a
      <4>1. pc[b] # "idle" /\ target'[b] = target[b] /\ copy'[b] = copy[b]
        BY <2>3, <3>2 DEF Begin, Goto, TypeOK
      <4>. QED
        BY <4>1 DEF CopiesHonest, TypeOK
    <3>. QED
      BY <3>1, <3>2
  <2>. QED
    BY <2>1, <2>2, <2>3 DEF Moves
<1>. QED
  BY <1>1, HonestStays

(* A row that nobody writes, or that is written from something honest,     *)
(* stays honest.                                                           *)
LEMMA RowsStay ==
  ASSUME TypeOK, RowsHonest, Preserved,
         \A j \in Fn : row'[j] \in {row[j], None} \/ Honest(ver'[j], newest'[j], row'[j])
  PROVE  RowsHonest'
<1> SUFFICES ASSUME NEW j \in Fn, row'[j] # None, row'[j] = row[j]
             PROVE  Honest(ver'[j], newest'[j], row'[j])
  BY DEF RowsHonest, Live
<1>1. j \in born /\ row[j] \in Row
  BY DEF TypeOK, Live
<1>2. Honest(ver[j], newest[j], row[j])
  BY DEF RowsHonest, Live
<1>. QED
  BY <1>1, <1>2, HonestStays

LEMMA WrittenStay ==
  ASSUME TypeOK, RowsHonest, Preserved, NEW i \in Fn, NEW r \in Row,
         Honest(ver'[i], newest'[i], r), WriteRow(i, r)
  PROVE  RowsHonest'
<1>1. \A j \in Fn : row'[j] = row[j] \/ (j = i /\ row'[j] = r)
  BY DEF WriteRow, TypeOK
<1>. QED
  BY <1>1, RowsStay

LEMMA NumbersStay ==
  ASSUME TypeOK, NumbersKnown, Preserved,
         \A d \in Deployer : pc'[d] = "point" =>
            pc[d] = "point" /\ num'[d] = num[d] /\ target'[d] = target[d]
  PROVE  NumbersKnown'
<1> SUFFICES ASSUME NEW d \in Deployer, pc'[d] = "point"
             PROVE  num'[d] \in 0 .. newest'[target'[d]]
  BY DEF NumbersKnown
<1>1. PICK i \in born : i = target[d]
  BY DEF TypeOK, Actor, Handler
<1>2. num[d] \in 0 .. newest[i] /\ num'[d] = num[d] /\ target'[d] = i
  BY <1>1 DEF NumbersKnown
<1>. QED
  BY <1>2, SMT DEF Preserved

(* What the builder knows stays true whatever the others do.               *)
LEMMA BuilderStays ==
  ASSUME TypeOK, Snapshots, Preserved,
         target'[Builder] = target[Builder], copy'[Builder] = copy[Builder], dropped' = dropped,
         pc[Builder] \notin {"idle", "find"} \/ pc'[Builder] = pc[Builder]
  PROVE  DroppedIsOld' /\ (pc[Builder] = "saveRow" => BuildSettled')
<1>1. CASE pc[Builder] # "idle"
  <2>1. PICK i \in born, v \in Number : i = target[Builder] /\ v = Building /\ v \in 0 .. newest[i]
    <3>1. /\ target[Builder] \in born /\ Building \in Number
          /\ Honest(ver[target[Builder]], newest[target[Builder]], copy[Builder])
      BY <1>1, SMT DEF TypeOK, Snapshots, CopiesHonest, Actor, Building, Row
    <3>. QED
      BY <3>1 DEF Honest, Building
  <2>2. Building' = v /\ target'[Builder] = i
    BY <2>1 DEF Building
  <2>3. newest[i] - v >= Keep => newest'[i] - v >= Keep
    BY <2>1, DeploymentsAssumption, SMT DEF Preserved
  <2>4. Settled(ver[i], newest[i], v) => Settled(ver'[i], newest'[i], v)
    BY <2>1 DEF Preserved
  <2>5. DroppedIsOld'
    BY <2>1, <2>2, <2>3 DEF Snapshots, DroppedIsOld
  <2>6. pc[Builder] = "saveRow" => BuildSettled'
    BY <2>1, <2>2, <2>4 DEF Snapshots, BuildSettled
  <2>. QED
    BY <2>5, <2>6
<1>2. CASE pc[Builder] = "idle"
  BY <1>2 DEF DroppedIsOld
<1>. QED
  BY <1>1, <1>2

LEMMA HandlerStep ==
  ASSUME TypeOK, Snapshots, Preserved, dropped' = dropped,
         NEW a \in Handler, NEW label, label # "point", Moves(a, label)
  PROVE  CopiesHonest' /\ NumbersKnown' /\ DroppedIsOld' /\ BuildSettled'
<1> USE DEF Actor
<1>1. CopiesHonest'
  BY CopiesStay DEF Snapshots
<1>2. \A b \in Actor : b # a =>
         pc'[b] = pc[b] /\ num'[b] = num[b] /\ target'[b] = target[b] /\ copy'[b] = copy[b]
  BY DEF Moves, End, Continue, Begin, Goto, TypeOK
<1>3. pc'[a] = "point" => FALSE
  BY SMT DEF Moves, End, Continue, Begin, Goto, TypeOK
<1>4. NumbersKnown'
  BY <1>2, <1>3, NumbersStay DEF Snapshots, Handler
<1>5. a # Builder
  BY DeploymentsAssumption
<1>6. DroppedIsOld' /\ (pc[Builder] = "saveRow" => BuildSettled')
  BY <1>2, <1>5, BuilderStays
<1>7. pc[Builder] # "saveRow" => BuildSettled'
  BY <1>2, <1>5 DEF BuildSettled
<1>. QED
  BY <1>1, <1>4, <1>6, <1>7

LEMMA BuilderStep ==
  ASSUME TypeOK, Snapshots, Preserved, dropped' = dropped,
         NEW label, Continue(Builder, label), pc[Builder] \notin {"idle", "find"}
  PROVE  CopiesHonest' /\ NumbersKnown' /\ DroppedIsOld' /\ (label # "saveRow" => BuildSettled')
<1> USE DEF Actor
<1>1. CopiesHonest'
  BY CopiesStay DEF Snapshots, Moves
<1>2. /\ \A b \in Handler : pc'[b] = pc[b]
      /\ pc'[Builder] = label /\ UNCHANGED <<num, target, copy>>
  BY DeploymentsAssumption DEF Continue, Goto, TypeOK
<1>3. NumbersKnown'
  BY <1>2, NumbersStay DEF Snapshots, Handler
<1>4. DroppedIsOld'
  BY <1>2, BuilderStays
<1>5. label # "saveRow" => BuildSettled'
  BY <1>2 DEF BuildSettled
<1>. QED
  BY <1>1, <1>3, <1>4, <1>5

(* The builder has ended a job, or has only begun one.                     *)
LEMMA BuilderTurns ==
  ASSUME TypeOK, Snapshots, Preserved, NEW label, Moves(Builder, label),
         pc'[Builder] \in {"idle", "find"} \/ (dropped' = FALSE /\ label = "build")
  PROVE  CopiesHonest' /\ NumbersKnown' /\ DroppedIsOld' /\ BuildSettled'
<1> USE DEF Actor
<1>1. CopiesHonest'
  BY CopiesStay DEF Snapshots
<1>2. \A b \in Handler : pc'[b] = pc[b] /\ num'[b] = num[b] /\ target'[b] = target[b]
  BY DeploymentsAssumption DEF Moves, End, Continue, Begin, Goto, TypeOK
<1>3. NumbersKnown'
  BY <1>2, NumbersStay DEF Snapshots, Handler
<1>4. pc'[Builder] \in {"idle", label}
  BY DEF Moves, End, Continue, Begin, Goto, TypeOK
<1>. QED
  BY <1>1, <1>3, <1>4 DEF DroppedIsOld, BuildSettled
-----------------------------------------------------------------------------
LEMMA SnapshotsInit == Init => Snapshots
BY SMT DEF Init, Snapshots, RowsHonest, CopiesHonest, NumbersKnown, DroppedIsOld, BuildSettled,
   Live, Actor, Handler

LEMMA SnapshotsStep == TypeOK /\ Numbering /\ Snapshots /\ [Next]_vars => Snapshots'
<1> SUFFICES ASSUME TypeOK, Numbering, Snapshots, [Next]_vars PROVE Snapshots'
  OBVIOUS
<1>p. Preserved
  BY SettledStays
<1>at. /\ \A a \in Actor : pc[a] # "idle" => target[a] \in born /\ target[a] \in Fn /\ copy[a] \in Row
       /\ \A i \in Fn : Live(i) => i \in born /\ row[i] \in Row
  BY SMT DEF TypeOK, Live
<1>h. /\ \A i \in Fn : Live(i) => Honest(ver[i], newest[i], row[i])
      /\ \A a \in Actor : pc[a] # "idle" =>
            /\ Honest(ver[target[a]], newest[target[a]], copy[a])
            /\ Honest(ver'[target[a]], newest'[target[a]], copy[a])
  BY <1>p, <1>at, HonestStays DEF Snapshots, RowsHonest, CopiesHonest
<1>role. /\ Deployer \subseteq Handler /\ Patcher \subseteq Handler /\ Deleter \subseteq Handler
         /\ Handler \subseteq Actor /\ Builder \in Actor
  BY DEF Handler, Actor
<1>rows. UNCHANGED row => RowsHonest'
  BY <1>p, RowsStay DEF Snapshots
<1>calm. ASSUME UNCHANGED row, UNCHANGED dropped, NEW a \in Handler, NEW label,
                label # "point", Moves(a, label)
         PROVE  Snapshots'
  BY <1>calm, <1>p, <1>rows, HandlerStep DEF Snapshots
<1>write. ASSUME UNCHANGED dropped, NEW a \in Handler, NEW label, label # "point", Moves(a, label),
                 NEW i \in Fn, NEW r \in Row, Honest(ver'[i], newest'[i], r), WriteRow(i, r)
          PROVE  Snapshots'
  <2>1. RowsHonest'
    BY <1>write, <1>p, WrittenStay DEF Snapshots
  <2>. QED
    BY <1>write, <2>1, <1>p, HandlerStep DEF Snapshots
<1>1. ASSUME NEW i \in Fn, NEW s \in Setting, Create(i, s) PROVE Snapshots'
  <2>1. UNCHANGED <<pc, target, copy, num, dropped, newest>>
    BY <1>1 DEF Create, local
  <2>2. RowsHonest'
    <3>1. ASSUME NEW j \in Fn PROVE row'[j] = row[j] \/ Honest(ver'[j], newest'[j], row'[j])
      <4>1. CASE j = i
        <5>1. row'[i].status = "DRAFT" /\ row'[i].current = 0
          BY <1>1 DEF Create, TypeOK
        <5>2. 0 \in 0 .. newest'[i]
          BY <2>1, <1>1, SMT DEF Create, TypeOK, Number
        <5>. QED
          BY <4>1, <5>1, <5>2 DEF Honest
      <4>2. CASE j # i
        BY <1>1, <4>2 DEF Create, TypeOK
      <4>. QED
        BY <4>1, <4>2
    <3>. QED
      BY <3>1, <1>p, RowsStay DEF Snapshots
  <2>3. CopiesHonest'
    BY <2>1, <1>h DEF CopiesHonest
  <2>4. NumbersKnown'
    BY <2>1, <1>p, NumbersStay DEF Snapshots
  <2>5. DroppedIsOld' /\ (pc[Builder] = "saveRow" => BuildSettled')
    BY <2>1, <1>p, BuilderStays
  <2>6. pc[Builder] # "saveRow" => BuildSettled'
    BY <2>1 DEF BuildSettled
  <2>. QED
    BY <2>2, <2>3, <2>4, <2>5, <2>6 DEF Snapshots
<1>2. ASSUME NEW p \in Patcher, NEW i \in Fn, NEW s \in Setting, Patch(p, i, s) PROVE Snapshots'
  <2>1. [row[i] EXCEPT !.setting = s] \in Row
    BY <1>2, <1>at, SMT DEF Patch, Row
  <2>2. Honest(ver[i], newest[i], [row[i] EXCEPT !.setting = s])
    BY <1>2, <1>h, <1>at, SMT DEF Patch, Honest, Row
  <2>3. Moves(p, "patch")
    BY <1>2, <1>at, <2>1, <2>2 DEF Patch, Moves
  <2>. QED
    BY <1>2, <2>3, <1>calm, <1>role DEF Patch, tables
<1>3. ASSUME NEW p \in Patcher, PatchWrite(p) PROVE Snapshots'
  BY <1>3, <1>write, <1>role, <1>at, <1>h DEF PatchWrite, Moves
<1>4. ASSUME NEW d \in Deployer, NEW i \in Fn, Deploy(d, i) PROVE Snapshots'
  <2>1. Moves(d, "next")
    BY <1>4, <1>at, <1>h DEF Deploy, Moves
  <2>. QED
    BY <1>4, <2>1, <1>calm, <1>role DEF Deploy, tables
<1>5. ASSUME NEW d \in Deployer, NEW n \in Number \ {0}, NextVersion(d, n) PROVE Snapshots'
  <2>1. /\ UNCHANGED <<target, copy, dropped, row>>
        /\ \A b \in Actor : pc'[b] # "idle" => pc[b] # "idle"
        /\ \A b \in Actor : b # d => pc'[b] = pc[b] /\ num'[b] = num[b]
        /\ pc'[d] = "insert"
    BY <1>5, <1>role, SMT DEF NextVersion, Goto, TypeOK, tables
  <2>2. d # Builder /\ pc'[Builder] = pc[Builder]
    BY <2>1, <1>role, DeploymentsAssumption
  <2>3. CopiesHonest'
    BY <2>1, <1>h DEF CopiesHonest
  <2>4. NumbersKnown'
    <3>1. \A e \in Deployer : pc'[e] = "point" => e # d
      BY <2>1
    <3>. QED
      BY <2>1, <3>1, <1>p, <1>role, NumbersStay DEF Snapshots
  <2>5. DroppedIsOld' /\ (pc[Builder] = "saveRow" => BuildSettled')
    BY <2>1, <2>2, <1>p, BuilderStays
  <2>6. pc[Builder] # "saveRow" => BuildSettled'
    BY <2>2 DEF BuildSettled
  <2>. QED
    BY <2>1, <2>3, <2>4, <2>5, <2>6, <1>rows DEF Snapshots
<1>6. ASSUME NEW d \in Deployer, InsertVersion(d) PROVE Snapshots'
  <2>1. /\ pc[d] = "insert" /\ Continue(d, "point") /\ UNCHANGED <<row, dropped>>
        /\ target[d] \in Fn
    BY <1>6, <1>role, <1>at DEF InsertVersion
  <2>2. d # Builder /\ d \in Actor
    BY <1>role, DeploymentsAssumption
  <2>3. /\ \A b \in Actor : b # d => pc'[b] = pc[b]
        /\ UNCHANGED <<target, copy, num>>
    BY <2>1, <2>2 DEF Continue, Goto, TypeOK
  <2>4. CopiesHonest'
    BY <2>1, <2>2, <1>p, CopiesStay DEF Snapshots, Moves
  <2>5. NumbersKnown'
    <3>1. PICK f \in Fn : f = target[d]
      BY <2>1
    <3>2. num[d] \in 1 .. newest[f] + 1 /\ newest[f] \in Nat
      BY <2>1, <3>1, SMT DEF Numbering, TypeOK, Number
    <3>3. newest'[f] = IF num[d] > newest[f] THEN num[d] ELSE newest[f]
      BY <1>6, <3>1 DEF InsertVersion, TypeOK
    <3>4. num[d] \in 0 .. newest'[f]
      BY <3>2, <3>3, SMT
    <3>5. ASSUME NEW e \in Deployer, pc'[e] = "point" PROVE num'[e] \in 0 .. newest'[target'[e]]
      <4>1. CASE e = d
        BY <4>1, <3>1, <3>4, <2>3
      <4>2. CASE e # d
        <5>1. PICK g \in born : g = target[e]
          BY <2>3, <3>5, <4>2, <1>role, <1>at
        <5>2. num[e] \in 0 .. newest[g]
          BY <2>3, <3>5, <4>2, <5>1, <1>role DEF Snapshots, NumbersKnown
        <5>. QED
          BY <2>3, <5>1, <5>2, <1>p, SMT DEF Preserved
      <4>. QED
        BY <4>1, <4>2
    <3>. QED
      BY <3>5 DEF NumbersKnown
  <2>6. DroppedIsOld' /\ (pc[Builder] = "saveRow" => BuildSettled')
    BY <2>1, <2>2, <2>3, <1>p, <1>role, BuilderStays
  <2>7. pc[Builder] # "saveRow" => BuildSettled'
    BY <2>2, <2>3, <1>role DEF BuildSettled
  <2>. QED
    BY <2>1, <2>4, <2>5, <2>6, <2>7, <1>rows DEF Snapshots
<1>7. ASSUME NEW d \in Deployer, Refused(d) PROVE Snapshots'
  BY <1>7, <1>calm, <1>role DEF Refused, tables, Moves
<1>8. ASSUME NEW d \in Deployer, PointRow(d) PROVE Snapshots'
  <2>1. /\ pc[d] = "point" /\ Moves(d, "trim") /\ UNCHANGED dropped
        /\ num[d] \in 0 .. newest[target[d]] /\ newest' = newest
    BY <1>8, <1>role DEF PointRow, Moves, Snapshots, NumbersKnown, history
  <2> DEFINE r == [status |-> "BUILDING", current |-> num[d], setting |-> copy[d].setting]
  <2>2. r \in Row
    BY <2>1, <1>at, <1>role, SMT DEF TypeOK, Row, Status
  <2>3. Honest(ver'[target[d]], newest'[target[d]], r)
    BY <2>1 DEF Honest
  <2>4. target[d] \in Fn /\ WriteRow(target[d], r)
    BY <1>8, <2>1, <1>at, <1>role DEF PointRow
  <2> HIDE DEF r
  <2>. QED
    BY <2>1, <2>2, <2>3, <2>4, <1>write, <1>role
<1>9. ASSUME NEW d \in Deployer, TrimAndEnqueue(d) PROVE Snapshots'
  <2>1. /\ pc[d] = "trim" /\ End(d) /\ UNCHANGED <<row, newest>> /\ target[d] \in Fn
    BY <1>9, <1>role, <1>at DEF TrimAndEnqueue, history
  <2>2. CASE UNCHANGED dropped
    BY <2>1, <2>2, <1>calm, <1>role DEF Moves
  <2>3. CASE Trim(target[d], TrimmedOf(target[d]))
    <3>1. d # Builder /\ d \in Actor
      BY <1>role, DeploymentsAssumption
    <3>2. /\ \A b \in Actor : b # d => pc'[b] = pc[b] /\ num'[b] = num[b] /\ target'[b] = target[b]
                                                      /\ copy'[b] = copy[b]
          /\ pc'[d] = "idle"
      BY <2>1, <3>1 DEF End, Goto, TypeOK
    <3>3. CopiesHonest'
      BY <2>1, <3>1, <1>p, CopiesStay DEF Snapshots, Moves
    <3>4. NumbersKnown'
      BY <3>2, <1>p, <1>role, NumbersStay DEF Snapshots
    <3>5. DroppedIsOld'
      <4> SUFFICES ASSUME pc[Builder] \notin {"idle", "find"}, dropped'
                   PROVE  newest[target[Builder]] - Building >= Keep
        BY <2>1, <3>1, <3>2, <1>role DEF DroppedIsOld, Building
      <4>1. CASE dropped
        BY <4>1 DEF Snapshots, DroppedIsOld
      <4>2. CASE target[Builder] = target[d] /\ copy[Builder].current \in TrimmedOf(target[d])
        BY <2>1, <4>2, TrimKeepsRecent DEF Overtaken, Building
      <4>. QED
        BY <2>3, <4>1, <4>2 DEF Trim
    <3>6. BuildSettled'
      <4>1. CASE pc[Builder] = "saveRow"
        <5>1. PICK i \in born, v \in Nat : i = target[Builder] /\ v = Building /\ v \in 0 .. newest[i]
          <6>1. target[Builder] \in born /\ Building \in 0 .. newest[target[Builder]]
            BY <4>1, <1>at, <1>h, <1>role DEF Honest, Building
          <6>. QED
            BY <6>1, SMT
        <5>2. Settled(ver[i], newest[i], v)
          BY <4>1, <5>1 DEF Snapshots, BuildSettled
        <5>3. Settled(ver'[i], newest'[i], v)
          BY <5>1, <5>2, <1>p DEF Preserved
        <5>. QED
          BY <5>1, <5>3, <3>1, <3>2, <1>role DEF BuildSettled, Building
      <4>2. CASE pc[Builder] # "saveRow"
        BY <4>2, <3>1, <3>2, <1>role DEF BuildSettled
      <4>. QED
        BY <4>1, <4>2
    <3>. QED
      BY <2>1, <3>3, <3>4, <3>5, <3>6, <1>rows DEF Snapshots
  <2>. QED
    BY <1>9, <2>2, <2>3 DEF TrimAndEnqueue
<1>10. ASSUME NEW d \in Deleter, NEW i \in Fn, Delete(d, i) PROVE Snapshots'
  <2>1. Moves(d, "delete")
    BY <1>10, <1>at, <1>h DEF Delete, Moves
  <2>. QED
    BY <1>10, <2>1, <1>calm, <1>role DEF Delete, tables
<1>11. ASSUME NEW d \in Deleter, NEW i \in Fn, DeleteRow(d, i) PROVE Snapshots'
  <2>1. Moves(d, "sweep") /\ UNCHANGED dropped
    BY <1>11 DEF DeleteRow, Moves
  <2>2. RowsHonest'
    <3>1. \A j \in Fn : row'[j] \in {row[j], None}
      BY <1>11 DEF DeleteRow, TypeOK
    <3>. QED
      BY <3>1, <1>p, RowsStay DEF Snapshots
  <2>. QED
    BY <2>1, <2>2, <1>p, <1>role, HandlerStep DEF Snapshots
<1>12. ASSUME NEW d \in Deleter, DeleteRefused(d) PROVE Snapshots'
  BY <1>12, <1>calm, <1>role DEF DeleteRefused, tables, Moves
<1>13. ASSUME NEW d \in Deleter, SweepFiles(d) PROVE Snapshots'
  BY <1>13, <1>calm, <1>role DEF SweepFiles, tables, Moves
<1>turn. ASSUME UNCHANGED row, NEW label, Moves(Builder, label),
                pc'[Builder] \in {"idle", "find"} \/ (dropped' = FALSE /\ label = "build")
         PROVE  Snapshots'
  BY <1>turn, <1>p, <1>rows, BuilderTurns DEF Snapshots
<1>still. ASSUME UNCHANGED <<row, dropped>>, NEW label, label # "saveRow",
                 Continue(Builder, label), pc[Builder] \notin {"idle", "find"}
          PROVE  Snapshots'
  BY <1>still, <1>p, <1>rows, BuilderStep DEF Snapshots
<1>idle. End(Builder) => pc'[Builder] = "idle"
  BY <1>role DEF End, Goto, TypeOK
<1>quiet. ASSUME UNCHANGED <<pc, target, copy, num, dropped, row>> PROVE Snapshots'
  <2>1. CopiesHonest'
    BY <1>quiet, <1>h DEF CopiesHonest
  <2>2. NumbersKnown'
    BY <1>quiet, <1>p, NumbersStay DEF Snapshots
  <2>3. DroppedIsOld' /\ (pc[Builder] = "saveRow" => BuildSettled')
    BY <1>quiet, <1>p, BuilderStays
  <2>4. pc[Builder] # "saveRow" => BuildSettled'
    BY <1>quiet DEF BuildSettled
  <2>. QED
    BY <1>quiet, <2>1, <2>2, <2>3, <2>4, <1>rows DEF Snapshots
<1>14. ASSUME NEW n \in Name, Take(n) PROVE Snapshots'
  <2>1. ASSUME NEW i \in Named(n), Begin(Builder, i, row[i], "find") PROVE Snapshots'
    <3>1. i \in Fn /\ Live(i)
      BY <2>1 DEF Named
    <3>2. Moves(Builder, "find") /\ pc'[Builder] = "find"
      BY <2>1, <3>1, <1>at, <1>h, <1>role DEF Moves, Begin, Goto, TypeOK
    <3>. QED
      BY <1>14, <3>2, <1>turn DEF Take, tables
  <2>2. CASE UNCHANGED local
    BY <1>14, <2>2, <1>quiet DEF Take, local, tables
  <2>. QED
    BY <1>14, <2>1, <2>2 DEF Take
<1>15. ASSUME FindVersion PROVE Snapshots'
  BY <1>15, <1>turn, <1>idle DEF FindVersion, tables, Moves
<1>16. ASSUME BuildFails \/ StartWrite PROVE Snapshots'
  BY <1>16, <1>still DEF BuildFails, StartWrite, tables
<1>17. ASSUME FinishWrite PROVE Snapshots'
  BY <1>17, <1>still DEF FinishWrite, tables
<1>18. ASSUME FailVersion PROVE Snapshots'
  BY <1>18, <1>still DEF FailVersion
<1>19. ASSUME SaveVersion PROVE Snapshots'
  <2>1. /\ Continue(Builder, "saveRow") /\ UNCHANGED <<row, dropped, newest>>
        /\ pc[Builder] = "saveVersion" /\ WriteVersion("READY")
    BY <1>19 DEF SaveVersion, history
  <2>2. target[Builder] \in Fn /\ Building \in Number
    BY <2>1, <1>at, <1>role, SMT DEF Building, Row
  <2>3. BuildSettled'
    <3>1. target'[Builder] = target[Builder] /\ Building' = Building
      BY <2>1 DEF Continue, Building
    <3>2. CASE dropped
      BY <2>1, <3>1, <3>2 DEF Snapshots, DroppedIsOld, BuildSettled, Settled
    <3>3. CASE ~dropped
      <4>1. ver'[target[Builder]][Building] \in {"READY", "none"}
        BY <2>1, <2>2, <3>3, SMT DEF WriteVersion, TypeOK
      <4>. QED
        BY <3>1, <4>1, Zenon DEF BuildSettled, Settled
    <3>. QED
      BY <3>2, <3>3
  <2>. QED
    BY <2>1, <2>3, <1>p, <1>rows, BuilderStep DEF Snapshots
<1>20. ASSUME SaveRow PROVE Snapshots'
  <2>1. /\ pc[Builder] \in {"saveRow", "failRow"} /\ End(Builder) /\ UNCHANGED <<ver, newest, dropped>>
        /\ target[Builder] \in Fn /\ copy[Builder] \in Row
    BY <1>20, <1>at, <1>role DEF SaveRow, history
  <2> DEFINE r == [copy[Builder] EXCEPT !.status = IF pc[Builder] = "saveRow" THEN "READY" ELSE "FAILED"]
  <2>2. r \in Row /\ r.current = Building /\ (r.status = "READY" => pc[Builder] = "saveRow")
    BY <2>1, SMT DEF Row, Status, Building
  <2>3. Building \in 0 .. newest[target[Builder]]
    BY <2>1, <1>h, <1>role DEF Honest, Building
  <2>4. Honest(ver'[target[Builder]], newest'[target[Builder]], r)
    BY <2>1, <2>2, <2>3 DEF Honest, Snapshots, BuildSettled
  <2>5. WriteRow(target[Builder], r)
    BY <1>20 DEF SaveRow
  <2> HIDE DEF r
  <2>6. RowsHonest'
    BY <2>1, <2>2, <2>4, <2>5, <1>p, WrittenStay DEF Snapshots
  <2>. QED
    BY <2>1, <2>6, <1>p, <1>idle, BuilderTurns DEF Snapshots, Moves
<1>21. ASSUME NEW a \in Actor, Fault(a) PROVE Snapshots'
  <2>1. UNCHANGED <<row, dropped>>
    BY <1>21 DEF Fault, tables
  <2>2. CASE pc[a] = "failVersion"
    <3>1. a = Builder
      BY <2>2 DEF TypeOK, Actor, HandlerPc
    <3>. QED
      BY <1>21, <2>1, <2>2, <3>1, <1>still DEF Fault
  <2>3. CASE End(a) /\ a = Builder
    BY <2>1, <2>3, <1>turn, <1>idle DEF Moves
  <2>4. CASE End(a) /\ a \in Handler
    BY <2>1, <2>4, <1>calm DEF Moves
  <2>. QED
    BY <1>21, <2>2, <2>3, <2>4 DEF Fault, Actor
<1>22. ASSUME Restart PROVE Snapshots'
  <2>1. (\A a \in Actor : pc'[a] = "idle") /\ UNCHANGED row
    BY <1>22 DEF Restart, tables
  <2>. QED
    BY <2>1, <1>rows, <1>role
       DEF Snapshots, CopiesHonest, NumbersKnown, DroppedIsOld, BuildSettled
<1>23. CASE UNCHANGED vars
  BY <1>23, <1>quiet DEF vars
<1>. QED
  BY Zenon, <1>1, <1>2, <1>3, <1>4, <1>5, <1>6, <1>7, <1>8, <1>9, <1>10, <1>11, <1>12, <1>13,
     <1>14, <1>15, <1>16, <1>17, <1>18, <1>19, <1>20, <1>21, <1>22, <1>23
     DEF Next, Handling, Deploying, Deleting, Build

(* A READY row never points to a version that is still to be built.        *)
THEOREM DeploymentsReadyWasBuilt == Spec => []ReadyRowWasBuilt
<1>1. Snapshots => ReadyRowWasBuilt
  BY Zenon DEF Snapshots, RowsHonest, Honest, Settled, ReadyRowWasBuilt, Overtaken
<1>. QED
  BY <1>1, NumberingInit, NumberingStep, SnapshotsInit, SnapshotsStep,
     DeploymentsTypeCorrect, PTL DEF Spec
-----------------------------------------------------------------------------
(* No build is lost.  A step leaves the build of i owed if it does not     *)
(* write the row, and hands on what it takes away.                         *)
LEMMA WaitingBefore ==
  ASSUME TypeOK, Preserved, NEW i \in Fn, row'[i] = row[i], Waiting(i)'
  PROVE  Waiting(i)
<1>1. Live(i) /\ i \in born /\ row[i] \in Row
  BY DEF Waiting, Live, TypeOK
<1>2. newest[i] \in Nat /\ newest'[i] \in Nat /\ newest[i] <= newest'[i] /\ row[i].current \in Nat
  BY <1>1, SMT DEF Preserved, Row, Number
<1>. QED
  BY <1>1, <1>2, DeploymentsAssumption, SMT DEF Waiting, Overtaken

LEMMA OwedFrame ==
  ASSUME TypeOK, Preserved, BuildOwed, NEW i \in Fn, row'[i] = row[i], Waiting(i)',
         \A d \in Deployer : Queues(d, i) => Queues(d, i)' \/ jobs'[NameOf[i]] > 0,
         jobs[NameOf[i]] > 0 => jobs'[NameOf[i]] > 0 \/ AtWork(i)',
         AtWork(i) => AtWork(i)'
  PROVE  Owed(i)'
<1>1. Owed(i)
  BY WaitingBefore DEF BuildOwed
<1>. QED
  BY <1>1 DEF Owed

(* Only a moves.                                                           *)
Alone(a) == \A b \in Actor \ {a} :
              pc'[b] = pc[b] /\ target'[b] = target[b] /\ copy'[b] = copy[b]

LEMMA HandlerOwes ==
  ASSUME TypeOK, Preserved, BuildOwed, NEW i \in Fn, row'[i] = row[i], Waiting(i)',
         NEW a \in Handler, pc[a] # "trim", Alone(a), jobs' = jobs
  PROVE  Owed(i)'
<1>1. Builder \in Actor \ {a} /\ Deployer \subseteq Actor
  BY DeploymentsAssumption DEF Actor, Handler
<1>2. \A d \in Deployer : Queues(d, i) => Queues(d, i)'
  BY <1>1 DEF Queues, Alone
<1>3. AtWork(i) => AtWork(i)'
  BY <1>1 DEF AtWork, Building, Alone
<1>. QED
  BY <1>2, <1>3, OwedFrame

(* The builder finds the version it looks for, unless it was overtaken.    *)
LEMMA CurrentFound ==
  ASSUME TypeOK, Numbering, Snapshots, NEW i \in Fn, Waiting(i)
  PROVE  ver[i][row[i].current] # "none"
<1>1. /\ Live(i) /\ newest[i] \in Nat /\ row[i].current \in 0 .. newest[i]
      /\ newest[i] - row[i].current < Keep
  <2>1. Live(i) /\ newest[i] \in Nat /\ row[i].current \in 0 .. newest[i]
    BY SMT DEF Waiting, TypeOK, Number, Snapshots, RowsHonest, Honest
  <2>. QED
    BY <2>1, DeploymentsAssumption, SMT DEF Waiting, Overtaken
<1>2. row[i].current \in Versions(i)
  BY <1>1 DEF Numbering, RecentVersionsKept
<1>. QED
  BY <1>2 DEF Versions

LEMMA BuilderOwes ==
  ASSUME TypeOK, Numbering, Snapshots, Preserved, BuildOwed, Build, NEW i \in Fn, Waiting(i)'
  PROVE  Owed(i)'
<1> USE DeploymentsAssumption
<1>role. Deployer \subseteq Actor /\ Builder \in Actor /\ Builder \notin Deployer
  BY DEF Actor, Handler
<1>loc. pc \in [Actor -> HandlerPc \cup BuilderPc] /\ target \in [Actor -> Fn \cup {None}]
        /\ copy \in [Actor -> Row \cup {None}]
  BY DEF TypeOK
<1>q. ASSUME Alone(Builder) PROVE \A d \in Deployer : Queues(d, i) => Queues(d, i)'
  BY <1>q, <1>role DEF Alone, Queues
<1>1. ASSUME NEW n \in Name, Take(n) PROVE Owed(i)'
  <2>1. /\ row' = row /\ Alone(Builder) /\ pc[Builder] = "idle" /\ jobs \in [Name -> Nat]
        /\ jobs' = [jobs EXCEPT ![n] = @ - 1] /\ NameOf[i] \in Name
    BY <1>1, <1>loc DEF Take, Alone, Begin, Goto, tables, local, TypeOK
  <2>2. Waiting(i)
    BY <2>1, WaitingBefore
  <2>3. CASE n = NameOf[i]
    <3>1. i \in Named(n) /\ \A j \in Named(n) : j = i
      BY <2>2, <2>3 DEF Named, Waiting, TypeOK
    <3>2. Begin(Builder, i, row[i], "find")
      BY <1>1, <3>1 DEF Take
    <3>3. AtWork(i)'
      BY <2>1, <3>2, <1>loc, <1>role, SMT DEF AtWork, Begin, Goto, Building
    <3>. QED
      BY <3>3 DEF Owed
  <2>4. CASE n # NameOf[i]
    <3>1. jobs'[NameOf[i]] = jobs[NameOf[i]]
      BY <2>1, <2>4
    <3>. QED
      BY <2>1, <3>1, <1>q, OwedFrame DEF AtWork
  <2>. QED
    BY <2>3, <2>4
<1>2. ASSUME FindVersion PROVE Owed(i)'
  <2>1. /\ row' = row /\ jobs' = jobs /\ pc[Builder] = "find"
        /\ End(Builder) \/ Continue(Builder, "build")
        /\ End(Builder) => ver[target[Builder]][Building] = "none"
    <3>1. End(Builder) => ~Continue(Builder, "build")
      BY <1>loc, <1>role, SMT DEF End, Continue, Goto
    <3>. QED
      BY <1>2, <3>1, Zenon DEF FindVersion, tables
  <2>2. Alone(Builder) /\ Waiting(i)
    BY <2>1, <1>loc, WaitingBefore DEF Alone, End, Continue, Goto
  <2>3. AtWork(i) => AtWork(i)'
    <3>1. SUFFICES ASSUME AtWork(i) PROVE Continue(Builder, "build") /\ target[Builder] = i
      BY <2>1, <1>loc, <1>role DEF Continue, Goto, AtWork
    <3>2. target[Builder] = i /\ Building = row[i].current
      BY <2>1, <3>1 DEF AtWork
    <3>. QED
      BY <2>1, <2>2, <3>2, CurrentFound
  <2>. QED
    BY <2>1, <2>2, <2>3, <1>q, OwedFrame
<1>3. ASSUME BuildFails \/ StartWrite \/ FinishWrite \/ SaveVersion \/ FailVersion PROVE Owed(i)'
  <2>1. PICK label \in BuilderPc \ {"idle", "find"} : Continue(Builder, label)
    BY <1>3, Zenon DEF BuildFails, StartWrite, FinishWrite, SaveVersion, FailVersion, BuilderPc
  <2>2. row' = row /\ jobs' = jobs
    BY <1>3 DEF BuildFails, StartWrite, FinishWrite, SaveVersion, FailVersion, tables
  <2>3. Alone(Builder) /\ (AtWork(i) => AtWork(i)')
    BY <2>1, <1>loc, <1>role DEF Alone, Continue, Goto, AtWork
  <2>. QED
    BY <2>2, <2>3, <1>q, OwedFrame
<1>4. ASSUME SaveRow PROVE Owed(i)'
  <2>1. /\ target[Builder] \in Fn /\ copy[Builder] \in Row /\ jobs' = jobs /\ Alone(Builder)
        /\ \E st \in {"READY", "FAILED"} :
             WriteRow(target[Builder], [copy[Builder] EXCEPT !.status = st])
    <3>1. target[Builder] \in Fn /\ copy[Builder] \in Row
      BY <1>4, <1>role DEF SaveRow, TypeOK
    <3>2. jobs' = jobs /\ Alone(Builder)
      BY <1>4, <1>loc DEF SaveRow, Alone, End, Goto
    <3>. QED
      BY <1>4, <3>1, <3>2 DEF SaveRow
  <2>2. CASE target[Builder] = i
    BY <2>1, <2>2, SMT DEF WriteRow, Waiting, Live, TypeOK, Row
  <2>3. CASE target[Builder] # i
    <3>1. row'[i] = row[i] /\ ~AtWork(i)
      BY <2>1, <2>3 DEF WriteRow, AtWork, TypeOK
    <3>. QED
      BY <2>1, <3>1, <1>q, OwedFrame
  <2>. QED
    BY <2>2, <2>3
<1>. QED
  BY <1>1, <1>2, <1>3, <1>4 DEF Build

LEMMA OwedStep ==
  TypeOK /\ Numbering /\ Snapshots /\ PatchesWait /\ BuildOwed /\ [Handling \/ Build]_vars
    => BuildOwed'
<1> SUFFICES ASSUME TypeOK, Numbering, Snapshots, PatchesWait, BuildOwed,
                    [Handling \/ Build]_vars, NEW i \in Fn, Waiting(i)'
             PROVE  Owed(i)'
  BY DEF BuildOwed
<1> USE DeploymentsAssumption
<1>p. Preserved
  BY SettledStays DEF Next
<1>role. /\ Deployer \subseteq Handler /\ Patcher \subseteq Handler /\ Deleter \subseteq Handler
         /\ Handler \subseteq Actor /\ Deployer \subseteq Actor /\ Builder \in Actor \ Deployer
  BY DEF Actor, Handler
<1>loc. pc \in [Actor -> HandlerPc \cup BuilderPc] /\ target \in [Actor -> Fn \cup {None}]
        /\ copy \in [Actor -> Row \cup {None}] /\ row \in [Fn -> Row \cup {None}]
  BY DEF TypeOK
<1>still. ASSUME row'[i] = row[i], UNCHANGED <<pc, target, copy, jobs>> PROVE Owed(i)'
  <2>1. /\ \A d \in Deployer : Queues(d, i) => Queues(d, i)'
        /\ AtWork(i) => AtWork(i)'
    BY <1>still DEF Queues, AtWork, Building
  <2>. QED
    BY <1>p, <1>still, <2>1, OwedFrame
<1>1. ASSUME NEW j \in Fn, NEW s \in Setting, Create(j, s) PROVE Owed(i)'
  <2>1. /\ row' = [row EXCEPT ![j] = [status |-> "DRAFT", current |-> 0, setting |-> s]]
        /\ UNCHANGED <<pc, target, copy, jobs>>
    BY <1>1 DEF Create, local
  <2>2. row'[i] = row[i]
    BY <2>1, <1>loc, SMT DEF Waiting
  <2>. QED
    BY <2>1, <2>2, <1>still
<1>2. ASSUME NEW a \in Handler, pc[a] # "trim", jobs' = jobs,
             \/ End(a) \/ \E label : Continue(a, label)
             \/ \E label, j, r : Begin(a, j, r, label)
             \/ Goto(a, "insert") /\ UNCHANGED <<target, copy>>,
             row'[i] = row[i]
      PROVE  Owed(i)'
  <2>1. Alone(a)
    BY <1>2, <1>loc DEF Alone, End, Continue, Begin, Goto
  <2>. QED
    BY <1>2, <1>p, <2>1, HandlerOwes
<1>3. ASSUME NEW p \in Patcher, NEW j \in Fn, NEW s \in Setting, Patch(p, j, s) PROVE Owed(i)'
  BY <1>3, <1>2, <1>role DEF Patch, tables
<1>4. ASSUME NEW p \in Patcher, PatchWrite(p) PROVE Owed(i)'
  <2>1. /\ pc[p] = "patch" /\ End(p) /\ jobs' = jobs /\ WriteRow(target[p], copy[p])
        /\ copy[p].status # "BUILDING"
    BY <1>4 DEF PatchWrite, PatchesWait
  <2>2. row'[i] = row[i] \/ row'[i] = copy[p]
    BY <2>1, <1>loc DEF WriteRow
  <2>3. row'[i] = row[i]
    BY <2>1, <2>2 DEF Waiting
  <2>. QED
    BY <2>1, <2>3, <1>2, <1>role
<1>5. ASSUME NEW d \in Deployer, NEW j \in Fn, Deploy(d, j) PROVE Owed(i)'
  BY <1>5, <1>2, <1>role DEF Deploy, tables
<1>6. ASSUME NEW d \in Deployer, NEW n \in Number \ {0}, NextVersion(d, n) PROVE Owed(i)'
  BY <1>6, <1>2, <1>role DEF NextVersion, tables
<1>7. ASSUME NEW d \in Deployer, InsertVersion(d) \/ Refused(d) PROVE Owed(i)'
  <2>1. pc[d] # "trim" /\ row' = row /\ jobs' = jobs /\ (End(d) \/ \E label : Continue(d, label))
    BY <1>7 DEF InsertVersion, Refused, tables
  <2>. QED
    BY <2>1, <1>2, <1>role
<1>8. ASSUME NEW d \in Deployer, PointRow(d) PROVE Owed(i)'
  <2>1. /\ pc[d] = "point" /\ Continue(d, "trim") /\ jobs' = jobs
        /\ \A j \in Fn : j # target[d] => row'[j] = row[j]
    BY <1>8 DEF PointRow, WriteRow
  <2>2. CASE target[d] = i
    <3>1. Queues(d, i)'
      BY <2>1, <2>2, <1>loc, <1>role DEF Queues, Continue, Goto
    <3>. QED
      BY <3>1 DEF Owed
  <2>3. CASE target[d] # i
    BY <2>1, <2>3, <1>2, <1>role
  <2>. QED
    BY <2>2, <2>3
<1>9. ASSUME NEW d \in Deployer, TrimAndEnqueue(d) PROVE Owed(i)'
  <2>1. /\ pc[d] = "trim" /\ End(d) /\ row' = row /\ NameOf[i] \in Name
        /\ jobs' = [jobs EXCEPT ![NameOf[target[d]]] = @ + 1] /\ jobs \in [Name -> Nat]
    BY <1>9 DEF TrimAndEnqueue, TypeOK
  <2>2. Alone(d)
    BY <2>1, <1>loc DEF Alone, End, Goto
  <2>3. jobs[NameOf[i]] > 0 => jobs'[NameOf[i]] > 0
    BY <2>1, SMT
  <2>4. \A e \in Deployer : Queues(e, i) => Queues(e, i)' \/ jobs'[NameOf[i]] > 0
    <3>1. target[d] = i => jobs'[NameOf[i]] > 0
      BY <2>1, SMT
    <3>2. \A e \in Deployer : e # d /\ Queues(e, i) => Queues(e, i)'
      BY <2>2, <1>role DEF Alone, Queues
    <3>. QED
      BY <3>1, <3>2 DEF Queues
  <2>5. AtWork(i) => AtWork(i)'
    BY <2>1, <2>2, <1>role DEF Alone, AtWork, Building
  <2>. QED
    BY <2>1, <2>3, <2>4, <2>5, <1>p, OwedFrame
<1>10. ASSUME NEW d \in Deleter, NEW j \in Fn, Delete(d, j) PROVE Owed(i)'
  BY <1>10, <1>2, <1>role DEF Delete, tables
<1>11. ASSUME NEW d \in Deleter, NEW j \in Fn, DeleteRow(d, j) PROVE Owed(i)'
  <2>1. pc[d] # "trim" /\ Continue(d, "sweep") /\ jobs' = jobs /\ row' = [row EXCEPT ![j] = None]
    BY <1>11 DEF DeleteRow
  <2>2. row'[i] = row[i]
    BY <2>1, <1>loc DEF Waiting, Live
  <2>. QED
    BY <2>1, <2>2, <1>2, <1>role
<1>12. ASSUME NEW d \in Deleter, DeleteRefused(d) \/ SweepFiles(d) PROVE Owed(i)'
  <2>1. pc[d] # "trim" /\ End(d) /\ jobs' = jobs /\ row' = row
    BY <1>12 DEF DeleteRefused, SweepFiles, tables
  <2>. QED
    BY <2>1, <1>2, <1>role
<1>13. CASE Build
  BY <1>13, <1>p, BuilderOwes
<1>14. CASE UNCHANGED vars
  BY <1>14, <1>still DEF vars
<1>. QED
  BY Zenon, <1>1, <1>3, <1>4, <1>5, <1>6, <1>7, <1>8, <1>9, <1>10, <1>11, <1>12, <1>13, <1>14
     DEF Handling, Deploying, Deleting

(* As long as nothing fails, and no Update has read a row while it was     *)
(* BUILDING, the build of a BUILDING function is never lost: what is left  *)
(* of BuildingEnds is only that the handlers and the builder go on.        *)
THEOREM DeploymentsOweBuilds ==
  Init /\ [][Handling \/ Build]_vars => BuildNotLost
<1>1. Init => BuildOwed
  BY DEF Init, BuildOwed, Waiting, Live
<1>2. [Handling \/ Build]_vars => [Next]_vars
  BY DEF Next
<1>. QED
  BY <1>1, <1>2, TypeInit, TypeStep, NumberingInit, NumberingStep, SnapshotsInit, SnapshotsStep,
     OwedStep, PTL DEF BuildNotLost
=============================================================================
