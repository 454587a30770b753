--------------------------- MODULE RecorderProofs ---------------------------
(***************************************************************************)
(* Theorems about Recorder: it publishes through the steps of the hub, so  *)
(* what LogHubProofs shows holds of it, and the rows it writes belong to   *)
(* functions that exist, for any calls, viewers and functions.  The lemmas *)
(* about single actions hold in Scheduler too, where calls have more       *)
(* labels.                                                                 *)
(***************************************************************************)
EXTENDS Recorder, LogHubProofs

Label == CallPc \cup {"fire", "invoke"}

CallTypes ==
  /\ status \in [Fn -> {"none", "READY", "other", "deleted"}]
  /\ records \subseteq [of : Fn, ran : Fn]
  /\ ran \in [Call -> Fn \cup {None}] /\ found \in [Call -> Fn \cup {None}]
  /\ logged \in [Call -> BOOLEAN]
  /\ pc \in [Call -> Label]
  /\ \A k \in Call : /\ pc[k] \in {"lookup", "insert", "publish"} => ran[k] \in Fn
                     /\ pc[k] = "insert" => found[k] \in Fn

UniqueNames ==
  \A i, j \in Fn : Live(i) /\ Live(j) /\ NameOf[i] = NameOf[j] => i = j

(* What has run did exist, and only a deleted function is mistaken for     *)
(* another.                                                                *)
Mistaken(i, j) == i = j \/ status[i] = "deleted"

Lookups ==
  \A k \in Call :
    /\ pc[k] \in {"lookup", "insert"} => status[ran[k]] # "none"
    /\ pc[k] = "insert" => NameOf[found[k]] = NameOf[ran[k]] /\ Mistaken(ran[k], found[k])

RowInv == CallTypes /\ UniqueNames /\ Lookups /\ RecordsBelong

LEMMA RecInit0 == RecInit => RowInv /\ HubInit
BY RecorderAssumption, SMT
DEF Label, CallPc, RecInit, RowInv, CallTypes, UniqueNames, Lookups, RecordsBelong, Live

(* The functions service: a name is taken once, and rows go with their     *)
(* function.                                                               *)
LEMMA FunctionsKeepRows ==
  ASSUME RowInv, NEW i \in Fn, CreateFunction(i) \/ SetStatus(i) \/ DeleteFunction(i)
  PROVE  RowInv'
<1> USE RecorderAssumption
    DEF Label, CallPc, RowInv, CallTypes, UniqueNames, Lookups, RecordsBelong, Live, Mistaken, Named, calls
<1>1. CASE CreateFunction(i)
  BY <1>1, SMT DEF CreateFunction
<1>2. CASE SetStatus(i)
  BY <1>2, SMT DEF SetStatus
<1>3. CASE DeleteFunction(i)
  BY <1>3, SMT DEF DeleteFunction
<1>. QED
  BY <1>1, <1>2, <1>3

LEMMA RunKeepsRows ==
  ASSUME RowInv, NEW k \in Call, NEW n \in Name, Run(k, n)
  PROVE  RowInv'
BY RecorderAssumption, SMT
DEF Label, CallPc, RowInv, CallTypes, UniqueNames, Lookups, RecordsBelong, Live, Mistaken, Named, Run, Goto

LEMMA RecordKeepsRows ==
  ASSUME RowInv, NEW k \in Call, Record(k)
  PROVE  RowInv'
<1> USE RecorderAssumption
    DEF Label, CallPc, RowInv, CallTypes, UniqueNames, Lookups, RecordsBelong, Live, Mistaken, Named, Goto
<1>1. CASE LookUp(k)
  BY <1>1, SMT DEF LookUp
<1>2. CASE Skip(k)
  BY <1>2, SMT DEF Skip
<1>3. CASE Insert(k)
  BY <1>3, SMT DEF Insert, Inserted
<1>4. CASE InsertFails(k)
  BY <1>4, SMT DEF InsertFails, Inserted
<1>5. CASE Publish(k)
  BY <1>5, SMT DEF Publish
<1>6. CASE \E s \in Viewer : OfferTo(k, s)
  BY <1>6, SMT DEF OfferTo, recVars, calls
<1>7. CASE Published(k)
  BY <1>7, SMT DEF Published
<1>. QED
  BY <1>1, <1>2, <1>3, <1>4, <1>5, <1>6, <1>7 DEF Record

LEMMA RowsUnchanged == RowInv /\ UNCHANGED recVars => RowInv'
BY SMT DEF Label, CallPc, RowInv, CallTypes, UniqueNames, Lookups, RecordsBelong, Live, Mistaken, recVars, calls

LEMMA RecordingKeepsRows == RowInv /\ Recording => RowInv'
<1> SUFFICES ASSUME RowInv, Recording PROVE RowInv'
  OBVIOUS
<1>1. ASSUME NEW k \in Call, Record(k) PROVE RowInv'
  BY <1>1, RecordKeepsRows
<1>2. ASSUME NEW k \in Call, NEW n \in Name, Serve(k, n) PROVE RowInv'
  BY <1>2, RunKeepsRows DEF Serve
<1>3. ASSUME NEW s \in Viewer, Open(s) \/ Watch(s) PROVE RowInv'
  BY <1>3, RowsUnchanged DEF Open, Watch
<1>. QED
  BY <1>1, <1>2, <1>3 DEF Recording

LEMMA RowStep == RowInv /\ [RecNext]_<<hubVars, recVars>> => RowInv'
<1> SUFFICES ASSUME RowInv, [RecNext]_<<hubVars, recVars>> PROVE RowInv'
  OBVIOUS
<1>1. CASE Functions
  BY <1>1, FunctionsKeepRows DEF Functions
<1>2. CASE Recording
  BY <1>2, RecordingKeepsRows
<1>3. CASE UNCHANGED <<hubVars, recVars>>
  BY <1>3, RowsUnchanged
<1>. QED
  BY <1>1, <1>2, <1>3 DEF RecNext

(* The inductive invariant of the calls that are recorded: what each has   *)
(* run and found existed, and only a deleted function is mistaken.         *)
THEOREM RecorderRowInvariant == RecSpec => []RowInv
BY RecInit0, RowStep, PTL DEF RecSpec

(* Every row of table invocations belongs to a function that exists, and   *)
(* tells of its own invocations, or of one deleted before with its name.   *)
THEOREM RecorderRecordsBelong == RecSpec => []RecordsBelong
<1>1. RowInv => RecordsBelong
  BY DEF RowInv
<1>. QED
  BY <1>1, RecorderRowInvariant, PTL
-----------------------------------------------------------------------------
(* A step of the recorder is a step of the hub, or leaves the hub alone.   *)
LEMMA HubMove ==
  RowInv /\ [RecNext]_<<hubVars, recVars>> => [HubNext]_hubVars
<1> SUFFICES ASSUME RowInv, [RecNext]_<<hubVars, recVars>>, ~UNCHANGED hubVars PROVE HubNext
  OBVIOUS
<1>1. ASSUME Functions PROVE FALSE
  BY <1>1 DEF Functions, CreateFunction, SetStatus, DeleteFunction
<1>2. ASSUME NEW k \in Call, Record(k) PROVE HubNext
  <2>1. CASE Publish(k)
    <3>1. NameOf[ran[k]] \in Name /\ Lock(k, NameOf[ran[k]])
      BY <2>1, RecorderAssumption DEF Publish, RowInv, CallTypes
    <3>. QED
      BY <3>1 DEF HubNext, Call
  <2>2. CASE \E s \in Viewer : OfferTo(k, s)
    BY <2>2 DEF OfferTo, HubNext, Publishing, Call
  <2>3. CASE Published(k)
    BY <2>3 DEF Published, HubNext, Publishing, Call
  <2>4. CASE LookUp(k) \/ Skip(k) \/ Insert(k) \/ InsertFails(k)
    BY <2>4 DEF LookUp, Skip, Insert, InsertFails
  <2>. QED
    BY <1>2, <2>1, <2>2, <2>3, <2>4 DEF Record
<1>3. ASSUME NEW k \in Call, NEW n \in Name, Serve(k, n) PROVE FALSE
  BY <1>3 DEF Serve, Run
<1>4. ASSUME NEW s \in Viewer, Open(s) \/ Watch(s) PROVE HubNext
  BY <1>4 DEF Open, Watch, HubNext
<1>. QED
  BY <1>1, <1>2, <1>3, <1>4 DEF RecNext, Recording

(* The recorder and the stream handler use the hub as LogHub says.         *)
THEOREM RecorderDrivesHub == RecSpec => HubSpec
BY RecInit0, HubMove, RecorderRowInvariant, PTL DEF RecSpec, HubSpec

(* So no invocation sends on a closed channel when it publishes its logs.  *)
THEOREM RecorderNeverSendsOnClosed == RecSpec => []NoSendOnClosed
BY RecorderDrivesHub, HubNeverSendsOnClosed, PTL

(* And a viewer loses an event of an invocation only if its channel was    *)
(* full.                                                                   *)
THEOREM RecorderDropsOnlyWhenFull == RecSpec => []OnlySlowViewersMiss
BY RecorderDrivesHub, HubDropsOnlyWhenFull, PTL

(* And it sees the events of the invocations of its function in the order  *)
(* in which they were published, with no other gaps.                       *)
THEOREM RecorderStreamsFaithfully == RecSpec => []StreamIsFaithful
BY RecorderDrivesHub, HubStreamsFaithfully, PTL
-----------------------------------------------------------------------------
(* A call is publishing exactly while it holds h.mu.                       *)
Holding == \A k \in Call : pc[k] = "publishing" <=> hubMu = k

LEMMA RecordingHolds ==
  ASSUME RowInv, Holding, Recording
  PROVE  Holding'
<1> USE HubAssumption DEF Holding, Label, CallPc, Call, Goto
<1>typ. pc \in [Call -> Label]
  BY DEF RowInv, CallTypes
<1>1. ASSUME NEW k \in Call, Record(k) PROVE Holding'
  <2>1. CASE LookUp(k) \/ Skip(k)
    BY <2>1, <1>typ, SMT DEF LookUp, Skip, hubVars
  <2>2. CASE Insert(k) \/ InsertFails(k)
    BY <2>2, <1>typ, SMT DEF Insert, InsertFails, Inserted, hubVars
  <2>3. CASE Publish(k)
    BY <2>3, <1>typ, SMT DEF Publish, Lock
  <2>4. CASE \E s \in Viewer : OfferTo(k, s)
    BY <2>4, SMT DEF OfferTo, Deliver, Drop, Offer, recVars, calls
  <2>5. CASE Published(k)
    BY <2>5, <1>typ, SMT DEF Published, Unlock
  <2>. QED
    BY <1>1, <2>1, <2>2, <2>3, <2>4, <2>5 DEF Record
<1>2. ASSUME NEW k \in Call, NEW n \in Name, Serve(k, n) PROVE Holding'
  BY <1>2, <1>typ, SMT DEF Serve, Run, hubVars
<1>3. ASSUME NEW s \in Viewer, Open(s) \/ Watch(s) PROVE Holding'
  BY <1>3, SMT DEF Open, Subscribe, Watch, Watching, Receive, Leave, Unsubscribe, Close,
                   recVars, calls
<1>. QED
  BY <1>1, <1>2, <1>3 DEF Recording

(* A step of the recording moves a call that is on its way, or starts one. *)
LEMMA RecordingMoves ==
  ASSUME RowInv, Holding, Recording, NEW k \in Call
  PROVE  /\ pc'[k] = pc[k] \/ pc'[k] \in CallPc \ {"idle"}
         /\ pc[k] = "idle" /\ k \notin Request => pc'[k] = "idle"
         /\ k \notin Request => ran'[k] = ran[k]
<1> USE HubAssumption DEF Holding, Label, CallPc, Call, Goto
<1>typ. pc \in [Call -> Label] /\ ran \in [Call -> Fn \cup {None}]
  BY DEF RowInv, CallTypes
<1> DEFINE Moved == /\ pc'[k] = pc[k] \/ pc'[k] \in CallPc \ {"idle"}
                    /\ pc[k] = "idle" /\ k \notin Request => pc'[k] = "idle"
                    /\ k \notin Request => ran'[k] = ran[k]
<1>1. ASSUME NEW j \in Call, Record(j) PROVE Moved
  <2>1. CASE LookUp(j) \/ Skip(j)
    BY <2>1, <1>typ, SMT DEF LookUp, Skip
  <2>2. CASE Insert(j) \/ InsertFails(j)
    BY <2>2, <1>typ, SMT DEF Insert, InsertFails, Inserted
  <2>3. CASE Publish(j)
    BY <2>3, <1>typ, SMT DEF Publish
  <2>4. CASE \E s \in Viewer : OfferTo(j, s)
    BY <2>4, SMT DEF OfferTo, recVars, calls
  <2>5. CASE Published(j)
    BY <2>5, <1>typ, SMT DEF Published, Unlock
  <2>. QED
    BY <1>1, <2>1, <2>2, <2>3, <2>4, <2>5 DEF Record
<1>2. ASSUME NEW j \in Call, NEW n \in Name, Serve(j, n) PROVE Moved
  BY <1>2, <1>typ, SMT DEF Serve, Run
<1>3. ASSUME NEW s \in Viewer, Open(s) \/ Watch(s) PROVE Moved
  BY <1>3, SMT DEF Open, Watch, recVars, calls
<1>. QED
  BY <1>1, <1>2, <1>3 DEF Recording

InRecorder == pc \in [Call -> CallPc]

LEMMA HoldingStep ==
  RowInv /\ Holding /\ InRecorder /\ [RecNext]_<<hubVars, recVars>>
    => Holding' /\ InRecorder'
<1> SUFFICES ASSUME RowInv, Holding, InRecorder, [RecNext]_<<hubVars, recVars>>
             PROVE  Holding' /\ InRecorder'
  OBVIOUS
<1>1. ASSUME UNCHANGED <<hubMu, pc>> PROVE Holding' /\ InRecorder'
  BY <1>1 DEF Holding, InRecorder
<1>2. CASE Functions
  BY <1>1, <1>2 DEF Functions, CreateFunction, SetStatus, DeleteFunction, hubVars, calls
<1>3. CASE Recording
  <2>1. \A k \in Call : pc'[k] \in CallPc
    BY <1>3, RecordingMoves DEF InRecorder
  <2>2. pc' \in [Call -> Label]
    BY <1>3, RecordingKeepsRows DEF RowInv, CallTypes
  <2>3. InRecorder'
    BY <2>1, <2>2 DEF InRecorder
  <2>. QED
    BY <1>3, <2>3, RecordingHolds
<1>4. CASE UNCHANGED <<hubVars, recVars>>
  BY <1>1, <1>4 DEF hubVars, recVars, calls
<1>. QED
  BY <1>2, <1>3, <1>4 DEF RecNext

(* Types, and what a call knows at each of its labels.                     *)
THEOREM RecorderTypeCorrect == RecSpec => []RecTypeOK
<1>1. RecInit => Holding /\ InRecorder
  BY HubAssumption, SMT DEF RecInit, HubInit, Holding, InRecorder, CallPc, Call
<1>2. HubInv /\ RowInv /\ Holding /\ InRecorder => RecTypeOK
  <2> SUFFICES ASSUME HubInv, RowInv, Holding, InRecorder PROVE RecTypeOK
    OBVIOUS
  <2>1. HubTypeOK /\ CallTypes
    BY DEF HubInv, RowInv
  <2>. QED
    BY <2>1 DEF HubTypeOK, CallTypes, Holding, InRecorder, RecTypeOK, Call
<1>. QED
  BY <1>1, <1>2, HoldingStep, RecorderDrivesHub, HubInvariant, RecorderRowInvariant, PTL
  DEF RecSpec
=============================================================================
