------------------------------ MODULE Recorder ------------------------------
(***************************************************************************)
(* The end of every invocation (internal/service/recorder.go): Record      *)
(* looks the function up again by its name, inserts a row into table       *)
(* invocations and publishes the logs.  Meanwhile the function may have    *)
(* been deleted, and another one created with its name.  What an           *)
(* invocation does before it returns is in Invoker.                        *)
(***************************************************************************)
EXTENDS LogHub

CONSTANTS Fn,       \* the ids of functions
          NameOf,   \* the name each one is created with
          Request   \* the calls that come through the gateway

Call == Publisher

ASSUME RecorderAssumption ==
  /\ Request \subseteq Call
  /\ NameOf \in [Fn -> Name]
  /\ None \notin Fn

VARIABLES
  status,   \* table functions: "none", "READY", "other", or "deleted"
  records,  \* table invocations: whose row it is, and which function ran
  pc,       \* where each call is
  ran,      \* the function its invocation ran
  found,    \* the function that Record found
  logged    \* whether the invocation left any logs

calls   == <<pc, ran, found, logged>>
recVars == <<status, records, calls>>

RecInit ==
  /\ HubInit
  /\ status  = [i \in Fn |-> "none"]
  /\ records = {}
  /\ pc     = [k \in Call |-> "idle"]
  /\ ran    = [k \in Call |-> None]
  /\ found  = [k \in Call |-> None]
  /\ logged = [k \in Call |-> FALSE]

Goto(k, label) == pc' = [pc EXCEPT ![k] = label]
Live(i)        == status[i] \in {"READY", "other"}
Named(n)       == {i \in Fn : Live(i) /\ NameOf[i] = n}
-----------------------------------------------------------------------------
(* The functions service, as far as a call can tell.  The name is unique;  *)
(* a delete takes the rows that refer to the function with it.             *)

CreateDuplicate(i) ==
  /\ status[i] = "none"
  /\ status' = [status EXCEPT ![i] = "other"]
  /\ UNCHANGED <<hubVars, records, calls>>

CreateFunction(i) ==
  /\ status[i] = "none" /\ Named(NameOf[i]) = {}
  /\ status' = [status EXCEPT ![i] = "other"]
  /\ UNCHANGED <<hubVars, records, calls>>

SetStatus(i) ==      \* a build ends or begins
  /\ Live(i)
  /\ status' = [status EXCEPT ![i] = IF @ = "READY" THEN "other" ELSE "READY"]
  /\ UNCHANGED <<hubVars, records, calls>>

DeleteFunction(i) ==
  /\ Live(i)
  /\ status' = [status EXCEPT ![i] = "deleted"]
  /\ records' = {r \in records : r.of # i}
  /\ UNCHANGED <<hubVars, calls>>
-----------------------------------------------------------------------------
(* Invoke has read the function that is READY under the name.  If it comes *)
(* to an error there is nothing to record, and no step to take.            *)
Run(k, n) ==
  \E i \in Named(n), l \in BOOLEAN :
    /\ status[i] = "READY"
    /\ ran' = [ran EXCEPT ![k] = i]
    /\ logged' = [logged EXCEPT ![k] = l]
    /\ Goto(k, "lookup")
    /\ UNCHANGED <<hubVars, status, records, found>>

Serve(k, n) ==
  /\ k \in Request /\ pc[k] = "idle"
  /\ Run(k, n)

LookUp(k) ==
  /\ pc[k] = "lookup"
  /\ \E i \in Named(NameOf[ran[k]]) : found' = [found EXCEPT ![k] = i]
  /\ Goto(k, "insert")
  /\ UNCHANGED <<hubVars, status, records, ran, logged>>

Skip(k) ==                               \* there is none, or the query fails
  /\ pc[k] = "lookup"
  /\ Goto(k, "done")
  /\ UNCHANGED <<hubVars, status, records, ran, found, logged>>

Inserted(k) ==                           \* only the name is needed from now on
  /\ Goto(k, IF logged[k] THEN "publish" ELSE "done")
  /\ found' = [found EXCEPT ![k] = None]
  /\ logged' = [logged EXCEPT ![k] = FALSE]

InsertUnchecked(k) ==
  /\ pc[k] = "insert"
  /\ records' = records \cup {[of |-> found[k], ran |-> ran[k]]}
  /\ Inserted(k)
  /\ UNCHANGED <<hubVars, status, ran>>

Insert(k) ==
  /\ pc[k] = "insert" /\ Live(found[k])          \* the foreign key
  /\ records' = records \cup {[of |-> found[k], ran |-> ran[k]]}
  /\ Inserted(k)
  /\ UNCHANGED <<hubVars, status, ran>>

InsertFails(k) ==                        \* logged; the lines go out all the same
  /\ pc[k] = "insert"
  /\ Inserted(k)
  /\ UNCHANGED <<hubVars, status, records, ran>>

Publish(k) ==
  /\ pc[k] = "publish"
  /\ Lock(k, NameOf[ran[k]])
  /\ Goto(k, "publishing")
  /\ UNCHANGED <<status, records, ran, found, logged>>

OfferTo(k, s) ==
  /\ Deliver(k, s) \/ Drop(k, s)
  /\ UNCHANGED recVars

Published(k) ==
  /\ Unlock(k)
  /\ Goto(k, "done")
  /\ UNCHANGED <<status, records, ran, found, logged>>

Record(k) ==
  \/ LookUp(k) \/ Skip(k) \/ Insert(k) \/ InsertFails(k) \/ Publish(k)
  \/ (\E s \in Viewer : OfferTo(k, s)) \/ Published(k)

(* API.Logs has looked the function up, which may be gone by now.          *)
Open(s) ==
  /\ \E i \in Fn : NameOf[i] = Topic[s] /\ status[i] # "none"
  /\ Subscribe(s)
  /\ UNCHANGED recVars

Watch(s) == Watching(s) /\ UNCHANGED recVars

Functions ==
  \E i \in Fn : CreateFunction(i) \/ SetStatus(i) \/ DeleteFunction(i)

Recording ==
  \/ \E k \in Call : Record(k) \/ \E n \in Name : Serve(k, n)
  \/ \E s \in Viewer : Open(s) \/ Watch(s)

RecNext == Functions \/ Recording

RecSpec == RecInit /\ [][RecNext]_<<hubVars, recVars>>

(* A call that has returned from its invocation goes on.  Nothing is       *)
(* assumed of viewers: a browser may stop reading for ever.                *)
RecFairSpec == RecSpec /\ \A k \in Call : WF_<<hubVars, recVars>>(Record(k))
-----------------------------------------------------------------------------
CallPc == {"idle", "lookup", "insert", "publish", "publishing", "done"}

(* Every variable holds a value of its kind, and a call knows what it has  *)
(* run and found by the time it needs it.                                  *)
RecTypeOK ==
  /\ subs \subseteq Viewer /\ visit \subseteq Viewer
  /\ chan \in [Viewer -> Seq(Call)] /\ \A s \in Viewer : Len(chan[s]) <= Capacity
  /\ hubMu \in Call \cup {None}
  /\ viewing \in [Viewer -> {"away", "watching", "leaving", "closing", "gone"}]
  /\ got \in [Viewer -> Seq(Call)] /\ sent \in [Viewer -> Seq(Call)]
  /\ missed \in [Viewer -> SUBSET Nat]
  /\ status \in [Fn -> {"none", "READY", "other", "deleted"}]
  /\ records \subseteq [of : Fn, ran : Fn]
  /\ ran \in [Call -> Fn \cup {None}] /\ found \in [Call -> Fn \cup {None}]
  /\ logged \in [Call -> BOOLEAN]
  /\ pc \in [Call -> CallPc]
  /\ \A k \in Call : /\ pc[k] \in {"lookup", "insert", "publish"} => ran[k] \in Fn
                     /\ pc[k] = "insert" => found[k] \in Fn
                     /\ pc[k] = "publishing" <=> hubMu = k

(* A row of table invocations belongs to a function that exists, and tells *)
(* of an invocation of that function, or of one with the same name that    *)
(* was deleted before the row was written.                                 *)
RecordsBelong ==
  \A r \in records : /\ Live(r.of)
                     /\ r.ran = r.of \/ status[r.ran] = "deleted"
                     /\ NameOf[r.ran] = NameOf[r.of]

(* No viewer can hold up a call, whether it reads slowly, not at all, or   *)
(* goes away in the middle of a Publish.                                   *)
RecordEnds == \A k \in Call : pc[k] = "lookup" ~> pc[k] = "done"
=============================================================================
