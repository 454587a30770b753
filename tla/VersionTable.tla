---------------------------- MODULE VersionTable ----------------------------
(***************************************************************************)
(* What the service promises of the versions of each function, whoever     *)
(* deploys, builds, trims and deletes at the same time, and whatever       *)
(* fails: numbers are issued in order, and one is issued again only to a   *)
(* deploy that Keep others have overtaken; a build settles a version that  *)
(* exists and never brings back one that was trimmed; none of the Keep     *)
(* newest is trimmed; and an id is not used again.                         *)
(***************************************************************************)
EXTENDS Naturals

CONSTANTS Fn, Keep, MaxVersion

VARIABLES ver,   \* the status of each version, or "none"
          top,   \* the largest number that was issued for each function
          used   \* ids that have been used

table  == <<ver, top, used>>
Number == 0 .. MaxVersion

Recent(i, v) == top[i] < v + Keep
Exists(i)    == \E v \in Number : ver[i][v] # "none"

Init ==
  /\ ver = [i \in Fn |-> [v \in Number |-> "none"]]
  /\ top = [i \in Fn |-> 0]
  /\ used = {}

Open(i) ==
  /\ i \notin used /\ used' = used \cup {i}
  /\ ver' = [ver EXCEPT ![i][0] = "DRAFT"]
  /\ top' = top

Issue(i, v) ==
  /\ Exists(i) /\ ver[i][v] = "none"
  /\ \/ v = top[i] + 1 /\ top' = [top EXCEPT ![i] = v]
     \/ v \in 1 .. top[i] /\ ~Recent(i, v) /\ top' = top
  /\ ver' = [ver EXCEPT ![i][v] = "BUILDING"]
  /\ used' = used

Settle(i, v, st) ==
  /\ ver[i][v] # "none"
  /\ ver' = [ver EXCEPT ![i][v] = st]
  /\ UNCHANGED <<top, used>>

Trim(i, gone) ==
  /\ \A v \in gone : v <= top[i] /\ ~Recent(i, v)
  /\ ver' = [ver EXCEPT ![i] = [v \in Number |-> IF v \in gone THEN "none" ELSE @[v]]]
  /\ UNCHANGED <<top, used>>

Close(i) ==
  /\ i \in used
  /\ ver' = [ver EXCEPT ![i] = [v \in Number |-> "none"]]
  /\ UNCHANGED <<top, used>>

Next ==
  \E i \in Fn :
     \/ Open(i) \/ Close(i)
     \/ \E v \in Number : Issue(i, v) \/ \E st \in {"READY", "FAILED"} : Settle(i, v, st)
     \/ \E gone \in SUBSET Number : Trim(i, gone)

Spec == Init /\ [][Next]_table
=============================================================================
