---------------------------- MODULE MCScheduler ----------------------------
(* Instances of Scheduler for TLC.                                         *)
EXTENDS Scheduler, TLC

CONSTANTS n1, always, every2, blank

SameName  == [i \in Fn |-> n1]
SameTopic == [s \in Viewer |-> n1]

Parsable == Expr \ {blank}

(* Every instant of the calendar, or two after the last firing.            *)
Schedule(x, t) ==
  CASE x = always -> t + 1 .. MaxTime + 1
    [] x = every2 -> {t + 2}

Schedules == [x \in Parsable |-> [t \in 0 .. MaxTime |-> Schedule(x, t)]]
=============================================================================
