---------------------------- MODULE MCScheduler ----------------------------
(* Instances of Scheduler: two processes of one thread each, a process of   *)
(* two threads beside another one, and three single-threaded ones.           *)
EXTENDS Scheduler

OwnGroups == [t \in Task |-> t]
TwoThreads == [t \in Task |-> IF t = 3 THEN 2 ELSE 1]
OneGroup == [t \in Task |-> 1]
OnePriority == {0}
TwoPriorities == {0, 1}
FirstTwo == {1, 2}
FirstTask == {1}
AllTasks == Task
=============================================================================
