---------------------------- MODULE MCRecordSyscall ----------------------------
(***************************************************************************)
(* Two tasks for RecordSyscall.  The first makes any call of the tables;   *)
(* the second, and signal handlers, make one of a few calls that share its *)
(* buffers.  Calls that differ only in registers the exit puts back        *)
(* unchanged are taken once.                                               *)
(***************************************************************************)
EXTENDS RecordSyscall

Once(calls) == {[c EXCEPT !.back = IF c.plan.set = {} /\ ~c.plan.no THEN "none" ELSE @] : c \in calls}

MCTasks == {1, 2}
MCCallsOf == <<Once(AllCalls),
               Once(Calls({readv["readv"]}, "read") \cup Calls({waits["wait4_EMULATED"]}, "wait"))>>
MCHandlerCalls == Once(Calls({read["read"]}, "read"))
MCScratchSizes == {6, 12}
MCWritable == {1}
MCResults == {-1, 0, 1, 3}
MCRrMasks == {"protect_rr_sigs"}

\* Instances in which a property fails.
MCDiverted == <<Diverted, {}>>
MCVector == <<Once(Calls({readv["readv"]}, "read")), {}>>
MCFirstPointer == {Bank(1, 0) + 1}
MCSmallScratch == {3}
MCAllMasks == {"protect_rr_sigs", "protect_rr_sigs_sa_mask"}
=============================================================================
