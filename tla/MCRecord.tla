------------------------------ MODULE MCRecord ------------------------------
(***************************************************************************)
(* The recorder's view of tasks on small instances, for TLC: the tables of  *)
(* file descriptors, the emulation of ptrace, and the fairness of the       *)
(* scheduler, side by side.  `part` says which of the three a behaviour is  *)
(* of; the other two rest.                                                  *)
(***************************************************************************)
EXTENDS FdTable

VARIABLES
  part,
  tracee, tracer, shared, steps, ptraceFault,   \* of EmulatedPtrace
  enable_chaos, live, st, priority, in_round_robin_queue, task_priority_set,
  task_round_robin_queue, current_, must_run_task, slice, enable_poll,
  switchable, pc, owed                           \* of Scheduler

pvars == <<tracee, tracer, shared, ptraceFault>>
svars == <<enable_chaos, live, st, priority, in_round_robin_queue, task_priority_set,
           task_round_robin_queue, current_, must_run_task, slice, enable_poll,
           switchable, pc, owed>>

-----------------------------------------------------------------------------
(* ptrace: one tracing thread, and a process of two threads that is its      *)
(* child.  The tracer waits for anything or for one thread, blocking,        *)
(* polling or peeking.                                                       *)

Req(type, pid, options) == [type |-> type, pid |-> pid, options |-> options]

MCRequests == {Req("ANY", "none", {"WUNTRACED"}), Req("PID", "B", {}),
               Req("ANY", "none", {"WNOHANG"}), Req("PID", "A", {"WNOWAIT"})}

BlockingRequests == {Req("PID", "A", {}), Req("PID", "B", {})}

CONSTANTS Tracers, Requests, TraceExit, MaxSteps    \* of EmulatedPtrace

Ptrace == INSTANCE EmulatedPtrace WITH
  Leader <- "w", Tracees <- {"A", "B"}, Main <- "A", Own <- TRUE, fault <- ptraceFault

ASSUME Ptrace!PtraceAssumption

-----------------------------------------------------------------------------
(* The scheduler: two processes of one thread and one priority, which may be *)
(* stopped.                                                                  *)

Sched == INSTANCE Scheduler WITH
  N <- 2, Group <- <<1, 2>>, Initial <- {1}, Priorities <- {0}, MaxSlice <- 2,
  ChaosModes <- {FALSE}, always_switch <- FALSE

-----------------------------------------------------------------------------
MCInit == part \in {"fds", "ptrace", "scheduler"} /\ Init /\ Ptrace!Init /\ Sched!Init

FdsNext == part = "fds" /\ Next /\ UNCHANGED <<part, pvars, steps, svars>>

PtraceNext == part = "ptrace" /\ Ptrace!Next /\ UNCHANGED <<part, vars, svars>>

SchedNext == part = "scheduler" /\ Sched!NextStops /\ UNCHANGED <<part, vars, pvars, steps>>

MCNext == FdsNext \/ PtraceNext \/ SchedNext

MCSpec ==
  /\ MCInit /\ [][MCNext]_<<part, vars, pvars, svars>>
  /\ \A w \in Tracers :
       /\ WF_pvars(part = "ptrace" /\ Ptrace!TakeSIGCHLD(w))
       /\ WF_pvars(part = "ptrace" /\ Ptrace!TakeSlice(w))
       /\ WF_pvars(part = "ptrace" /\ Ptrace!DeliverStashed(w))
       /\ WF_pvars(part = "ptrace" /\ Ptrace!KernelWait(w))
  /\ \A c \in {"A", "B"} :
       /\ WF_pvars(part = "ptrace" /\ Ptrace!Inject(c))
       /\ WF_pvars(part = "ptrace" /\ Ptrace!Continued(c))
       /\ WF_pvars(part = "ptrace" /\ Ptrace!Call(c))
       /\ WF_pvars(part = "ptrace" /\ Ptrace!Leave(c))
       /\ WF_pvars(part = "ptrace" /\ Ptrace!Reap(c))
  /\ WF_svars(part = "scheduler" /\ Sched!Reschedule)
  /\ WF_svars(part = "scheduler" /\ \E t \in {1, 2} : Sched!WaitStatus(t))
  /\ WF_svars(part = "scheduler" /\ enable_poll /\ Sched!Interrupted)
  /\ WF_svars(part = "scheduler" /\ \E t \in {1, 2} : Sched!RecordStep(t))
  /\ \A t \in {1, 2} :
       /\ WF_svars(part = "scheduler" /\ Sched!UnstableExit(t))
       /\ WF_svars(part = "scheduler" /\ pc = "unswitchable" /\ t = current_ /\ Sched!Completes(t))

(* What is left in a table or an address space nobody uses makes no
   difference. *)
Used(f, of) == [i \in Ids |-> IF \E t \in Live : of[t] = i THEN f[i] ELSE 0]

View ==
  <<part, Used(kern, ktab), ktab, Used(mon, rtab), Used(beyond, rtab), rtab, vm,
    Used(globals, vm), Used(disabled, vm), desched, call, unseen, failed, n,
    pvars, steps, svars>>

-----------------------------------------------------------------------------
(* The properties of the parts, under their names there. *)

(* A traced thread is not gone before its tracer is told (EmulatedPtrace). *)
ExitReported == Ptrace!ExitReported

(* A blocked wait of a tracer ends (EmulatedPtrace). *)
WaiterWoken == Ptrace!WaiterWoken

(* A task that can run is scheduled in the end (Scheduler). *)
NoStarvation == part = "scheduler" => Sched!NoStarvation

(* A SIGCONT for a stopped task is noticed (Scheduler). *)
ContinuedInTheEnd == Sched!ContinuedInTheEnd
=============================================================================
