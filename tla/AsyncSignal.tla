---------------------------- MODULE AsyncSignal ----------------------------
(***************************************************************************)
(* ReplaySession::emulate_async_signal: bring a tracee to the execution     *)
(* point at which a signal or a context switch was recorded.  A perf        *)
(* counter interrupt stops the tracee somewhere before the point; from      *)
(* there an internal breakpoint on the recorded $ip, and single-stepping    *)
(* over it, find the point itself.  All of it has to go unnoticed by a      *)
(* debugger that has breakpoints and watchpoints of its own in the tracee.  *)
(*                                                                          *)
(* Replayed execution is deterministic: it is a sequence of execution       *)
(* points, each with its $ip, its tick count and its register file.  The    *)
(* variable pos says at which point the tracee is, bp_past that it has just *)
(* executed a breakpoint instruction placed there ($ip is one past it).     *)
(***************************************************************************)
EXTENDS Integers, FiniteSets

CONSTANTS
  Last,        \* the execution points are 0 .. Last
  Execution,   \* point -> [ip, ticks, regs]
  Watch,       \* points whose instruction changes a watched value
  FalseWatch,  \* points whose instruction fires a watchpoint without a change
  Cpuid,       \* points at an unrecorded, faulting CPUID instruction
  Targets,     \* the points a recorded event may be at
  UserSets,    \* the sets of user breakpoints to try
  Commands,    \* the run commands of the caller
  SkidSize,    \* PerfCounters::skid_size()
  MaxSkid,     \* by how many ticks an interrupt really comes late
  MaxStray     \* bound: stray TIME_SLICE_SIGNALs during one call

Points == 0 .. Last
Ip(p) == Execution[p].ip
Ticks(p) == Execution[p].ticks
Regs(p) == Execution[p].regs

(* What the constants are: among the points, ticks only grow, a register file
   tells the instruction, and with the ticks the point; the iterations of a
   string instruction retire no branch, and a CPUID writes no memory. *)
AsyncAssumption ==
  /\ Last \in Nat
  /\ \A p \in Points : Ticks(p) \in Int
  /\ \A p, q \in Points : p <= q => Ticks(p) <= Ticks(q)
  /\ \A p, q \in Points : Regs(p) = Regs(q) => Ip(p) = Ip(q)
  /\ \A p, q \in Points : Ticks(p) = Ticks(q) /\ Regs(p) = Regs(q) => p = q
  /\ \A p, q \in Points :
       p <= q /\ (\A r \in p .. q : Ip(r) = Ip(p)) => Ticks(p) = Ticks(q)
  /\ Cpuid \cap (Watch \cup FalseWatch) = {}
  /\ Targets \subseteq Points
  /\ Commands \subseteq {"RUN_CONTINUE", "RUN_SINGLESTEP", "RUN_SINGLESTEP_FAST_FORWARD"}
  /\ SkidSize \in Nat /\ MaxSkid \in Nat /\ MaxSkid < SkidSize

(* No recorded event has the $ip of an unrecorded CPUID: the internal single
   steps do not emulate one. *)
NoCpuidAtTarget == \A t \in Targets, p \in Cpuid : Ip(p) # Ip(t)

VARIABLES
  \* what the call is given
  target, user, command,
  \* the tracee: where it is, why it stopped, what a watchpoint noticed
  pos, bp_past, stop_sig, reasons, changed,
  \* emulate_async_signal: did_set_internal_breakpoint, pending_SIGTRAP,
  \* SIGTRAP_run_command
  internal, pending, sigtrap_command,
  \* control, the value returned, whether an ASSERT failed
  pc, result, asserted,
  \* stray interrupts that have come
  strays

given == <<target, user, command>>
tracee == <<pos, bp_past, stop_sig, reasons, changed>>
vars == <<given, tracee, internal, pending, sigtrap_command, pc, result,
          asserted, strays>>

is_singlestep(cmd) == cmd \in {"RUN_SINGLESTEP", "RUN_SINGLESTEP_FAST_FORWARD"}

Init ==
  /\ target \in Targets
  /\ user \in UserSets
  /\ command \in Commands
  /\ pos \in 0 .. target
  /\ bp_past = FALSE
  /\ stop_sig = "none"
  /\ reasons = {}
  /\ changed = FALSE
  /\ internal = FALSE
  /\ pending = FALSE
  /\ sigtrap_command = "RUN_CONTINUE"
  /\ pc = "advance"
  /\ result = "none"
  /\ asserted = FALSE
  /\ strays = 0

-----------------------------------------------------------------------------
(* The tracee and the hardware under it. *)

(* Where it stopped, whether past a breakpoint, why, and what was noticed. *)
Stop(p, past, sig, why, noticed) ==
  [pos |-> p, past |-> past, sig |-> sig, why |-> why, changed |-> noticed,
   stray |-> FALSE]

(* Mutant: removing the internal breakpoint removes the debugger's too. *)
BreakpointsWithoutCounts(set) ==
  IF set THEN user \cup {Ip(target)} ELSE user \ {Ip(target)}

(* Addresses holding a breakpoint instruction: the debugger's and, if set is *)
(* true, the internal one on the target's $ip.                               *)
Breakpoints(set) == user \cup (IF set THEN {Ip(target)} ELSE {})

(* The tracee gets from pos to p without being stopped. *)
RunsTo(p, bps) ==
  /\ pos <= p
  /\ \A q \in pos .. p - 1 :
       Ip(q) \notin bps /\ q \notin Watch \cup FalseWatch \cup Cpuid

(* A signal of the perf counter may come at p, when it counts period ticks.  *)
(* No signal is ever later than MaxSkid.                                     *)
InPeriod(p, period) == period = -1 \/ Ticks(p) - Ticks(pos) <= period + MaxSkid
TimeSlice(p, period) == period # -1 /\ Ticks(p) - Ticks(pos) >= period

(* PTRACE_SYSEMU until the tracee stops, for at most period ticks (-1: for   *)
(* any number).  A faulting CPUID is emulated, and counts as no stop.        *)
ContinueStops(bps, period) ==
  LET Reached == {p \in Points : RunsTo(p, bps) /\ InPeriod(p, period)} IN
  UNION {{Stop(p, TRUE, "SIGTRAP", {"breakpoint"}, changed) :
            p \in {q \in Reached : Ip(q) \in bps}},
         {Stop(p + 1, FALSE, "SIGTRAP", {"watchpoint"}, changed \/ p \in Watch) :
            p \in {q \in Reached : Ip(q) \notin bps /\ q \in Watch \cup FalseWatch}},
         {Stop(p + 1, FALSE, "emulated", {}, changed) :
            p \in {q \in Reached : Ip(q) \notin bps /\ q \in Cpuid}},
         {Stop(p, FALSE, "TIME_SLICE", {}, changed) :
            p \in {q \in Reached : TimeSlice(q, period)}},
         {[Stop(p, FALSE, "TIME_SLICE", {}, changed) EXCEPT !.stray = TRUE] :
            p \in {q \in Reached : strays < MaxStray}},
         {Stop(p, FALSE, "syscall", {}, changed) :
            p \in {q \in Reached : q = Last /\ Ip(q) \notin bps}}}

(* PTRACE_SINGLESTEP. *)
SinglestepStop(bps) ==
  IF Ip(pos) \in bps
  THEN Stop(pos, TRUE, "SIGTRAP", {"singlestep", "breakpoint"}, changed)
  ELSE IF pos \in Cpuid
  THEN Stop(pos, FALSE, "SIGSEGV", {}, changed)
  ELSE IF pos = Last
  THEN Stop(pos, FALSE, "syscall", {}, changed)
  ELSE Stop(pos + 1, FALSE, "SIGTRAP",
            {"singlestep"} \cup
            (IF pos \in Watch \cup FalseWatch THEN {"watchpoint"} ELSE {}),
            changed \/ pos \in Watch)

(* Mutant: the iterations are not bounded by the states to stop before. *)
FastForwardStopsUnbounded(bps, states) ==
  LET first == SinglestepStop(bps)
      More(p) == /\ \A q \in pos .. p : Ip(q) = Ip(pos)
                 /\ \A q \in pos .. p - 1 : q \notin Watch \cup FalseWatch
  IN  {first} \cup
      {[first EXCEPT !.pos = p] :
         p \in {q \in pos + 2 .. Last :
                  first.sig = "SIGTRAP" /\ Ip(pos) \notin bps /\ More(q)}}

(* Mutant: the iterations are not bounded by the watchpoints. *)
FastForwardStopsOverWatch(bps, states) ==
  LET first == SinglestepStop(bps)
      More(p) == /\ \A q \in pos .. p : Ip(q) = Ip(pos)
                 /\ \A q \in pos + 1 .. p : Regs(q) \notin states
  IN  {first} \cup
      {[first EXCEPT !.pos = p] :
         p \in {q \in pos + 2 .. Last :
                  first.sig = "SIGTRAP" /\ Ip(pos) \notin bps /\ More(q)}}

(***************************************************************************)
(* fast_forward_through_instruction: one single step and, when that leaves  *)
(* the tracee inside a string instruction, any number of its iterations     *)
(* that reach neither a state in states nor a watchpoint.                   *)
(***************************************************************************)
FastForwardStops(bps, states) ==
  LET first == SinglestepStop(bps)
      More(p) == /\ \A q \in pos .. p : Ip(q) = Ip(pos)
                 /\ \A q \in pos .. p - 1 : q \notin Watch \cup FalseWatch
                 /\ \A q \in pos + 1 .. p : Regs(q) \notin states
  IN  {first} \cup
      {[first EXCEPT !.pos = p] :
         p \in {q \in pos + 2 .. Last :
                  first.sig = "SIGTRAP" /\ Ip(pos) \notin bps /\ More(q)}}

(* handle_unrecorded_cpuid_fault for a stop of a single step. *)
EmulateCpuid(o) ==
  IF o.sig = "SIGSEGV"
  THEN Stop(o.pos + 1, FALSE, "SIGTRAP", {"singlestep"}, o.changed)
  ELSE o

(* continue_or_step: the stops the caller's command can lead to. *)
continue_or_step(bps, period) ==
  CASE command = "RUN_CONTINUE" -> ContinueStops(bps, period)
    [] command = "RUN_SINGLESTEP" -> {EmulateCpuid(SinglestepStop(bps))}
    [] command = "RUN_SINGLESTEP_FAST_FORWARD" ->
         {EmulateCpuid(o) : o \in FastForwardStops(bps, {})}

-----------------------------------------------------------------------------
(* The function. *)

ticks_left(p) == Ticks(target) - Ticks(p)

(* Mutant: equal registers are enough. *)
is_same_execution_point_any_ticks(p, past) == ~past /\ Regs(p) = Regs(target)

is_same_execution_point(p, past) ==
  ~past /\ ticks_left(p) = 0 /\ Regs(p) = Regs(target)

(* The tracee has stopped as o says; ok is false when an ASSERT failed. *)
Stopped(o, ok) ==
  /\ pos' = o.pos
  /\ bp_past' = o.past
  /\ stop_sig' = o.sig
  /\ reasons' = o.why
  /\ changed' = o.changed
  /\ strays' = strays + (IF o.stray THEN 1 ELSE 0)
  /\ asserted' = (asserted \/ ~ok)

(* What guard_unexpected_signal and check_pending_sig let pass. *)
Expected(o) == o.sig \in {"SIGTRAP", "TIME_SLICE", "emulated"}

Return(value) ==
  /\ pc' = "return"
  /\ result' = value

(* Mutant: the interrupt is programmed for the target itself. *)
TicksRequestWithoutSlack == ticks_left(pos)

(* How many ticks the interrupt is programmed for. *)
TicksRequest == ticks_left(pos) - SkidSize

(* Step 1: while far from the target, run until an interrupt comes. *)
Advance ==
  /\ pc = "advance" /\ ~asserted
  /\ ticks_left(pos) - SkidSize > SkidSize
  /\ \E o \in continue_or_step(Breakpoints(FALSE), TicksRequest) :
       /\ Stopped(o, Expected(o))
       /\ IF o.sig = "SIGTRAP" THEN Return("INCOMPLETE")
                               ELSE UNCHANGED <<pc, result>>
  /\ UNCHANGED <<given, internal, pending, sigtrap_command>>

AdvanceDone ==
  /\ pc = "advance" /\ ~asserted
  /\ ticks_left(pos) - SkidSize <= SkidSize
  /\ asserted' = (ticks_left(pos) < 0)
  /\ pc' = "seek"
  /\ UNCHANGED <<given, tracee, internal, pending, sigtrap_command, result,
                 strays>>

(* Mutant: any breakpoint is taken for one of the debugger's. *)
DebuggerTrapAnyBreakpoint ==
  \/ is_singlestep(command)
  \/ "watchpoint" \in reasons /\ changed
  \/ "breakpoint" \in reasons

(* Whether the debugger asked for the stop: a single step, a watched value   *)
(* that changed, or one of its breakpoints.                                  *)
DebuggerTrap ==
  \/ is_singlestep(command)
  \/ "watchpoint" \in reasons /\ changed
  \/ "breakpoint" \in reasons /\ Ip(pos) \in user

(* Case 0: a debugger trap. *)
SeekDebuggerTrap ==
  /\ pc = "seek" /\ ~asserted
  /\ pending /\ DebuggerTrap
  /\ asserted' = (is_singlestep(command) /\ "singlestep" \notin reasons)
  /\ internal' = FALSE
  /\ Return("INCOMPLETE")
  /\ UNCHANGED <<given, tracee, pending, sigtrap_command, strays>>

(* Case 1: the internal breakpoint; undo its execution and look again. *)
SeekInternalTrap ==
  /\ pc = "seek" /\ ~asserted
  /\ pending /\ ~DebuggerTrap /\ "breakpoint" \in reasons
  /\ asserted' = ~(internal /\ bp_past /\ Ip(pos) = Ip(target)
                   /\ "singlestep" \notin reasons
                   /\ ~is_same_execution_point(pos, bp_past))
  /\ pending' = FALSE
  /\ bp_past' = FALSE
  /\ UNCHANGED <<given, pos, stop_sig, reasons, changed, internal,
                 sigtrap_command, pc, result, strays>>

(* Any other trap is one of our own, or a watchpoint that saw no change. *)
OwnTrap == pending /\ ~DebuggerTrap /\ "breakpoint" \notin reasons
OwnTrapExplained ==
  OwnTrap => IF "singlestep" \in reasons THEN is_singlestep(sigtrap_command)
                                         ELSE "watchpoint" \in reasons

(* Case 2: at the target. *)
SeekAtTarget ==
  /\ pc = "seek" /\ ~asserted
  /\ ~pending \/ OwnTrap
  /\ is_same_execution_point(pos, bp_past)
  /\ asserted' = ~OwnTrapExplained
  /\ internal' = FALSE
  /\ Return("COMPLETE")
  /\ UNCHANGED <<given, tracee, pending, sigtrap_command, strays>>

(* Having resumed: a stop must be expected, or be at the target; and the     *)
(* target's ticks must not have been passed (guard_overshoot).               *)
SeekStopped(o) ==
  /\ Stopped(o, /\ OwnTrapExplained
                /\ o.sig # "syscall"
                /\ is_same_execution_point(o.pos, o.past) \/ Expected(o)
                /\ ticks_left(o.pos) >= 0)
  /\ pending' = (o.sig = "SIGTRAP")

(* Mutant: the breakpoint is set even under the tracee's own $ip. *)
SeekToIpFromAnywhere ==
  /\ pc = "seek" /\ ~asserted
  /\ ~pending \/ OwnTrap
  /\ ~is_same_execution_point(pos, bp_past)
  /\ internal' = TRUE
  /\ \E o \in continue_or_step(Breakpoints(TRUE), -1) : SeekStopped(o)
  /\ sigtrap_command' = command
  /\ UNCHANGED <<given, pc, result>>

(* Case 4: away from the target's $ip; run to it. *)
SeekToIp ==
  /\ pc = "seek" /\ ~asserted
  /\ ~pending \/ OwnTrap
  /\ ~is_same_execution_point(pos, bp_past)
  /\ Ip(pos) # Ip(target)
  /\ internal' = TRUE
  /\ \E o \in continue_or_step(Breakpoints(TRUE), -1) : SeekStopped(o)
  /\ sigtrap_command' = command
  /\ UNCHANGED <<given, pc, result>>

(* Mutant: the debugger's single step is treated like an internal one. *)
StepsForDebuggerAtBreakpointOnly == Ip(pos) \in user

(* Whether case 3 does what the debugger asked for, or steps internally. *)
StepsForDebugger == command = "RUN_SINGLESTEP" \/ Ip(pos) \in user

(* Case 3: at the target's $ip, but not at the target; step over it. *)
SeekOverIp ==
  /\ pc = "seek" /\ ~asserted
  /\ ~pending \/ OwnTrap
  /\ ~is_same_execution_point(pos, bp_past)
  /\ Ip(pos) = Ip(target)
  /\ internal' = FALSE
  /\ IF StepsForDebugger
     THEN /\ \E o \in continue_or_step(Breakpoints(FALSE), -1) : SeekStopped(o)
          /\ sigtrap_command' = command
     ELSE /\ \E o \in FastForwardStops(Breakpoints(FALSE), {Regs(target)}) :
               SeekStopped(o)
          /\ sigtrap_command' = "RUN_SINGLESTEP_FAST_FORWARD"
  /\ UNCHANGED <<given, pc, result>>

Seek ==
  \/ SeekDebuggerTrap \/ SeekInternalTrap \/ SeekAtTarget
  \/ SeekToIp \/ SeekOverIp

emulate_async_signal == Advance \/ AdvanceDone \/ Seek

(* The call has returned, or the program was aborted by an ASSERT. *)
Done == (pc = "return" \/ asserted) /\ UNCHANGED vars

Next == emulate_async_signal \/ Done

Spec == Init /\ [][Next]_vars

(* The function runs on one thread that nothing keeps from running. *)
FairSpec == Spec /\ WF_vars(emulate_async_signal)

-----------------------------------------------------------------------------
(* Properties. *)

(* The function's ASSERTs are true whenever they are reached: each trap has  *)
(* the cause the code infers for it, no signal or syscall comes unrecorded   *)
(* and guard_overshoot never finds ticks_left negative.                      *)
NoAssertFails == ~asserted

(* The tracee never executes an instruction beyond the recorded point, not   *)
(* even one that retires no branch and that ticks_left cannot see.           *)
NeverPastTarget == pos <= target

(* COMPLETE is returned only with the tracee at the recorded point itself,   *)
(* $ip undisturbed, with nothing left to tell the debugger.                  *)
CompleteAtTarget ==
  result = "COMPLETE" => pos = target /\ ~bp_past /\ ~changed

(* INCOMPLETE is returned only for a stop the debugger has asked for: the    *)
(* internal breakpoint and the internal single steps stay out of its sight.  *)
IncompleteForDebugger ==
  result = "INCOMPLETE" =>
    \/ is_singlestep(command)
    \/ bp_past /\ Ip(pos) \in user
    \/ "watchpoint" \in reasons

(* No instruction the debugger has a breakpoint on is executed under it, by  *)
(* whatever mixture of continuing, stepping and fast-forwarding.             *)
NoUserBreakpointMissed ==
  [][\A q \in pos .. pos' - 1 : Ip(q) \notin user]_vars

(* A write to a watched value is noticed in the step in which it happens. *)
NoChangeMissed == [][(\E q \in pos .. pos' - 1 : q \in Watch) => changed']_vars

(* A RUN_SINGLESTEP call executes at most one instruction. *)
OneInstruction ==
  [][command = "RUN_SINGLESTEP" /\ pos' # pos => pos' = pos + 1 /\ ~pending]_vars

(* The function returns, however the interrupts, the breakpoints and the     *)
(* loop around the target's $ip fall.                                        *)
Returns == <>(pc = "return")

-----------------------------------------------------------------------------
(* The inductive invariant: what the variables say about the tracee when the *)
(* function is not at a return.                                              *)

TypeOK ==
  /\ target \in Targets /\ command \in Commands
  /\ pos \in Points
  /\ {bp_past, changed, internal, pending, asserted} \subseteq BOOLEAN
  /\ pc \in {"advance", "seek", "return"}
  /\ result \in {"none", "INCOMPLETE", "COMPLETE"}
  /\ sigtrap_command \in {"RUN_CONTINUE", "RUN_SINGLESTEP", "RUN_SINGLESTEP_FAST_FORWARD"}

(* While far from the target, nothing has been seen that is not reported. *)
AdvanceClean == pc = "advance" => ~bp_past /\ ~changed /\ ~pending

(* pending_SIGTRAP is set exactly while $ip may be one past a breakpoint, and *)
(* that is a breakpoint that was set.                                        *)
TrapAgrees ==
  pc = "seek" =>
    /\ bp_past <=> pending /\ "breakpoint" \in reasons
    /\ bp_past => Ip(pos) \in Breakpoints(internal)

(* A change is pending until it has been told to the debugger. *)
ChangeAgrees == pc = "seek" /\ changed => pending /\ "watchpoint" \in reasons

(* Each pending trap has one of three causes, and SIGTRAP_run_command says   *)
(* whether it may have been a single step.                                   *)
CauseAgrees ==
  pc = "seek" /\ pending =>
    /\ reasons \cap {"breakpoint", "watchpoint", "singlestep"} # {}
    /\ "singlestep" \in reasons => is_singlestep(sigtrap_command)
    /\ is_singlestep(command) => "singlestep" \in reasons
    /\ {"singlestep", "breakpoint"} \subseteq reasons =>
         is_singlestep(command) \/ Ip(pos) \in user

ResultAgrees == result # "none" => pc = "return"

IndInv ==
  /\ TypeOK /\ NeverPastTarget /\ AdvanceClean /\ TrapAgrees /\ ChangeAgrees
  /\ CauseAgrees /\ ResultAgrees /\ CompleteAtTarget /\ IncompleteForDebugger
=============================================================================
