--------------------------- MODULE ReplaySession ---------------------------
(***************************************************************************)
(* ReplaySession::replay_step: replay a recorded trace frame by frame.      *)
(* Every call either sets up current_step for the current frame or tries    *)
(* the step: it runs the frame's task towards the recorded point, applies   *)
(* the recorded effects and retires the frame.                              *)
(*                                                                          *)
(* A task's execution is the sequence Code[t] of the addresses of the       *)
(* instructions it executes; pos[t] is the next one.  A frame records its   *)
(* task, the kind of event, and the position at which it happened.          *)
(* Signals and SCHED events are reached as module AsyncSignal shows.        *)
(***************************************************************************)
EXTENDS Integers, Sequences, FiniteSets

CONSTANTS
  Tasks,         \* the recorded tids; all share one address space
  Code,          \* task -> the addresses of the instructions it executes
  Syscalls,      \* addresses that hold a traced syscall instruction
  Branches,      \* addresses that hold a conditional branch: one tick each
  ReadOnly,      \* addresses in private, read-only memory
  Traces,        \* the traces to replay: sequences of frames
  FirstTasks,    \* the tasks alive at the start of the trace
  UserAddrs,     \* where the debugger may set breakpoints
  MaxStray,      \* bound: stray TIME_SLICE_SIGNALs
  MaxClones,     \* bound: checkpoints made
  None

Events == {"ENTER", "ENTER_PTRACE", "EXIT", "RESTART", "SCHED", "SIGNAL",
           "TRAP", "DELIVER", "FLUSH", "RESET", "PATCH", "TASK_EXIT"}

ASSUME TraceAssumption ==
  \A tr \in Traces : \A k \in 1 .. Len(tr) :
    /\ tr[k].tid \in Tasks
    /\ tr[k].event \in Events
    /\ tr[k].at \in 1 .. Len(Code[tr[k].tid])
    /\ tr[k].child \in Tasks \cup {None}

VARIABLES
  trace,        \* the trace being replayed
  frame,        \* trace_frame is trace[frame]; past the end: TRACE_TERMINATION
  action,       \* current_step.action
  pos, past,    \* where each task is; past: $ip is behind a breakpoint at pos
  insys,        \* whether each task is between syscall entry and exit
  live,         \* task_map
  syscall_bp,   \* syscall_bp_addr, None without syscall_bp_vm
  user,         \* addresses with a BKPT_USER breakpoint
  muplay_mode,  \* flags_.muplay_mode
  status,       \* of the last ReplayResult
  fault,        \* "ASSERT": an ASSERT failed.  "wild": a task was resumed in
                \* the middle of an instruction, which may do anything
  strays, clones

tracee == <<pos, past, insys>>
bounds == <<strays, clones>>
vars == <<trace, frame, action, tracee, live, syscall_bp, user, muplay_mode,
          status, fault, bounds>>

Init ==
  /\ trace \in Traces
  /\ frame = 1
  /\ action = "TSTEP_NONE"
  /\ pos = [t \in Tasks |-> 1]
  /\ past = [t \in Tasks |-> FALSE]
  /\ insys = [t \in Tasks |-> FALSE]
  /\ live = FirstTasks
  /\ syscall_bp = None
  /\ user = {}
  /\ muplay_mode = FALSE
  /\ status = "REPLAY_CONTINUE"
  /\ fault = "none"
  /\ strays = 0 /\ clones = 0

(* Where the trace says the task was when it recorded frame f: a syscall     *)
(* entry is recorded behind the syscall instruction.                         *)
RecordedPos(f) == IF f.event \in {"ENTER", "ENTER_PTRACE"} THEN f.at + 1 ELSE f.at

tick_count(t, p) == Cardinality({q \in 1 .. p - 1 : Code[t][q] \in Branches})

at_end == frame > Len(trace)
current_task == trace[frame].tid

-----------------------------------------------------------------------------
(* Running a task. *)

(* Task t runs freely up to p when no breakpoint and no syscall is before p. *)
RunsTo(t, p, bps) ==
  \A q \in pos[t] .. p - 1 : Code[t][q] \notin bps \cup Syscalls

(* The ways a run of t can stop: at a breakpoint, at a traced syscall, at    *)
(* the place dest where the tracee stops for the frame itself (None: no such *)
(* place), or because of a stray counter interrupt.                          *)
Stops(t, bps, dest) ==
  LET Reached == {p \in pos[t] .. Len(Code[t]) :
                    /\ RunsTo(t, p, bps)
                    /\ dest = None \/ p <= dest}
  IN  UNION {{[why |-> "trap", at |-> p] : p \in {q \in Reached : Code[t][q] \in bps}},
             {[why |-> "syscall", at |-> p] :
                p \in {q \in Reached : q # dest /\ Code[t][q] \in Syscalls \ bps}},
             {[why |-> "dest", at |-> p] :
                p \in {q \in Reached : q = dest /\ Code[t][q] \notin bps}},
             {[why |-> "stray", at |-> p] : p \in {q \in Reached : strays < MaxStray}}}

(* The result of a step: how it ended, the state it leaves, and whether      *)
(* enter_syscall gets to rep_after_enter_syscall.                            *)
Outcome(completion, p, behind, in, bp, ok) ==
  [completion |-> completion, pos |-> p, past |-> behind, insys |-> in,
   bp |-> bp, ok |-> ok, stray |-> FALSE, after |-> completion = "COMPLETE"]

(* A run cut short by stop s. *)
Interrupted(s, bp, ok) ==
  [Outcome("INCOMPLETE", s.at, s.why = "trap", FALSE, bp, ok)
     EXCEPT !.stray = (s.why = "stray")]

-----------------------------------------------------------------------------
(* The steps, each as the set of its outcomes for the current frame f. *)

(* The syscall breakpoint was hit: the entry is emulated and it is cleared. *)
ReachedSyscall(s, bp, ok) == Outcome("COMPLETE", s.at + 1, FALSE, TRUE, None, ok)

enter_syscall(t, f) ==
  IF insys[t] /\ pos[t] = RecordedPos(f)
  THEN {Outcome("COMPLETE", pos[t], FALSE, TRUE, syscall_bp, f.event = "ENTER")}
  ELSE LET insn == Code[t][f.at]
           own == syscall_bp \in {None, insn}
           bp == IF syscall_bp = None /\ insn \in ReadOnly THEN insn ELSE syscall_bp
           Result(s) ==
             CASE s.why = "trap" /\ Code[t][s.at] = bp /\ bp \notin user ->
                    ReachedSyscall(s, bp, own /\ s.at = f.at)
               [] s.why = "syscall" /\ muplay_mode ->
                    [Outcome("COMPLETE", s.at + 1, FALSE, TRUE, bp, own)
                       EXCEPT !.after = FALSE]
               [] s.why = "syscall" /\ ~muplay_mode ->
                    Outcome("COMPLETE", s.at + 1, FALSE, TRUE, bp,
                            own /\ bp = None /\ s.at = f.at)
               [] OTHER -> Interrupted(s, bp, own)
       IN  {Result(s) : s \in Stops(t, user \cup ({bp} \ {None}), None)}

(* The task's state must be the recorded one once the result is in place. *)
exit_syscall(t, f) ==
  {Outcome("COMPLETE", pos[t], past[t], FALSE, syscall_bp,
           insys[t] /\ pos[t] = RecordedPos(f) /\ ~past[t])}

(* Mutant: the run is stopped one instruction late. *)
emulate_signal_late(t, f) ==
  IF pos[t] = f.at /\ ~past[t]
  THEN {Outcome("COMPLETE", f.at, FALSE, FALSE, syscall_bp, TRUE)}
  ELSE {IF s.why = "trap" THEN Interrupted(s, syscall_bp, TRUE)
        ELSE Outcome("COMPLETE", s.at + 1, FALSE, FALSE, syscall_bp, s.why = "dest") :
          s \in {x \in Stops(t, user, f.at) : x.why # "stray"}}

(* Both signal steps: already there, or run to the point; counter interrupts *)
(* are ignored on the way, breakpoints are not.                              *)
emulate_signal(t, f) ==
  IF pos[t] = f.at /\ ~past[t]
  THEN {Outcome("COMPLETE", f.at, FALSE, FALSE, syscall_bp, TRUE)}
  ELSE {IF s.why = "trap" THEN Interrupted(s, syscall_bp, TRUE)
        ELSE Outcome("COMPLETE", s.at, FALSE, FALSE, syscall_bp, s.why = "dest") :
          s \in {x \in Stops(t, user, f.at) : x.why # "stray"}}

(* The registers are set to the recorded ones, $ip among them. *)
emulate_signal_delivery(t, f) ==
  {Outcome("COMPLETE", RecordedPos(f), FALSE, FALSE, syscall_bp, TRUE)}

flush_syscallbuf(t, f) ==
  {IF s.why = "dest"
   THEN Outcome("COMPLETE", s.at, FALSE, FALSE, syscall_bp, TRUE)
   ELSE Interrupted(s, syscall_bp, s.why # "syscall") : s \in Stops(t, user, f.at)}

(* Mutant: the task is left behind the syscall it is to execute again. *)
patch_next_syscall_without_restart(t, f) ==
  {IF s.why = "syscall"
   THEN Outcome("COMPLETE", s.at + 1, FALSE, FALSE, syscall_bp, TRUE)
   ELSE Interrupted(s, syscall_bp, TRUE) : s \in Stops(t, user, None)}

(* The syscall is not entered: it is patched, and executed again. *)
patch_next_syscall(t, f) ==
  {IF s.why = "syscall"
   THEN Outcome("COMPLETE", s.at, FALSE, FALSE, syscall_bp, TRUE)
   ELSE Interrupted(s, syscall_bp, TRUE) : s \in Stops(t, user, None)}

Resuming == {"TSTEP_ENTER_SYSCALL", "TSTEP_DETERMINISTIC_SIGNAL",
             "TSTEP_PROGRAM_ASYNC_SIGNAL_INTERRUPT", "TSTEP_FLUSH_SYSCALLBUF",
             "TSTEP_PATCH_SYSCALL"}

try_one_trace_step(t, f) ==
  CASE action = "TSTEP_ENTER_SYSCALL" -> enter_syscall(t, f)
    [] action = "TSTEP_EXIT_SYSCALL" -> exit_syscall(t, f)
    [] action \in {"TSTEP_DETERMINISTIC_SIGNAL",
                   "TSTEP_PROGRAM_ASYNC_SIGNAL_INTERRUPT"} -> emulate_signal(t, f)
    [] action = "TSTEP_DELIVER_SIGNAL" -> emulate_signal_delivery(t, f)
    [] action = "TSTEP_FLUSH_SYSCALLBUF" -> flush_syscallbuf(t, f)
    [] action = "TSTEP_PATCH_SYSCALL" -> patch_next_syscall(t, f)
    [] action \in {"TSTEP_RETIRE", "TSTEP_EXIT_TASK"} ->
         {Outcome("COMPLETE", pos[t], past[t], insys[t], syscall_bp, TRUE)}

-----------------------------------------------------------------------------
(* replay_step. *)

(* Mutant: nothing is set up for a syscallbuf reset. *)
StepActionWithoutReset(event) ==
  CASE event \in {"ENTER", "ENTER_PTRACE"} -> "TSTEP_ENTER_SYSCALL"
    [] event = "EXIT" -> "TSTEP_EXIT_SYSCALL"
    [] event = "RESTART" -> "TSTEP_RETIRE"
    [] event \in {"SCHED", "SIGNAL"} -> "TSTEP_PROGRAM_ASYNC_SIGNAL_INTERRUPT"
    [] event = "TRAP" -> "TSTEP_DETERMINISTIC_SIGNAL"
    [] event = "DELIVER" -> "TSTEP_DELIVER_SIGNAL"
    [] event = "FLUSH" -> "TSTEP_FLUSH_SYSCALLBUF"
    [] event = "PATCH" -> "TSTEP_PATCH_SYSCALL"
    [] event = "TASK_EXIT" -> "TSTEP_EXIT_TASK"
    [] OTHER -> "TSTEP_NONE"

(* What setup_replay_one_trace_frame makes of each kind of event. *)
StepAction(event) ==
  CASE event \in {"ENTER", "ENTER_PTRACE"} -> "TSTEP_ENTER_SYSCALL"
    [] event = "EXIT" -> "TSTEP_EXIT_SYSCALL"
    [] event \in {"RESTART", "RESET"} -> "TSTEP_RETIRE"
    [] event \in {"SCHED", "SIGNAL"} -> "TSTEP_PROGRAM_ASYNC_SIGNAL_INTERRUPT"
    [] event = "TRAP" -> "TSTEP_DETERMINISTIC_SIGNAL"
    [] event = "DELIVER" -> "TSTEP_DELIVER_SIGNAL"
    [] event = "FLUSH" -> "TSTEP_FLUSH_SYSCALLBUF"
    [] event = "PATCH" -> "TSTEP_PATCH_SYSCALL"
    [] event = "TASK_EXIT" -> "TSTEP_EXIT_TASK"

Running == fault = "none" /\ status = "REPLAY_CONTINUE"

StepExited ==
  /\ Running /\ at_end
  /\ status' = "REPLAY_EXITED"
  /\ UNCHANGED <<trace, frame, action, tracee, live, syscall_bp, user,
                 muplay_mode, fault, bounds>>

(* A frame of a task that is not there is fatal (revive_task_for_exec). *)
setup_replay_one_trace_frame ==
  /\ Running /\ ~at_end
  /\ action = "TSTEP_NONE"
  /\ action' = StepAction(trace[frame].event)
  /\ insys' = IF trace[frame].event = "RESTART"
              THEN [insys EXCEPT ![current_task] = FALSE] ELSE insys
  /\ fault' = IF current_task \in live THEN "none" ELSE "ASSERT"
  /\ UNCHANGED <<trace, frame, pos, past, live, syscall_bp, user, muplay_mode,
                 status, bounds>>

(* check_ticks_consistency, for the events and steps it applies to. *)
TicksConsistent(t, f, p) ==
  \/ muplay_mode
  \/ f.event \in {"FLUSH", "RESET", "TASK_EXIT"}
  \/ action = "TSTEP_PROGRAM_ASYNC_SIGNAL_INTERRUPT"
  \/ tick_count(t, p) = tick_count(t, RecordedPos(f))

(* Mutant: every syscall entry makes a new task. *)
ClonedAlways(f, o) == IF f.event = "ENTER" /\ o.after THEN {f.child} ELSE {}

(* rep_after_enter_syscall makes the new task of a clone at its entry; it is *)
(* not reached when enter_syscall returns early in muplay_mode.              *)
Cloned(f, o) == IF f.event = "ENTER" /\ f.child # None /\ o.after THEN {f.child} ELSE {}

(* Mutant: a task leaves the session when its syscall exit is replayed. *)
SurvivorsOfAnyExit(t) ==
  IF action \in {"TSTEP_EXIT_TASK", "TSTEP_EXIT_SYSCALL"} THEN live \ {t} ELSE live

(* exit_task removes its task. *)
Survivors(t) == IF action = "TSTEP_EXIT_TASK" THEN live \ {t} ELSE live

(***************************************************************************)
(* The current step is tried, and the frame is retired.  What the step      *)
(* returned makes no difference: the test of it is                          *)
(*    if (try_trace_step) {} else if (try_trace_step == INCOMPLETE) ...     *)
(* and COMPLETE is the enumeration's zero.                                  *)
(***************************************************************************)
StepTried ==
  /\ Running /\ ~at_end
  /\ action # "TSTEP_NONE"
  /\ LET t == current_task
         f == trace[frame]
     IN  IF past[t] /\ action \in Resuming
         THEN /\ fault' = "wild"
              /\ UNCHANGED <<frame, action, tracee, live, syscall_bp, strays>>
         ELSE \E o \in try_one_trace_step(t, f) :
                /\ pos' = [pos EXCEPT ![t] = o.pos]
                /\ past' = [past EXCEPT ![t] = o.past]
                /\ insys' = [insys EXCEPT ![t] = o.insys]
                /\ syscall_bp' = o.bp
                /\ strays' = strays + (IF o.stray THEN 1 ELSE 0)
                /\ live' = Survivors(t) \cup Cloned(f, o)
                /\ fault' = IF o.ok /\ TicksConsistent(t, f, o.pos)
                            THEN "none" ELSE "ASSERT"
                /\ frame' = frame + 1
                /\ action' = "TSTEP_NONE"
  /\ UNCHANGED <<trace, user, muplay_mode, status, clones>>

replay_step == StepExited \/ setup_replay_one_trace_frame \/ StepTried

(* A checkpoint is made between two steps (clone, can_clone). *)
clone ==
  /\ Running /\ ~at_end
  /\ clones < MaxClones
  /\ current_task \in live
  /\ trace[frame].event \notin {"TASK_EXIT", "FLUSH", "RESET"}
  /\ syscall_bp' = None
  /\ clones' = clones + 1
  /\ UNCHANGED <<trace, frame, action, tracee, live, user, muplay_mode, status,
                 fault, strays>>

(* The debugger changes its breakpoints between two steps. *)
Debugger ==
  /\ Running
  /\ \E a \in UserAddrs :
       user' = IF a \in user THEN user \ {a} ELSE user \cup {a}
  /\ UNCHANGED <<trace, frame, action, tracee, live, syscall_bp, muplay_mode,
                 status, fault, bounds>>

Done == ~Running /\ UNCHANGED vars

Next == replay_step \/ clone \/ Debugger \/ Done

Spec == Init /\ [][Next]_vars

(* The caller's loop calls replay_step until REPLAY_EXITED. *)
FairSpec == Spec /\ WF_vars(replay_step)

-----------------------------------------------------------------------------
(* Properties. *)

Actions == {StepAction(e) : e \in Events} \cup {"TSTEP_NONE"}

(* Every variable of the session has its type. *)
TypeOK ==
  /\ frame \in 1 .. Len(trace) + 1
  /\ action \in Actions
  /\ pos \in [Tasks -> Nat]
  /\ past \in [Tasks -> BOOLEAN]
  /\ insys \in [Tasks -> BOOLEAN]
  /\ live \subseteq Tasks
  /\ syscall_bp = None \/ \E t \in Tasks : \E p \in DOMAIN Code[t] : syscall_bp = Code[t][p]
  /\ user \subseteq UserAddrs
  /\ muplay_mode \in BOOLEAN
  /\ status \in {"REPLAY_CONTINUE", "REPLAY_EXITED"}
  /\ fault \in {"none", "ASSERT", "wild"}
  /\ strays \in 0 .. MaxStray /\ clones \in 0 .. MaxClones

(* Replay of a trace never diverges from it: no register or tick check of    *)
(* the session fails, no frame names a task that is not there, and no task   *)
(* is resumed behind a breakpoint instruction.                               *)
NoFault == fault = "none"

(* A step that is "made" has been made ("Return COMPLETE if |step| was made, *)
(* or INCOMPLETE if there was a trap or |step| needs more work"): a frame is *)
(* retired only with its task at the recorded point of that frame.           *)
RetiredWhenReached ==
  [][frame' = frame + 1 /\ trace[frame].event \notin {"RESET", "TASK_EXIT"} =>
       /\ pos'[current_task] = RecordedPos(trace[frame])
       /\ ~past'[current_task]]_vars

(* "Outside of replay_step, no internal breakpoints will be set for any task *)
(* in this session."                                                         *)
NoInternalBreakpointOutside == syscall_bp = None

(* A task never runs ahead of the frames of its own that are still to come:  *)
(* what other tasks' frames do in between finds it where it was recorded.    *)
NeverAhead ==
  \A k \in frame .. Len(trace) :
    trace[k].event # "RESET" => pos[trace[k].tid] <= RecordedPos(trace[k])

(* The whole trace is replayed. *)
Ends == <>(status = "REPLAY_EXITED")
=============================================================================
