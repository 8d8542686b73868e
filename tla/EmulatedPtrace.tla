--------------------------- MODULE EmulatedPtrace ---------------------------
(***************************************************************************)
(* ptrace as the recorder emulates it.  rr itself is the one real ptracer  *)
(* of every recorded task, so when a recorded process uses ptrace on       *)
(* another one rr has to keep the relation itself (RecordTask.cc,          *)
(* record_syscall.cc): who traces whom, which stops a tracee is in, which  *)
(* of them the tracer has not waited for yet.  The tracer is told of a     *)
(* stop by a SIGCHLD that rr sends and whose siginfo it fills in when the  *)
(* kernel delivers it; that signal also gets the tracer out of a blocked   *)
(* wait, which rr then enters again and answers itself.                    *)
(*                                                                         *)
(* One process of tracers and one process of tracees are modelled.  A      *)
(* handler of rr is one action: rr runs one task at a time and decides     *)
(* itself when it lets another one run.  The kernel decides when a signal  *)
(* arrives and at which of the threads that may take it.                   *)
(***************************************************************************)
EXTENDS FiniteSets, Sequences, SequencesExt

CONSTANTS Tracers,      \* the threads of the tracing process
          Leader,       \* the one its children see as their parent
          Tracees,      \* the threads of the traced process
          Main,         \* the first of them; the others are cloned
          Own,          \* is the traced process a child of the tracers'?
          Requests,     \* the waits the tracers make
          TraceExit,    \* the tracees PTRACE_O_TRACEEXIT is set for
          MaxSteps      \* how many calls the programs make and signals they send

(* What the constants are. *)
PtraceAssumption == Leader \in Tracers /\ Main \in Tracees /\ Own \in BOOLEAN

VARIABLES tracee, tracer,
          shared,       \* a SIGCHLD is pending for the tracers' process
          steps,
          fault         \* an ASSERT of rr that failed

vars == <<tracee, tracer, shared, fault>>

None == "none"

(* Whether its tracer has been told of a tracee's exit ("told"): it may    *)
(* also have resumed it, have come when the exit had already begun, or     *)
(* have been told of PTRACE_EVENT_EXIT first.                              *)
Late(t) == IF t.at = "exiting" THEN "late" ELSE t.told

(* What a tracee is doing: running its program; stopped where a call       *)
(* begins (ENTERING_SYSCALL_PTRACE); kept by rr inside a call (it was not  *)
(* continued in syscall_state_changed); let go from there; gone.           *)
Places == {"unborn", "user", "entry", "held", "leaving", "exiting", "dead"}

Commands == {"PTRACE_CONT", "PTRACE_SYSCALL", "PTRACE_SYSEMU"}

NewTask == [at |-> "unborn", ptracer |-> None, options |-> {},
            stop |-> "NOT_STOPPED", code |-> "", pending |-> FALSE,
            ptraceSIGCHLD |-> FALSE, SIGCHLD |-> FALSE, queuedExit |-> FALSE,
            command |-> "", exits |-> FALSE, signal |-> "",
            incoming |-> {}, orphan |-> FALSE, told |-> "no"]

NoWait == [type |-> "NONE", pid |-> None, options |-> {}]

NewTracer == [at |-> "run", wait |-> NoWait, thread |-> FALSE, slice |-> FALSE,
              stashed |-> FALSE, blocked |-> FALSE]

State == [tracee |-> tracee, tracer |-> tracer, shared |-> shared,
          fault |-> fault]

Become(st) == /\ tracee' = st.tracee
              /\ tracer' = st.tracer
              /\ shared' = st.shared
              /\ fault' = st.fault

Failed(st, what) == [st EXCEPT !.fault = what]

(***************************************************************************)
(* Who waits for whom                                                      *)
(***************************************************************************)

(* RecordTask::is_waiting_for_ptrace: there is one tracing process, and a  *)
(* process group is not told from it.                                      *)
is_waiting_for_ptrace(w, st, c) ==
    /\ st.tracee[c].ptracer # None
    /\ \/ w.wait.type = "ANY"
       \/ w.wait.type = "PID" /\ w.wait.pid = c

(* RecordTask::is_waiting_for: a child is waited for by its process id.    *)
is_waiting_for(w, c) ==
    /\ Own
    /\ \/ w.wait.type = "ANY"
       \/ w.wait.type = "PID" /\ w.wait.pid = Main

(***************************************************************************)
(* Notifying the tracer                                                    *)
(***************************************************************************)

(* The threads that could be woken: those that wait for a tracee of p with *)
(* an unreported stop, or, when there is no such tracee, for a child.      *)
WakeTasks(st, p) ==
    LET mine == {c \in Tracees : st.tracee[c].ptracer = p
                                 /\ st.tracee[c].ptraceSIGCHLD}
        children == {c \in Tracees : Own /\ st.tracee[c].SIGCHLD}
    IN IF mine # {}
       THEN {t \in Tracers : \E c \in mine :
                is_waiting_for_ptrace(st.tracer[t], st, c)}
       ELSE {t \in Tracers : \E c \in children :
                is_waiting_for(st.tracer[t], c)}

Owed(st, p) == \E c \in Tracees : \/ st.tracee[c].ptracer = p
                                     /\ st.tracee[c].ptraceSIGCHLD
                                  \/ Own /\ st.tracee[c].SIGCHLD

(* A signal to a thread that blocks SIGCHLD gets no TIME_SLICE_SIGNAL.     *)
NoSlice(st, p) ==
    IF ~Owed(st, p) THEN {st}
    ELSE IF WakeTasks(st, p) = {} THEN {[st EXCEPT !.shared = TRUE]}
    ELSE {[st EXCEPT !.tracer[t].thread = TRUE] : t \in WakeTasks(st, p)}

(* RecordTask::send_synthetic_SIGCHLD_if_necessary of thread p: SIGCHLD to *)
(* a thread that waits, with a TIME_SLICE_SIGNAL if it blocks SIGCHLD,     *)
(* else to the process.  A signal that is already pending swallows it.     *)
send_synthetic_SIGCHLD(st, p) ==
    IF ~Owed(st, p) THEN {st}
    ELSE IF WakeTasks(st, p) = {} THEN {[st EXCEPT !.shared = TRUE]}
    ELSE {[st EXCEPT !.tracer[t].thread = TRUE,
                     !.tracer[t].slice = @ \/ st.tracer[t].blocked] :
            t \in WakeTasks(st, p)}

(* RecordTask::force_emulate_ptrace_stop.                                  *)
force_emulate_ptrace_stop(st, c, type, code) ==
    send_synthetic_SIGCHLD(
        [st EXCEPT !.tracee[c].stop = type, !.tracee[c].code = code,
                   !.tracee[c].pending = TRUE,
                   !.tracee[c].ptraceSIGCHLD = TRUE],
        st.tracee[c].ptracer)

(* RecordTask::emulate_ptrace_stop: nothing for a task nobody traces.      *)
emulate_ptrace_stop(st, c, type, code) ==
    IF st.tracee[c].stop # "NOT_STOPPED" THEN {Failed(st, "already stopped")}
    ELSE IF st.tracee[c].ptracer = None THEN {st}
    ELSE force_emulate_ptrace_stop(st, c, type, code)

SignalStop(st, c, code) == emulate_ptrace_stop(st, c, "SIGNAL_DELIVERY_STOP", code)

(* RecordTask::apply_group_stop: a task that is not traced stops too, and  *)
(* its parent is told.                                                     *)
apply_group_stop(st, c) ==
    IF st.tracee[c].stop # "NOT_STOPPED" THEN {st}
    ELSE IF st.tracee[c].ptracer # None
    THEN emulate_ptrace_stop(st, c, "GROUP_STOP", "group")
    ELSE LET now == [st EXCEPT !.tracee[c].stop = "GROUP_STOP",
                               !.tracee[c].code = "group",
                               !.tracee[c].pending = TRUE,
                               !.tracee[c].SIGCHLD = TRUE]
         IN IF Own THEN send_synthetic_SIGCHLD(now, Leader) ELSE {now}

Alive(st) == {c \in Tracees : st.tracee[c].at \notin {"unborn", "dead"}}

(* The threads of the process are stopped one after the other.             *)
StopGroup(st) ==
    FoldLeft(LAMBDA sts, c : UNION {apply_group_stop(s, c) : s \in sts},
             {st}, SetToSeq(Alive(st)))

(* RecordTask::emulate_SIGCONT: every thread of the process is resumed,    *)
(* whatever stop it is in.                                                 *)
emulate_SIGCONT(st) ==
    [st EXCEPT !.tracee =
        [c \in Tracees |->
            IF c \in Alive(st)
            THEN [@[c] EXCEPT !.pending = FALSE, !.stop = "NOT_STOPPED",
                              !.told = IF @ # "yes" /\ st.tracee[c].code = "exited"
                                       THEN "resumed" ELSE @]
            ELSE @[c]]]

(* RecordTask::signal_delivered of a tracee; USR has a handler.  A tracee  *)
(* has no tracees or children of its own here.                             *)
signal_delivered(st, sig) ==
    CASE sig = "STOP" -> StopGroup(st)
      [] sig = "CONT" -> {emulate_SIGCONT(st)}
      [] OTHER -> {st}

(***************************************************************************)
(* Waiting                                                                 *)
(***************************************************************************)

(* What maybe_emulate_wait finds for thread w: a stop of one of its own    *)
(* tracees it has not been told of, else a group stop of a child.          *)
Waitable(st, w) ==
    LET t == st.tracer[w]
        traced == {c \in Tracees : /\ st.tracee[c].ptracer = w
                                   /\ is_waiting_for_ptrace(t, st, c)
                                   /\ st.tracee[c].pending}
    IN IF traced # {} THEN traced
       ELSE {c \in Alive(st) : /\ "WUNTRACED" \in t.wait.options
                               /\ st.tracee[c].stop = "GROUP_STOP"
                               /\ st.tracee[c].pending
                               /\ is_waiting_for(t, c)}

Returned(st, w) == [st EXCEPT !.tracer[w].at = "run", !.tracer[w].wait = NoWait]

(* The exit of a wait that was answered with child c (rec_process_syscall):*)
(* a task that is kept for its exit status goes on exiting, and the stop   *)
(* is reported; a parent's wait stands for the whole process.              *)
wait_exit(st, w, c) ==
    LET child == st.tracee[c]
        keep == "WNOWAIT" \in st.tracer[w].wait.options
        done == Returned(st, w)
        goes == child.code = "exited"
        reported == IF child.ptracer = w THEN {c} ELSE Tracees
    IN IF keep THEN done
       ELSE IF goes /\ child.at \notin {"held", "exiting"}
       THEN Failed(done, "exit status of a task that is not exiting")
       ELSE [done EXCEPT !.tracee =
                [d \in Tracees |->
                    [@[d] EXCEPT !.pending = IF d \in reported THEN FALSE ELSE @,
                                 !.at = IF d = c /\ goes THEN "exiting" ELSE @,
                                 !.told = IF d = c /\ goes THEN "yes" ELSE @]]]

(* Whether the kernel's own wait (or the pause that replaces it, see       *)
(* maybe_pause_instead_of_waiting) blocks: it does not know the emulated   *)
(* tracees, but a specific one is waited for in pause.                     *)
Blocks(st, w) ==
    LET t == st.tracer[w]
    IN \/ Own /\ Alive(st) # {} /\ (t.wait.type = "ANY" \/ t.wait.pid = Main)
       \/ /\ t.wait.type = "PID"
          /\ is_waiting_for_ptrace(t, st, t.wait.pid)
          /\ st.tracee[t.wait.pid].at # "dead"

(* The entry of waitpid, wait4 or waitid, from its beginning or again      *)
(* after a signal interrupted it.  rr lets no other task run when it       *)
(* answers the wait itself.                                                *)
rec_prepare_wait(st, w) ==
    IF Waitable(st, w) # {} THEN {wait_exit(st, w, c) : c \in Waitable(st, w)}
    ELSE IF "WNOHANG" \in st.tracer[w].wait.options \/ ~Blocks(st, w)
    THEN {Returned(st, w)}
    ELSE {[st EXCEPT !.tracer[w].at = "wait"]}

(***************************************************************************)
(* The tracer                                                              *)
(***************************************************************************)

(* SIGCHLD as the kernel sees it: the program's mask, and the mask rr puts *)
(* in its place while a signal is stashed (will_resume_execution).         *)
Masked(w) == tracer[w].blocked \/ tracer[w].stashed

(* A call or a signal of the programs, as many as are modelled.            *)
Asked == fault = "" /\ steps < MaxSteps /\ steps' = steps + 1

(* A thread that is about to run takes its pending signals first.          *)
Free(w) == /\ fault = "" /\ tracer[w].at = "run"
           /\ ~tracer[w].stashed /\ ~tracer[w].slice
           /\ Masked(w) \/ ~(tracer[w].thread \/ shared)

Wait(w) ==
    /\ Asked
    /\ Free(w)
    /\ \E r \in Requests :
        \E st \in rec_prepare_wait([State EXCEPT !.tracer[w].wait = r], w) :
            Become(st)

(* The kernel's wait ends: the child is gone.                              *)
KernelWait(w) ==
    /\ fault = "" /\ tracer[w].at = "wait" /\ Own /\ Alive(State) = {}
    /\ is_waiting_for(tracer[w], Main)
    /\ Become(Returned(State, w))
    /\ UNCHANGED steps

(* The next stop waits for its own signal in vain.                         *)
HandledOnce(st, w) ==
    LET mine == {c \in Tracees : st.tracee[c].ptracer = w
                                 /\ st.tracee[c].ptraceSIGCHLD}
    IN IF mine = {} THEN {st}
       ELSE {[st EXCEPT !.tracee[c].ptraceSIGCHLD = FALSE] : c \in mine}

(* RecordTask::set_siginfo_for_synthetic_SIGCHLD for a thread outside a    *)
(* call: the signal stands for one stop of one of its tracees, or for a    *)
(* child's; signal_delivered then sends the next one.                      *)
Handled(st, w) ==
    LET mine == {c \in Tracees : st.tracee[c].ptracer = w
                                 /\ st.tracee[c].ptraceSIGCHLD}
        children == {c \in Tracees : Own /\ st.tracee[c].SIGCHLD}
        now == IF mine # {}
               THEN {[st EXCEPT !.tracee[c].ptraceSIGCHLD = FALSE] : c \in mine}
               ELSE IF children # {}
               THEN {[st EXCEPT !.tracee[c].SIGCHLD = FALSE] : c \in children}
               ELSE {st}
    IN UNION {send_synthetic_SIGCHLD(s, w) : s \in now}

(* The kernel delivers SIGCHLD to w, which rr sees first.  A blocked wait  *)
(* is interrupted, but a signal that stands for a ptrace stop must not     *)
(* interrupt it: rr keeps the signal and has the wait entered again.       *)
TakeSIGCHLD(w) ==
    /\ fault = "" /\ tracer[w].at # "dead" /\ ~Masked(w)
    /\ \E own \in BOOLEAN :
        /\ IF own THEN tracer[w].thread ELSE shared
        /\ LET st == IF own THEN [State EXCEPT !.tracer[w].thread = FALSE]
                            ELSE [State EXCEPT !.shared = FALSE]
           IN \E next \in IF tracer[w].at = "run" THEN Handled(st, w)
                          ELSE rec_prepare_wait(
                                  [st EXCEPT !.tracer[w].stashed = TRUE], w) :
                Become(next)
    /\ UNCHANGED steps

(* The signal that was kept is delivered once no call is to be restarted.  *)
DeliverStashed(w) ==
    /\ fault = "" /\ tracer[w].at = "run" /\ tracer[w].stashed
    /\ \E st \in Handled([State EXCEPT !.tracer[w].stashed = FALSE], w) :
        Become(st)
    /\ UNCHANGED steps

(* A TIME_SLICE_SIGNAL cannot be blocked; it interrupts a wait as well.    *)
TakeSlice(w) ==
    /\ fault = "" /\ tracer[w].at # "dead" /\ tracer[w].slice
    /\ LET st == [State EXCEPT !.tracer[w].slice = FALSE]
       IN \E next \in IF tracer[w].at = "run" THEN {st}
                      ELSE rec_prepare_wait(st, w) : Become(next)
    /\ UNCHANGED steps

(* sigprocmask of the program.                                             *)
Mask(w) ==
    /\ Asked
    /\ Free(w)
    /\ tracer' = [tracer EXCEPT ![w].blocked = ~@]
    /\ UNCHANGED <<tracee, shared, fault>>

(* RecordTask::set_emulated_ptracer(nullptr).                              *)
Untraced(st, c) ==
    IF st.tracee[c].stop = "SIGNAL_DELIVERY_STOP"
    THEN Failed(st, "released in a ptrace-stop")
    ELSE [st EXCEPT !.tracee[c].ptracer = None]

(* ptrace_attach_to_already_stopped_task: it is told of the stop again,    *)
(* as a stop by SIGSTOP.                                                   *)
attach_to_stopped(st, c) ==
    IF st.tracee[c].stop # "GROUP_STOP" THEN {Failed(st, "not in a group-stop")}
    ELSE force_emulate_ptrace_stop(st, c, "SIGNAL_DELIVERY_STOP", "STOP")

(* PTRACE_ATTACH, with the checks of prepare_ptrace_attach: SIGSTOP to a   *)
(* thread that runs.                                                       *)
Attach(w, c) ==
    /\ Asked
    /\ Free(w) /\ c \in Alive(State) /\ tracee[c].ptracer = None
    /\ LET st == [State EXCEPT !.tracee[c].ptracer = w,
                               !.tracee[c].options = {},
                               !.tracee[c].told = Late(tracee[c]),
                               !.tracee[c].orphan = FALSE]
       IN \E next \in IF tracee[c].stop = "NOT_STOPPED"
                      THEN {[st EXCEPT !.tracee[c].incoming = @ \union {"STOP"}]}
                      ELSE attach_to_stopped(st, c) : Become(next)

OptionsOf(c) == SUBSET ({"PTRACE_O_TRACECLONE"} \union
                        IF c \in TraceExit THEN {"PTRACE_O_TRACEEXIT"} ELSE {})

(* PTRACE_SEIZE: nothing stops a thread that runs.                         *)
Seize(w, c) ==
    /\ Asked
    /\ Free(w) /\ c \in Alive(State) /\ tracee[c].ptracer = None
    /\ \E options \in OptionsOf(c) :
        LET st == [State EXCEPT !.tracee[c].ptracer = w,
                                !.tracee[c].options = options,
                                !.tracee[c].told = Late(tracee[c]),
                                !.tracee[c].orphan = FALSE]
        IN \E next \in IF tracee[c].stop = "GROUP_STOP"
                       THEN attach_to_stopped(st, c) ELSE {st} : Become(next)

(* verify_ptrace_target: anything else is ESRCH and changes nothing.       *)
Target(w, c) == /\ Free(w) /\ tracee[c].at # "dead"
                /\ tracee[c].ptracer = w /\ tracee[c].stop # "NOT_STOPPED"

(* PTRACE_SETOPTIONS.                                                      *)
SetOptions(w, c) ==
    /\ Asked
    /\ Target(w, c)
    /\ \E options \in OptionsOf(c) :
        tracee' = [tracee EXCEPT ![c].options = options]
    /\ UNCHANGED <<tracer, shared, fault>>

(* do_ptrace_exit_stop: the tracer is told of the exit here if the kernel  *)
(* will not tell it, since it is not the parent.                           *)
do_ptrace_exit_stop(st, c) ==
    LET now == [st EXCEPT !.tracee[c].queuedExit = FALSE]
    IN IF now.tracee[c].ptracer # None /\ (c # Main \/ ~Own)
       THEN SignalStop(now, c, "exited") ELSE {now}

(* A task kept inside a call is not continued.                             *)
NotContinued(st, c, sig, command) ==
    {[st EXCEPT !.tracee[c].stop = "NOT_STOPPED", !.tracee[c].pending = FALSE,
                !.tracee[c].code = "", !.tracee[c].command = command]}

(* prepare_ptrace_cont: the stop ends, a signal the tracer passes on is to *)
(* be delivered, and a task kept inside a call is continued there.         *)
prepare_ptrace_cont(st, c, sig, command) ==
    LET now == [st EXCEPT
            !.tracee[c].signal = IF sig = "" THEN @ ELSE sig,
            !.tracee[c].stop = "NOT_STOPPED", !.tracee[c].pending = FALSE,
            !.tracee[c].code = "", !.tracee[c].command = command,
            !.tracee[c].told = IF @ # "yes" /\ st.tracee[c].code = "exited"
                               THEN "resumed" ELSE @,
            !.tracee[c].at = CASE @ = "held" /\ st.tracee[c].exits -> "exiting"
                               [] @ = "held" -> "leaving"
                               [] OTHER -> @]
    IN IF now.tracee[c].queuedExit THEN do_ptrace_exit_stop(now, c) ELSE {now}

(* The signal a tracer passes on: none, or the one the tracee stopped for. *)
Passed(c) == {""} \union IF tracee[c].at = "user" /\ tracee[c].code \in {"STOP", "USR", "CONT"}
                         THEN {tracee[c].code} ELSE {}

(* PTRACE_CONT, PTRACE_SYSCALL and PTRACE_SYSEMU.                          *)
Resume(w, c) ==
    /\ Asked
    /\ Target(w, c)
    /\ \E sig \in Passed(c), command \in Commands :
        \E st \in prepare_ptrace_cont(State, c, sig, command) : Become(st)

(* The exit stop that was put off is not forgotten.                        *)
DetachQueued(w, c) ==
    /\ Asked
    /\ Target(w, c)
    /\ \E sig \in Passed(c) :
        LET st == [State EXCEPT !.tracee[c].options = {}]
        IN \E next \in prepare_ptrace_cont(st, c, sig, "") :
            Become(Untraced(next, c))

(* PTRACE_DETACH.                                                          *)
Detach(w, c) ==
    /\ Asked
    /\ Target(w, c)
    /\ \E sig \in Passed(c) :
        LET st == [State EXCEPT !.tracee[c].options = {},
                                !.tracee[c].queuedExit = FALSE]
        IN \E next \in prepare_ptrace_cont(st, c, sig, "") :
            Become(Untraced(next, c))

(* The tracer exits (RecordTask::~RecordTask): its tracees are not traced  *)
(* any more.                                                               *)
Die(w) ==
    /\ Asked
    /\ Free(w)
    /\ Become([State EXCEPT
        !.tracer[w] = [NewTracer EXCEPT !.at = "dead"],
        !.tracee = [c \in Tracees |->
            IF tracee[c].ptracer = w
            THEN [@[c] EXCEPT !.ptracer = None, !.options = {},
                              !.pending = FALSE, !.stop = "NOT_STOPPED",
                              !.orphan = TRUE]
            ELSE @[c]]])

(***************************************************************************)
(* The tracee                                                              *)
(***************************************************************************)

Runs(c) == /\ fault = "" /\ tracee[c].stop = "NOT_STOPPED"
           /\ tracee[c].at = "user" /\ tracee[c].signal = ""

(* PTRACE_TRACEME: the tracer is the parent.                               *)
TraceMe(c) ==
    /\ Asked
    /\ Runs(c) /\ Own /\ tracee[c].ptracer = None /\ tracer[Leader].at # "dead"
    /\ tracee' = [tracee EXCEPT ![c].ptracer = Leader, ![c].options = {},
                                ![c].orphan = FALSE]
    /\ UNCHANGED <<tracer, shared, fault>>

(* The program sends a signal to a thread.  In the kernel SIGCONT and      *)
(* SIGSTOP take each other back.                                           *)
Send(c) ==
    /\ Asked
    /\ fault = "" /\ c \in Alive(State)
    /\ \E sig \in {"STOP", "USR", "CONT"} :
        tracee' = [tracee EXCEPT ![c].incoming =
            (@ \ CASE sig = "STOP" -> {"CONT"} [] sig = "CONT" -> {"STOP"}
                   [] OTHER -> {}) \union {sig}]
    /\ UNCHANGED <<tracer, shared, fault>>

(* A signal arrives at a tracee that runs (handle_signal): a traced one    *)
(* stops and the tracer decides, another one has it delivered.             *)
TakeSignal(c) ==
    /\ Runs(c)
    /\ \E sig \in tracee[c].incoming :
        LET st == [State EXCEPT !.tracee[c].incoming = @ \ {sig}]
        IN \E next \in IF tracee[c].ptracer = None THEN signal_delivered(st, sig)
                       ELSE SignalStop(st, c, sig) : Become(next)
    /\ UNCHANGED steps

(* The signal the tracer passed on is delivered.                           *)
Inject(c) ==
    /\ fault = "" /\ tracee[c].signal # "" /\ tracee[c].at = "user"
    /\ tracee[c].stop = "NOT_STOPPED"
    /\ \E next \in signal_delivered([State EXCEPT !.tracee[c].signal = ""],
                                    tracee[c].signal) : Become(next)
    /\ UNCHANGED steps

(* Scheduler::is_task_runnable: SIGCONT is pending for a task that is not  *)
(* run because it is stopped.                                              *)
Continued(c) ==
    /\ fault = "" /\ c \in Alive(State)
    /\ tracee[c].stop # "NOT_STOPPED" /\ "CONT" \in tracee[c].incoming
    /\ Become([emulate_SIGCONT(State) EXCEPT
                !.tracee[c].at = CASE @ = "held" /\ tracee[c].exits -> "exiting"
                                   [] @ = "held" -> "leaving"
                                   [] OTHER -> @])
    /\ UNCHANGED steps

(* maybe_trigger_emulated_ptrace_syscall_exit_stop.                        *)
maybe_exit_stop(st, c) ==
    IF st.tracee[c].command = "PTRACE_SYSCALL"
    THEN SignalStop(st, c, "syscall") ELSE {st}

(* process_syscall_entry of a task that is traced from call to call.  A    *)
(* task that was released keeps its command and is not stopped.            *)
Enter(c) ==
    /\ Asked
    /\ Runs(c) /\ tracee[c].command \in {"PTRACE_SYSCALL", "PTRACE_SYSEMU"}
    /\ \E st \in SignalStop([State EXCEPT
                !.tracee[c].at = "entry"], c, "syscall") : Become(st)

(* ENTERING_SYSCALL_PTRACE once the stop has ended, with a call that does  *)
(* not block: under SYSEMU the call is not made at all.                    *)
Call(c) ==
    /\ fault = "" /\ tracee[c].at = "entry" /\ tracee[c].stop = "NOT_STOPPED"
    /\ \E st \in maybe_exit_stop([State EXCEPT !.tracee[c].at = "user"], c) :
        Become(st)
    /\ UNCHANGED steps

(* prepare_clone: the new thread is traced if the tracer asked for it, and *)
(* both stop.                                                              *)
Clone(c, d) ==
    /\ Asked
    /\ Runs(c) /\ d # Main /\ tracee[d].at = "unborn"
    /\ LET born == [State EXCEPT !.tracee[d].at = "user"]
           traced == [born EXCEPT !.tracee[d].ptracer = tracee[c].ptracer,
                                  !.tracee[d].options = tracee[c].options]
       IN IF "PTRACE_O_TRACECLONE" \in tracee[c].options
          THEN \E st \in SignalStop(traced, c, "clone") :
                \E next \in apply_group_stop(st, d) :
                    Become([next EXCEPT !.tracee[c].at =
                        IF next.tracee[c].pending THEN "held" ELSE "leaving"])
          ELSE Become([born EXCEPT !.tracee[c].at = "leaving"])

Leave(c) ==
    /\ fault = "" /\ tracee[c].at = "leaving" /\ tracee[c].stop = "NOT_STOPPED"
    /\ \E st \in maybe_exit_stop([State EXCEPT !.tracee[c].at = "user"], c) :
        Become(st)
    /\ UNCHANGED steps

(* The exit is not announced.                                              *)
prepare_exit_silently(st, c) == {st}

(* prepare_exit: one stop at a time, the event first.  With a stop pending *)
(* the call is not continued.                                              *)
prepare_exit(st, c) ==
    IF "PTRACE_O_TRACEEXIT" \in st.tracee[c].options
    THEN SignalStop([st EXCEPT !.tracee[c].queuedExit = TRUE,
                               !.tracee[c].told = "event"], c, "event exit")
    ELSE do_ptrace_exit_stop(st, c)

Exit(c) ==
    /\ Asked
    /\ Runs(c)
    /\ \E st \in prepare_exit([State EXCEPT !.tracee[c].exits = TRUE], c) :
        Become([st EXCEPT !.tracee[c].at =
                    IF st.tracee[c].pending THEN "held" ELSE "exiting"])

(* The kernel reports that the task is about to go                         *)
(* (handle_ptrace_exit_event), which the scheduler sees also while the     *)
(* task counts as stopped.                                                 *)
Reap(c) ==
    /\ fault = "" /\ tracee[c].at = "exiting"
    /\ tracee' = [tracee EXCEPT ![c] =
        [NewTask EXCEPT !.at = "dead", !.told = tracee[c].told]]
    /\ UNCHANGED <<tracer, shared, steps, fault>>

Init == /\ tracee = [c \in Tracees |->
                        [NewTask EXCEPT !.at = IF c = Main THEN "user" ELSE "unborn"]]
        /\ tracer = [w \in Tracers |-> NewTracer]
        /\ shared = FALSE /\ steps = 0 /\ fault = ""

(* What the programs do of their own accord.                               *)
Program == \/ \E w \in Tracers : Wait(w) \/ Mask(w) \/ Die(w)
           \/ \E w \in Tracers, c \in Tracees :
                \/ Attach(w, c) \/ Seize(w, c) \/ SetOptions(w, c)
                \/ Resume(w, c) \/ Detach(w, c)
           \/ \E c \in Tracees : TraceMe(c) \/ Send(c) \/ Enter(c) \/ Exit(c)
           \/ \E c, d \in Tracees : Clone(c, d)

(* What the kernel and rr's scheduler do in the end.                       *)
React == \/ \E w \in Tracers : \/ KernelWait(w) \/ TakeSIGCHLD(w)
                                \/ DeliverStashed(w) \/ TakeSlice(w)
         \/ \E c \in Tracees : \/ TakeSignal(c) \/ Inject(c) \/ Continued(c)
                                \/ Call(c) \/ Leave(c) \/ Reap(c)

Next == Program \/ React

(* The kernel delivers signals and finishes calls, and the scheduler runs  *)
(* every task that can be run; what the programs do is up to them.         *)
Fairness ==
    /\ \A w \in Tracers :
        /\ WF_vars(TakeSIGCHLD(w))
        /\ WF_vars(TakeSlice(w))
        /\ WF_vars(DeliverStashed(w))
        /\ WF_vars(KernelWait(w))
    /\ \A c \in Tracees :
        /\ WF_vars(Inject(c))
        /\ WF_vars(Continued(c))
        /\ WF_vars(Call(c))
        /\ WF_vars(Leave(c))
        /\ WF_vars(Reap(c))

Spec == Init /\ [][Next]_vars /\ Fairness

(***************************************************************************)
(* Properties                                                              *)
(***************************************************************************)

(* None of the ASSERTs of the emulation fails: a task is put into a stop   *)
(* only when it is in none, is attached to only in a group-stop or         *)
(* running, is released in no ptrace-stop, and is let go on exiting only   *)
(* when it was kept inside its exit call.                                  *)
NoAssertFails == fault = ""

(* A stop the tracer has not been told of, and whose SIGCHLD it has not    *)
(* got yet either (the flag emulated_ptrace_SIGCHLD_pending), never waits  *)
(* for a signal that nobody will send: SIGCHLD is pending for the tracer's *)
(* process, for a thread of it, or kept by rr.  This is what               *)
(* send_synthetic_SIGCHLD_if_necessary and its call in signal_delivered    *)
(* are for, since the kernel merges signals that are pending together.     *)
NotificationUnderWay ==
    \A c \in Tracees :
        tracee[c].ptracer # None /\ tracee[c].pending /\ tracee[c].ptraceSIGCHLD =>
            shared \/ \E w \in Tracers : tracer[w].thread \/ tracer[w].stashed

(* A traced thread the kernel reports to somebody else (it is not a child, *)
(* or not the first thread) is not gone before its tracer has been told of *)
(* the exit, or has itself resumed it, or a SIGCONT has: what              *)
(* do_ptrace_exit_stop and the exit of wait are for.  Threads traced with  *)
(* PTRACE_O_TRACEEXIT are left out, see ExitAlwaysReported.                *)
ExitReported ==
    [][\A c \in Tracees :
        (/\ tracee[c].at = "exiting" /\ tracee'[c].at = "dead"
         /\ tracee[c].ptracer # None /\ (c # Main \/ ~Own))
        => tracee[c].told # "no"]_vars

(* A blocked wait of a tracer ends when one of its tracees it waits for    *)
(* has a stop to report: the signals rr sends get the thread out of the    *)
(* kernel even if the program blocks SIGCHLD.  (Not while rr keeps an      *)
(* earlier SIGCHLD, see WaiterAlwaysWoken.)                                *)
WaiterWoken ==
    \A w \in Tracers : \A c \in Tracees :
        LET Stuck == /\ tracer[w].at = "wait" /\ ~tracer[w].stashed
                     /\ tracee[c].ptracer = w /\ tracee[c].pending
                     /\ is_waiting_for_ptrace(tracer[w], State, c)
        IN Stuck ~> ~Stuck

(* A task rr keeps inside a call is let go when nobody traces it any more: *)
(* after PTRACE_DETACH the call is completed.  (Not after the death of the *)
(* tracer, see AlwaysReleased.)                                            *)
Released ==
    \A c \in Tracees :
        LET Stuck == /\ tracee[c].at = "held" /\ tracee[c].ptracer = None
                     /\ tracee[c].stop = "NOT_STOPPED" /\ ~tracee[c].orphan
        IN Stuck ~> ~Stuck

(* The same without the exceptions; none of the three holds of the code.   *)
(* An exit that follows PTRACE_EVENT_EXIT can be over before the tracer    *)
(* has waited for it: prepare_ptrace_cont both lets the task go and makes  *)
(* the stop.                                                               *)
ExitAlwaysReported ==
    [][\A c \in Tracees :
        (/\ tracee[c].at = "exiting" /\ tracee'[c].at = "dead"
         /\ tracee[c].ptracer # None /\ (c # Main \/ ~Own))
        => tracee[c].told \notin {"no", "event"}]_vars

(* While rr keeps a SIGCHLD it blocks further ones in the kernel, but asks *)
(* the program's mask whether a TIME_SLICE_SIGNAL is needed; and a thread  *)
(* that waits for another thread's tracee is woken and waits again.        *)
WaiterAlwaysWoken ==
    \A w \in Tracers : \A c \in Tracees :
        LET Stuck == /\ tracer[w].at = "wait" /\ tracee[c].pending
                     /\ is_waiting_for_ptrace(tracer[w], State, c)
        IN Stuck ~> ~Stuck

(* The destructor of the tracer ends the stop and continues nothing.       *)
AlwaysReleased ==
    \A c \in Tracees :
        LET Stuck == /\ tracee[c].at = "held" /\ tracee[c].ptracer = None
                     /\ tracee[c].stop = "NOT_STOPPED"
        IN Stuck ~> ~Stuck

=============================================================================
