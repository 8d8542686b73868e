----------------------------- MODULE Scheduler -----------------------------
(***************************************************************************)
(* The recorder's scheduler (Scheduler.cc): which of the tasks rr records   *)
(* runs next.  One task runs user code at a time; the others are stopped,   *)
(* or blocked in a system call that the kernel completes on its own.        *)
(*                                                                          *)
(* reschedule() is a loop that ends by choosing a task or in waitpid(-1);   *)
(* each iteration is one step.  What record_step makes of the chosen task   *)
(* (RecordSession.cc) and what the kernel does to blocked ones are the      *)
(* scheduler's environment.  A task's run of user code up to its next stop  *)
(* cannot be switched away from, and is one step with the handling of that  *)
(* stop.                                                                    *)
(***************************************************************************)
EXTENDS Integers, Sequences, SequencesExt, FiniteSets

CONSTANTS
  N,              \* number of tasks that may exist; tasks are numbered as
                  \* their RecordTask pointers are ordered
  Group,          \* task -> its thread group
  Initial,        \* the tasks there are at first
  Priorities,     \* what setpriority may ask for
  MaxSlice,       \* length of a timeslice, in runs of user code
  ChaosModes,     \* with and without --chaos
  always_switch

Task == 1 .. N
NoTask == 0

ASSUME SchedulerAssumption ==
  /\ N \in Nat \ {0} /\ MaxSlice \in Nat \ {0}
  /\ DOMAIN Group = Task
  /\ Initial \subseteq Task
  /\ Priorities \subseteq 0 .. 20 /\ 0 \in Priorities
  /\ ChaosModes \subseteq BOOLEAN /\ always_switch \in BOOLEAN

VARIABLES
  enable_chaos,   \* an option of rr record
  live, st,       \* the tasks, and their state: see TaskState
  priority, in_round_robin_queue,
  task_priority_set, task_round_robin_queue,
  current_, must_run_task,
  slice,          \* runs left in current_'s timeslice
  enable_poll,
  switchable,     \* last_task_switchable of RecordSession: may current_ be left?
  pc,
  owed            \* auxiliary: who is to run before a task that yielded

sched == <<priority, in_round_robin_queue, task_priority_set, task_round_robin_queue>>
vars == <<enable_chaos, live, st, sched, current_, must_run_task, slice, enable_poll, switchable, pc, owed>>

(* mode: in user code, or processing a syscall (one that may block,          *)
(* sched_yield or exit).  running: resumed, and no status reaped since.      *)
(* avail: what waitpid would report.  stop: emulated_stop_type is not        *)
(* NOT_STOPPED; cont: SIGCONT is pending then.                               *)
TaskState ==
  [mode : {"user", "sys", "yield", "exit"}, running : BOOLEAN, avail : {"none", "event", "exit"},
   stop : BOOLEAN, cont : BOOLEAN, unstable : BOOLEAN, is_dying : BOOLEAN]

NewTask == [mode |-> "user", running |-> FALSE, avail |-> "none", stop |-> FALSE,
            cont |-> FALSE, unstable |-> FALSE, is_dying |-> FALSE]

may_be_blocked(t) == st[t].mode # "user" \/ st[t].stop
Peers(t) == {u \in live : Group[u] = Group[t]}

-----------------------------------------------------------------------------
(* The two containers. *)

Queue == task_round_robin_queue
get_round_robin_task(q) == IF q = << >> THEN NoTask ELSE Head(q)

(* maybe_pop_round_robin_task for all tasks of S: they go back to the set. *)
PopAll(S) ==
  /\ task_round_robin_queue' = SelectSeq(Queue, LAMBDA u : u \notin S)
  /\ in_round_robin_queue' = [u \in Task |-> in_round_robin_queue[u] /\ u \notin S]
  /\ task_priority_set' = task_priority_set \cup {<<priority[u], u>> : u \in S \cap ToSet(Queue)}

ByPriority(S) == SetToSortSeq(S, LAMBDA a, b : a[1] < b[1] \/ (a[1] = b[1] /\ a[2] < b[2]))

(* Mutant: only tasks of the same priority take part. *)
schedule_one_round_robin_equal(t) ==
  LET same == {e \in task_priority_set : e[2] # t /\ e[1] = priority[t]}
      moved == ByPriority(same)
      rest == SelectSeq(Queue, LAMBDA u : u # t)
  IN  /\ task_round_robin_queue' = rest \o [k \in DOMAIN moved |-> moved[k][2]] \o <<t>>
      /\ in_round_robin_queue' =
           [u \in Task |-> in_round_robin_queue[u] \/ u = t \/ <<priority[t], u>> \in same]
      /\ task_priority_set' = {e \in task_priority_set \ same : e[2] # t}
      /\ owed' = [owed EXCEPT ![t] = live \ {t}]
      /\ UNCHANGED priority

(* t, the current task, is popped if it is the head, and queued last. *)
schedule_one_round_robin(t) ==
  LET moved == ByPriority({e \in task_priority_set : e[2] # t})
      rest == SelectSeq(Queue, LAMBDA u : u # t)
  IN  /\ task_round_robin_queue' = rest \o [k \in DOMAIN moved |-> moved[k][2]] \o <<t>>
      /\ in_round_robin_queue' = [u \in Task |-> u \in live]
      /\ task_priority_set' = {}
      /\ owed' = [owed EXCEPT ![t] = live \ {t}]
      /\ UNCHANGED priority

(* Mutant: a task in the queue is looked for in the set. *)
update_task_priority_internal_set(t, value) ==
  LET v == IF st'[t].mode = "exit" /\ ~enable_chaos THEN -9999 ELSE value
  IN  /\ priority' = [priority EXCEPT ![t] = v]
      /\ task_priority_set' = (task_priority_set \ {<<priority[t], t>>}) \cup {<<v, t>>}
      /\ UNCHANGED <<in_round_robin_queue, task_round_robin_queue>>

update_task_priority_internal(t, value) ==
  LET v == IF st'[t].mode = "exit" /\ ~enable_chaos THEN -9999 ELSE value
  IN  /\ priority' = [priority EXCEPT ![t] = v]
      /\ task_priority_set' =
           IF in_round_robin_queue[t] THEN task_priority_set
           ELSE (task_priority_set \ {<<priority[t], t>>}) \cup {<<v, t>>}
      /\ UNCHANGED <<in_round_robin_queue, task_round_robin_queue>>

-----------------------------------------------------------------------------
(* is_task_runnable: what it returns, whether it sets must_run_task, and     *)
(* what it does to the task that is asked about.                             *)

Runnable(t) ==
  \/ st[t].unstable
  \/ ~may_be_blocked(t)
  \/ IF st[t].stop THEN st[t].cont \/ st[t].is_dying \/ st[t].avail = "exit"
     ELSE st[t].mode \in {"yield", "exit"} \/ st[t].avail # "none"

MustRun(t) ==
  ~st[t].unstable /\ may_be_blocked(t) /\ (st[t].stop => st[t].cont)

Reap(s) == [s EXCEPT !.running = FALSE, !.avail = "none",
                     !.is_dying = @ \/ s.avail = "exit" \/ s.mode = "exit"]

(* emulate_SIGCONT resumes the whole thread group; t is run up to its SIGCONT. *)
SigContinued(s, t) ==
  [u \in Task |-> IF u = t THEN [Reap(s[u]) EXCEPT !.stop = FALSE, !.cont = FALSE]
                  ELSE IF u \in Peers(t) THEN [s[u] EXCEPT !.stop = FALSE, !.cont = FALSE] ELSE s[u]]

(* try_wait of a stopped task, also when it is not dying. *)
TryWaitStopped(s, S) ==
  [u \in Task |-> IF u \in S /\ ~s[u].unstable /\ s[u].stop /\ s[u].avail # "none"
                  THEN Reap(s[u]) ELSE s[u]]

(* Mutant: the statuses of all tasks are collected. *)
AskedEveryone(S, t) ==
  [u \in Task |-> IF u \in live /\ (u = t \/ st[u].avail # "none") THEN Reap(st[u]) ELSE st[u]]

(* The states after the tasks of S were asked about in vain, then t.  *)
Asked(S, t) ==
  LET s == TryWaitStopped(st, S)
  IN  IF t = NoTask THEN s
      ELSE IF ~MustRun(t) THEN TryWaitStopped(s, {t})
      ELSE IF st[t].stop THEN SigContinued(s, t)
      ELSE [s EXCEPT ![t] = Reap(@)]

(* Mutant: no polling. *)
MustPollNever(S) == FALSE

(* A stopped task is polled for a SIGCONT from outside the tracees. *)
MustPoll(S) == \E u \in S : ~st[u].unstable /\ st[u].stop /\ ~st[u].cont

-----------------------------------------------------------------------------
(* find_next_runnable_task: the results there may be, as the task found and  *)
(* the set of those asked about before it.                                   *)

InSet == {e[2] : e \in task_priority_set}

(* Mutant: always from the first task. *)
PositionFixed(u, p) == u

(* The order within one priority: round-robin behind the current task. *)
Position(u, p) ==
  IF current_ # NoTask /\ p = priority[current_] THEN (u - current_ - 1) % N ELSE u

find_next_runnable_task(in_set, threshold) ==
  LET Ts == {u \in in_set : priority[u] <= threshold}
      Rs == {u \in Ts : Runnable(u)}
      Best == {u \in Rs : \A v \in Rs : priority[u] <= priority[v]}
      Above(t) == {u \in Ts : priority[u] < priority[t]}
      Same(t) == {u \in Ts : priority[u] = priority[t] /\ u \notin Rs}
      Before(t) == {u \in Same(t) : Position(u, priority[t]) < Position(t, priority[t])}
  IN  IF Rs = {} THEN {<<NoTask, Ts>>}
      ELSE IF enable_chaos THEN UNION {{<<t, Above(t) \cup S>> : S \in SUBSET Same(t)} : t \in Best}
      ELSE {<<t, Above(t) \cup Before(t)>> : t \in
              {u \in Best : \A v \in Best : Position(u, priority[u]) <= Position(v, priority[v])}}

treat_as_high_priority(t, in_set) == Cardinality(in_set) > 1 /\ priority[t] = 0

-----------------------------------------------------------------------------
(* reschedule. *)

(* must_run_task and enable_poll are reset; in chaos mode priorities may be. *)
EnterReschedule ==
  /\ pc = "enter" /\ live # {}
  /\ must_run_task' = NoTask
  /\ enable_poll' = FALSE
  /\ \/ UNCHANGED sched
     \/ /\ enable_chaos
        /\ \E f \in [Task -> {0, 1}] :
             /\ priority' = [u \in Task |-> IF u \in live THEN f[u] ELSE priority[u]]
             /\ task_priority_set' = {<<f[u], u>> : u \in InSet}
        /\ UNCHANGED <<in_round_robin_queue, task_round_robin_queue>>
  /\ pc' = IF current_ # NoTask /\ switchable = "PREVENT_SWITCH" THEN "unswitchable" ELSE "loop"
  /\ UNCHANGED <<enable_chaos, live, st, current_, slice, switchable, owed>>

Unswitchable ==
  /\ pc = "unswitchable"
  /\ st[current_].running => st[current_].avail # "none"
  /\ st' = IF st[current_].running THEN [st EXCEPT ![current_] = Reap(@)] ELSE st
  /\ pc' = "record"
  /\ UNCHANGED <<enable_chaos, live, sched, current_, must_run_task, slice, enable_poll, switchable, owed>>

(* Who was owed a run got it, or was not runnable when it could have had it. *)
Pay(next, waits) ==
  owed' = [t \in Task |->
             IF waits \/ t = next THEN {} ELSE {u \in owed[t] \ {next} : Runnable(u)}]

(* The loop is left with next, after the tasks of S were asked about.  If    *)
(* there is none, or one in an unstable exit, the queue is given up.         *)
Choose(next, S, popped) ==
  LET waits == IF next = NoTask THEN TRUE ELSE st[next].unstable
  IN  /\ st' = Asked(S, next)
      /\ enable_poll' = (enable_poll \/ MustPoll(S))
      /\ PopAll(IF waits THEN live ELSE popped)
      /\ must_run_task' = IF next # NoTask /\ ~waits /\ MustRun(next) THEN next ELSE NoTask
      /\ IF waits THEN pc' = "wait" /\ UNCHANGED <<current_, slice>>
         ELSE pc' = "record" /\ current_' = next /\ slice' \in 0 .. MaxSlice - 1
      /\ Pay(next, waits)
      /\ UNCHANGED <<enable_chaos, live, priority, switchable>>

(* The loop goes on. *)
Again(S, t, popped) ==
  /\ st' = Asked(S, t)
  /\ enable_poll' = (enable_poll \/ MustPoll(S))
  /\ PopAll(popped)
  /\ must_run_task' = IF t # NoTask /\ MustRun(t) THEN t ELSE NoTask
  /\ owed' = [u \in Task |-> {v \in owed[u] : Runnable(v)}]
  /\ UNCHANGED <<enable_chaos, live, priority, current_, slice, switchable, pc>>

InLoop == pc = "loop"

(* Mutant: it is not. *)
HigherAskedNever == {}

(* A task of higher priority is looked for unless there is a queue. *)
HigherAsked ==
  IF current_ # NoTask /\ Queue = << >>
  THEN {u \in InSet : priority[u] < priority[current_]} ELSE {}
NotPreempted == \A u \in HigherAsked : ~Runnable(u)

Preempt ==
  /\ InLoop
  /\ current_ # NoTask /\ Queue = << >>
  /\ \E r \in find_next_runnable_task(InSet, priority[current_] - 1) :
       r[1] # NoTask /\ Choose(r[1], r[2], {})

(* Mutant: the queue does not matter. *)
MayCarryOnAnyway(hp) ==
  /\ current_ # NoTask
  /\ ~st[current_].unstable /\ ~always_switch
  /\ treat_as_high_priority(current_, InSet) \/ ~hp
  /\ slice > 0

MayCarryOn(hp) ==
  /\ current_ # NoTask
  /\ ~st[current_].unstable /\ ~always_switch
  /\ get_round_robin_task(Queue) \in {NoTask, current_}
  /\ treat_as_high_priority(current_, InSet) \/ ~hp
  /\ slice > 0

CarryOn(hp) ==
  /\ InLoop /\ NotPreempted
  /\ MayCarryOn(hp) /\ Runnable(current_)
  /\ st' = Asked(HigherAsked, current_)
  /\ enable_poll' = (enable_poll \/ MustPoll(HigherAsked))
  /\ must_run_task' = IF MustRun(current_) THEN current_ ELSE NoTask
  /\ pc' = "record"
  /\ Pay(current_, FALSE)
  /\ UNCHANGED <<enable_chaos, live, sched, current_, slice, switchable>>

Rejected(hp) == InLoop /\ NotPreempted /\ ~(MayCarryOn(hp) /\ Runnable(current_))
AskedSoFar(hp) == HigherAsked \cup IF MayCarryOn(hp) THEN {current_} ELSE {}

(* current_ is popped, if it is the head of the queue. *)
Popped == IF Queue # << >> /\ current_ = get_round_robin_task(Queue) THEN {current_} ELSE {}
RestOfQueue == IF Popped = {} THEN Queue ELSE Tail(Queue)

FromQueue(hp) ==
  /\ Rejected(hp)
  /\ RestOfQueue # << >>
  /\ LET next == Head(RestOfQueue)
     IN  IF Runnable(next) THEN Choose(next, AskedSoFar(hp), Popped)
         ELSE Again(AskedSoFar(hp) \cup {next}, NoTask, Popped \cup {next})

(* Mutant: the sleep does not depend on by_waitpid. *)
SleepsAlways(hp, next) ==
  next # NoTask /\ hp /\ ~treat_as_high_priority(next, live)

(* In a high-priority-only interval a low-priority task has to wait, unless  *)
(* its status was already reaped.                                            *)
Sleeps(hp, next) ==
  /\ next # NoTask /\ hp
  /\ ~treat_as_high_priority(next, live)
  /\ ~MustRun(next)

FromSet(hp) ==
  /\ Rejected(hp)
  /\ RestOfQueue = << >>
  /\ \E r \in find_next_runnable_task(live, 9999) :
       IF Sleeps(hp, r[1]) THEN Again(AskedSoFar(hp) \cup r[2], r[1], Popped)
       ELSE Choose(r[1], AskedSoFar(hp) \cup r[2], Popped)

Iterate == \E hp \in (IF enable_chaos THEN BOOLEAN ELSE {FALSE}) :
             CarryOn(hp) \/ FromQueue(hp) \/ FromSet(hp)

WaitStatus(t) ==
  /\ pc = "wait"
  /\ t \in live /\ st[t].avail # "none"
  /\ st' = [st EXCEPT ![t] = Reap(@)]
  /\ must_run_task' = t
  /\ current_' = t
  /\ slice' \in 0 .. MaxSlice - 1
  /\ pc' = "record"
  /\ UNCHANGED <<enable_chaos, live, sched, enable_poll, switchable, owed>>

(* waitpid fails with EINTR, if it has nothing to report: a signal for rr,   *)
(* or the timer for polling.                                                 *)
Interrupted ==
  /\ pc = "wait"
  /\ \A t \in live : st[t].avail = "none"
  /\ pc' = "enter"
  /\ UNCHANGED <<enable_chaos, live, st, sched, current_, must_run_task, slice, enable_poll, switchable, owed>>

-----------------------------------------------------------------------------
(* RecordSession: what record_step does with the task it was given. *)

Record(c, sw) ==
  /\ pc = "record" /\ c = current_
  /\ pc' = "enter"
  /\ switchable' = sw
  /\ UNCHANGED <<must_run_task, enable_poll>>

(* Mutant: the destroyed task stays the current one. *)
on_destroy_current(t) ==
  /\ UNCHANGED current_
  /\ task_round_robin_queue' = SelectSeq(Queue, LAMBDA u : u # t)
  /\ task_priority_set' = task_priority_set \ {<<priority[t], t>>}
  /\ in_round_robin_queue' = [in_round_robin_queue EXCEPT ![t] = FALSE]
  /\ priority' = [priority EXCEPT ![t] = 0]

(* A destroyed task leaves the container it is in. *)
on_destroy(t) ==
  /\ current_' = NoTask
  /\ task_round_robin_queue' = SelectSeq(Queue, LAMBDA u : u # t)
  /\ task_priority_set' = task_priority_set \ {<<priority[t], t>>}
  /\ in_round_robin_queue' = [in_round_robin_queue EXCEPT ![t] = FALSE]
  /\ priority' = [priority EXCEPT ![t] = 0]

(* An exit that was not prepared makes the rest of the thread group unstable. *)
HandleExit(c) ==
  /\ Record(c, "PREVENT_SWITCH")
  /\ st[c].is_dying
  /\ UNCHANGED enable_chaos
  /\ live' = live \ {c}
  /\ st' = [u \in Task |->
              IF u = c THEN NewTask
              ELSE IF u \in Peers(c) /\ st[c].mode # "exit" THEN [st[u] EXCEPT !.unstable = TRUE]
              ELSE st[u]]
  /\ on_destroy(c)
  /\ slice' = 0
  /\ owed' = [t \in Task |-> IF t = c THEN {} ELSE owed[t] \ {c}]

RefuseUnstable(c) ==
  /\ Record(c, "ALLOW_SWITCH")
  /\ st[c].unstable /\ ~st[c].is_dying
  /\ UNCHANGED <<enable_chaos, live, st, sched, current_, slice, owed>>

Steady(c) == ~st[c].unstable /\ ~st[c].is_dying

SyscallExit(c) ==
  /\ Record(c, "ALLOW_SWITCH")
  /\ Steady(c) /\ st[c].mode # "user"
  /\ st' = [st EXCEPT ![c].mode = "user"]
  /\ UNCHANGED <<enable_chaos, live, sched, current_, slice, owed>>

(* c has run user code up to a stop. *)
Ran(c) ==
  /\ Steady(c) /\ st[c].mode = "user"
  /\ UNCHANGED current_
Left == IF slice = 0 THEN 0 ELSE slice - 1

In(c, mode) == [st EXCEPT ![c].mode = mode, ![c].running = TRUE]

Syscall(c, sw) ==
  /\ Record(c, sw) /\ Ran(c)
  /\ st' = In(c, "sys") /\ slice' = Left
  /\ UNCHANGED <<enable_chaos, live, sched, owed>>

sched_yield(c) ==
  /\ Record(c, "ALLOW_SWITCH") /\ Ran(c)
  /\ st' = In(c, "yield") /\ slice' = 0
  /\ schedule_one_round_robin(c)
  /\ UNCHANGED <<enable_chaos, live>>

setpriority(c, t, value) ==
  /\ Record(c, "PREVENT_SWITCH") /\ Ran(c)
  /\ t \in live /\ ~enable_chaos
  /\ st' = In(c, "sys") /\ slice' = Left
  /\ update_task_priority_internal(t, value)
  /\ UNCHANGED <<enable_chaos, live, owed>>

clone(c, t) ==
  /\ Record(c, "PREVENT_SWITCH") /\ Ran(c)
  /\ t \in Task \ live
  /\ UNCHANGED enable_chaos
  /\ live' = live \cup {t}
  /\ st' = In(c, "sys") /\ slice' = Left
  /\ \E p \in (IF enable_chaos THEN {0, 1} ELSE {priority[c]}) :
       /\ priority' = [priority EXCEPT ![t] = p]
       /\ task_priority_set' = task_priority_set \cup {<<p, t>>}
  /\ UNCHANGED <<in_round_robin_queue, task_round_robin_queue, owed>>

exit(c) ==
  /\ Record(c, "ALLOW_SWITCH") /\ Ran(c)
  /\ st' = In(c, "exit") /\ slice' = Left
  /\ update_task_priority_internal(c, priority[c])
  /\ UNCHANGED <<enable_chaos, live, owed>>

(* The timeslice is over; a task in a spinlock yields. *)
TimeSlice(c, maybe_in_spinlock) ==
  /\ Record(c, "ALLOW_SWITCH") /\ Ran(c)
  /\ slice' = 0 /\ Left = 0
  /\ IF maybe_in_spinlock THEN schedule_one_round_robin(c) ELSE UNCHANGED <<sched, owed>>
  /\ UNCHANGED <<enable_chaos, live, st>>

(* SIGSTOP stops all threads of the process; it is not passed to the kernel. *)
SigStop(c) ==
  /\ Record(c, "ALLOW_SWITCH") /\ Ran(c)
  /\ st' = [u \in Task |-> IF u \in Peers(c) THEN [st[u] EXCEPT !.stop = TRUE] ELSE st[u]]
  /\ slice' = Left
  /\ UNCHANGED <<enable_chaos, live, sched, owed>>

FatalSignal(c) ==
  /\ Record(c, "ALLOW_SWITCH") /\ Ran(c)
  /\ st' = [u \in Task |->
              IF u \in Peers(c) THEN [st[u] EXCEPT !.unstable = TRUE, !.running = @ \/ u = c] ELSE st[u]]
  /\ slice' = Left
  /\ UNCHANGED <<enable_chaos, live, sched, owed>>

RecordStep(c) ==
  \/ HandleExit(c) \/ RefuseUnstable(c) \/ SyscallExit(c)
  \/ \E sw \in {"ALLOW_SWITCH", "PREVENT_SWITCH"} : Syscall(c, sw)
  \/ sched_yield(c) \/ exit(c) \/ FatalSignal(c)
  \/ \E t \in Task, p \in Priorities : setpriority(c, t, p)
  \/ \E t \in Task : clone(c, t)
  \/ \E b \in BOOLEAN : TimeSlice(c, b)

-----------------------------------------------------------------------------
(* The kernel. *)

Kernel(t, s) ==
  /\ t \in live
  /\ st' = [st EXCEPT ![t] = s]
  /\ UNCHANGED <<enable_chaos, live, sched, current_, must_run_task, slice, enable_poll, switchable, pc, owed>>

(* A system call is done. *)
Completes(t) ==
  /\ st[t].running /\ st[t].avail = "none"
  /\ Kernel(t, [st[t] EXCEPT !.avail = IF st[t].mode = "exit" THEN "exit" ELSE "event"])

(* A task that blocks or is stopped is killed. *)
Killed(t) ==
  /\ (st[t].mode = "sys" /\ st[t].running) \/ st[t].stop
  /\ ~st[t].is_dying /\ st[t].avail # "exit"
  /\ Kernel(t, [st[t] EXCEPT !.avail = "exit"])

(* The thread group of an unstable task is exiting. *)
UnstableExit(t) ==
  /\ st[t].unstable /\ ~st[t].is_dying /\ st[t].avail # "exit"
  /\ Kernel(t, [st[t] EXCEPT !.avail = "exit"])

(* kill: the signal is pending for the whole process. *)
SendSIGCONT(t) ==
  /\ t \in live /\ st[t].stop /\ ~st[t].cont
  /\ st' = [u \in Task |-> IF u \in Peers(t) THEN [st[u] EXCEPT !.cont = st[u].stop] ELSE st[u]]
  /\ UNCHANGED <<enable_chaos, live, sched, current_, must_run_task, slice, enable_poll, switchable, pc, owed>>

-----------------------------------------------------------------------------
Init ==
  /\ enable_chaos \in ChaosModes
  /\ live = Initial
  /\ st = [t \in Task |-> NewTask]
  /\ priority = [t \in Task |-> 0]
  /\ in_round_robin_queue = [t \in Task |-> FALSE]
  /\ task_priority_set = {<<0, t>> : t \in Initial}
  /\ task_round_robin_queue = << >>
  /\ current_ = NoTask
  /\ must_run_task = NoTask
  /\ slice = 0
  /\ enable_poll = FALSE
  /\ switchable = "PREVENT_SWITCH"
  /\ pc = "enter"
  /\ owed = [t \in Task |-> {}]

(* All tasks have exited, and the recording ends. *)
Ended == live = {} /\ UNCHANGED vars

Reschedule == EnterReschedule \/ Unswitchable \/ Preempt \/ Iterate

Next ==
  \/ Reschedule
  \/ \E t \in Task : WaitStatus(t)
  \/ Interrupted
  \/ \E c \in Task : RecordStep(c)
  \/ \E t \in Task : Completes(t) \/ Killed(t) \/ UnstableExit(t)
  \/ Ended

(* The same with job control: processes may be stopped and continued. *)
NextStops == Next \/ \E c \in Task : SigStop(c) \/ SendSIGCONT(c)

(* rr itself goes on, a blocked syscall that was made unswitchable ends, the *)
(* timer for polling fires, and the kernel takes an exiting thread group     *)
(* down.  Nothing makes any other system call end.                           *)
Fairness ==
  /\ WF_vars(Reschedule)
  /\ WF_vars(\E t \in Task : WaitStatus(t))
  /\ WF_vars(enable_poll /\ Interrupted)
  /\ WF_vars(\E c \in Task : RecordStep(c))
  /\ \A t \in Task : /\ WF_vars(UnstableExit(t))
                     /\ WF_vars(pc = "unswitchable" /\ t = current_ /\ Completes(t))

Spec == Init /\ [][Next]_vars
StopSpec == Init /\ [][NextStops]_vars
FairSpec == StopSpec /\ Fairness

-----------------------------------------------------------------------------
(* Properties. *)

(* Every variable has its type. *)
TypeOK ==
  /\ live \subseteq Task
  /\ st \in [Task -> TaskState]
  /\ task_priority_set \subseteq ({-9999} \cup 0 .. 20) \X Task
  /\ task_round_robin_queue \in Seq(Task)
  /\ current_ \in live \cup {NoTask}
  /\ must_run_task \in Task \cup {NoTask}
  /\ slice \in 0 .. MaxSlice
  /\ switchable \in {"ALLOW_SWITCH", "PREVENT_SWITCH"}
  /\ pc \in {"enter", "unswitchable", "loop", "wait", "record"}

(* Scheduler.h: "Every task of this session is either in task_priority_set   *)
(* (when in_round_robin_queue is false), or in task_round_robin_queue (when  *)
(* in_round_robin_queue is true)", once and with its priority.               *)
EveryTaskIsInOne ==
  /\ task_priority_set = {<<priority[t], t>> : t \in {u \in live : ~in_round_robin_queue[u]}}
  /\ ToSet(Queue) = {u \in live : in_round_robin_queue[u]}
  /\ Len(Queue) = Cardinality(ToSet(Queue))

(* The assertions of validate_scheduled_task and is_task_runnable: the task  *)
(* that must run is the one that is scheduled, and while tasks are asked     *)
(* about there is none; the scheduled task is the head of the queue.         *)
ScheduledTaskIsValid ==
  /\ pc = "loop" => must_run_task = NoTask
  /\ pc = "record" => /\ must_run_task \in {NoTask, current_}
                      /\ Queue = << >> \/ current_ = Head(Queue)

(* A task whose syscall status was reaped is the one that is scheduled,      *)
(* "otherwise we will lose an event and probably deadlock!!!".               *)
NoEventLost ==
  \A t \in live :
    st[t].mode # "user" /\ ~st[t].running /\ ~st[t].stop /\ Steady(t)
      => pc = "record" /\ current_ = t

(* Unless there is a round of round-robin, no runnable task of a higher      *)
(* priority is passed over.                                                  *)
HighestPriorityRuns ==
  [][pc = "loop" /\ pc' = "record" /\ Queue = << >>
       => \A u \in live : Runnable(u) => priority[current_'] <= priority[u]]_vars

(* schedule_one_round_robin: the task that yielded is not scheduled before   *)
(* every other task that can run has been, unless rr had to wait.            *)
YieldedTaskIsLast ==
  [][pc = "loop" /\ pc' = "record" => \A u \in owed[current_'] : ~Runnable(u)]_vars

(* A task that can run is scheduled in the end, if all have one priority.    *)
(* In an unstable exit it depends on the order in which waitpid reports.     *)
NoStarvation ==
  \A t \in Task : []<>(t \notin live \/ ~Runnable(t) \/ st[t].unstable \/ (pc = "record" /\ current_ = t))

(* A SIGCONT for a stopped task is noticed, also when it comes from outside. *)
ContinuedInTheEnd ==
  \A t \in Task : (st[t].stop /\ st[t].cont) ~> (~st[t].stop \/ st[t].unstable \/ t \notin live)
=============================================================================
