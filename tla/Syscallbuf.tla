----------------------------- MODULE Syscallbuf -----------------------------
(***************************************************************************)
(* One recorded thread and its system-call buffer.  The thread runs the    *)
(* hook of preload/syscallbuf.c: it takes the buffer, makes its system     *)
(* call untraced, commits a record and lets the buffer go.  The recorder   *)
(* (RecordSession, RecordTask, record_signal) sees the thread only when it *)
(* stops: at a traced call, at a breakpoint it has set, at a seccomp event *)
(* or at a signal, the desched signal among them that says that an         *)
(* untraced call has blocked.  The recorder writes the trace: it flushes   *)
(* the buffer, resets it, aborts a commit it has recorded itself, and      *)
(* holds signals back until the thread is where they can be delivered.     *)
(*                                                                         *)
(* cx is the running context (the program or a signal handler) and stack   *)
(* holds the interrupted ones.  cx.pc is the place in the hook:            *)
(*   app hook stage start arm untraced kernel kexit post commit disarm     *)
(*   unlock exit notify control final, and traced ktraced kxtraced for a   *)
(*   traced call; restart and trestart stand for a call the kernel has     *)
(*   kicked out with -ERESTART.                                            *)
(***************************************************************************)
EXTENDS SyscallbufWrappers, FiniteSets, SequencesExt

CONSTANTS
    FirstCalls,    \* the calls the program may make first
    LaterCalls,    \* the calls it may make after that
    HandlerCalls,  \* the calls a signal handler may make
    MaxCalls,      \* bound: calls of the program
    Capacity,      \* bound: records the buffer holds
    Disabled,      \* descriptors for which buffering is off (FdTable)
    Signals,       \* bound: signals sent to the thread
    Slices,        \* bound: time-slice signals
    Spurious       \* bound: desched signals without a blocked call

VARIABLES
    cx, stack,  \* the running and the interrupted contexts
    hdr,        \* syscallbuf_hdr
    k,          \* the kernel's part: mask, pending signals, desched event
    rr,         \* the recorder's part: events, stash, breakpoints, mask cache
    stop,       \* "run", "idle", or why the thread has stopped
    log,        \* calls in the trace, in its order
    done,       \* calls the kernel has completed, in their order
    want,       \* whether the program has the signal blocked
    budget,     \* what is left of the bounds
    fault       \* an ASSERT or a fatal() of the code has failed

vars == <<cx, stack, hdr, k, rr, stop, log, done, want, budget, fault>>

NoCall == [no |-> "none", arg |-> "", fd |-> NoFd, null |-> TRUE, chaos |-> FALSE,
           mprotects_full |-> FALSE, trap |-> FALSE]
AppContext == [pc |-> "app", call |-> NoCall, plan |-> << Traced >>, st |-> 1, after |-> "stage", ret |-> "zero",
               id |-> 0, mem |-> <<>>, slot |-> <<>>, rmem |-> <<>>]

Init ==
    /\ cx = AppContext /\ stack = <<>>
    /\ hdr = [recs |-> <<>>, abort |-> FALSE, notify |-> FALSE, locked |-> {},
              relevant |-> FALSE, failed |-> FALSE,
              mask |-> FALSE, gen |-> 0, crit |-> FALSE]
    /\ k = [mask |-> FALSE, pend |-> {}, armed |-> FALSE]
    /\ rr = [ev |-> <<>>, stash |-> <<>>, brk |-> {}, bp |-> {}, flushed |-> -1,
             delay |-> {}, mask |-> FALSE, dirty |-> FALSE, gen |-> 0,
             mode |-> "main", resume |-> "cont", crowded |-> FALSE]
    /\ stop = "run" /\ log = <<>> /\ done = <<>> /\ want = FALSE /\ fault = FALSE
    /\ budget = [calls |-> MaxCalls, sig |-> Signals, slice |-> Slices, spur |-> Spurious,
                 id |-> 1]

Stage == cx.plan[cx.st]
Top(ev) == IF ev = <<>> THEN "sentinel" ELSE Last(ev)
Pop(ev) == Front(ev)

(***************************************************************************)
(* Where the thread is.                                                    *)
(***************************************************************************)
InUntraced(c) == \/ c.pc \in {"kernel", "kexit", "restart"}
                 \/ c.pc = "untraced" /\ stop \in {"entry", "seccomp"}
InTraced(c) == c.pc \in {"ktraced", "kxtraced", "trestart"}
AtTracedEntry(c) == c.pc = "traced"
InSyscallbuf(c) == c.pc # "app"
\* the desched record of the current event: RecordTask::desched_rec
DeschedRec == Top(rr.ev) \in {"desched", "dsyscall", "dinterrupted"}
RunningInsideDesched == "desched" \in Range(rr.ev) /\ ~DeschedRec
AtMayRestart == Top(rr.ev) \in {"interrupted", "dinterrupted"}

(***************************************************************************)
(* Stopping and resuming: RecordTask::did_wait and will_resume_execution.  *)
(* A stashed signal keeps every other signal blocked while the thread      *)
(* runs, with a mask that is not the program's.                            *)
(***************************************************************************)
Blocking == rr.stash # <<>>
\* Mutant: the critical section of sys_rt_sigprocmask is not looked at.
did_wait_NoCritical(r, kk) ==
    IF r.stash # <<>> THEN <<r, [kk EXCEPT !.mask = r.mask]>>
    ELSE IF hdr.gen > r.gen THEN <<[r EXCEPT !.gen = hdr.gen, !.mask = hdr.mask], kk>>
    ELSE <<r, kk>>
did_wait(r, kk) ==
    IF r.stash # <<>> THEN <<r, [kk EXCEPT !.mask = r.mask]>>
    ELSE IF hdr.crit THEN <<[r EXCEPT !.dirty = TRUE], kk>>
    ELSE IF hdr.gen > r.gen THEN <<[r EXCEPT !.gen = hdr.gen, !.mask = hdr.mask], kk>>
    ELSE <<r, kk>>
get_sigmask(r, kk) == IF r.dirty THEN [r EXCEPT !.mask = kk.mask, !.dirty = FALSE] ELSE r

Breakpoints(r, how) ==
    IF how = "exit" THEN {}
    ELSE (IF Top(r.ev) \in {"interrupted", "dinterrupted"} THEN {}
          ELSE r.brk \cap {"traced", "untraced"}) \cup (r.brk \cap {"final"})
\* r and kk as they are when the thread is resumed in the given way
will_resume_execution(r, kk, how) ==
    LET g == get_sigmask(r, kk)
    IN  /\ rr' = [g EXCEPT !.resume = how, !.bp = Breakpoints(g, how)]
        /\ k' = IF g.stash # <<>> THEN [kk EXCEPT !.mask = TRUE] ELSE kk
        /\ stop' = "run"
Stopped(why) ==
    LET w == did_wait(rr, k) IN rr' = w[1] /\ k' = w[2] /\ stop' = why

(***************************************************************************)
(* Writing the trace.  s is the buffer header, the recorder and the trace. *)
(***************************************************************************)
State == [hdr |-> hdr, rr |-> rr, log |-> log, fault |-> fault]
Becomes(s) == hdr' = s.hdr /\ rr' = s.rr /\ log' = s.log /\ fault' = s.fault

maybe_flush_syscallbuf(s) ==
    LET n == Len(s.hdr.recs)
        bad == s.rr.flushed >= 0 /\ s.rr.flushed # n
    IN  IF bad THEN [s EXCEPT !.fault = TRUE]
        ELSE IF n = 0 \/ s.rr.flushed >= 0 THEN s
        ELSE [s EXCEPT !.rr.flushed = n, !.log = @ \o s.hdr.recs]
\* Mutant: a delayed reset is not delayed.
maybe_reset_syscallbuf_AtOnce(s) ==
    IF s.rr.flushed < 0 THEN s
    ELSE [s EXCEPT !.rr.flushed = -1, !.rr.gen = 0, !.hdr.recs = <<>>, !.hdr.gen = 0,
                   !.fault = @ \/ (InUntraced(cx) /\ "tracee" \in s.hdr.locked)]
maybe_reset_syscallbuf(s) ==
    IF s.rr.flushed < 0 \/ s.rr.delay # {} THEN s
    ELSE [s EXCEPT !.rr.flushed = -1, !.rr.gen = 0, !.hdr.recs = <<>>, !.hdr.gen = 0,
                   !.fault = @ \/ (InUntraced(cx) /\ "tracee" \in s.hdr.locked)]
\* an event with a reliable tick count, and one without
record_event(s) == maybe_reset_syscallbuf(maybe_flush_syscallbuf(s))
record_slop(s) == maybe_flush_syscallbuf(s)
Logged(s, id) == [s EXCEPT !.log = Append(@, id)]

(***************************************************************************)
(* What a completed call does to the data: the program's memory in the     *)
(* recording (mem) and in the replay (rmem), and the room in the record.   *)
(***************************************************************************)
Copied(copy, ret, failed) ==
    CASE copy = "ok" -> ret \in NonNegative /\ ~failed
      [] copy = "ret" -> ret \in Positive /\ ~failed
      [] copy \in {"always", "futex", "value"} -> TRUE
      [] OTHER -> FALSE
\* the kernel has executed the call with result ret
Wrote(copy, ret) == IF copy = "ret" THEN ret \in Positive ELSE ret \in NonNegative
KernelWrites(outs, ret, place, old) ==
    [p \in DOMAIN outs |->
        IF outs[p].to \in place /\ Wrote(outs[p].copy, ret) THEN "new" ELSE old[p]]
Fresh(outs, in) == [p \in DOMAIN outs |-> IF in /\ outs[p].in THEN "old" ELSE "junk"]
\* the copies of the wrapper, from the room to the program's memory
CopyBack(outs, ret, failed, room, memory, replay) ==
    [p \in DOMAIN outs |->
        CASE ~Copied(outs[p].copy, ret, failed) -> memory[p]
          [] outs[p].copy = "value" -> "new"
          [] outs[p].copy = "futex" -> IF replay THEN room[p] ELSE memory[p]
          [] OTHER -> room[p]]
\* the room at commit: a futex word is saved in it
Saved(outs, room, memory) ==
    [p \in DOMAIN outs |-> IF outs[p].copy = "futex" THEN memory[p] ELSE room[p]]
\* what the replay finds in the room: the record, or what the recorder saved
\* of a call it recorded itself, or nothing of a call that did not run
ReplayRoom(outs, aborted, failed, room) ==
    [p \in DOMAIN outs |->
        IF ~aborted THEN room[p]
        ELSE IF ~failed /\ outs[p].to \in {"rec", "scratch"} /\ room[p] = "new"
             THEN "new" ELSE "zeroed"]

(***************************************************************************)
(* The program: a call goes through syscall_hook.                          *)
(***************************************************************************)
Runs == stop = "run" /\ ~fault
At(pc) == Runs /\ cx.pc = pc
Goto(pc) == cx' = [cx EXCEPT !.pc = pc]

CallsNow == IF stack # <<>> THEN HandlerCalls
            ELSE IF budget.calls = MaxCalls THEN FirstCalls ELSE LaterCalls
MayCall == IF stack # <<>> THEN cx.id = 0 ELSE budget.calls > 0

MakeCall ==
    /\ At("app") /\ MayCall
    /\ \E c \in CallsNow :
          cx' = [AppContext EXCEPT !.pc = "hook", !.call = c, !.id = budget.id]
    /\ budget' = [budget EXCEPT !.id = @ + 1, !.calls = IF stack = <<>> THEN @ - 1 ELSE @]
    /\ UNCHANGED <<stack, hdr, k, rr, stop, log, done, want, fault>>

NeverBlocks == {"rt_sigprocmask", "getpid", "clock_gettime", "gettimeofday", "time"}
\* What is left of a call once its wrapper is known: the kernel and the
\* recorder tell only these apart.
Seen(c) ==
    [NoCall EXCEPT !.no = IF c.no \in {"rt_sigprocmask", "time", "ptrace"} THEN c.no
                          ELSE IF c.no \in NeverBlocks THEN "getpid" ELSE "other",
                   !.arg = IF c.no \in {"rt_sigprocmask", "recvmsg"} THEN c.arg ELSE "",
                   !.trap = c.trap]

\* syscall_hook: a locked buffer means a handler inside a transaction
syscall_hook ==
    /\ At("hook")
    /\ LET c == [cx EXCEPT !.call = Seen(@)]
       IN  cx' = IF hdr.locked # {} THEN [c EXCEPT !.pc = "traced", !.after = "final"]
                 ELSE [c EXCEPT !.pc = "stage", !.plan = Plan(cx.call)]
    /\ UNCHANGED <<stack, hdr, k, rr, stop, log, done, want, budget, fault>>

is_bufferable_fd(fd) == fd \notin Disabled

\* the start of a stage: prep_syscall_for_fd takes the lock, or does not.
\* Every further stage is a call of its own in the trace.
prep_syscall ==
    /\ At("stage")
    /\ LET s == Stage
           id == IF cx.st = 1 THEN cx.id ELSE budget.id
           traced == s.kind = "traced"
           refused == ~traced /\ ~is_bufferable_fd(s.fd)
           after == IF refused /\ ~s.goes THEN "exit" ELSE "stage"
       IN  /\ cx' = [cx EXCEPT !.pc = IF traced \/ refused THEN "traced" ELSE "start",
                               !.after = after, !.id = id,
                               !.slot = Fresh(s.outs, FALSE),
                               !.mem = [p \in DOMAIN s.outs |-> "old"],
                               !.rmem = [p \in DOMAIN s.outs |-> "old"]]
           /\ hdr' = IF traced \/ refused THEN hdr
                     ELSE [hdr EXCEPT !.locked = @ \cup {"tracee"}]
           /\ budget' = IF cx.st = 1 THEN budget ELSE [budget EXCEPT !.id = @ + 1]
    /\ UNCHANGED <<stack, k, rr, stop, log, done, want, fault>>

\* Mutant: desched_signal_may_be_relevant is not set for a call that may block.
start_commit_buffered_syscall_NotRelevant ==
    /\ At("start")
    /\ LET s == Stage
           full == Len(hdr.recs) >= Capacity
       IN  /\ cx' = IF full THEN [cx EXCEPT !.pc = "traced",
                                            !.after = IF s.goes THEN "stage" ELSE "exit"]
                    ELSE [cx EXCEPT !.pc = IF s.block THEN "arm" ELSE "untraced",
                                    !.slot = Fresh(s.outs, TRUE)]
           /\ hdr' = IF full THEN [hdr EXCEPT !.locked = @ \ {"tracee"}]
                     ELSE [hdr EXCEPT !.crit = cx.call.no = "rt_sigprocmask"]
    /\ UNCHANGED <<stack, k, rr, stop, log, done, want, budget, fault>>
start_commit_buffered_syscall ==
    /\ At("start")
    /\ LET s == Stage
           full == Len(hdr.recs) >= Capacity
       IN  /\ cx' = IF full THEN [cx EXCEPT !.pc = "traced",
                                            !.after = IF s.goes THEN "stage" ELSE "exit"]
                    ELSE [cx EXCEPT !.pc = IF s.block THEN "arm" ELSE "untraced",
                                    !.slot = Fresh(s.outs, TRUE)]
           /\ hdr' = IF full THEN [hdr EXCEPT !.locked = @ \ {"tracee"}]
                     ELSE [hdr EXCEPT !.relevant = s.block \/ @,
                                      !.crit = cx.call.no = "rt_sigprocmask"]
    /\ UNCHANGED <<stack, k, rr, stop, log, done, want, budget, fault>>

arm_desched_event ==
    /\ At("arm") /\ rr.resume # "syscall"
    /\ Goto("untraced")
    /\ k' = [k EXCEPT !.armed = TRUE]
    /\ UNCHANGED <<stack, hdr, rr, stop, log, done, want, budget, fault>>

(***************************************************************************)
(* The kernel executes a call.                                             *)
(***************************************************************************)
Results(c) == IF c.no = "time" THEN {"full"}
              ELSE IF c.no = "ptrace" THEN {"err", "short", "full"}
              ELSE {"err", "zero", "full"}
\* rt_sigprocmask(SIG_SETMASK): the program's signal becomes blocked or not
NewMask(c, old) == IF c.no # "rt_sigprocmask" THEN old ELSE c.arg = "block"
Completes(c, ret) ==
    IF c.pc \in {"traced", "ktraced"} THEN [c EXCEPT !.pc = "kxtraced", !.ret = ret]
    ELSE [c EXCEPT !.pc = "kexit", !.ret = ret,
                   !.slot = KernelWrites(Stage.outs, ret, {"rec", "scratch"}, @),
                   !.mem = KernelWrites(Stage.outs, ret, {"mem"}, @)]
Effects(ret) ==
    /\ cx' = Completes(cx, ret)
    /\ done' = Append(done, cx.id)
    /\ want' = IF ret = "err" THEN want ELSE NewMask(cx.call, want)
    /\ k' = IF ret = "err" THEN k ELSE [k EXCEPT !.mask = NewMask(cx.call, @)]
Blocks(pc) == Goto(pc) /\ UNCHANGED <<k, done, want>>

\* an untraced call that does not block, or does
Execute ==
    /\ At("untraced") /\ rr.resume # "syscall" /\ "untraced" \notin rr.bp
    /\ ~cx.call.trap
    /\ \/ \E ret \in Results(cx.call) : Effects(ret)
       \/ Stage.block /\ Blocks("kernel")
    /\ UNCHANGED <<stack, hdr, rr, stop, log, budget, fault>>
\* a blocked call, untraced or traced, completes
Wake ==
    /\ Runs /\ cx.pc \in {"kernel", "ktraced"}
    /\ \E ret \in Results(cx.call) : Effects(ret)
    /\ UNCHANGED <<stack, hdr, rr, stop, log, budget, fault>>
\* a traced call enters the kernel: it is resumed to its exit
ExecuteTraced ==
    /\ At("traced") /\ rr.resume = "exit"
    /\ \/ \E ret \in Results(cx.call) : Effects(ret)
       \/ cx.call.no \notin NeverBlocks /\ Blocks("ktraced")
    /\ UNCHANGED <<stack, hdr, rr, stop, log, budget, fault>>

\* the desched event fires when the armed thread is switched out
DeschedFires ==
    /\ Runs /\ k.armed /\ "P" \notin k.pend
    /\ cx.pc = "kernel" \/ budget.spur > 0
    /\ k' = [k EXCEPT !.pend = @ \cup {"P"}]
    /\ budget' = IF cx.pc = "kernel" THEN budget ELSE [budget EXCEPT !.spur = @ - 1]
    /\ UNCHANGED <<cx, stack, hdr, rr, stop, log, done, want, fault>>
SendSignal ==
    /\ Runs /\ budget.sig > 0 /\ k' = [k EXCEPT !.pend = @ \cup {"S"}]
    /\ budget' = [budget EXCEPT !.sig = @ - 1]
    /\ UNCHANGED <<cx, stack, hdr, rr, stop, log, done, want, fault>>
\* none is asked for while one is stashed (task_continue)
SliceEnds ==
    /\ Runs /\ budget.slice > 0 /\ "T" \notin Range(rr.stash) /\ rr.resume # "exit"
    /\ k' = [k EXCEPT !.pend = @ \cup {"T"}]
    /\ budget' = [budget EXCEPT !.slice = @ - 1]
    /\ UNCHANGED <<cx, stack, hdr, rr, stop, log, done, want, fault>>
Deliverable == {s \in k.pend : s # "S" \/ ~k.mask}

\* A signal kicks the thread out of a blocked call and stops it.  Under
\* PTRACE_SYSCALL the exit from the call is reported first.
SignalStops ==
    /\ Runs
    /\ \E s \in Deliverable :
          LET kicked == [cx EXCEPT !.pc = CASE @ = "kernel" -> "restart"
                                           [] @ = "ktraced" -> "trestart"
                                           [] OTHER -> @]
              exits == rr.resume = "exit" /\ cx.pc \in {"kernel", "ktraced"}
              w == did_wait(rr, [k EXCEPT !.pend = IF exits THEN @ ELSE @ \ {s}])
          IN  /\ rr.resume = "exit" => cx.pc \in {"kernel", "ktraced"}
              /\ cx' = kicked
              /\ rr' = w[1] /\ k' = w[2]
              /\ stop' = IF exits THEN "exit" ELSE s
    /\ UNCHANGED <<stack, hdr, log, done, want, budget, fault>>
\* ... and when no signal is left, the kernel executes the call again
Restart ==
    /\ Runs /\ cx.pc \in {"restart", "trestart"} /\ Deliverable = {}
    /\ Goto(IF cx.pc = "restart" THEN "untraced" ELSE "traced")
    /\ UNCHANGED <<stack, hdr, k, rr, stop, log, done, want, budget, fault>>

(***************************************************************************)
(* After the call: the copies, the commit, the way out of the hook.        *)
(***************************************************************************)
LeaveKernel ==
    /\ At("kexit") /\ rr.resume # "exit"
    /\ Goto("post")
    /\ UNCHANGED <<stack, hdr, k, rr, stop, log, done, want, budget, fault>>
\* the wrapper's copies; sys_rt_sigprocmask publishes the new mask
CopyOut ==
    /\ At("post")
    /\ LET room == Saved(Stage.outs, cx.slot, cx.mem)
       IN  cx' = [cx EXCEPT !.pc = "commit", !.slot = room,
                            !.mem = CopyBack(Stage.outs, cx.ret, hdr.failed, room, @, FALSE)]
    /\ hdr' = IF cx.call.no = "rt_sigprocmask" /\ cx.ret \in NonNegative /\ ~hdr.failed
              THEN [hdr EXCEPT !.mask = NewMask(cx.call, @), !.gen = @ + 1] ELSE hdr
    /\ UNCHANGED <<stack, k, rr, stop, log, done, want, budget, fault>>
commit_raw_syscall ==
    /\ At("commit")
    /\ LET outs == Stage.outs
           direct == IF Stage.replayed THEN {"mem"} ELSE {}
           rmem == KernelWrites(outs, cx.ret, direct, cx.rmem)
           room == ReplayRoom(outs, hdr.abort, hdr.failed, cx.slot)
       IN  cx' = [cx EXCEPT !.pc = IF Stage.block THEN "disarm" ELSE "unlock",
                            !.rmem = CopyBack(outs, cx.ret, hdr.failed, room, rmem, TRUE)]
    /\ hdr' = IF hdr.abort
              THEN [hdr EXCEPT !.relevant = FALSE, !.crit = FALSE,
                               !.abort = FALSE, !.failed = FALSE]
              ELSE [hdr EXCEPT !.relevant = FALSE, !.crit = FALSE,
                               !.recs = Append(@, cx.id)]
    /\ fault' = (fault \/ hdr.locked = {})
    /\ UNCHANGED <<stack, k, rr, stop, log, done, want, budget>>
disarm_desched_event ==
    /\ At("disarm") /\ rr.resume # "syscall"
    /\ Goto("unlock")
    /\ k' = [k EXCEPT !.armed = FALSE]
    /\ UNCHANGED <<stack, hdr, rr, stop, log, done, want, budget, fault>>

\* the next stage of the wrapper, or the end of syscall_hook_internal
Continue(c) ==
    LET i == c.plan[c.st].next[c.ret]
    IN  IF c.after = "stage" /\ i # 0 THEN [c EXCEPT !.pc = "stage", !.st = i]
        ELSE [c EXCEPT !.pc = IF c.after = "final" THEN "final" ELSE "exit"]
unlock ==
    /\ At("unlock")
    /\ hdr' = [hdr EXCEPT !.locked = @ \ {"tracee"}]
    /\ cx' = Continue(cx)
    /\ UNCHANGED <<stack, k, rr, stop, log, done, want, budget, fault>>
LeaveTraced ==
    /\ At("kxtraced") /\ rr.resume # "exit"
    /\ cx' = Continue(cx)
    /\ UNCHANGED <<stack, hdr, k, rr, stop, log, done, want, budget, fault>>
\* notify_on_syscall_hook_exit, notify_control_msg: privileged traced calls
hook_exit ==
    /\ At("exit")
    /\ Goto(IF hdr.notify THEN "notify"
            ELSE IF cx.call.arg = "fds" /\ cx.ret \in NonNegative THEN "control" ELSE "final")
    /\ UNCHANGED <<stack, hdr, k, rr, stop, log, done, want, budget, fault>>
Back == cx' = [AppContext EXCEPT !.id = cx.id]
Return ==
    /\ At("final") /\ "final" \notin rr.bp /\ Back
    /\ UNCHANGED <<stack, hdr, k, rr, stop, log, done, want, budget, fault>>

Thread == \/ MakeCall \/ syscall_hook \/ prep_syscall \/ start_commit_buffered_syscall
          \/ arm_desched_event \/ Execute \/ ExecuteTraced \/ Restart
          \/ LeaveKernel \/ CopyOut \/ commit_raw_syscall \/ disarm_desched_event
          \/ unlock \/ LeaveTraced \/ hook_exit \/ Return
=============================================================================
