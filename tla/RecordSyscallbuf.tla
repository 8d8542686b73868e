-------------------------- MODULE RecordSyscallbuf --------------------------
(***************************************************************************)
(* The recorder's side of the system-call buffer: what RecordSession,      *)
(* RecordTask and record_signal do at each stop of the thread that module  *)
(* Syscallbuf describes.  rr.mode is the loop the recorder is in: "main",  *)
(* "desched" (handle_desched_event steps the thread to its untraced call   *)
(* or to the disarm) or "advance" (advance_to_disarm_desched_syscall).     *)
(* rr.ev is the stack of pending events: "syscall", "interrupted" (a call  *)
(* that may be restarted), "handler", "trap", "desched", and "dsyscall",   *)
(* "dinterrupted" for the call that a desched event carries.               *)
(***************************************************************************)
EXTENDS Syscallbuf

Settled == ~fault
\* the thread reports a stop of its own
BreakpointStop ==
    /\ Runs
    /\ \/ cx.pc = "untraced" /\ "untraced" \in rr.bp
       \/ cx.pc = "traced" /\ rr.resume # "exit" /\ "traced" \in rr.bp
       \/ cx.pc = "final" /\ "final" \in rr.bp
    /\ Stopped("bp")
    /\ UNCHANGED <<cx, stack, hdr, log, done, want, budget, fault>>
EntryStop ==
    /\ Runs
    /\ \/ cx.pc \in {"traced", "notify", "control"} /\ rr.resume # "exit"
          /\ ~(cx.pc = "traced" /\ "traced" \in rr.bp)
       \/ cx.pc \in {"untraced", "arm", "disarm"} /\ rr.resume = "syscall"
          /\ ~(cx.pc = "untraced" /\ "untraced" \in rr.bp)
    /\ Stopped("entry")
    /\ UNCHANGED <<cx, stack, hdr, log, done, want, budget, fault>>
ExitStop ==
    /\ Runs /\ rr.resume = "exit" /\ cx.pc \in {"kexit", "kxtraced"}
    /\ Stopped("exit")
    /\ UNCHANGED <<cx, stack, hdr, log, done, want, budget, fault>>
SeccompStop ==
    /\ At("untraced") /\ cx.call.trap
    /\ rr.resume # "syscall" /\ "untraced" \notin rr.bp
    /\ Stopped("seccomp")
    /\ UNCHANGED <<cx, stack, hdr, log, done, want, budget, fault>>

\* stash_sig: one of each signal, and breakpoints to find a place for it
stash_sig(r, s) ==
    IF s \in Range(r.stash) THEN r
    ELSE [r EXCEPT !.stash = Append(@, s), !.brk = {"traced", "untraced", "final"}]
stash_synthetic_sig(r, s) ==
    [r EXCEPT !.stash = <<s>> \o @, !.brk = {"traced", "untraced", "final"}]
stashed_signal_processed(r) ==
    [r EXCEPT !.brk = IF r.stash = <<>> THEN {} ELSE {"traced", "untraced", "final"}]

(***************************************************************************)
(* Signals: handle_signal_event.                                           *)
(***************************************************************************)
StashSignal ==
    /\ Settled /\ stop \in {"S", "T"} /\ rr.mode = "main"
    /\ rr' = stash_sig([rr EXCEPT !.dirty = TRUE], stop)
    /\ stop' = "idle"
    /\ UNCHANGED <<cx, stack, hdr, k, log, done, want, budget, fault>>

handle_syscallbuf_breakpoint ==
    /\ Settled /\ stop = "bp" /\ rr.mode = "main"
    /\ CASE cx.pc = "final" -> Back /\ UNCHANGED <<rr, done>>
         [] cx.pc = "traced" -> UNCHANGED <<cx, rr, done>>
         [] cx.pc = "untraced" /\ cx.call.no = "rt_sigprocmask" ->
                /\ cx' = [cx EXCEPT !.pc = "kexit", !.ret = "eagain"]
                /\ done' = Append(done, cx.id) /\ UNCHANGED rr
         [] OTHER -> /\ rr' = [rr EXCEPT !.brk = @ \ {"untraced"}]
                     /\ UNCHANGED <<cx, done>>
    /\ stop' = "idle"
    /\ UNCHANGED <<stack, hdr, k, log, want, budget, fault>>

\* handle_desched_event: nothing to do, or start of the loop
DeschedIgnored ==
    /\ Settled /\ stop = "P" /\ rr.mode = "main"
    /\ ~hdr.relevant \/ RunningInsideDesched
    /\ k' = [k EXCEPT !.armed = FALSE]
    /\ rr' = [rr EXCEPT !.dirty = TRUE]
    /\ stop' = "idle"
    /\ UNCHANGED <<cx, stack, hdr, log, done, want, budget, fault>>
DeschedStarts ==
    /\ Settled /\ stop = "P" /\ rr.mode = "main"
    /\ hdr.relevant /\ ~RunningInsideDesched
    /\ will_resume_execution([rr EXCEPT !.mode = "desched", !.dirty = TRUE],
                             [k EXCEPT !.armed = FALSE], "syscall")
    /\ UNCHANGED <<cx, stack, hdr, log, done, want, budget, fault>>
\* one turn of a loop: the arm ioctl, a breakpoint, a signal
LoopGoesOn ==
    /\ Settled /\ rr.mode # "main" /\ stop \notin {"run", "idle"}
    /\ \/ stop = "entry" /\ cx.pc = "arm" /\ Goto("untraced")
       \/ stop \in {"bp", "P", "T", "S"} /\ UNCHANGED cx
    /\ LET r == CASE stop = "bp" -> [rr EXCEPT !.brk = @ \ {"untraced"}]
                  [] stop = "S" -> stash_sig(rr, "S")
                  [] OTHER -> rr
       IN  will_resume_execution(r, [k EXCEPT !.armed = @ /\ rr.mode # "desched"], "syscall")
    /\ UNCHANGED <<stack, hdr, log, done, want, budget, fault>>
\* the disarm ioctl: the call has finished by itself
DeschedMissed ==
    /\ Settled /\ rr.mode = "desched" /\ stop = "entry" /\ cx.pc = "disarm"
    /\ rr' = [rr EXCEPT !.mode = "main"]
    /\ stop' = "idle"
    /\ UNCHANGED <<cx, stack, hdr, k, log, done, want, budget, fault>>

(***************************************************************************)
(* Entering and leaving system calls: process_syscall_entry and            *)
(* syscall_state_changed.                                                  *)
(***************************************************************************)
\* Mutant: the desched event is not armed again for a signal that waits.
EnterDesched_NotRearmed ==
    /\ Settled /\ stop = "entry" /\ cx.pc = "untraced"
    /\ LET again == DeschedRec
           r == [rr EXCEPT !.mode = "main",
                           !.delay = @ \cup {"desched"},
                           !.ev = IF again THEN Append(Pop(@), "dsyscall")
                                  ELSE @ \o <<"desched", "dsyscall">>]
           s == record_event([State EXCEPT !.rr = r,
                                           !.fault = ~again /\ "desched" \in rr.delay])
       IN  /\ hdr' = s.hdr /\ log' = s.log /\ fault' = s.fault
           /\ will_resume_execution(s.rr, k, "exit")
    /\ UNCHANGED <<cx, stack, done, want, budget>>
\* the thread is at its untraced call: the desched event is pushed, the call
\* becomes a traced one, and the desched event is armed again when a signal
\* waits for the call to block
EnterDesched ==
    /\ Settled /\ stop = "entry" /\ cx.pc = "untraced"
    /\ LET again == DeschedRec
           r == [rr EXCEPT !.mode = "main",
                           !.delay = @ \cup {"desched"},
                           !.ev = IF again THEN Append(Pop(@), "dsyscall")
                                  ELSE @ \o <<"desched", "dsyscall">>]
           s == record_event([State EXCEPT !.rr = r,
                                           !.fault = ~again /\ "desched" \in rr.delay])
           armed == k.armed \/ rr.stash # <<>>
       IN  /\ hdr' = s.hdr /\ log' = s.log /\ fault' = s.fault
           /\ will_resume_execution(s.rr, [k EXCEPT !.armed = armed], "exit")
    /\ UNCHANGED <<cx, stack, done, want, budget>>
\* a traced call, new or restarted.  A signal may not be waiting.
EnterTraced ==
    /\ Settled /\ stop = "entry" /\ cx.pc = "traced"
    /\ LET ev == IF Top(rr.ev) = "interrupted" THEN Pop(rr.ev) ELSE rr.ev
           s == record_event([State EXCEPT !.rr.ev = Append(ev, "syscall"),
                                           !.fault = rr.stash # <<>>])
       IN  /\ hdr' = s.hdr /\ log' = s.log /\ fault' = s.fault
           /\ will_resume_execution(s.rr, k, "exit")
    /\ UNCHANGED <<cx, stack, done, want, budget>>
\* rrcall_notify_syscall_hook_exit and rrcall_notify_control_msg
EnterNotify ==
    /\ Settled /\ stop = "entry" /\ cx.pc \in {"notify", "control"}
    /\ LET s == record_event(State)
       IN  Becomes(IF cx.pc = "notify" THEN [s EXCEPT !.hdr.notify = FALSE] ELSE s)
    /\ Goto(IF cx.pc = "notify" /\ cx.call.arg = "fds" /\ cx.ret \in NonNegative
            THEN "control" ELSE "final")
    /\ stop' = "idle"
    /\ UNCHANGED <<stack, k, done, want, budget>>

\* Mutant: abort_commit is not set.
Advance_NotAborted(s, kk) ==
    LET t == record_slop(s)
    IN  /\ hdr' = t.hdr /\ log' = t.log /\ fault' = t.fault
        /\ will_resume_execution([t.rr EXCEPT !.mode = "advance"], kk, "syscall")
\* desched_state_changed: the call is in the trace, its record must not be
Advance(s, kk) ==
    LET t == record_slop([s EXCEPT !.hdr.abort = TRUE])
    IN  /\ hdr' = t.hdr /\ log' = t.log /\ fault' = t.fault
        /\ will_resume_execution([t.rr EXCEPT !.mode = "advance"], kk, "syscall")
Idle(s, kk) == Becomes(s) /\ k' = kk /\ stop' = "idle"

ExitSyscall ==
    /\ Settled /\ stop = "exit"
    /\ LET d == DeschedRec
           kk == IF d THEN [k EXCEPT !.armed = FALSE] ELSE k
           restart == cx.pc \in {"restart", "trestart"}
           ev == IF restart THEN Append(Pop(rr.ev), IF d THEN "dinterrupted" ELSE "interrupted")
                 ELSE Pop(rr.ev)
           s == record_event([State EXCEPT
                    !.rr.dirty = @ \/ (~restart /\ cx.call.no = "rt_sigprocmask")])
           t == [(IF restart THEN s ELSE Logged(s, cx.id)) EXCEPT !.rr.ev = ev]
       IN  IF ~restart /\ Top(ev) = "desched" THEN Advance(t, kk) ELSE Idle(t, kk)
    /\ UNCHANGED <<cx, stack, done, want, budget>>
\* the thread has come to the disarm ioctl of the aborted transaction
DisarmReached ==
    /\ Settled /\ rr.mode = "advance" /\ stop = "entry" /\ cx.pc = "disarm"
    /\ Goto("unlock")
    /\ k' = [k EXCEPT !.armed = FALSE]
    /\ rr' = [rr EXCEPT !.mode = "main", !.ev = Pop(@), !.delay = @ \ {"desched"}]
    /\ hdr' = [hdr EXCEPT !.notify = TRUE]
    /\ stop' = "idle"
    /\ UNCHANGED <<stack, log, done, want, budget, fault>>

\* handle_seccomp_trap on an untraced call: recorded at once, SIGSYS first
handle_seccomp_trap ==
    /\ Settled /\ stop = "seccomp"
    /\ LET entered == Top(rr.ev) = "dsyscall"
           r == [rr EXCEPT !.ev = Append(IF entered THEN Pop(@) ELSE @, "trap"),
                           !.delay = @ \cup {"trap"}]
           s == record_event([State EXCEPT !.rr = r, !.hdr.relevant = FALSE,
                                           !.fault = "trap" \in rr.delay])
       IN  Becomes(Logged([s EXCEPT !.rr = stash_synthetic_sig(@, "SYS")], cx.id))
    /\ cx' = [cx EXCEPT !.pc = "kexit", !.ret = "err"]
    /\ done' = Append(done, cx.id)
    /\ stop' = "idle"
    /\ UNCHANGED <<stack, k, want, budget>>

(***************************************************************************)
(* Between two stops: prepare_to_inject_signal, else task_continue.        *)
(***************************************************************************)
is_safe_to_deliver_signal(s) ==
    \/ ~InSyscallbuf(cx)
    \/ InTraced(cx)
    \/ AtTracedEntry(cx)
    \/ InUntraced(cx) /\ DeschedRec
    \/ InUntraced(cx) /\ s = "SYS"
    \/ "tracer" \in hdr.locked
CanInject == rr.stash # <<>> /\ is_safe_to_deliver_signal(Head(rr.stash))

\* a time slice: the SCHED event is written if another thread is chosen
DeliverSlice ==
    /\ Settled /\ stop = "idle" /\ CanInject /\ Head(rr.stash) = "T"
    /\ LET r == stashed_signal_processed([rr EXCEPT !.stash = Tail(@), !.dirty = TRUE])
       IN  \E switched \in BOOLEAN :
              Becomes(IF switched THEN record_event([State EXCEPT !.rr = r])
                      ELSE [State EXCEPT !.rr = r])
    /\ UNCHANGED <<cx, stack, k, stop, done, want, budget>>
\* a signal with a handler: its frame keeps the mask the kernel has at that
\* moment, which is not the program's when another signal is still stashed
DeliverSignal ==
    /\ Settled /\ stop = "idle" /\ CanInject /\ Head(rr.stash) \in {"S", "SYS"}
    /\ LET e == record_event(State)
           g == get_sigmask([e.rr EXCEPT !.dirty = TRUE], k)
           r == stashed_signal_processed([g EXCEPT !.stash = Tail(@)])
           crowd == r.stash # <<>>
       IN  /\ Becomes([e EXCEPT !.rr = [r EXCEPT !.ev = Append(@, "handler"), !.dirty = TRUE,
                                                 !.crowded = @ \/ crowd]])
           /\ stack' = Append(stack, [cx |-> cx, mask |-> IF crowd THEN TRUE ELSE k.mask,
                                      want |-> want, sig |-> Head(rr.stash)])
           /\ k' = [k EXCEPT !.mask = IF crowd THEN r.mask ELSE TRUE]
    /\ want' = TRUE
    /\ cx' = AppContext
    /\ UNCHANGED <<stop, done, budget>>
task_continue ==
    /\ Settled /\ stop = "idle" /\ ~CanInject
    /\ hdr' = IF rr.stash # <<>> /\ InUntraced(cx) THEN [hdr EXCEPT !.notify = TRUE] ELSE hdr
    /\ will_resume_execution(rr, k, IF AtMayRestart THEN "syscall" ELSE "cont")
    /\ UNCHANGED <<cx, stack, log, done, want, budget, fault>>

\* the handler returns: the frame's mask, the interrupted call or its end
seccomp_trap_done(s) ==
    LET t == [s EXCEPT !.rr.ev = Pop(@), !.rr.delay = @ \ {"trap"}, !.hdr.failed = TRUE]
    IN  IF Top(t.rr.ev) = "desched" THEN t
        ELSE record_slop([t EXCEPT !.hdr.abort = TRUE, !.hdr.notify = TRUE])
SigReturn ==
    /\ At("app") /\ stack # <<>>
    /\ LET f == Last(stack)
           kicked == f.cx.pc \in {"restart", "trestart"}
           w == did_wait(rr, k)
           e == record_event([State EXCEPT !.rr = w[1], !.fault = rr.stash # <<>>])
           h == [e EXCEPT !.rr.ev = Pop(@), !.rr.dirty = TRUE]
           kk == [w[2] EXCEPT !.mask = f.mask]
       IN  \E restarts \in (IF kicked THEN BOOLEAN ELSE {FALSE}),
              ret \in (IF f.sig = "SYS" THEN {"err", "zero", "full"} ELSE {f.cx.ret}) :
              LET ends == kicked /\ ~restarts
                  d == IF ends THEN Logged([h EXCEPT !.rr.ev = Pop(@)], f.cx.id) ELSE h
                  t == IF Top(d.rr.ev) = "trap" THEN seccomp_trap_done(d) ELSE d
              IN  /\ cx' = IF restarts
                           THEN [f.cx EXCEPT !.pc = IF @ = "restart" THEN "untraced" ELSE "traced"]
                           ELSE IF ends
                           THEN [f.cx EXCEPT !.pc = IF @ = "restart" THEN "kexit" ELSE "kxtraced",
                                             !.ret = "eintr"]
                           ELSE [f.cx EXCEPT !.ret = ret]
                  /\ done' = IF ends THEN Append(done, f.cx.id) ELSE done
                  /\ IF Top(t.rr.ev) = "desched" THEN Advance(t, kk) ELSE Idle(t, kk)
                  /\ want' = f.want
    /\ stack' = Front(stack)
    /\ UNCHANGED budget

Recorder == \/ StashSignal \/ handle_syscallbuf_breakpoint \/ DeschedIgnored \/ DeschedStarts
            \/ LoopGoesOn \/ DeschedMissed \/ EnterDesched \/ EnterTraced \/ EnterNotify
            \/ ExitSyscall \/ DisarmReached \/ handle_seccomp_trap
            \/ DeliverSlice \/ DeliverSignal \/ task_continue \/ SigReturn
Kernel == Wake \/ SendSignal \/ SliceEnds
Stops == \/ DeschedFires \/ SignalStops \/ BreakpointStop \/ EntryStop \/ ExitStop \/ SeccompStop

Next == Thread \/ Recorder \/ Kernel \/ Stops
Spec == Init /\ [][Next]_vars

\* The kernel and the thread go on, signals that are pending stop it, and the
\* recorder is never stuck between two stops.  A blocked call may stay blocked.
FairSpec == Spec /\ WF_vars(Thread \/ Recorder \/ Stops)

(***************************************************************************)
(* Properties.                                                             *)
(***************************************************************************)
\* None of the assertions on this path fails: the buffer has not grown since
\* it was flushed (maybe_flush_syscallbuf), it is not reset under a
\* transaction (reset_syscallbuf), no desched or seccomp trap starts inside
\* another, no system call is entered with a signal stashed
\* (process_syscall_entry), nothing is committed unlocked (commit_raw_syscall).
NoAssertFails == ~fault

\* Every call is in the trace once, in the order in which the kernel completed
\* them: as a record of the buffer or as the recorder's own events, never as
\* both (an aborted commit) and never as neither (a reset before a flush).
Recorded == log \o (IF rr.flushed >= 0 THEN <<>> ELSE hdr.recs)
RecordedOnce ==
    /\ IsPrefix(Recorded, done) /\ Len(done) <= Len(Recorded) + 1
    /\ (stack = <<>> /\ cx.pc = "app") => Recorded = done

Committed == cx.pc \in {"disarm", "unlock"}
\* The wrapper leaves the program's memory the same in the replay as in the
\* recording, whether the call was committed, aborted or not executed.
ReplaySame == Committed => cx.rmem = cx.mem
\* The program cannot tell the buffered call from the call itself: what the
\* kernel stores is in the program's memory, and nothing else is.
Transparent ==
    Committed /\ ~cx.call.trap =>
        \A p \in DOMAIN cx.mem :
            cx.mem[p] = IF Wrote(Stage.outs[p].copy, cx.ret) THEN "new" ELSE "old"

\* While the thread runs with no signal stashed the kernel has the mask that
\* the program asked for, and so has the recorder's cache when it is valid,
\* as long as no handler was entered with a further signal stashed.  (At the
\* exit from a traced call the cache is about to be invalidated.)
MaskKept ==
    ~rr.crowded /\ rr.stash = <<>> =>
        /\ stop = "run" => k.mask = want
        /\ stop \notin {"run", "idle", "exit"} /\ ~rr.dirty => rr.mask = want
\* ... without that proviso.
MaskAlwaysKept == rr.stash = <<>> /\ stop = "run" => k.mask = want

\* An untraced call that blocks is noticed by the recorder, which could
\* otherwise wait for ever for a thread that waits for another.
BlockedIsNoticed ==
    (cx.pc = "kernel" /\ rr.resume = "cont") ~> ~(cx.pc = "kernel" /\ rr.resume = "cont")
\* A stashed signal is delivered even if the call the thread is in never ends.
StashedIsDelivered == (rr.stash # <<>>) ~> (rr.stash = <<>>)
=============================================================================
