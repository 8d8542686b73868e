----------------------------- MODULE GdbServer -----------------------------
(***************************************************************************)
(* The debugger server: GdbServer.cc, with the commands of GdbCommand.cc   *)
(* and the diversion sessions it starts, talking through GdbConnection to  *)
(* a gdb that may send any packet it is allowed to.                        *)
(*                                                                         *)
(* The replay is a finite Trace of steps.  A step is made by a task t and  *)
(* is one of                                                               *)
(*   "insn"    an instruction after which t is at address a, inside its    *)
(*             trace event,                                                *)
(*   "sys"     the end of an event that is nothing to the debugger,        *)
(*   "sig"     the delivery of a signal,                                   *)
(*   "clone"   the creation of task a,                                     *)
(*   "exec"    the exit of a successful execve,                            *)
(*   "exiting" the report that t is about to exit, "exit" its exit.        *)
(* A position p is the number of steps made; time is the event a step      *)
(* belongs to.  ReplayTimeline is used through what it promises            *)
(* (ReplayTimeline.tla): forward steps, reverse continue and reverse       *)
(* singlestep.                                                             *)
(***************************************************************************)
EXTENDS GdbConnection, FiniteSets

CONSTANTS Trace,       \* the steps of the replay
          Debuggee,    \* the process target.pid names
          Start,       \* target.event
          Packets,     \* the packets gdb may send, by palette
          Symbols,     \* what libthread_db wants looked up, in order
          KeepListening,
          MaxPackets,  \* how many packets gdb sends
          MaxResumes,  \* how many of them resume
          MaxInts,     \* how many interrupts it sends
          MaxConnects, \* how many times it connects
          Mortal,      \* the palettes with which gdb may die
          MaxDiverted, \* how long a diversion runs between stops
          Odd          \* which of the cases the properties exempt may happen

VARIABLE st

N == Len(Trace)

NoCkpt == [pos |-> 0, t |-> NoTask, expl |-> FALSE, set |-> FALSE]

Positions == 0 .. N

------------------------------------------------------------------------------
(* The session and its timeline. *)

CurrentTask(p) == IF p < N THEN Trace[p + 1].t ELSE NoTask

Time(p) == IF p < N THEN Trace[p + 1].time ELSE Trace[N].time

Alive(p) ==
  {t \in Tasks :
     LET b == {i \in 1 .. p : Trace[i].k = "clone" /\ Trace[i].a = t}
         d == {i \in 1 .. p : Trace[i].k = "exit" /\ Trace[i].t = t}
     IN d = {} /\ (b # {} \/ \A i \in 1 .. N : ~(Trace[i].k = "clone" /\ Trace[i].a = t))}

find_task(p, t) == IF t \in Alive(p) THEN t ELSE NoTask

InDebuggee(s, t) == t # NoTask /\ Group[t] = s.debuggee

(* Whether a step has been started and not finished: inside an event. *)
in_execution(p) == p > 0 /\ Trace[p].k \in {"insn", "exiting"}

can_add_checkpoint(p) == CurrentTask(p) # NoTask /\ Trace[p + 1].k \notin {"exit", "exiting"}

is_in_exec(p) == IF p < N /\ Trace[p + 1].k = "exec" THEN CurrentTask(p) ELSE NoTask

(* The start of the event at which the debuggee first runs: no reverse
   execution goes before it.  Position 0 is before the initial exec. *)
Barrier(s) == CHOOSE p \in 1 .. N - 1 :
                /\ Group[CurrentTask(p)] = s.debuggee
                /\ \A q \in 1 .. p - 1 : Group[CurrentTask(q)] # s.debuggee

NoBreak == [t |-> NoTask, bp |-> FALSE, step |-> FALSE, sig |-> FALSE, exit |-> FALSE]

is_last_thread_exit(p, br) ==
  br.exit /\ {t \in Alive(p) : Group[t] = Group[br.t]} = {br.t}

(* Whether the i-th step ends at a breakpoint of the debugger, or in a signal. *)
AtBreak(s, i) == Trace[i].k = "insn" /\ Trace[i].a \in s.bps /\ InDebuggee(s, Trace[i].t)

Breaks(s, i) == AtBreak(s, i) \/ Trace[i].k = "sig"

(* ReplayTimeline::replay_step_forward: one instruction, or on to the end of
   the event or to a breakpoint in it. *)
replay_step_forward(s, cmd) ==
  LET ends == {p \in s.pos + 1 .. N : cmd = "step" \/ Trace[p].k # "insn" \/ AtBreak(s, p)}
      p == CHOOSE q \in ends : \A r \in ends : q <= r
      e == Trace[p]
  IN [pos |-> p,
      br |-> [t |-> e.t, bp |-> AtBreak(s, p), sig |-> e.k = "sig", exit |-> e.k = "exiting",
              step |-> cmd = "step" /\ e.k \notin {"exiting", "exit"}]]

(* ReplayTimeline::reverse_continue: back to the last break before here that
   the filter lets through, a signal being passed over, or to the barrier. *)
reverse_continue(s, filter) ==
  LET hits == {i \in Barrier(s) + 1 .. s.pos :
                 /\ Trace[i].t \in filter
                 /\ Breaks(s, i)
                 /\ AtBreak(s, i) => i < s.pos}
      i == CHOOSE j \in hits : \A k \in hits : k <= j
  IN IF hits = {}
     THEN [pos |-> Barrier(s), br |-> [NoBreak EXCEPT !.t = CurrentTask(Barrier(s)), !.exit = TRUE]]
     ELSE [pos |-> IF AtBreak(s, i) THEN i ELSE i - 1,
           br |-> [NoBreak EXCEPT !.t = Trace[i].t, !.bp = AtBreak(s, i), !.sig = ~AtBreak(s, i)]]

(* ReplayTimeline::reverse_singlestep: back over the last step of t, unless
   another task the filter lets through has a break after it. *)
reverse_singlestep(s, t, filter) ==
  LET steps == {i \in Barrier(s) + 1 .. s.pos : Trace[i].t = t /\ t \in filter
                                                /\ Trace[i].k \notin {"exiting", "exit"}}
      i == CHOOSE j \in steps : \A k \in steps : k <= j
      others == {j \in Barrier(s) + 1 .. s.pos :
                   /\ Trace[j].t \in filter \ {t} /\ Breaks(s, j)
                   /\ steps # {} => j > i}
  IN IF others # {} \/ steps = {} THEN reverse_continue(s, filter)
     ELSE [pos |-> i - 1, br |-> [NoBreak EXCEPT !.t = t, !.step = TRUE]]

(* ReplayTimeline::lazy_reverse_singlestep: the mark before the one given,
   when the timeline has it and knows that nothing was hit in between. *)
LazyMarks(s, p) ==
  IF p > Barrier(s) + 1 /\ Trace[p].k = "insn" /\ Trace[p - 1].k = "insn" /\ ~AtBreak(s, p)
  THEN {p - 1} ELSE {}

------------------------------------------------------------------------------
(* What the debugger holds in the timeline: a count of the explicit
   checkpoints at every position. *)

add_explicit_checkpoint(s) == [s EXCEPT !.expl[s.pos] = @ + 1]

remove_explicit_checkpoint(s, p) ==
  [Assert(s, s.expl[p] > 0, "no such explicit checkpoint") EXCEPT
     !.expl[p] = IF @ > 0 THEN @ - 1 ELSE 0]

(* The Checkpoint constructor. *)
Checkpoint(s) ==
  [pos |-> s.pos, t |-> s.lastc, expl |-> can_add_checkpoint(s.pos), set |-> TRUE]

AddCheckpoint(s) == IF can_add_checkpoint(s.pos) THEN add_explicit_checkpoint(s) ELSE s

------------------------------------------------------------------------------
(* The commands of GdbCommand.cc.  In a diversion the ones about the replay
   answer that the diversion has to end. *)

EndsDiversion == {"when", "back", "forward"}

rr_history_push(s) ==
  [s EXCEPT !.back = IF s.hist.set THEN Append(@, s.hist) ELSE @,
            !.hist = [NoCkpt EXCEPT !.pos = s.pos, !.set = TRUE],
            !.fwd = <<>>]

back(s) ==
  IF s.back = <<>> THEN s
  ELSE LET m == s.back[Len(s.back)]
       IN [s EXCEPT !.fwd = Append(@, s.hist), !.hist = m, !.pos = m.pos,
                    !.back = SubSeq(@, 1, Len(@) - 1)]

forward(s) ==
  IF s.fwd = <<>> THEN s
  ELSE LET m == s.fwd[Len(s.fwd)]
       IN [s EXCEPT !.back = Append(@, s.hist), !.hist = m, !.pos = m.pos,
                    !.fwd = SubSeq(@, 1, Len(@) - 1)]

invoke_checkpoint(s) == [AddCheckpoint(s) EXCEPT !.ckpts = Append(@, Checkpoint(s))]

(* (A deletion that leaves the checkpoint in the table.) *)
DeleteLeavesEntry(s, id) ==
  IF id \notin DOMAIN s.ckpts \/ (id \in DOMAIN s.ckpts /\ ~s.ckpts[id].set) THEN s
  ELSE IF s.ckpts[id].expl THEN remove_explicit_checkpoint(s, s.ckpts[id].pos) ELSE s

invoke_delete_checkpoint(s, id) ==
  IF id \notin DOMAIN s.ckpts \/ (id \in DOMAIN s.ckpts /\ ~s.ckpts[id].set) THEN s
  ELSE [(IF s.ckpts[id].expl THEN remove_explicit_checkpoint(s, s.ckpts[id].pos) ELSE s)
          EXCEPT !.ckpts[id] = NoCkpt]

(* GdbCommandHandler::process_command *)
process_command(s, cmd, arg) ==
  CASE cmd = "push" -> IF s.div.on THEN s ELSE rr_history_push(s)
    [] cmd = "back" -> back(s)
    [] cmd = "forward" -> forward(s)
    [] cmd = "checkpoint" -> invoke_checkpoint(s)
    [] cmd = "delete" -> invoke_delete_checkpoint(s, arg)
    [] OTHER -> s

------------------------------------------------------------------------------
(* dispatch_debugger_request, in the replay or in a diversion of it. *)

At(s) == IF s.div.on THEN -1 ELSE IF s.lazy.on THEN s.lazy.now ELSE s.pos

NoTargetNeeded == {"GET_CURRENT_THREAD", "GET_OFFSETS", "GET_THREAD_LIST", "INTERRUPT",
                   "GET_EXEC_FILE", "FILE_SETFS", "FILE_OPEN", "FILE_PREAD", "FILE_CLOSE"}

reply_rr_cmd(s) == consume_request(s, [NoReply EXCEPT !.k = "cmd", !.at = At(s)])

(* open_file: our own descriptor is the lowest that is free. *)
open_file(s) == CHOOSE n \in 0 .. Cardinality(s.files) :
                  n \notin s.files /\ \A m \in 0 .. n - 1 : m \in s.files

(* The requests that need no task. *)
DispatchGeneral(s) ==
  LET r == s.req
      t == find_task(s.pos, s.lastc)
  IN CASE r.type = "GET_CURRENT_THREAD" -> reply_get(s, s.lastc, At(s))
       [] r.type = "GET_OFFSETS" -> reply(s, "unsupported")
       [] r.type = "GET_THREAD_LIST" ->
            reply_get_thread_list(s, IF s.ctx = "exited" THEN {} ELSE Alive(s.pos))
       [] r.type = "INTERRUPT" ->
            LET a == Assert(s, t = NoTask \/ InDebuggee(s, t), "interrupt of another process")
            IN [notify_stop(a, t, "0", At(s)) EXCEPT
                  !.sig = "0", !.lastq = IF t = NoTask THEN @ ELSE t]
       [] r.type = "GET_EXEC_FILE" ->
            reply_ok(s, IF r.target \in Tasks THEN r.target \in Alive(s.pos) ELSE t # NoTask)
       [] r.type = "FILE_SETFS" -> reply_file(s, FALSE)
       [] r.type = "FILE_OPEN" ->
            IF r.sub # "read" THEN reply_file(s, TRUE)
            ELSE reply_file([s EXCEPT !.files = @ \cup {open_file(s)}], FALSE)
       [] r.type = "FILE_PREAD" -> reply_file(s, r.arg \notin s.files)
       [] r.type = "FILE_CLOSE" ->
            reply_file([s EXCEPT !.files = @ \ {r.arg}], r.arg \notin s.files)

(* The task a request is about; it becomes the last one queried or continued. *)
Target(s) ==
  find_task(s.pos, IF s.req.target \in Tasks THEN s.req.target
                   ELSE IF s.req.type = "SET_CONTINUE_THREAD" THEN s.lastc ELSE s.lastq)

Targeted(s) ==
  LET t == Target(s)
  IN IF t = NoTask THEN s
     ELSE IF s.req.type = "SET_CONTINUE_THREAD" THEN [s EXCEPT !.lastc = t]
     ELSE [s EXCEPT !.lastq = t]

(* The requests that are about a task, which may be gone. *)
Selecting == {"GET_IS_THREAD_ALIVE", "GET_THREAD_EXTRA_INFO", "SET_CONTINUE_THREAD",
              "SET_QUERY_THREAD"}

DispatchThread(s, t) ==
  CASE s.req.type = "GET_IS_THREAD_ALIVE" -> reply_ok(s, t # NoTask)
    [] s.req.type = "GET_THREAD_EXTRA_INFO" ->
         reply(Assert(s, t # NoTask, "name of no task"), "extra")
    [] OTHER -> reply_select_thread(s, t # NoTask)

(* Breakpoints are the timeline's; a diversion has a copy. *)
DispatchBreak(s) ==
  LET a == s.req.arg
  IN IF s.req.type = "SET_SW_BREAK"
     THEN reply_ok([s EXCEPT !.bps = @ \cup {a},
                             !.div.bps = IF s.div.on THEN @ \cup {a} ELSE @], TRUE)
     ELSE reply_ok([s EXCEPT !.bps = @ \ {a},
                             !.div.bps = IF s.div.on THEN @ \ {a} ELSE @], TRUE)

(* qSymbol: an answer is registered; a plain request starts over; then the
   next symbol is asked for, if there is one. *)
DispatchSymbol(s) ==
  LET a == CASE s.req.sub = "found" -> [s EXCEPT !.symbols = @ \cup {s.req.arg}]
             [] s.req.sub = "plain" -> [s EXCEPT !.symbols = {}, !.iter = 1]
             [] OTHER -> s
  IN IF a.iter > Len(Symbols) THEN reply(a, "OK")
     ELSE consume_request([a EXCEPT !.iter = @ + 1],
                          [NoReply EXCEPT !.k = "qSymbol", !.at = a.iter])

(* The requests that need a task.  Only a diversion may be written to. *)
DispatchTask(s, t) ==
  CASE s.req.type \in {"GET_AUXV", "GET_MEM", "SEARCH_MEM", "GET_REG", "GET_REGS", "TLS"} ->
         reply_get(s, t, At(s))
    [] s.req.type = "SET_MEM" -> reply_ok(s, s.div.on)
    [] s.req.type = "SET_REG" -> reply_set_reg(s, s.div.on)
    [] s.req.type = "GET_STOP_REASON" -> send_stop_reply_packet(s, s.lastc, s.sig, At(s))
    [] s.req.type \in {"SET_SW_BREAK", "REMOVE_SW_BREAK"} -> DispatchBreak(s)
    [] s.req.type = "READ_SIGINFO" -> reply_get(s, t, At(s))
    [] s.req.type = "WRITE_SIGINFO" -> reply(s, "E01")
    [] s.req.type = "RR_CMD" -> reply_rr_cmd(process_command(s, s.req.sub, s.req.arg))
    [] s.req.type = "QSYMBOL" -> DispatchSymbol(s)

dispatch_debugger_request(s) ==
  IF s.req.type \in NoTargetNeeded THEN DispatchGeneral(s)
  ELSE LET t == Target(s)
           a == Targeted(s)
       IN IF s.req.type \in Selecting THEN DispatchThread(a, t)
          ELSE IF t = NoTask THEN notify_no_such_thread(a)
          ELSE DispatchTask(a, t)

------------------------------------------------------------------------------
(* Stops. *)

Matches(s, t, target) ==
  target \in {"any", "all"} \/ target = t \/ (target = "group" /\ InDebuggee(s, t))

(* (A stop after which the task last queried is kept.) *)
NotifyKeepsQuery(s, req, br) ==
  LET last == is_last_thread_exit(s.pos, br)
      exec == is_in_exec(s.pos)
      t == IF exec # NoTask THEN exec ELSE br.t
      do == br.bp \/ br.step \/ br.sig \/ last \/ exec # NoTask
  IN IF ~do \/ (do /\ ~InDebuggee(s, t)) THEN s
     ELSE [notify_stop(s, t, "TRAP", At(s)) EXCEPT !.sig = "TRAP", !.lastc = t]

maybe_notify_stop(s, req, br) ==
  LET last == is_last_thread_exit(s.pos, br)
      exec == is_in_exec(s.pos)
      t == IF exec # NoTask THEN exec ELSE br.t
      sig == IF exec # NoTask THEN "0"
             ELSE IF last THEN IF req.dir = "fwd" THEN "KILL" ELSE "0"
             ELSE IF br.sig THEN "SIG" ELSE "TRAP"
      do == br.bp \/ br.step \/ br.sig \/ last \/ exec # NoTask
  IN IF ~do THEN s
     ELSE IF ~InDebuggee(s, t) THEN [s EXCEPT !.sig = sig]
     ELSE [notify_stop(s, t, sig, At(s)) EXCEPT !.sig = sig, !.lastq = t, !.lastc = t]

(* handle_exited_state, up to its wait for requests. *)
handle_exited_state(s) ==
  [notify_exit_code(s) EXCEPT !.final = Time(s.pos), !.ctx = "exited", !.pc = "get"]

------------------------------------------------------------------------------
(* Diversions. *)

NoDiv == [on |-> FALSE, ref |-> 0, bps |-> {}, n |-> 0, saved |-> NoTask]

(* divert: the breakpoints are applied before the session is cloned. *)
divert(s) ==
  [s EXCEPT !.div = [on |-> TRUE, ref |-> 1, bps |-> s.bps, n |-> 0, saved |-> s.lastq],
            !.pc = "get"]

(* The end of divert. *)
EndDiversion(s) == [s EXCEPT !.div = NoDiv, !.lastq = s.div.saved]

(* What a step of the diverted task may end in: its exit, a break, or nothing
   the debugger is told about, at most MaxDiverted times in a row. *)
diversion_steps(s, t) ==
  {[NoBreak EXCEPT !.t = t, !.bp = TRUE], [NoBreak EXCEPT !.t = t, !.sig = TRUE]}
  \cup (IF s.div.n < MaxDiverted THEN {[NoBreak EXCEPT !.t = t]} ELSE {})

(* (A resume request that a diversion does not answer.) *)
ResumeIgnored(s) == {[s EXCEPT !.pc = "get"]}

(* A resume request in a diversion that lives on: the body of divert's loop. *)
DivertedResume(s) ==
  LET t == find_task(s.pos, s.lastc)
      over == {[EndDiversion(s) EXCEPT !.pc = "get"]}
  IN IF s.req.dir = "bwd"
     THEN {[notify_stop(s, t, "0", At(s)) EXCEPT !.sig = "0", !.lastq = s.lastc, !.pc = "get"]}
     ELSE IF t = NoTask THEN over
     ELSE over
          \cup {LET a == maybe_notify_stop(s, s.req, br)
                IN [a EXCEPT !.pc = "get", !.div.n = IF br.bp \/ br.sig THEN 0 ELSE @ + 1]
                  : br \in diversion_steps(s, t)}

(* diverter_process_debugger_requests: whether the request ends the diversion,
   and otherwise what it does. *)
EndsIt(s) ==
  \/ s.req.type \in {"RESTART", "DETACH"}
  \/ s.req.type = "RR_CMD" /\ (s.req.sub \in EndsDiversion \/ find_task(s.pos, s.lastc) = NoTask)
  \/ is_resume_request(s.req) /\ s.div.ref = 0

Diverted(s) ==
  CASE is_resume_request(s.req) -> DivertedResume(s)
    [] s.req.type = "READ_SIGINFO" ->
         {[reply_get(s, NoTask, At(s)) EXCEPT !.div.ref = @ + 1, !.pc = "get"]}
    [] s.req.type = "WRITE_SIGINFO" ->
         LET a == Assert(s, s.div.ref > 0, "diversion_refcount")
         IN {[reply(a, "E01") EXCEPT !.div.ref = IF @ > 0 THEN @ - 1 ELSE 0, !.pc = "get"]}
    [] s.req.type = "RR_CMD" ->
         {[reply_rr_cmd(process_command(s, s.req.sub, s.req.arg)) EXCEPT !.pc = "get"]}
    [] OTHER -> {[dispatch_debugger_request(s) EXCEPT !.pc = "get"]}

------------------------------------------------------------------------------
(* Restarting. *)

(* at_target, and activate_debugger. *)
at_target(s) ==
  /\ can_add_checkpoint(s.pos)
  /\ \/ s.flag
     \/ /\ Time(s.pos) > s.tev
        /\ s.pid = "any" \/ Group[CurrentTask(s.pos)] = s.pid
        /\ ~in_execution(s.pos)

activate_debugger(s) ==
  LET t == CurrentTask(s.pos)
      a == [s EXCEPT !.pid = Group[t], !.tev = Time(s.pos), !.lastq = t, !.lastc = t]
  IN [AddCheckpoint(a) EXCEPT !.rck = Checkpoint(a)]

(* The loop that replays from the checkpoint before an event to the event, or
   to the exit of the debuggee: the position it ends at. *)
RunTo(s, from) ==
  LET ends == {p \in from + 1 .. N :
                 \/ at_target([s EXCEPT !.pos = p])
                 \/ is_last_thread_exit(p, [NoBreak EXCEPT !.t = Trace[p].t,
                                                          !.exit = Trace[p].k = "exiting"])
                    /\ Group[Trace[p].t] = s.pid}
  IN IF ends = {} THEN N + 1 ELSE CHOOSE p \in ends : \A q \in ends : p <= q

(* seek_to_before_event: the current session if it is before the event, or the
   checkpoint nearest to the event, or the start of the trace. *)
seek_to_before_event(s, ev) ==
  LET c == {p \in Positions : p < N /\ s.expl[p] > 0 /\ Time(p) < ev}
           \cup (IF Time(s.pos) < ev THEN {s.pos} ELSE {}) \cup {0}
  IN CHOOSE p \in c : \A q \in c : q <= p

RestartAtEvent(s, ev) ==
  LET e == IF s.final # 0 /\ s.final - 1 < ev THEN s.final - 1 ELSE ev
      a == [s EXCEPT !.intr = TRUE, !.flag = FALSE, !.tev = e]
      p == RunTo(a, seek_to_before_event(a, e))
  IN IF p > N THEN Assert(a, FALSE, "restart reached the end of the trace")
     ELSE activate_debugger([a EXCEPT !.pos = p, !.ends = Trace[p].k = "exiting"])

(* (A restart that gives up the checkpoint it restarts from.) *)
RestartGivesUp(s, c) ==
  LET a == [s EXCEPT !.intr = TRUE, !.pos = c.pos, !.lastq = c.t, !.lastc = c.t]
      b == IF s.rck.expl THEN remove_explicit_checkpoint(a, s.rck.pos) ELSE a
  IN [b EXCEPT !.rck = c]

RestartAtCheckpoint(s, c) ==
  LET a == [s EXCEPT !.intr = TRUE, !.pos = c.pos, !.lastq = c.t, !.lastc = c.t]
      b == IF s.rck.expl THEN remove_explicit_checkpoint(a, s.rck.pos) ELSE a
  IN AddCheckpoint([b EXCEPT !.rck = c])

restart_session(s) ==
  LET a == [s EXCEPT !.ends = FALSE, !.bps = {}]
      r == s.req
  IN IF r.sub = "checkpoint"
     THEN IF r.arg \notin DOMAIN s.ckpts \/ (r.arg \in DOMAIN s.ckpts /\ ~s.ckpts[r.arg].set)
          THEN notify_restart_failed(a)
          ELSE RestartAtCheckpoint(a, s.ckpts[r.arg])
     ELSE IF r.sub = "previous" THEN RestartAtCheckpoint(a, s.rck)
     ELSE RestartAtEvent(a, r.arg)

------------------------------------------------------------------------------
(* debug_one_step *)

(* compute_run_command_from_actions: the first action that names the task
   decides; a task that is not named runs on.  At the end of the trace there is
   no task to compare with. *)
compute_run_command_from_actions(s, t, req) ==
  LET m == {i \in DOMAIN req.acts : Matches(s, t, req.acts[i].t)}
  IN IF m = {} THEN "cont" ELSE req.acts[CHOOSE i \in m : \A j \in m : i <= j].a

NeedsTask(req) == req.acts # <<>> /\ req.acts[1].t \notin {"any", "all"}

(* compute_run_command_for_reverse_exec, and the filter made from it: a thread
   that does not exist is no restriction. *)
ReverseCommand(req) == IF \E i \in DOMAIN req.acts : req.acts[i].a = "step" THEN "step" ELSE "cont"

StopFilter(s, req) ==
  {t \in Tasks : /\ InDebuggee(s, t)
                 /\ \E i \in DOMAIN req.acts :
                      LET x == req.acts[i].t
                      IN x \notin Tasks \/ (x \in Tasks /\ x \notin Alive(s.pos)) \/ x = t}

(* The end of a step that was not interrupted. *)
Stepped(s, req, br) ==
  LET a == maybe_notify_stop(s, req, br)
  IN [a EXCEPT !.pc = "step",
               !.ends = @ \/ (req.dir = "fwd" /\ is_last_thread_exit(s.pos, br)
                              /\ InDebuggee(s, br.t))]

RunForward(s) ==
  LET req == s.last
      t == CurrentTask(s.pos)
      cmd == compute_run_command_from_actions(s, t, req)
  IN IF is_in_exec(s.pos) # NoTask /\ InDebuggee(s, t) THEN Stepped(s, req, NoBreak)
     ELSE IF t = NoTask /\ NeedsTask(req) THEN Assert(s, FALSE, "resume of no task")
     ELSE IF s.pos = N THEN handle_exited_state(s)
     ELSE LET r == replay_step_forward(s, cmd) IN Stepped([s EXCEPT !.pos = r.pos], req, r.br)

(* reverse_continue looks for input as it goes, and then gives up at a place
   it has come back to; reverse_singlestep may end in it. *)
RunBackward(s) ==
  LET req == s.last
      filter == StopFilter(s, req)
      t == find_task(s.pos, s.lastc)
      step == ReverseCommand(req) = "step"
      a == Assert(s, step => t # NoTask, "reverse step of no task")
      r == IF step /\ t # NoTask THEN reverse_singlestep(s, t, filter)
           ELSE reverse_continue(s, filter)
      given == {p \in r.pos .. s.pos : p = s.pos \/ ~in_execution(p)}
  IN {Stepped([a EXCEPT !.pos = r.pos], req, r.br)}
     \cup (IF sniff_packet(s) /\ ~r.br.step
           THEN {Stepped([a EXCEPT !.pos = p], req, [NoBreak EXCEPT !.t = CurrentTask(p)])
                   : p \in given}
           ELSE {})

(* From the point where debug_one_step knows what to run. *)
Run(s) ==
  LET t == CurrentTask(s.pos)
  IN IF s.intr /\ t = NoTask THEN {Assert(s, FALSE, "interrupt of no task")}
     ELSE IF s.intr /\ InDebuggee(s, t)
     THEN {[notify_stop(s, t, IF s.ends THEN "KILL" ELSE "0", At(s)) EXCEPT
              !.intr = FALSE, !.sig = "0", !.pc = "step"]}
     ELSE IF s.last.dir = "fwd" THEN {RunForward(s)}
     ELSE RunBackward(s)

(* detach_or_restart, and the choice of what to run. *)
Decide(s) ==
  CASE s.req.type = "RESTART" -> [restart_session(s) EXCEPT !.last = NoReq, !.pc = "step"]
    [] s.req.type = "DETACH" -> [reply(s, "OK") EXCEPT !.last = NoReq, !.pc = "detached"]
    [] is_resume_request(s.req) -> [s EXCEPT !.last = s.req, !.pc = "run"]
    [] OTHER -> [Assert(s, is_resume_request(s.last), "interrupt without a resume request")
                   EXCEPT !.intr = TRUE, !.pc = "run"]

(* What debug_one_step does with the request process_debugger_requests returns. *)
Returned(s) ==
  CASE s.ctx = "exited" ->
         IF s.req.type \in {"RESTART", "DETACH"} THEN Decide(s)
         ELSE Assert(s, FALSE, "resume after the end of the trace")
    [] s.ctx = "end" /\ is_resume_request(s.req) /\ s.req.dir = "fwd" ->
         IF s.intr THEN Decide(s) ELSE handle_exited_state(s)
    [] s.ctx = "end" -> Decide([s EXCEPT !.ends = @ /\ s.req.type = "DETACH"])
    [] OTHER -> Decide(s)

(* process_debugger_requests, once it has a request for the replay. *)
Process(s) ==
  CASE s.req.type = "READ_SIGINFO" -> divert(reply_get(s, NoTask, At(s)))
    [] s.req.type \in {"CONT", "INTERRUPT", "RESTART", "DETACH"} -> Returned(s)
    [] OTHER -> [dispatch_debugger_request(s) EXCEPT !.pc = "get"]

(* try_lazy_reverse_singlesteps: a single reverse step of the current task may
   be answered from the marks; registers are then answered from the mark too,
   and the session is moved only when another request comes. *)
LazyRequest(s) ==
  LET t == CurrentTask(s.pos)
  IN /\ s.req.type = "CONT" /\ s.req.dir = "bwd" /\ Len(s.req.acts) = 1
     /\ s.req.acts[1].a = "step" /\ t # NoTask /\ Matches(s, t, s.req.acts[1].t)

LazyStep(s, p) ==
  LET t == CurrentTask(s.pos)
      a == [s EXCEPT !.lazy = [on |-> TRUE, now |-> p]]
  IN [maybe_notify_stop(a, s.req, [NoBreak EXCEPT !.t = t, !.step = TRUE]) EXCEPT !.pc = "get"]

(* (A lazy step that never moves the session.) *)
LazyForgets(s) == [s EXCEPT !.lazy = [on |-> FALSE, now |-> 0]]

LazySeek(s) == [s EXCEPT !.pos = IF s.lazy.on THEN s.lazy.now ELSE @,
                         !.lazy = [on |-> FALSE, now |-> 0]]

Serve(s) ==
  IF s.div.on
  THEN IF EndsIt(s) THEN {Process(EndDiversion(s))} ELSE Diverted(s)
  ELSE IF s.lazy.on /\ s.req.type = "GET_REGS"
  THEN {[reply_get(s, CurrentTask(s.pos), At(s)) EXCEPT !.pc = "get"]}
  ELSE {Process(LazySeek(s))}
       \cup (IF LazyRequest(s)
             THEN {LazyStep(s, p) : p \in LazyMarks(s, IF s.lazy.on THEN s.lazy.now ELSE s.pos)}
             ELSE {})

------------------------------------------------------------------------------
(* get_request *)

(* A pending restart is answered with the stop reason; a pending resume goes on
   when nothing has come; otherwise a packet has to be read. *)
get_request(s) ==
  IF s.req.type = "RESTART" THEN [notify_restart(s) EXCEPT !.pc = "serve"]
  ELSE LET a == Assert(s, s.req.type \in {"NONE", "CONT"}, "request not answered")
       IN IF ~sniff_packet(a) /\ is_resume_request(a.req) THEN [a EXCEPT !.pc = "serve"]
          ELSE [a EXCEPT !.pc = "read"]

read_packet(s) ==
  IF ~s.alive THEN {[s EXCEPT !.req = Req("DETACH", "all"), !.pc = "serve"]}
  ELSE IF PacketRead(s)
  THEN {LET a == process_packet(s)
        IN [a EXCEPT !.pc = IF a.req.type = "NONE" THEN "read" ELSE "serve"]}
  ELSE ReadsOnce(skip_to_packet_start(s))

(* The start of debug_one_step: with an interrupt pending the last resume
   request is taken again, and the connection is not looked at. *)
debug_one_step(s) ==
  IF s.ends THEN [s EXCEPT !.ctx = "end", !.pc = "get"]
  ELSE IF ~s.intr \/ s.last.type = "NONE" THEN [s EXCEPT !.ctx = "normal", !.pc = "get"]
  ELSE [s EXCEPT !.pc = "run"]

------------------------------------------------------------------------------
(* serve_replay *)

(* The replay up to the target: pos 0 is before the initial exec. *)
ReplayToTarget(s) ==
  IF s.pos = N THEN [s EXCEPT !.pc = "done"]
  ELSE LET a == [s EXCEPT !.pos = replay_step_forward(s, "cont").pos]
       IN IF at_target(a)
          THEN [a EXCEPT !.pc = "listen", !.debuggee = Group[CurrentTask(a.pos)]]
          ELSE a

(* A new connection, and the first packet of gdb: what has the target stopped? *)
await_connection(s) ==
  [activate_debugger(s) EXCEPT
     !.net = Wire([NoPacket EXCEPT !.name = "?"]), !.shut = FALSE, !.inbuf = <<>>,
     !.alive = TRUE, !.req = NoReq, !.query = "any", !.resume = "any",
     !.tgid = s.debuggee, !.out = <<>>, !.last = NoReq, !.pc = "step",
     !.g.mode = "waiting", !.g.sent = "?", !.g.dead = FALSE, !.g.n = @ + 1]

(* The end of a connection. *)
StopDebugging(s) ==
  [s EXCEPT !.bps = {}, !.pc = IF KeepListening THEN "listen" ELSE "done"]

(* What the server does next: one of a set of states. *)
ServerSteps(s) ==
  CASE s.bad # "" -> {}
    [] s.pc = "replay" -> {ReplayToTarget(s)}
    [] s.pc = "step" -> {debug_one_step(s)}
    [] s.pc = "get" -> {get_request(s)}
    [] s.pc = "read" -> read_packet(s)
    [] s.pc = "serve" -> Serve(s)
    [] s.pc = "run" -> Run(s)
    [] s.pc = "detached" -> {StopDebugging(s)}
    [] OTHER -> {}

------------------------------------------------------------------------------
(* The cases in which the properties do not hold, described with the runs that
   show them.  Unless Odd names the case a behaviour ends where it arises. *)

(* An interrupt that gdb has sent is still unread when gdb is answered. *)
Crossed(s) ==
  /\ s.out # <<>>
  /\ \E i \in DOMAIN (s.inbuf \o s.net) : (s.inbuf \o s.net)[i].b = "int"

(* With an interrupt pending, which the current task is not to be told of, a
   step reports a stop, or the replay goes backwards. *)
StillPending(a, s) ==
  /\ a.pc = "run" /\ s.intr
  /\ s.req = NoReq \/ s.last.dir = "bwd"

(* An interrupt is reported for a task, and the server goes on to take another
   for the one last continued or queried. *)
StaleTask(a, s) ==
  /\ a.pc = "run" /\ a.intr /\ ~s.intr
  /\ {a.lastc, a.lastq} # {CurrentTask(a.pos)}

(* (A new connection, too, is told of the current task, which may not be in
   the process that was debugged before.) *)

(* A command moves the replay, and the end of the debuggee or a task that is
   not there any more is kept. *)
StaleHistory(a, s) ==
  /\ a.pc = "serve" /\ a.req.type = "RR_CMD" /\ a.req.sub \in {"back", "forward"}
  /\ s.ends \/ {s.lastc, s.lastq} \ Alive(s.pos) # {}

(* A diversion exits, and an interrupt meant for it comes before the replay has
   been resumed in its place. *)
LateInterrupt(a) ==
  a.pc = "serve" /\ ~a.div.on /\ a.req.type = "INTERRUPT" /\ a.g.saved > 0

Parked(a, s) ==
  \/ "cross" \notin Odd /\ Crossed(s)
  \/ "pending" \notin Odd /\ StillPending(a, s)
  \/ "stale" \notin Odd /\ StaleTask(a, s)
  \/ "history" \notin Odd /\ StaleHistory(a, s)
  \/ "divexit" \notin Odd /\ LateInterrupt(a)

ServerStep ==
  \E s \in ServerSteps(st) :
    st' = IF Parked(st, s) THEN [st EXCEPT !.pc = "parked"] ELSE s

(* interrupt_replay_to_target *)
UserInterrupt ==
  /\ st.pc = "replay" /\ ~st.flag
  /\ st' = [st EXCEPT !.flag = TRUE]

Connect ==
  /\ st.pc = "listen" /\ st.g.n < MaxConnects
  /\ "reconnect" \in Odd \/ InDebuggee(st, CurrentTask(st.pos))
  /\ st' = await_connection(st)

------------------------------------------------------------------------------
(* gdb: it waits for the reply to what it has sent, and puts back the siginfo it
   has saved before a call once. *)

Resumes == {"vCont", "bc", "bs", "vRun"}

(* What it may send to a process that has exited. *)
WhenDead == {"vRun", "D", "qfThreadInfo", "T"}

SendPacket(p) ==
  /\ st.g.mode = "stopped"
  /\ st.g.packets < MaxPackets
  /\ st.g.dead => p.name \in WhenDead
  /\ p.name \in Resumes => st.g.resumes < MaxResumes
  /\ p.name = "qXfer:siginfo:write" => st.g.saved > 0
  /\ p.name = "qXfer:siginfo:read" /\ "nested" \notin Odd => st.g.saved = 0 \/ st.div.on
  /\ p.name = "qThreadExtraInfo" /\ "gone" \notin Odd => p.target \in Alive(st.g.at)
  /\ st' = [st EXCEPT !.net = @ \o Wire(p),
                      !.g.mode = IF p.name \in Resumes THEN "running" ELSE "waiting",
                      !.g.sent = p.name, !.g.target = p.target,
                      !.g.packets = @ + 1,
                      !.g.saved = CASE p.name = "qXfer:siginfo:read" -> @ + 1
                                    [] p.name = "qXfer:siginfo:write" -> @ - 1
                                    [] OTHER -> @,
                      !.g.resumes = IF p.name \in Resumes THEN @ + 1 ELSE @]

SendInterrupt ==
  /\ st.g.mode = "running" /\ st.g.ints < MaxInts
  /\ "cross" \in Odd \/ st.out = <<>>
  /\ st' = [st EXCEPT !.net = @ \o WireInterrupt, !.g.ints = @ + 1]

(* What gdb makes of a reply. *)
Learn(g, r) ==
  CASE r.k = "stop" /\ r.at # -1 ->
         [g EXCEPT !.mode = "stopped", !.dead = FALSE, !.cur = r.t, !.cont = r.t, !.at = r.at]
    [] r.k = "exit" -> [g EXCEPT !.mode = "stopped", !.dead = TRUE]
    [] r.k = "OK" /\ g.sent = "D" -> [g EXCEPT !.mode = "gone"]
    [] r.k = "OK" /\ g.sent = "Hg" -> [g EXCEPT !.mode = "stopped", !.cur = g.target]
    [] r.k = "OK" /\ g.sent = "Hc" -> [g EXCEPT !.mode = "stopped", !.cont = g.target]
    [] r.k = "stop" /\ r.at = -1 -> [g EXCEPT !.mode = "stopped", !.cur = r.t, !.cont = r.t]
    [] r.k = "cmd" -> [g EXCEPT !.mode = "stopped", !.at = IF r.at = -1 THEN @ ELSE r.at]
    [] OTHER -> [g EXCEPT !.mode = "stopped"]

ReadReply ==
  /\ st.g.mode # "gone" /\ st.out # <<>>
  /\ LET g == Learn(st.g, Head(st.out))
     IN st' = [st EXCEPT !.out = Tail(@), !.g = g, !.shut = g.mode = "gone"]

(* gdb dies. *)
Close ==
  /\ st.g.mode \notin {"none", "gone"} /\ st.palette \in Mortal
  /\ st' = [st EXCEPT !.shut = TRUE, !.g.mode = "gone", !.out = <<>>]

------------------------------------------------------------------------------
NoGdb == [mode |-> "none", sent |-> "", target |-> "", cur |-> NoTask, cont |-> NoTask, at |-> 0,
          dead |-> FALSE, n |-> 0, packets |-> 0, saved |-> 0, resumes |-> 0, ints |-> 0]

Init ==
  \E palette \in DOMAIN Packets :
  st = [net |-> <<>>, shut |-> FALSE, inbuf |-> <<>>, alive |-> TRUE, req |-> NoReq,
        query |-> "any", resume |-> "any", tgid |-> "", out |-> <<>>, bad |-> "",
        pc |-> "replay", ctx |-> "normal", last |-> NoReq, intr |-> FALSE, ends |-> FALSE,
        lastc |-> NoTask, lastq |-> NoTask, sig |-> "0", pos |-> 0, bps |-> {},
        expl |-> [p \in Positions |-> 0], ckpts |-> <<>>, rck |-> NoCkpt, tev |-> Start,
        pid |-> Debuggee, final |-> 0, flag |-> FALSE, debuggee |-> "", back |-> <<>>,
        hist |-> NoCkpt, fwd |-> <<>>, div |-> NoDiv, lazy |-> [on |-> FALSE, now |-> 0],
        iter |-> 1, symbols |-> {}, files |-> {}, g |-> NoGdb, palette |-> palette]

Next ==
  \/ ServerStep
  \/ UserInterrupt
  \/ Connect
  \/ \E p \in Packets[st.palette] : SendPacket(p)
  \/ SendInterrupt
  \/ ReadReply
  \/ Close

(* Nothing is left to do for the server, which waits for a packet, or for gdb. *)
Idle ==
  /\ st.out = <<>> \/ st.g.mode = "gone"
  /\ \/ st.bad # "" \/ st.pc \in {"listen", "done", "parked"}
     \/ st.pc = "read" /\ st.alive /\ ~PacketRead(st) /\ ~Readable(st)

(* The server is never stopped for good, and gdb reads what it is sent: as long
   as one of them has something to do, steps are made.  What else may happen,
   packets, interrupts and the end of gdb, happens finitely often. *)
Fairness == []<>Idle \/ []<><<TRUE>>_st

Spec == Init /\ [][Next]_st /\ Fairness

------------------------------------------------------------------------------
(* Properties. *)

(* No assertion of GdbServer or GdbConnection fails, no missing task is used,
   and the server never gives up because it is asked to resume after the end
   of the trace. *)
NoAssertFails == st.bad = ""

(* gdb gets one reply to what it sends and none it has not asked for; a resume
   request is answered with a stop, an exit or, if it is a restart, a failure,
   and nothing else is answered so. *)
InStep ==
  LET asks == st.g.mode \in {"waiting", "running"}
  IN /\ Len(st.out) <= IF asks THEN 1 ELSE 0
     /\ \A i \in DOMAIN st.out :
          IF st.g.mode = "running"
          THEN st.out[i].k \in {"stop", "exit"} \cup (IF st.g.sent = "vRun" THEN {"E01"} ELSE {})
          ELSE st.out[i].k = "stop" => st.g.sent = "?"

(* While gdb takes the debuggee to be stopped the replay is where gdb was told
   it is, whatever diversions, lazy steps, commands and other processes have
   done to it since. *)
StoppedStays ==
  st.g.mode = "stopped" /\ ~st.g.dead /\ ~st.div.on /\ st.pc # "parked" => At(st) = st.g.at

(* Registers and memory are those of the thread gdb has selected or was told
   of last, at the place it was told of; and a reverse step is made by the
   thread that gdb means to resume. *)
RightTask ==
  /\ \A i \in DOMAIN st.out :
       st.out[i].k = "data" /\ st.g.sent \in {"g", "m", "p"} =>
         st.out[i].t = st.g.cur /\ st.out[i].at \in {st.g.at, -1}
  /\ st.pc = "run" /\ ~st.intr /\ st.last.dir = "bwd" /\ ReverseCommand(st.last) = "step" =>
       st.lastc = st.g.cont

(* The timeline holds a checkpoint for every explicit one the server remembers:
   restarts and deletions never let go of one that is still wanted. *)
ExplicitHeld ==
  \A p \in Positions :
    Cardinality({i \in DOMAIN st.ckpts : st.ckpts[i].expl /\ st.ckpts[i].pos = p})
      + (IF st.rck.expl /\ st.rck.pos = p THEN 1 ELSE 0) <= st.expl[p]

(* Everything that gdb sends is answered, unless gdb goes away. *)
Answered ==
  st.g.mode \in {"waiting", "running"} ~>
    st.g.mode \notin {"waiting", "running"} \/ st.pc = "parked"
=============================================================================
