--------------------------- MODULE ReplayTimeline ---------------------------
(* Reverse execution (ReplayTimeline.cc).  A replay can only run forward; the *)
(* timeline goes back by restoring a checkpoint and running forward again to *)
(* a point it can recognise.  It keeps the points it knows as marks.  Marks  *)
(* are ordered by key (event time, ticks, step), and by the order the        *)
(* execution visits them when several have the same key: the timeline can    *)
(* learn that order only by running.                                         *)
(*                                                                           *)
(* A replayed execution is deterministic, so a mark is a position in it.     *)
(* exec.run lists the positions; each has the time, task, ticks and ip of    *)
(* the state, whether the step of its event has been set up (in execution),  *)
(* whether the instruction there is an x86 string instruction (consecutive   *)
(* positions with the same ip are its iterations), the variables the         *)
(* instruction writes, and what the instruction completes: nothing, or its   *)
(* event, reported as a single-step, as a signal, or not at all.             *)
(*                                                                           *)
(* ReplaySession::replay_step is modelled by what the timeline expects of    *)
(* it: it stops at the first trap, at the end of the event, or near the      *)
(* requested ticks.  ASSERTs set tl.fault.                                    *)
EXTENDS Integers, Sequences, FiniteSets, SequencesExt, FiniteSetsExt

CONSTANTS
  Execs,      \* the executions replayed
  Skid,       \* PerfCounters::skid_size
  LowOverhead, ShortInterval, \* the two inter-checkpoint intervals
  StopLimit,  \* stop_count_limit
  Ahead,      \* singlesteps_to_perform after the watchpoint quirk
  Garbage,    \* the values of the uninitialised seen_barrier
  Breaks, Watches, ExecWatches, \* what the debugger may set
  Commands,   \* the commands it may run forward with
  Filters,    \* the sets of tasks the debugger may ask about
  MaxOps      \* bound on the requests of the debugger

VARIABLES exec, tl, pc, rc, rs, op, ops,
  beat        \* changes with every step of a reverse command
vars == <<exec, tl, pc, rc, rs, op, ops, beat>>

Positions == DOMAIN exec.run
At(p) == exec.run[p]
LastPosition == Len(exec.run)
None == 0
Before(f) == 1 .. (f - 1)

(* MarkKey: time, then ticks, then step, as one number in that order. *)
Key(p) == (At(p).time * 16 + At(p).ticks) * 2 + At(p).step
Keys == {Key(p) : p \in Positions}
InExecution(p) == At(p).step = 1
SameRun(p) == p < LastPosition /\ At(p).string /\ At(p + 1).ip = At(p).ip
              /\ At(p + 1).time = At(p).time
Completes(p) == p < LastPosition /\ At(p + 1).time # At(p).time
(* tick_count of a task when the session is at p. *)
TicksOf(t, p) == LET seen == {q \in 1 .. p : At(q).task = t}
                 IN IF seen = {} THEN 0 ELSE At(Max(seen)).ticks
(* A single-step of the instruction at p reports singlestep_complete. *)
StepReported(p) ==
  InExecution(p) /\ p < LastPosition /\ (Completes(p) => At(p).ends \in {"step", "signal"})
(* The address space the debugger's traps are in exists. *)
HasVm(p) == p >= exec.first
CanClone(p) == HasVm(p) /\ p < LastPosition
-----------------------------------------------------------------------------
(* ReplaySession::replay_step, as the timeline uses it.                      *)

BreakAt(ip) == <<"bp", ip>>
ExecAt(ip) == <<"exec", ip>>
Data(w) == <<"data", w>>
Cont == [cmd |-> "continue", target |-> 0, stop |-> {}]
Step == [cmd |-> "step", target |-> 0, stop |-> {}]
FastForward(stop) == [cmd |-> "ff", target |-> 0, stop |-> stop]

Trapped(ins, p) == InExecution(p) /\ {BreakAt(At(p).ip), ExecAt(At(p).ip)} \cap ins # {}
Written(ins, p, q) == {w \in UNION {At(r).writes : r \in p .. (q - 1)} : Data(w) \in ins}

(* The first iteration of the string instruction at r, running from p. *)
RunStart(p, r) == Min({s \in p .. r : \A u \in s .. (r - 1) : SameRun(u)})

(* The hardware reports a data watchpoint after the instruction, or, on a     *)
(* CPU that coalesces, after the last iteration of a string instruction.     *)
WatchStops(ins, p, q) ==
  IF exec.coalesce THEN /\ ~SameRun(q - 1)
                        /\ Written(ins, RunStart(p, q - 1), q) # {}
                   ELSE Written(ins, q - 1, q) # {}

(* Where RUN_CONTINUE from p stops. *)
RunsTo(ins, p, target) ==
  Min({q \in (p + 1) .. LastPosition :
         \/ At(q).time # At(p).time
         \/ Trapped(ins, q)
         \/ WatchStops(ins, p, q)
         \/ target > 0 /\ At(q).ticks >= target - Skid})

(* Where RUN_SINGLESTEP_FAST_FORWARD from p stops: it takes one step, and     *)
(* may take more iterations of a string instruction, but it steps into a     *)
(* state in stop, and over a write that is watched, one at a time.           *)
ForwardsTo(ins, p, stop) ==
  Max({q \in (p + 1) .. LastPosition :
         \A r \in (p + 1) .. (q - 1) :
           SameRun(r - 1) /\ SameRun(r) /\ {r, r + 1} \cap stop = {}
           /\ Written(ins, r - 1, r + 1) = {}})

Result(p, x) ==
  [pos |-> x.to,
   task |-> At(p).task,
   bp |-> x.bp /\ BreakAt(At(x.to).ip) \in x.ins,
   exec |-> x.bp /\ ExecAt(At(x.to).ip) \in x.ins,
   data |-> Written(x.ins, p, x.to),
   signal |-> x.to > p /\ Completes(x.to - 1) /\ InExecution(x.to - 1) /\ At(x.to - 1).ends = "signal",
   single |-> x.c.cmd # "continue" /\ x.to > p /\ StepReported(x.to - 1),
   near |-> x.c.target > 0 /\ InExecution(p) /\ x.c.target - TicksOf(At(p).task, x.to) <= Skid,
   ff |-> x.c.cmd = "ff" /\ x.to > p + 1,
   exited |-> p = LastPosition]

replay_step(s, c) ==
  LET p == s.pos
      To(q, bp) == [to |-> q, bp |-> bp, c |-> c, ins |-> s.ins]
      Event(q) == [to |-> q, bp |-> FALSE, c |-> Cont, ins |-> {}]
      Ran(q) == To(q, /\ c.cmd = "continue" /\ Trapped(s.ins, q)
                      /\ At(q).time = At(p).time /\ Written(s.ins, p, q) = {})
  IN Result(p, IF p = LastPosition THEN Event(p)
               ELSE IF ~InExecution(p) THEN Event(p + 1)
               ELSE IF c.target > 0 /\ c.target - Skid <= At(p).ticks THEN To(p, FALSE)
               ELSE IF Trapped(s.ins, p) THEN To(p, TRUE)
               ELSE Ran(CASE c.cmd = "continue" -> RunsTo(s.ins, p, c.target)
                          [] c.cmd = "step" -> p + 1
                          [] OTHER -> ForwardsTo(s.ins, p, c.stop)))

AnyBreak(r) == r.data # {} \/ r.exec \/ r.signal \/ r.bp \/ r.single \/ r.near
BreakpointHit(r) == r.bp \/ r.exec
NoStop(r) == [r EXCEPT !.bp = FALSE, !.exec = FALSE, !.data = {}, !.signal = FALSE,
                       !.single = FALSE, !.near = FALSE]
Fail(s, why) == [s EXCEPT !.fault = why]
Moved(s, r) == [s EXCEPT !.pos = r.pos]
-----------------------------------------------------------------------------
(* Breakpoints and watchpoints: what the client wants (bps, wps), what is in  *)
(* the current session (ins), and whether the timeline thinks it is there.   *)

Breakpoints(s) == {BreakAt(b.ip) : b \in s.bps}
ExecTraps(s) == {w \in s.wps : w[1] = "exec"}
DataTraps(s) == s.wps \ ExecTraps(s)

apply_breakpoints_internal(s) ==
  [s EXCEPT !.ins = IF HasVm(s.pos) THEN @ \cup Breakpoints(s) \cup ExecTraps(s) ELSE @]

apply_breakpoints_and_watchpoints(s) ==
  IF s.applied THEN s
  ELSE LET a == apply_breakpoints_internal(s)
       IN [a EXCEPT !.applied = TRUE, !.ins = IF HasVm(s.pos) THEN @ \cup DataTraps(s) ELSE @]

(* The loop over the execution watchpoints is inside the loop over the        *)
(* breakpoints.                                                              *)
unapply_breakpoints_internal(s) ==
  [s EXCEPT !.ins = @ \ (Breakpoints(s) \cup (IF s.bps = {} THEN {} ELSE ExecTraps(s)))]

unapply_breakpoints_and_watchpoints(s) ==
  IF ~s.applied THEN s
  ELSE LET u == unapply_breakpoints_internal(s)
       IN [u EXCEPT !.applied = FALSE, !.ins = @ \ DataTraps(s)]

has_breakpoint_at_address(s, ip) == \E b \in s.bps : b.ip = ip

NoConditions(s, r) == r
(* evaluate_conditions: a break whose condition is false is not one. *)
evaluate_conditions(s, r) ==
  [r EXCEPT !.bp = @ /\ \E b \in s.bps : b.ip = At(r.pos).ip /\ b.cond,
            !.data = {w \in @ : Data(w) \in s.wps}]

StepWithBreakpoints(s) ==
  LET From(a, r) == [s |-> Moved(a, r), r |-> r]
      Stepped(a) == From(a, replay_step(a, Step))
  IN Stepped(apply_breakpoints_and_watchpoints(s))
singlestep_with_breakpoints_disabled(s) ==
  LET From(u, r) == [s |-> apply_breakpoints_internal(Moved(u, r)), r |-> r]
      Stepped(u) == From(u, replay_step(u, Step))
  IN Stepped(unapply_breakpoints_internal(apply_breakpoints_and_watchpoints(s)))
-----------------------------------------------------------------------------
(* Marks.                                                                     *)

KeyOrIndex(s, m) == SelectInSeq(s.marks[Key(m)], LAMBDA q : q = m)
less_than(s, a, b) == IF Key(a) = Key(b) THEN KeyOrIndex(s, a) < KeyOrIndex(s, b)
                      ELSE Key(a) < Key(b)
AtOrAfter(s, a, b) == ~less_than(s, a, b)
Known(s, p) == p \in ToSet(s.marks[Key(p)])
at_mark(s, m) == s.pos = m /\ Known(s, m)

(* The states a copy of the session passes, from p, until it leaves the key   *)
(* or meets a known mark.                                                    *)
RECURSIVE Walk(_, _, _)
Walk(p, known, ins) ==
  LET Joined(plain, rest) ==
        [seq |-> <<p>> \o rest.seq, next |-> rest.next, step |-> plain \cup rest.step]
      On(r, plain) ==
        IF r.pos = p \/ Key(r.pos) # Key(p) THEN [seq |-> <<p>>, next |-> None, step |-> {}]
        ELSE IF r.pos \in known THEN [seq |-> <<p>>, next |-> r.pos, step |-> plain]
        ELSE Joined(plain, Walk(r.pos, known, ins))
      Stepped(r) == On(r, IF ~r.ff /\ ~r.signal THEN {p} ELSE {})
  IN Stepped(replay_step([pos |-> p, ins |-> ins], FastForward(known)))

PushedAnywhere(s) ==
  IF Known(s, s.pos) THEN s
  ELSE [s EXCEPT !.marks[Key(s.pos)] = Append(@, s.pos), !.aft = s.pos]
(* The states walked over go before the mark that was met. *)
WithWalked(u, v, w) ==
  LET i == IF w.next = None THEN Len(v) + 1 ELSE SelectInSeq(v, LAMBDA q : q = w.next)
  IN [u EXCEPT !.marks[Key(u.pos)] = SubSeq(v, 1, i - 1) \o w.seq \o SubSeq(v, i, Len(v)),
               !.nosig = @ \cup w.step,
               !.aft = u.pos]
mark(s) ==
  LET p == s.pos
      v == s.marks[Key(p)]
      Explored(u) == WithWalked(u, v, Walk(p, ToSet(v), u.ins))
  IN IF Known(s, p) THEN s
     ELSE IF v = <<>> \/ Last(v) = s.aft
     THEN [s EXCEPT !.marks[Key(p)] = Append(v, p), !.aft = p]
     ELSE Explored(unapply_breakpoints_and_watchpoints(s))

mark_after_singlestep(s, from, r) ==
  LET Marked(m) == IF r.ff \/ Key(m.pos) # Key(from) \/ r.signal THEN m
                   ELSE IF KeyOrIndex(m, m.pos) # KeyOrIndex(m, from) + 1
                   THEN Fail(m, "Probable duplicated states")
                   ELSE [m EXCEPT !.nosig = @ \cup {from}]
  IN Marked(mark(s))

find_singlestep_before(s, m) ==
  LET i == KeyOrIndex(s, m)
  IN IF i = 1 THEN None
     ELSE LET q == s.marks[Key(m)][i - 1] IN IF q \in s.nosig THEN q ELSE None

lazy_reverse_singlestep(s, from) ==
  LET m == find_singlestep_before(s, from)
  IN IF s.nws # None /\ s.nwe # None /\ m # None
        /\ AtOrAfter(s, m, s.nws) /\ less_than(s, m, s.nwe)
        /\ ~has_breakpoint_at_address(s, At(from).ip)
     THEN m ELSE None
-----------------------------------------------------------------------------
(* Checkpoints: refs counts the users of a mark's checkpoint, dirty is what   *)
(* is inserted in the checkpointed session, mwc counts the marks of a key    *)
(* that have one.                                                            *)

Cloned(u) == [u EXCEPT !.dirty[u.pos] = u.ins, !.mwc[Key(u.pos)] = @ + 1, !.refs[u.pos] = 1]
NewCheckpoint(s) == Cloned(unapply_breakpoints_and_watchpoints(mark(s)))
AppliedCheckpoint(s) ==
  LET At_(u) == IF u.refs[u.pos] # 0 THEN [u EXCEPT !.refs[u.pos] = @ + 1] ELSE Cloned(u)
  IN At_(mark(s))
add_explicit_checkpoint(s) ==
  LET Added(m) == IF m.refs[m.pos] = 0 THEN NewCheckpoint(m) ELSE [m EXCEPT !.refs[m.pos] = @ + 1]
  IN Added(mark(s))

Unreferred(s, gone) ==
  LET freed == {m \in gone : s.refs[m] = 1}
  IN [s EXCEPT !.refs = [m \in Positions |-> IF m \in gone THEN @[m] - 1 ELSE @[m]],
               !.mwc = [k \in Keys |-> @[k] - Cardinality({m \in freed : Key(m) = k})],
               !.dirty = [m \in Positions |-> IF m \in freed THEN {} ELSE @[m]]]
remove_explicit_checkpoint(s, m) ==
  IF s.refs[m] = 0 THEN Fail(s, "no checkpoint to remove") ELSE Unreferred(s, {m})

(* current = m's checkpoint, cloned. *)
Restored(s, m) == [s EXCEPT !.pos = m, !.ins = s.dirty[m], !.applied = FALSE, !.aft = m]
Restarted(s) == [s EXCEPT !.pos = 1, !.ins = {}, !.applied = FALSE, !.aft = None]

seek_to_before_key(s, k) ==
  LET earlier == {j \in Keys : s.mwc[j] > 0 /\ j < k}
      here == Key(s.pos)
  IN IF earlier = {} THEN IF here < k THEN s ELSE Restarted(s)
     ELSE LET j == Max(earlier)
              v == SelectSeq(s.marks[j], LAMBDA m : s.refs[m] > 0)
          IN IF j < here /\ here < k THEN s
             ELSE IF v = <<>> THEN Fail(s, "no session") ELSE Restored(s, v[1])

SeekUpByKey(s, m) ==
  IF Key(s.pos) = Key(m) THEN mark(s) ELSE seek_to_before_key(s, Key(m))
seek_up_to_mark(s, m) ==
  LET Usable(u) == SelectSeq(SubSeq(u.marks[Key(m)], 1, KeyOrIndex(u, m)), LAMBDA q : u.refs[q] > 0)
      From(u) == IF Key(s.pos) = Key(m) /\ ~less_than(u, m, u.pos) THEN u
                 ELSE IF Usable(u) # <<>> THEN Restored(u, Last(Usable(u)))
                 ELSE seek_to_before_key(u, Key(m))
  IN From(IF Key(s.pos) = Key(m) THEN mark(s) ELSE s)

(* The checkpoints made for reverse execution.  Progress is the position. *)
Latest(s) == Max(s.rev)
DropAll(s, gone) == [Unreferred(s, gone) EXCEPT !.rev = @ \ gone]

discard_future_reverse_exec_checkpoints(s) == DropAll(s, {m \in s.rev : m > s.pos})

inter_checkpoint_interval(strategy) == IF strategy = "low" THEN LowOverhead ELSE ShortInterval
next_interval_length(len) == IF len >= LowOverhead THEN 2 * len ELSE len + ShortInterval

(* Interval n, counted from the current point, keeps n checkpoints; the       *)
(* excess ones deleted are the latest of those not in interval n - 1.        *)
RECURSIVE Excess(_, _, _, _, _)
Excess(now, left, len, allowed, kept) ==
  LET range == {m \in left : m >= now - len}
      over == IF kept + Cardinality(range) > allowed THEN kept + Cardinality(range) - allowed ELSE 0
      gone == {m \in range : Cardinality({x \in range : x > m}) < over}
  IN IF left \ range = {} THEN gone
     ELSE gone \cup Excess(now, left \ range, next_interval_length(len), allowed + 1,
                           kept + Cardinality(range) - over)

discard_past_reverse_exec_checkpoints(s, strategy) ==
  DropAll(s, Excess(s.pos, s.rev, inter_checkpoint_interval(strategy), 0, 0))

maybe_add_reverse_exec_checkpoint(s, strategy) ==
  LET Kept(a) == [a EXCEPT !.rev = @ \cup {a.pos}]
      Maybe(d) == IF d.rev # {} /\ Latest(d) >= d.pos - inter_checkpoint_interval(strategy) THEN d
                  ELSE IF ~CanClone(d.pos) THEN d
                  ELSE Kept(add_explicit_checkpoint(
                              discard_past_reverse_exec_checkpoints(d, strategy)))
  IN Maybe(discard_future_reverse_exec_checkpoints(s))

ShortNeverReleased(s) ==
  IF ~CanClone(s.pos) THEN mark(s)
  ELSE [add_explicit_checkpoint(s) EXCEPT !.short = s.pos]
set_short_checkpoint(s) ==
  LET Released(a) == IF a.short = None THEN a ELSE remove_explicit_checkpoint(a, a.short)
  IN IF ~CanClone(s.pos) THEN mark(s)
     ELSE [Released(add_explicit_checkpoint(s)) EXCEPT !.short = s.pos]
-----------------------------------------------------------------------------
(* Running forward to a known point.                                          *)

(* seek_to_proto_mark, after the seek back: run to b with nothing inserted.  *)
RECURSIVE RunToProto(_, _)
RunToProto(s, b) ==
  LET ip == At(b).ip
      there == At(s.pos).time >= At(b).time
      forward == there /\ At(s.pos).ip = ip /\ InExecution(s.pos)
      On(r) == IF r.pos = s.pos THEN Fail(s, "hang") ELSE RunToProto(Moved(s, r), b)
  IN IF s.pos = b THEN s
     ELSE On(replay_step(IF there /\ ~forward THEN [s EXCEPT !.ins = @ \cup {BreakAt(ip)}] ELSE s,
                         IF forward THEN FastForward({b}) ELSE Cont))
seek_to_proto_mark(s, b) ==
  RunToProto(unapply_breakpoints_and_watchpoints(seek_to_before_key(s, Key(b))), b)

(* fix_watchpoint_coalescing_quirk: the watchpoint may have fired late, so go  *)
(* back to before, and run to just before the ticks it fired at, then in      *)
(* single steps.                                                             *)
RECURSIVE FixLoop(_, _, _, _)
FixLoop(s, task, ticks, near) ==
  LET mine == At(s.pos).task = task
      c == IF ~mine THEN Cont ELSE IF near THEN FastForward({})
           ELSE [Cont EXCEPT !.target = ticks - 1]
      On(r, near2) ==
        IF mine /\ near /\ r.data # {} THEN [s |-> Moved(s, r), r |-> r, fixed |-> TRUE]
        ELSE IF mine /\ TicksOf(task, r.pos) > ticks
             THEN [s |-> Fail(Moved(s, r), "We went too far!"), r |-> r, fixed |-> TRUE]
        ELSE IF r.pos = s.pos /\ near2 = near
             THEN [s |-> Fail(s, "hang"), r |-> r, fixed |-> TRUE]
        ELSE FixLoop(Moved(s, r), task, ticks, near2)
      Stepped(r) == On(r, near \/ (mine /\ r.near))
  IN Stepped(replay_step(s, c))
fix_watchpoint_coalescing_quirk(s, r, before) ==
  IF r.exited \/ r.data = {} \/ ~(At(r.pos).string \/ At(r.pos - 1).string)
  THEN [s |-> s, r |-> r, fixed |-> FALSE]
  ELSE FixLoop(apply_breakpoints_and_watchpoints(seek_to_proto_mark(s, before)),
               r.task, TicksOf(r.task, r.pos), FALSE)

(* update_strategy_and_fix_watchpoint_quirk; strategy is the number of steps  *)
(* to take one at a time.                                                    *)
Ran(s, r, c, strategy) == [s |-> s, r |-> r, c |-> c, strategy |-> strategy]
Updated(x, before) ==
  LET Fixed(f) == [s |-> f.s, r |-> f.r, strategy |-> IF f.fixed THEN Ahead ELSE x.strategy]
  IN IF x.c.cmd = "continue" THEN Fixed(fix_watchpoint_coalescing_quirk(x.s, x.r, before))
     ELSE [s |-> x.s, r |-> x.r, strategy |-> x.strategy]
setup_step_constraints(strategy) == IF strategy > 0 THEN FastForward({}) ELSE Cont
Used(strategy) == IF strategy > 0 THEN strategy - 1 ELSE 0

(* The last part of replay_step_to_mark: at the ticks of the mark. *)
StepByAddress(s, m, strategy) ==
  LET ip == At(m).ip
      c == setup_step_constraints(strategy)
      Shown(r) == [r EXCEPT !.bp = @ /\ has_breakpoint_at_address(s, At(r.pos).ip)]
      Stopped(r) == Ran(Moved(s, r), Shown(r), c, Used(strategy))
      Forwarded(f) == Ran(Moved(s, f), [f EXCEPT !.single = FALSE], FastForward({m}), strategy)
  IN IF At(s.pos).ip # ip THEN Stopped(replay_step([s EXCEPT !.ins = @ \cup {BreakAt(ip)}], c))
     ELSE Forwarded(replay_step(s, FastForward({m})))

replay_step_to_mark(s, m, strategy) ==
  LET c == setup_step_constraints(strategy)
      near == [c EXCEPT !.target = At(m).ticks - 1]
      left == Used(strategy)
      Bad(why) == Ran(Fail(s, why), NoStop(replay_step(s, c)), FastForward({}), 0)
      Towards(r) == Ran(Moved(s, r), r, c, left)
      RanNear(n, hidden) ==
        IF At(n.pos).time # At(m).time \/ At(n.pos).ticks >= At(m).ticks
        THEN Bad("at the mark already")
        ELSE IF ~n.near \/ AnyBreak(hidden) THEN Ran(Moved(s, n), hidden, near, left)
        ELSE StepByAddress(Moved(s, n), m, left)
      Near(n) == RanNear(n, [n EXCEPT !.near = FALSE])
      close == At(s.pos).ticks >= At(m).ticks
  IN Updated(IF Key(s.pos) > Key(m) THEN Bad("already after target")
             ELSE IF At(s.pos).time < At(m).time THEN Towards(replay_step(s, c))
             ELSE IF close \/ near.target <= 0
             THEN StepByAddress(s, m, IF close THEN strategy ELSE left)
             ELSE Near(replay_step(s, near)), s.pos)

RECURSIVE SeekLoop(_, _)
SeekLoop(s, m) ==
  LET Reached(u, v) == IF v = u THEN Fail(s, "hang") ELSE SeekLoop(v, m)
      Stepped(u) == Reached(u, replay_step_to_mark(u, m, 0).s)
  IN IF s.fault # "" THEN s
     ELSE IF at_mark(s, m) THEN [s EXCEPT !.aft = m]
     ELSE Stepped(unapply_breakpoints_and_watchpoints(s))
seek_to_mark(s, m) == SeekLoop(seek_up_to_mark(s, m), m)

is_start_of_barrier(s) == At(s.pos).time = exec.barrier /\ ~InExecution(s.pos)

(* run_forward_to_intermediate_point: with nothing inserted, to half way      *)
(* between here and end, in events, else in ticks, else over a string         *)
(* instruction.                                                              *)
FirstOf(time) == Min({p \in Positions : At(p).time = time})
FrameTicks(p) == At(Max({q \in Positions : At(q).time = At(p).time})).ticks
RECURSIVE RunToTicks(_, _, _)
RunToTicks(s, task, c) ==
  LET On(r) == IF r.pos = s.pos \/ TicksOf(task, r.pos) >= c.target \/ r.near THEN Moved(s, r)
               ELSE RunToTicks(Moved(s, r), task, c)
  IN On(replay_step(s, c))
(* Over a string instruction, or no progress. *)
StepOver(u, end, force, room) ==
  LET Over(o) == IF force /\ ~at_mark(o, end) /\ o.pos # u.pos THEN [s |-> o, ok |-> TRUE]
                 ELSE IF force /\ at_mark(o, end) /\ room
                 THEN [s |-> Fail(u, "no backup session"), ok |-> FALSE]
                 ELSE [s |-> u, ok |-> FALSE]
  IN Over(Moved(u, replay_step(u, FastForward({end}))))
run_forward_to_intermediate_point(s, end, force) ==
  LET now == At(s.pos).time
      mid == (now + At(end).time) \div 2
      first == At(s.pos).ticks
      last == IF At(end).time = now THEN Min({FrameTicks(s.pos), At(end).ticks})
              ELSE FrameTicks(s.pos)
      ByTicks(u, l, target) ==
        LET Run(r) == IF r.pos # u.pos THEN [s |-> r, ok |-> TRUE]
                      ELSE StepOver(u, end, force, first + 1 < l)
        IN Run(IF target = l THEN u
               ELSE RunToTicks(u, At(u.pos).task, [Cont EXCEPT !.target = target]))
      In(u, l) == ByTicks(u, l, Min({l, (first + l) \div 2}))
      From(u) ==
        IF now < mid /\ mid < At(end).time THEN [s |-> [u EXCEPT !.pos = FirstOf(mid)], ok |-> TRUE]
        ELSE IF now < At(end).time /\ At(FirstOf(At(end).time)).ticks < At(end).ticks
        THEN [s |-> [u EXCEPT !.pos = FirstOf(At(end).time)], ok |-> TRUE]
        ELSE In(u, last)
  IN From(unapply_breakpoints_and_watchpoints(s))
-----------------------------------------------------------------------------
(* reverse_continue.  rc holds its local variables; "rc" is the head of its   *)
(* outer loop and "rcrun" of its inner loop.                                 *)

Return(s, how) == tl' = s /\ pc' = "idle" /\ op' = [op EXCEPT !.res = how]
StartContinue(s, filter) ==
  \E m \in {mark(s)} :
     /\ tl' = m
     /\ pc' = "rc"
     /\ rc' = [end |-> m.pos, start |-> None, dest |-> None, restart |-> <<>>, first |-> FALSE,
               atbp |-> FALSE, strategy |-> 0, stops |-> 0, moved |-> FALSE, seen |-> <<>>,
               watch |-> FALSE, task |-> "", ticks |-> 0, filter |-> filter]
     /\ UNCHANGED op
(* The declarations at the head of the loop of reverse_singlestep. *)
StartSearch(s, from, task, ticks, filter, inner) ==
  \E garbage \in Garbage :
    /\ tl' = s
    /\ pc' = "rs"
    /\ rs' = [outer |-> from, end |-> from, start |-> None, barrier |-> garbage, task |-> task,
              target |-> ticks - 1, ff |-> FALSE, other |-> FALSE, cand |-> None,
              candOther |-> FALSE, from |-> None, filter |-> filter, inner |-> inner,
              dropped |-> FALSE]
(* Where the outer loop runs forward from, and whether that is a new start. *)
ContinueFrom(s) ==
  IF ~AtOrAfter(s, s.pos, rc.end) THEN [s |-> s, restart |-> rc.restart, first |-> FALSE]
  ELSE IF rc.restart = <<>>
  THEN [s |-> mark(seek_to_before_key(s, Key(rc.end))), restart |-> <<>>, first |-> TRUE]
  ELSE [s |-> seek_to_mark(s, Last(rc.restart)), restart |-> Front(rc.restart), first |-> TRUE]
reverse_continue ==
  /\ pc = "rc" /\ tl.fault = ""
  /\ \E f \in {ContinueFrom(mark(tl))} :
        IF f.first /\ rc.restart = <<>> /\ AtOrAfter(f.s, f.s.pos, rc.end)
        THEN Return(f.s, "exit") /\ UNCHANGED rc
        ELSE /\ tl' = maybe_add_reverse_exec_checkpoint(f.s, "short")
             /\ pc' = "rcrun"
             /\ rc' = [rc EXCEPT !.start = f.s.pos, !.restart = f.restart, !.first = f.first,
                                 !.atbp = FALSE, !.strategy = 0, !.stops = 0, !.moved = FALSE,
                                 !.seen = <<>>]
             /\ UNCHANGED op
  /\ UNCHANGED <<exec, rs, ops>> /\ beat' = ~beat

(* One replay step of the inner loop, with the conditions and the filter. *)
Filtered(x, e) == IF AnyBreak(e) /\ x.r.task \notin rc.filter THEN NoStop(e) ELSE e
ContinueStepped(x, e, r) ==
  LET avoidable == x.r.bp \/ x.r.exec \/ x.r.data # {}
      here == <<At(x.r.pos).ip, TicksOf(x.r.task, x.r.pos)>>
      short == rc.first /\ rc.dest # rc.start /\ AnyBreak(r)
      Shortened(c) == IF short THEN set_short_checkpoint(c) ELSE c
  IN [s |-> Shortened(maybe_add_reverse_exec_checkpoint(x.s, "short")),
      r |-> r, masked |-> r # e, avoidable |-> avoidable,
      rc |-> [rc EXCEPT !.atbp = BreakpointHit(x.r),
                        !.strategy = IF rc.atbp THEN @ ELSE x.strategy,
                        !.moved = IF avoidable THEN rc.seen # here ELSE @,
                        !.seen = IF avoidable THEN here ELSE @,
                        !.first = @ /\ ~short,
                        !.stops = IF avoidable THEN Min({@, StopLimit}) + 1 ELSE @]]
ContinueStep ==
  LET a == apply_breakpoints_and_watchpoints(tl)
      Evaluated(x, e) == ContinueStepped(x, e, Filtered(x, e))
      Stepped(x) == Evaluated(x, evaluate_conditions(x.s, x.r))
  IN Stepped(IF rc.atbp THEN singlestep_with_breakpoints_disabled(a)
             ELSE replay_step_to_mark(a, rc.end, rc.strategy))

(* A stop found: mark it as the destination so far. *)
Found(x, watch) ==
  [x EXCEPT !.s = mark(x.s),
            !.rc = [@ EXCEPT !.dest = x.s.pos, !.watch = watch, !.task = x.r.task,
                             !.ticks = TicksOf(x.r.task, x.s.pos)]]
NoteWatch(x) == IF x.r.data # {} \/ x.r.signal THEN Found(x, TRUE) ELSE x
NoteBarrier(x) ==
  IF ~is_start_of_barrier(x.s) THEN x
  ELSE [Found(x, FALSE) EXCEPT !.s = IF x.masked THEN Fail(@, "no task") ELSE @,
                               !.rc.task = At(x.s.pos).task]
NoteBreakpoint(x) == IF BreakpointHit(x.r) THEN Found(x, FALSE) ELSE x

(* The end of reverse_continue. *)
Arrive(x) ==
  IF x.rc.dest = None THEN tl' = x.s /\ pc' = "rc" /\ UNCHANGED <<rs, op>>
  ELSE IF x.rc.watch
  THEN /\ StartSearch(x.s, x.rc.dest, x.rc.task, x.rc.ticks, {x.rc.task}, TRUE)
       /\ UNCHANGED op
  ELSE Return(seek_to_mark(x.s, x.rc.dest), "stop") /\ UNCHANGED rs

(* After too many stops: skip half of the way with nothing inserted. *)
TooManyStops(x) ==
  IF ~(x.avoidable /\ x.rc.stops > StopLimit)
  THEN tl' = x.s /\ rc' = x.rc /\ pc' = "rcrun"
  ELSE \E m \in {mark(x.s)} :
       \E f \in {run_forward_to_intermediate_point(m, x.rc.end, ~x.rc.moved)} :
     IF ~f.ok THEN tl' = f.s /\ rc' = x.rc /\ pc' = "rcrun"
     ELSE /\ tl' = f.s
          /\ pc' = "rc"
          /\ rc' = [x.rc EXCEPT !.restart = @ \o (IF x.rc.dest # None THEN <<x.rc.start>> ELSE <<>>)
                                               \o <<m.pos>>,
                                !.dest = None]

ContinueRun(interrupted) ==
  /\ pc = "rcrun" /\ tl.fault = ""
  /\ \E y \in {NoteBarrier(NoteWatch(ContinueStep))} :
       IF at_mark(y.s, rc.end)
       THEN /\ rc' = [y.rc EXCEPT !.end = rc.start]
            /\ ~interrupted
            /\ Arrive(y)
       ELSE \E z \in {NoteBreakpoint(y)} :
              IF interrupted
              THEN /\ Return(seek_to_mark(z.s, rc.end), "interrupted")
                   /\ rc' = z.rc /\ UNCHANGED rs
              ELSE TooManyStops(z) /\ UNCHANGED <<rs, op>>
  /\ UNCHANGED <<exec, ops>> /\ beat' = ~beat
-----------------------------------------------------------------------------
(* reverse_singlestep.  "rs" is the head of the loop that goes back, "rsrun"  *)
(* runs forward until near the ticks of the step, "rsstep" steps to the end. *)

RECURSIVE GoBack(_, _, _)
GoBack(s, k, end) ==
  LET At_(b) == IF Key(b.pos) = k THEN [s |-> b, exit |-> TRUE]
                ELSE IF At(b.pos).time # At(end).time \/ At(b.pos).ticks # At(end).ticks
                THEN [s |-> b, exit |-> FALSE]
                ELSE GoBack(b, Key(b.pos), end)
  IN At_(maybe_add_reverse_exec_checkpoint(seek_to_before_key(s, k), "short"))
reverse_singlestep ==
  /\ pc = "rs" /\ tl.fault = ""
  /\ \E g \in {GoBack(tl, Key(rs.end), rs.end)} :
       IF g.exit THEN Return(g.s, IF rs.inner THEN "stop" ELSE "exit") /\ UNCHANGED rs
       ELSE /\ tl' = mark(g.s) /\ pc' = "rsrun"
            /\ rs' = [rs EXCEPT !.start = g.s.pos, !.ff = FALSE, !.other = FALSE]
            /\ UNCHANGED op
  /\ UNCHANGED <<exec, rc, ops>> /\ beat' = ~beat

(* What the stepping loop starts with. *)
StepLoopStart(s, r) ==
  \E c \in {set_short_checkpoint(s)} :
     /\ tl' = IF At(s.pos).task \in rs.filter \/ r.barrier
              THEN [c EXCEPT !.nws = None] ELSE Fail(c, "wrong task")
     /\ pc' = "rsstep"
     /\ rs' = [r EXCEPT !.from = c.pos, !.other = FALSE, !.candOther = FALSE,
                        !.cand = IF is_start_of_barrier(c) THEN c.pos ELSE None,
                        !.dropped = r.other]
     /\ UNCHANGED <<rc, op>>

StepRan(n, r, mine, others) ==
  /\ tl' = IF r.pos = tl.pos /\ r.pos = LastPosition THEN Fail(n, "hang")
           ELSE maybe_add_reverse_exec_checkpoint(n, "short")
  /\ rs' = [rs EXCEPT !.ff = @ \/ (mine /\ r.near),
                      !.other = @ \/ (others /\ AnyBreak(r)),
                      !.barrier = @ \/ is_start_of_barrier(n)]
  /\ UNCHANGED <<pc, rc, op>>
StepRun ==
  LET t == At(tl.pos).task
      mine == t \in rs.filter /\ HasVm(tl.pos) /\ t = rs.task
      others == t \in rs.filter /\ HasVm(tl.pos) /\ t # rs.task
      u == IF others /\ ~rs.other THEN apply_breakpoints_and_watchpoints(tl)
           ELSE unapply_breakpoints_and_watchpoints(tl)
      c == IF ~mine THEN Cont ELSE IF rs.ff THEN FastForward({})
           ELSE [Cont EXCEPT !.target = rs.target]
      near == mine /\ At(tl.pos).ticks >= rs.target
  IN /\ pc = "rsrun" /\ tl.fault = ""
     /\ IF IF at_mark(tl, rs.end) THEN rs.barrier ELSE near
        THEN StepLoopStart(tl, rs)
        ELSE IF at_mark(tl, rs.end)
        THEN IF rs.other THEN StartContinue(tl, rs.filter) /\ UNCHANGED rs
             ELSE /\ rs' = [rs EXCEPT !.end = rs.start]
                  /\ pc' = "rs" /\ UNCHANGED <<tl, rc, op>>
        ELSE \E r \in {replay_step(u, c)} : StepRan(Moved(u, r), r, mine, others)
     /\ UNCHANGED <<exec, ops>> /\ beat' = ~beat

(* update_observable_break_status *)
Observed(s, r) ==
  LET Noted(m) == IF m.nws = None \/ r.data # {} \/ r.exec THEN [m EXCEPT !.nws = m.pos] ELSE m
  IN Noted(mark(s))

Afterwards(s, r) == Observed(Moved(s, r), r)
OwnStepUnlimited(s) ==
  LET From(b, r) == [s |-> Afterwards(b, r), r |-> r, before |-> b.pos]
      Stepped(b) == From(b, replay_step(b, FastForward({})))
  IN Stepped(apply_breakpoints_and_watchpoints(mark(s)))
(* A step of the stepping task; over a breakpoint, with nothing inserted. *)
OwnStep(s) ==
  LET c == FastForward({rs.end})
      Over(b, u, r) == [s |-> Afterwards(u, r), r |-> r, before |-> b.pos]
      Again(b, u) == Over(b, u, replay_step(u, c))
      From(b, r) == IF BreakpointHit(r)
                    THEN Again(b, unapply_breakpoints_and_watchpoints(Afterwards(b, r)))
                    ELSE [s |-> Afterwards(b, r), r |-> r, before |-> b.pos]
      Stepped(b) == From(b, replay_step(b, c))
  IN Stepped(mark(apply_breakpoints_and_watchpoints(s)))
OtherStep(s) ==
  LET Over(u, r) == [s |-> Afterwards(u, r), r |-> r, broke |-> TRUE]
      Again(u) == Over(u, replay_step(u, FastForward({})))
      From(b, r) == IF BreakpointHit(r)
                    THEN Again(unapply_breakpoints_and_watchpoints(Afterwards(b, r)))
                    ELSE [s |-> Afterwards(b, r), r |-> r, broke |-> AnyBreak(r)]
      Stepped(b) == From(b, replay_step(b, Cont))
  IN Stepped(apply_breakpoints_and_watchpoints(s))

(* The end of the stepping loop. *)
StepLoopEnd(s, r) ==
  LET i == [s EXCEPT !.nwe = IF s.nws # None THEN rs.end ELSE None]
  IN IF r.other \/ r.candOther
     THEN StartContinue(i, rs.filter) /\ rs' = r
     ELSE IF r.cand # None
     THEN Return(seek_to_mark(i, r.cand), "stop") /\ rs' = r /\ UNCHANGED rc
     ELSE /\ StartSearch(i, rs.start, rs.task, rs.target + 1, rs.filter, rs.inner)
          /\ op' = [op EXCEPT !.lost = @ \/ rs.dropped]
          /\ UNCHANGED rc

(* The rest of an iteration: the barrier, and whether the end is reached. *)
StepDone(s, r) ==
  \E b \in {is_start_of_barrier(s)} :
  \E m \in {IF b THEN mark(s) ELSE s} :
  \E q \in {IF b THEN [r EXCEPT !.cand = s.pos, !.candOther = FALSE, !.other = FALSE] ELSE r} :
     IF AtOrAfter(m, m.pos, rs.end) THEN StepLoopEnd(m, q)
     ELSE /\ tl' = maybe_add_reverse_exec_checkpoint(m, "short")
          /\ rs' = q
          /\ UNCHANGED <<pc, rc, op>>

(* One iteration of the stepping loop: the state, rs, and whether it ends. *)
Iterated(s, r, past) == [s |-> s, r |-> r, past |-> past]
IterateOwn(own) ==
  LET Single(m) == IF less_than(m, rs.end, m.pos) THEN Iterated(m, rs, TRUE)
                   ELSE Iterated(m, [rs EXCEPT !.cand = rs.from, !.candOther = rs.other,
                                               !.other = FALSE, !.from = m.pos], FALSE)
  IN IF ~own.r.single THEN Iterated(own.s, rs, FALSE)
     ELSE Single(mark_after_singlestep(own.s, own.before, own.r))
IterateOther(o) == Iterated(o.s, [rs EXCEPT !.other = @ \/ o.broke], FALSE)
SkipOther(u) == Iterated(mark([Moved(u, replay_step(u, Cont)) EXCEPT !.nws = None]), rs, FALSE)

StepLoop ==
  LET t == At(tl.pos).task
  IN /\ pc = "rsstep" /\ tl.fault = ""
     /\ \E x \in {IF t \in rs.filter /\ t = rs.task THEN IterateOwn(OwnStep(tl))
                  ELSE IF t \in rs.filter THEN IterateOther(OtherStep(tl))
                  ELSE SkipOther(unapply_breakpoints_and_watchpoints(tl))} :
          IF x.past THEN StepLoopEnd(x.s, x.r) ELSE StepDone(x.s, x.r)
     /\ UNCHANGED <<exec, ops>> /\ beat' = ~beat
-----------------------------------------------------------------------------
(* The requests of the debugger (GdbServer), one at a time.                   *)

(* The debugger is attached to a process that starts at the barrier. *)
Debugged == HasVm(tl.pos) /\ At(tl.pos).time >= exec.barrier

Request(kind) ==
  /\ pc = "idle" /\ tl.fault = "" /\ ops < MaxOps /\ Debugged
  /\ ops' = ops + 1
  /\ op' = [kind |-> kind, from |-> tl.pos, task |-> At(tl.pos).task,
            filter |-> {}, bps |-> tl.bps, wps |-> tl.wps, res |-> "running", lost |-> FALSE]
Stays == pc' = pc /\ UNCHANGED <<exec, rc, rs, beat>>

replay_step_forward(command) ==
  LET a == apply_breakpoints_and_watchpoints(tl)
      Fixed(r) == IF command.cmd = "continue"
                  THEN fix_watchpoint_coalescing_quirk(Moved(a, r), r, tl.pos)
                  ELSE [s |-> Moved(a, r), r |-> r, fixed |-> FALSE]
      Shown(c, r) == [evaluate_conditions(c, r) EXCEPT !.single = @ /\ command.cmd # "continue"]
  IN /\ pc = "idle" /\ tl.fault = "" /\ tl.pos < LastPosition
     /\ \E x \in {Fixed(replay_step(a, command))} :
        \E c \in {maybe_add_reverse_exec_checkpoint(x.s, "low")} :
          tl' = IF BreakpointHit(x.r) /\ ~AnyBreak(Shown(c, x.r))
                THEN singlestep_with_breakpoints_disabled(c).s ELSE c
     /\ op' = [op EXCEPT !.kind = "forward", !.from = tl.pos, !.res = "stop", !.lost = FALSE]
     /\ UNCHANGED ops
     /\ Stays

(* add_breakpoint, replacing one at the same address. *)
remove_breakpoint(s, ip) ==
  [s EXCEPT !.ins = IF s.applied THEN @ \ {BreakAt(ip)} ELSE @,
            !.bps = {b \in @ : b.ip # ip}]
add_breakpoint(b) ==
  LET a == apply_breakpoints_and_watchpoints(remove_breakpoint(tl, b.ip))
  IN /\ Request("set")
     /\ b \notin tl.bps
     /\ tl' = [a EXCEPT !.ins = @ \cup {BreakAt(b.ip)}, !.bps = @ \cup {b}]
     /\ Stays
RemoveBreakpoint(b) ==
  Request("set") /\ b \in tl.bps /\ tl' = remove_breakpoint(tl, b.ip) /\ Stays

AddWatchKeepsInterval(w) ==
  LET a == apply_breakpoints_and_watchpoints(tl)
  IN /\ Request("set")
     /\ w \notin tl.wps
     /\ tl' = [a EXCEPT !.ins = @ \cup {w}, !.wps = @ \cup {w}]
     /\ Stays
add_watchpoint(w) ==
  LET a == apply_breakpoints_and_watchpoints(tl)
  IN /\ Request("set")
     /\ w \notin tl.wps
     /\ tl' = [a EXCEPT !.ins = @ \cup {w}, !.wps = @ \cup {w}, !.nws = None, !.nwe = None]
     /\ Stays
remove_watchpoint(w) ==
  /\ Request("set")
  /\ w \in tl.wps
  /\ tl' = [tl EXCEPT !.ins = IF tl.applied THEN @ \ {w} ELSE @, !.wps = @ \ {w}]
  /\ Stays

(* The client's own checkpoints: taken, deleted, returned to. *)
Checkpoint ==
  /\ Request("set")
  /\ CanClone(tl.pos) /\ tl.pos \notin tl.held
  /\ tl' = [add_explicit_checkpoint(tl) EXCEPT !.held = @ \cup {tl.pos}]
  /\ Stays
DeleteCheckpoint(m) ==
  /\ Request("set")
  /\ m \in tl.held
  /\ tl' = [remove_explicit_checkpoint(tl, m) EXCEPT !.held = @ \ {m}]
  /\ Stays
RestartAt(m) ==
  LET s == unapply_breakpoints_and_watchpoints(tl)
  IN /\ Request("restart")
     /\ m \in tl.held
     /\ tl' = seek_to_mark([s EXCEPT !.bps = {}, !.wps = {}], m)
     /\ Stays
(* restart_session at an event: seek_to_before_event. *)
RestartBefore(time) ==
  LET s == unapply_breakpoints_and_watchpoints(tl)
  IN /\ Request("restart")
     /\ tl' = seek_to_before_key([s EXCEPT !.bps = {}, !.wps = {}], time * 32)
     /\ Stays

ReverseContinue(filter) ==
  LET m == mark(tl)
  IN /\ pc = "idle" /\ tl.fault = "" /\ ops < MaxOps /\ Debugged
     /\ ops' = ops + 1
     /\ op' = [kind |-> "rc", from |-> tl.pos, task |-> At(tl.pos).task, filter |-> filter,
               bps |-> tl.bps, wps |-> tl.wps, res |-> "running", lost |-> FALSE]
     /\ tl' = m
     /\ pc' = "rc"
     /\ rc' = [end |-> m.pos, start |-> None, dest |-> None, restart |-> <<>>, first |-> FALSE,
               atbp |-> FALSE, strategy |-> 0, stops |-> 0, moved |-> FALSE, seen |-> <<>>,
               watch |-> FALSE, task |-> "", ticks |-> 0, filter |-> filter]
     /\ UNCHANGED <<exec, rs, beat>>
ReverseStep(filter) ==
  LET t == At(tl.pos).task
  IN /\ pc = "idle" /\ tl.fault = "" /\ ops < MaxOps /\ Debugged
     /\ t \in filter
     /\ ops' = ops + 1
     /\ op' = [kind |-> "rs", from |-> tl.pos, task |-> t, filter |-> filter,
               bps |-> tl.bps, wps |-> tl.wps, res |-> "running", lost |-> FALSE]
     /\ StartSearch(mark(tl), tl.pos, t, At(tl.pos).ticks, filter, FALSE)
     /\ UNCHANGED <<exec, rc, beat>>
(* try_lazy_reverse_singlesteps: a reverse-step known to report nothing else. *)
LazyStep ==
  /\ Request("lazy")
  /\ \E m \in {mark(tl)} : \E q \in {lazy_reverse_singlestep(m, m.pos)} :
       q # None /\ tl' = seek_to_mark(m, q)
  /\ Stays

Init ==
  /\ exec \in Execs
  /\ tl = [pos |-> 1, ins |-> {}, applied |-> FALSE, bps |-> {}, wps |-> {},
           marks |-> [k \in Keys |-> <<>>], aft |-> None, nosig |-> {},
           refs |-> [p \in Positions |-> 0], dirty |-> [p \in Positions |-> {}],
           mwc |-> [k \in Keys |-> 0], rev |-> {}, short |-> None, nws |-> None, nwe |-> None,
           held |-> {}, fault |-> ""]
  /\ pc = "idle"
  /\ rc = <<>> /\ rs = <<>>
  /\ op = [kind |-> "none", from |-> 1, task |-> At(1).task, filter |-> {}, bps |-> {},
           wps |-> {}, res |-> "stop", lost |-> FALSE]
  /\ ops = 0
  /\ beat = FALSE

Forward == \E c \in Commands : replay_step_forward([Cont EXCEPT !.cmd = c])
SetTraps == \/ \E b \in Breaks : add_breakpoint(b) \/ RemoveBreakpoint(b)
            \/ \E w \in {Data(w) : w \in Watches} \cup {ExecAt(ip) : ip \in ExecWatches} :
                 add_watchpoint(w) \/ remove_watchpoint(w)
Checkpoints == \/ Checkpoint
               \/ \E m \in tl.held : DeleteCheckpoint(m) \/ RestartAt(m)
               \/ \E p \in Positions : RestartBefore(At(p).time)
Backward == \/ \E f \in Filters : ReverseContinue(f) \/ ReverseStep(f)
            \/ LazyStep
Running == reverse_continue \/ (\E i \in BOOLEAN : ContinueRun(i))
           \/ reverse_singlestep \/ StepRun \/ StepLoop
Next == Forward \/ SetTraps \/ Checkpoints \/ Backward \/ Running
(* rr runs a reverse command to its end: weak fairness of Running, which is     *)
(* enabled while a command is under way.  Its steps, and no others, flip beat. *)
Idle == pc = "idle" \/ tl.fault # ""
Fair == []<>Idle \/ []<><<beat' # beat>>_vars
Spec == Init /\ [][Next]_vars /\ Fair
-----------------------------------------------------------------------------
(* What a reverse command must find.                                          *)

BreakIn(q) ==
  /\ q < op.from /\ InExecution(q) /\ HasVm(q) /\ At(q).task \in op.filter
  /\ \/ \E b \in op.bps : b.ip = At(q).ip /\ b.cond
     \/ ExecAt(At(q).ip) \in op.wps
EventIn(q) ==
  /\ q < op.from /\ InExecution(q) /\ HasVm(q) /\ At(q).task \in op.filter
  /\ \/ \E w \in At(q).writes : Data(w) \in op.wps
     \/ Completes(q) /\ At(q).ends = "signal"
BarrierIn(q) == q <= op.from /\ At(q).time = exec.barrier /\ ~InExecution(q)
StepsOf(t, p, q) == {x \in p .. (q - 1) : At(x).task = t /\ HasVm(x) /\ StepReported(x)}
Stops == {q \in Positions : BreakIn(q) \/ EventIn(q) \/ BarrierIn(q)}

(* The session is at the last stop: at the breakpoint or barrier, or before   *)
(* the step that made the event.                                             *)
AtLastStop ==
  /\ Stops # {}
  /\ LET last == Max(Stops)
     IN IF EventIn(last) THEN StepsOf(At(last).task, tl.pos, last + 1) = {last}
        ELSE tl.pos = last

(* No ASSERT of the timeline fails, and no loop of a seek stops moving.       *)
NoAssertFails == tl.fault = ""

(* reverse_continue ends at the last stop before where it started: at the     *)
(* breakpoint, or before the step that wrote the watched variable or got the *)
(* signal; it reports an exit only when there is none, and one that is       *)
(* interrupted has not gone back past a stop.                                *)
ReverseContinueStops ==
  (op.kind = "rc" /\ pc = "idle" /\ tl.fault = "") =>
    CASE op.res = "exit" -> Stops = {}
      [] op.res = "interrupted" -> \A q \in Stops : q <= tl.pos /\ (EventIn(q) => q < tl.pos)
      [] OTHER -> AtLastStop

(* reverse_singlestep ends where one step of the task leads back to where it  *)
(* started, unless another task stops in between: then it ends at the last    *)
(* stop, like reverse_continue.  Excepted (op.lost) is the case where a break *)
(* of another task is seen only while running to the stepping loop, and that *)
(* loop completes no step: the flag is local to the run and is dropped.      *)
OthersStop(p) == \E q \in p .. (op.from - 1) :
                   At(q).task # op.task /\ (BreakIn(q) \/ EventIn(q))
ReverseStepAlwaysStops ==
  (op.kind = "rs" /\ pc = "idle" /\ tl.fault = "" /\ op.res = "stop") =>
    \/ Cardinality(StepsOf(op.task, tl.pos, op.from)) = 1 /\ ~OthersStop(tl.pos + 1)
    \/ OthersStop(tl.pos) /\ AtLastStop
    \/ is_start_of_barrier(tl)
ReverseStepStops == op.lost \/ ReverseStepAlwaysStops

(* The marks of a key are listed in the order the execution visits them, and   *)
(* the session is never before the mark it is known to have passed.          *)
MarksInOrder ==
  /\ \A k \in Keys : \A i, j \in DOMAIN tl.marks[k] : i < j => tl.marks[k][i] < tl.marks[k][j]
  /\ tl.aft <= tl.pos

(* A checkpoint lives as long as someone uses it: the client, the             *)
(* reverse-execution list, the short checkpoint; the count per key is right. *)
CheckpointsCounted ==
  /\ \A p \in Positions :
       tl.refs[p] = (IF p \in tl.held THEN 1 ELSE 0) + (IF p \in tl.rev THEN 1 ELSE 0)
                    + (IF tl.short = p THEN 1 ELSE 0)
  /\ \A k \in Keys : tl.mwc[k] = Cardinality({p \in Positions : Key(p) = k /\ tl.refs[p] > 0})

(* Checkpoints never have breakpoints applied, and breakpoints not applied     *)
(* are not in the session.                                                   *)
CheckpointsClean ==
  /\ \A p \in Positions : tl.dirty[p] = {}
  /\ ~tl.applied => tl.ins = {}

(* A lazy reverse-step is one step of the task, and that step hits no          *)
(* watchpoint.                                                               *)
LazyStepsSilent ==
  (op.kind = "lazy" /\ pc = "idle" /\ tl.fault = "") =>
    /\ StepsOf(op.task, tl.pos, op.from) = {tl.pos}
    /\ \A w \in At(tl.pos).writes : Data(w) \notin op.wps

(* A reverse command returns. *)
Returns == pc # "idle" ~> Idle
=============================================================================
