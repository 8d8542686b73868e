---------------------------- MODULE Watchpoints ----------------------------
(***************************************************************************)
(* Watchpoints: the ranges an AddressSpace watches, the debug registers of  *)
(* its tasks that are programmed for them, and the diagnosis of a trap      *)
(* (Task::compute_trap_reasons).  Memory is a row of bytes; an instruction  *)
(* reads or writes some of them, and the processor sets the status bits of  *)
(* the registers it meets, with the quirks the code knows of.               *)
(***************************************************************************)
EXTENDS Integers, Sequences, FiniteSets, SequencesExt, FiniteSetsExt

CONSTANTS
  Top,           \* the address UINTPTR_MAX
  Word,          \* sizeof(void*): the size of the largest debug register
  NumRegs,       \* NUM_X86_WATCHPOINTS
  Tasks, First,  \* the tasks of the address space, and its first
  Requests,      \* what the debugger may watch: [addr, n, type]
  Accesses,      \* what an instruction may do: [k, addr, n, v]
  Code,          \* addresses of instructions
  Jumps,         \* where an instruction may continue
  Bps,           \* addresses with a software breakpoint
  MaxWatches,    \* bound on the requests of the debugger
  MaxSteps,      \* bound on instructions and writes
  Odd            \* circumstances in which the promises do not hold, see below

Unmapped == 255

VARIABLES
  mem,           \* the bytes
  as,            \* the AddressSpace: [wps, saved]
  dr,            \* the debug registers in use, of every task
  alive,         \* the tasks there are
  wanted,        \* what the debugger believes to be watched
  refused,       \* a request has been refused
  late,          \* ranges that changed and have not been reported yet
  stop,          \* the last stop: what it reported, and what it had to and may
  steps, watches

vars == <<mem, as, dr, alive, wanted, refused, late, stop, steps, watches>>

-----------------------------------------------------------------------------
(* Ranges <<start, size>>, and the debug registers for them.                 *)

Bytes(r) == r[1] .. r[1] + r[2] - 1

Intersects(r, s) == Bytes(r) \cap Bytes(s) # {}

range_for_watchpoint(addr, n) == <<addr, IF n < Top - addr THEN n ELSE Top - addr>>

access_bits_of(type) ==
  CASE type = "EXEC" -> {"x"} [] type = "WRITE" -> {"w"} [] type = "READWRITE" -> {"r", "w"}

(* The largest aligned size that fits at the start of r. *)
SplitSize(r) ==
  Max({s \in {1, 2, 4, 8} : s <= Word /\ r[1] % s = 0 /\ s <= r[2]})

RECURSIVE split_range(_)
split_range(r) ==
  IF r[2] = 0 THEN <<>>
  ELSE <<<<r[1], SplitSize(r)>>>> \o split_range(<<r[1] + SplitSize(r), r[2] - SplitSize(r)>>)

(* (The end of the range is rounded down.) *)
AlignedShort(r) ==
  LET align == CASE r[2] <= 2 -> 2 [] r[2] > 2 /\ (r[2] <= 4 \/ Word <= 4) -> 4 [] OTHER -> 8
      lo == (r[1] \div align) * align
      hi == ((r[1] + r[2]) \div align) * align
  IN <<lo, hi - lo>>

(* A write watchpoint may use an aligned range that is larger, if that saves
   registers: writes that change nothing in the range itself are not reported. *)
Aligned(r) ==
  LET align == CASE r[2] <= 2 -> 2 [] r[2] > 2 /\ (r[2] <= 4 \/ Word <= 4) -> 4 [] OTHER -> 8
      lo == (r[1] \div align) * align
      hi == ((r[1] + r[2] + align - 1) \div align) * align
  IN <<lo, hi - lo>>

configure_watch_registers(r, type) ==
  LET split == split_range(r)
      wide  == split_range(Aligned(r))
      use   == IF type = "WRITE" /\ r[2] > 1 /\ Len(wide) < Len(split) THEN wide ELSE split
  IN [i \in 1 .. Len(use) |-> [addr |-> use[i][1], n |-> use[i][2], type |-> type]]

-----------------------------------------------------------------------------
(* class Watchpoint, and the operations of AddressSpace on them.             *)

watched_bits(w) == {b \in {"x", "r", "w"} : w.count[b] > 0}

NewWatchpoint(n) ==
  [count |-> [b \in {"x", "r", "w"} |-> 0], regs |-> {}, val |-> [i \in 1 .. n |-> 0],
   valid |-> FALSE, changed |-> FALSE]

(* The value is read byte by byte where it can be; what cannot be read is 255. *)
Value(r, m) == [i \in 1 .. r[2] |-> m[r[1] + i - 1]]

Updated(r, w, m) == [w EXCEPT !.val = Value(r, m), !.valid = \A a \in Bytes(r) : m[a] # Unmapped]

update_watchpoint_value(r, w, m) ==   \* whether it has changed
  Updated(r, w, m).valid # w.valid \/ Updated(r, w, m).val # w.val

(* The order of std::map<MemoryRange, Watchpoint>. *)
InOrder(wps) ==
  SetToSortSeq(DOMAIN wps, LAMBDA a, b : a[1] < b[1] \/ (a[1] = b[1] /\ a[2] < b[2]))

(* The configurations of the watchpoint at r. *)
Configs(wps, r) ==
  LET bits == watched_bits(wps[r]) IN
  (IF "x" \in bits THEN configure_watch_registers(r, "EXEC") ELSE <<>>)
    \o (IF "r" \in bits THEN configure_watch_registers(r, "READWRITE")
        ELSE IF "w" \in bits THEN configure_watch_registers(r, "WRITE") ELSE <<>>)

(* The number of those that are remembered for read and exec checks. *)
Assigned(wps, r) ==
  LET bits == watched_bits(wps[r]) IN
  (IF "x" \in bits THEN Len(configure_watch_registers(r, "EXEC")) ELSE 0)
    + (IF "r" \in bits THEN Len(configure_watch_registers(r, "READWRITE")) ELSE 0)

get_watch_configs(wps) ==
  FoldLeft(LAMBDA acc, r :
             [cfgs |-> acc.cfgs \o Configs(wps, r),
              wps |-> [acc.wps EXCEPT ![r].regs =
                         Len(acc.cfgs) + 1 .. Len(acc.cfgs) + Assigned(wps, r)]],
           [cfgs |-> <<>>, wps |-> wps], InOrder(wps))

(* allocate_watchpoints: every task gets the registers, or no task does.
   (The list that is cleared then is that of a copy.) *)
allocate_watchpoints(a, d, ts) ==
  LET With(g) == [as |-> [a EXCEPT !.wps = g.wps], ok |-> Len(g.cfgs) <= NumRegs,
                  dr |-> [t \in DOMAIN d |-> IF t \notin ts THEN d[t]
                                            ELSE IF Len(g.cfgs) <= NumRegs THEN g.cfgs ELSE <<>>]]
  IN With(get_watch_configs(a.wps))

Counted(w, type, k) ==
  [w EXCEPT !.count = [b \in DOMAIN @ |-> @[b] + IF b \in access_bits_of(type) THEN k ELSE 0]]

add_watchpoint(a, d, ts, m, q) ==
  LET r == range_for_watchpoint(q.addr, q.n)
      w == IF r \in DOMAIN a.wps THEN a.wps[r] ELSE Updated(r, NewWatchpoint(r[2]), m)
  IN allocate_watchpoints([a EXCEPT !.wps = [s \in DOMAIN @ \cup {r} |->
                             IF s = r THEN Counted(w, q.type, 1) ELSE @[s]]], d, ts)

Dropped(wps, r) == [s \in DOMAIN wps \ {r} |-> wps[s]]

remove_watchpoint(a, d, ts, q) ==
  LET r == range_for_watchpoint(q.addr, q.n)
      w == Counted(a.wps[r], q.type, -1)
  IN allocate_watchpoints(
       [a EXCEPT !.wps = IF r \notin DOMAIN @ THEN @
                         ELSE IF watched_bits(w) = {} THEN Dropped(@, r) ELSE [@ EXCEPT ![r] = w]], d, ts)

(* rr has written to bytes r: update_watchpoint_values. *)
notify_written(a, r, m) ==
  [a EXCEPT !.wps = [s \in DOMAIN @ |->
     IF Intersects(s, r) /\ update_watchpoint_value(s, @[s], m)
     THEN [Updated(s, @[s], m) EXCEPT !.changed = TRUE] ELSE @[s]]]

(* A trap with the registers of status: write watchpoints are told by their
   value, the others by their registers, and an exec watchpoint at the end of
   a single step is not believed unless it is on the instruction stepped.
   from is that instruction, or -1. *)
Fired(r, w, m, status, from) ==
  \/ "w" \in watched_bits(w) /\ update_watchpoint_value(r, w, m)
  \/ "r" \in watched_bits(w) /\ w.regs \cap status # {}
  \/ "x" \in watched_bits(w) /\ (from = -1 \/ r[1] = from) /\ w.regs \cap status # {}

(* (The instruction that was stepped is not looked at.) *)
NotifyBelieves(a, m, status, from) ==
  [a EXCEPT !.wps = [r \in DOMAIN @ |->
     LET w == IF "w" \in watched_bits(@[r]) THEN Updated(r, @[r], m) ELSE @[r]
     IN [w EXCEPT !.changed = @ \/ Fired(r, a.wps[r], m, status, -1)]]]

notify_watchpoint_fired(a, m, status, from) ==
  [a EXCEPT !.wps = [r \in DOMAIN @ |->
     LET w == IF "w" \in watched_bits(@[r]) THEN Updated(r, @[r], m) ELSE @[r]
     IN [w EXCEPT !.changed = @ \/ Fired(r, a.wps[r], m, status, from)]]]

has_any_watchpoint_changes(a) == \E r \in DOMAIN a.wps : a.wps[r].changed

has_exec_watchpoint_fired(a, addr) ==
  \E r \in DOMAIN a.wps : a.wps[r].changed /\ a.wps[r].count["x"] > 0 /\ r[1] = addr

consume_watchpoint_changes(a) ==
  [a EXCEPT !.wps = [r \in DOMAIN @ |-> [@[r] EXCEPT !.changed = FALSE]]]

Changes(a) == {r \in DOMAIN a.wps : a.wps[r].changed}

-----------------------------------------------------------------------------
(* Task: what the processor reports, and what rr makes of it.                *)

RegBytes(c) == c.addr .. c.addr + c.n - 1

(* The registers of task t that an access meets. *)
Met(t, acc) ==
  {i \in DOMAIN dr[t] :
     /\ RegBytes(dr[t][i]) \cap Bytes(<<acc.addr, acc.n>>) # {}
     /\ dr[t][i].type = "READWRITE" \/ (dr[t][i].type = "WRITE" /\ acc.k = "write")}

ExecRegs(t, addr) == {i \in DOMAIN dr[t] : dr[t][i].type = "EXEC" /\ dr[t][i].addr = addr}

(* (A watchpoint does not keep the previous byte from being a breakpoint.) *)
ReasonsByAddress(a, m, s, from) ==
  LET b == IF s.status # {} \/ s.single
           THEN notify_watchpoint_fired(a, m, s.status, IF s.how = "step" THEN from ELSE -1) ELSE a
  IN [as |-> b, singlestep |-> s.single, watchpoint |-> has_any_watchpoint_changes(b) \/ s.status # {},
      breakpoint |-> IF s.single THEN from \in Bps ELSE s.ip - 1 \in Bps]

(* compute_trap_reasons after resuming at from: s = [status, single (the
   DS_SINGLESTEP bit), how ("step" or "cont"), trap (siginfo is that of a
   breakpoint), ip]. *)
compute_trap_reasons(a, m, s, from) ==
  LET b == IF s.status # {} \/ s.single
           THEN notify_watchpoint_fired(a, m, s.status, IF s.how = "step" THEN from ELSE -1) ELSE a
      watch == has_any_watchpoint_changes(b) \/ s.status # {}
  IN [as |-> b, singlestep |-> s.single, watchpoint |-> watch,
      breakpoint |-> IF s.single THEN from \in Bps
                     ELSE IF watch THEN has_exec_watchpoint_fired(b, s.ip - 1) /\ s.ip - 1 \in Bps
                     ELSE s.trap]

Nothing == [hit |-> {}, must |-> {}, may |-> {}, breakpoint |-> FALSE, int3 |-> FALSE]

(* The ranges whose watchpoint an access must fire: what is watched for
   writes when its value has changed, for reads when it is met. *)
MustFire(acc, m2) ==
  {r \in DOMAIN as.wps :
     \/ "w" \in watched_bits(as.wps[r]) /\ \E a \in Bytes(r) : mem[a] # m2[a]
     \/ "r" \in watched_bits(as.wps[r]) /\ Intersects(r, <<acc.addr, acc.n>>)}

After(acc) ==
  [a \in DOMAIN mem |-> IF acc.k = "write" /\ a \in Bytes(<<acc.addr, acc.n>>) /\ mem[a] # Unmapped
                        THEN acc.v ELSE mem[a]]

(* What the debugger is told at the stop: the trap is diagnosed by the replay
   and again for the debugger (diagnose_debugger_trap). *)
Diagnosed(m, s, from, must, may) ==
  \E c1 \in {compute_trap_reasons(as, m, s, from)} :
  \E c2 \in {compute_trap_reasons(c1.as, m, s, from)} :
     /\ stop' = [hit |-> IF c2.watchpoint THEN Changes(c2.as) ELSE {}, must |-> must, may |-> may,
                 breakpoint |-> c2.breakpoint, int3 |-> s.trap]
     /\ as' = IF c2.watchpoint THEN consume_watchpoint_changes(c2.as) ELSE c2.as
     /\ late' = IF c2.watchpoint THEN {} ELSE late

Quiet(must) == stop' = [Nothing EXCEPT !.must = must] /\ late' = late \cup must /\ UNCHANGED as

-----------------------------------------------------------------------------
(* The debugger, through ReplayTimeline: a second request for the same range
   and type replaces the first; a request that is refused leaves its
   watchpoint behind. *)
SetWatch(q) ==
  /\ watches < MaxWatches
  /\ watches' = watches + 1
  /\ \E a0 \in {IF q \in wanted THEN remove_watchpoint(as, dr, alive, q)
                ELSE [as |-> as, dr |-> dr, ok |-> TRUE]} :
     \E a \in {add_watchpoint(a0.as, a0.dr, alive, mem, q)} :
       /\ as' = a.as
       /\ dr' = a.dr
       /\ wanted' = IF a.ok THEN wanted \cup {q} ELSE wanted \ {q}
       /\ refused' = (refused \/ ~a.ok)
  /\ UNCHANGED <<mem, alive, late, stop, steps>>

RemoveWatch(q) ==
  /\ q \in wanted
  /\ \E a \in {remove_watchpoint(as, dr, alive, q)} : as' = a.as /\ dr' = a.dr
  /\ wanted' = wanted \ {q}
  /\ UNCHANGED <<mem, alive, refused, late, stop, steps, watches>>

(* (The registers of the new thread are left as they are.) *)
CloneBare(t) ==
  /\ t \notin alive
  /\ alive' = alive \cup {t}
  /\ UNCHANGED <<mem, as, dr, wanted, refused, late, stop, steps, watches>>

(* A thread is created: after_clone programs its registers. *)
CloneThread(t) ==
  /\ t \notin alive
  /\ alive' = alive \cup {t}
  /\ \E a \in {allocate_watchpoints(as, dr, alive \cup {t})} : as' = a.as /\ dr' = a.dr
  /\ UNCHANGED <<mem, wanted, refused, late, stop, steps, watches>>

Step == steps < MaxSteps /\ steps' = steps + 1

(* An instruction at from runs, continued or stepped, and goes on at ip.  An
   exec register stops it before it runs, unless it is resumed there.  Under a
   single step a data register may go unreported (VMWare), and one on the next
   instruction may be reported too early (Skylake).  (An instruction does not
   go on at itself.) *)
Instruction(t, from, ip, acc, how, resumed) ==
  /\ Step
  /\ t \in alive
  /\ from \notin Bps
  /\ ip # from
  /\ resumed \/ ExecRegs(t, from) = {}
  /\ \E m2 \in {After(acc)} : \E must \in {MustFire(acc, m2)} :
     /\ mem' = m2
     /\ \E lost \in SUBSET (IF how = "step" THEN Met(t, acc) ELSE {}),
           early \in SUBSET (IF how = "step" THEN ExecRegs(t, ip) ELSE {}) :
          LET s == [status |-> (Met(t, acc) \ lost) \cup early, single |-> how = "step",
                    how |-> how, trap |-> FALSE, ip |-> ip]
              \* reads are only told by the registers
              owed == {r \in must : (\E a \in Bytes(r) : mem[a] # m2[a] /\ "w" \in watched_bits(as.wps[r]))
                                      \/ lost = {}}
          IN IF s.status = {} /\ ~s.single THEN Quiet(must)
             ELSE Diagnosed(m2, s, from, owed, must \cup late)
  /\ UNCHANGED <<dr, alive, wanted, refused, watches>>

(* An exec register stops the task before the instruction at from. *)
ExecStop(t, from, how) ==
  /\ Step
  /\ t \in alive
  /\ ExecRegs(t, from) # {}
  /\ LET must == {r \in DOMAIN as.wps : "x" \in watched_bits(as.wps[r]) /\ r[1] = from} IN
     Diagnosed(mem, [status |-> ExecRegs(t, from), single |-> FALSE, how |-> how, trap |-> FALSE,
                     ip |-> from], from, must, must \cup late)
  /\ UNCHANGED <<mem, dr, alive, wanted, refused, watches>>

(* A software breakpoint is executed. *)
Breakpoint(t, from, how, resumed) ==
  /\ Step
  /\ t \in alive
  /\ from \in Bps
  /\ resumed \/ ExecRegs(t, from) = {}
  /\ Diagnosed(mem, [status |-> {}, single |-> how = "step", how |-> how, trap |-> TRUE,
                     ip |-> from + 1], from, {}, late)
  /\ UNCHANGED <<mem, dr, alive, wanted, refused, watches>>

(* rr writes to the memory of the tracee as it replays a system call, and
   then looks for changes (check_for_watchpoint_changes).
   ("code": also where only execution is watched.  "poke": the debugger writes
   in a diversion, and nothing looks before the tracee runs on.) *)
RemoteWrite(acc) ==
  /\ Step
  /\ acc.k = "write"
  /\ "code" \in Odd \/ \A r \in DOMAIN as.wps :
       Intersects(r, <<acc.addr, acc.n>>) => "w" \in watched_bits(as.wps[r])
  /\ mem' = After(acc)
  /\ \E a \in {notify_written(as, <<acc.addr, acc.n>>, After(acc))},
        must \in {{r \in DOMAIN as.wps : "w" \in watched_bits(as.wps[r])
                                         /\ \E b \in Bytes(r) : mem[b] # After(acc)[b]}} :
       IF "poke" \in Odd
       THEN /\ as' = a
            /\ late' = late \cup must
            /\ stop' = Nothing
       ELSE /\ as' = consume_watchpoint_changes(a)
            /\ late' = late \ Changes(a)
            /\ stop' = [Nothing EXCEPT !.hit = Changes(a), !.must = must, !.may = must \cup late]
  /\ UNCHANGED <<dr, alive, wanted, refused, watches>>

(* The kernel maps or unmaps half of the memory, which nobody notices before
   the next trap. *)
Remap ==
  /\ Step
  /\ mem' = [a \in DOMAIN mem |-> IF a < Top \div 2 THEN mem[a]
                                  ELSE IF mem[a] = Unmapped THEN 0 ELSE Unmapped]
  /\ late' = late \cup {r \in DOMAIN as.wps : "w" \in watched_bits(as.wps[r])
                                              /\ \E a \in Bytes(r) : a >= Top \div 2}
  /\ stop' = Nothing
  /\ UNCHANGED <<as, dr, alive, wanted, refused, watches>>

-----------------------------------------------------------------------------
Init ==
  /\ mem = [a \in 0 .. Top |-> 0]
  /\ as = [wps |-> [r \in {} |-> NewWatchpoint(0)], saved |-> <<>>]
  /\ dr = [t \in Tasks |-> <<>>]
  /\ alive = {First}
  /\ wanted = {}
  /\ refused = FALSE
  /\ late = {}
  /\ stop = Nothing
  /\ steps = 0
  /\ watches = 0

Next ==
  \/ \E q \in Requests : SetWatch(q) \/ RemoveWatch(q)
  \/ \E t \in Tasks : CloneThread(t)
  \/ \E t \in Tasks, from \in Code, how \in {"step", "cont"}, resumed \in BOOLEAN :
       \/ \E ip \in Jumps, acc \in Accesses : Instruction(t, from, ip, acc, how, resumed)
       \/ Breakpoint(t, from, how, resumed)
  \/ \E t \in Tasks, from \in Code, how \in {"step", "cont"} : ExecStop(t, from, how)
  \/ \E acc \in Accesses : RemoteWrite(acc)
  \/ Remap

Spec == Init /\ [][Next]_vars

-----------------------------------------------------------------------------
(* Every watchpoint the debugger has set is armed in every task of the address
   space: each of its bytes is under a register that sees the accesses.  (Not
   while a fast-forward has put them aside; and a request that was refused
   disarms them all.) *)
WatchArmed ==
  ~refused /\ as.saved = <<>> =>
    \A q \in wanted, t \in alive : \A b \in Bytes(range_for_watchpoint(q.addr, q.n)) :
      \E i \in DOMAIN dr[t] :
        /\ b \in RegBytes(dr[t][i])
        /\ dr[t][i].type = q.type \/ (q.type = "WRITE" /\ dr[t][i].type = "READWRITE")

WatchAlwaysArmed ==
  \A q \in wanted, t \in alive : \A b \in Bytes(range_for_watchpoint(q.addr, q.n)) :
    \E i \in DOMAIN dr[t] : b \in RegBytes(dr[t][i])

(* An instruction that changes a watched value, reads what is watched for
   reads or is watched itself stops the task, and the stop names the
   watchpoint - whichever of the tasks it is, however the range had to be cut
   or widened to fit the registers, and whatever else the stop is for. *)
WatchReported == ~refused => stop.must \subseteq stop.hit

(* A watchpoint that is named has fired: it was met by the instruction, or
   its value has changed since it was last looked at. *)
ReportedIsReal == stop.hit \subseteq stop.may

(* A stop is taken for that of a breakpoint exactly when the breakpoint
   instruction was executed. *)
BreakpointIsReal == stop.breakpoint = stop.int3
=============================================================================
