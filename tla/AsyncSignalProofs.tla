------------------------- MODULE AsyncSignalProofs -------------------------
(***************************************************************************)
(* emulate_async_signal finds the recorded point and hides nothing from the *)
(* debugger: proofs for every deterministic execution that satisfies        *)
(* AsyncAssumption, every set of user breakpoints and watchpoints, every    *)
(* run command and every timing of the interrupts.                          *)
(***************************************************************************)
EXTENDS AsyncSignal, TLAPS

(* What holds of every stop o of a tracee that was resumed with breakpoint   *)
(* instructions at bps: nothing with a breakpoint on it was executed, no     *)
(* change of a watched value was missed, and the reasons tell the truth.     *)
Honest(o, bps) ==
  /\ o.pos \in Int /\ pos <= o.pos
  /\ o.past \in BOOLEAN /\ o.changed \in BOOLEAN
  /\ \A q \in pos .. o.pos - 1 : Ip(q) \notin bps
  /\ (\E q \in pos .. o.pos - 1 : q \in Watch) => o.changed
  /\ o.past <=> "breakpoint" \in o.why
  /\ o.past => o.sig = "SIGTRAP" /\ Ip(o.pos) \in bps
  /\ o.changed /\ ~changed => o.sig = "SIGTRAP" /\ "watchpoint" \in o.why
  /\ changed => o.changed
  /\ o.sig = "SIGTRAP" => o.why \cap {"breakpoint", "watchpoint", "singlestep"} # {}

(* A continued tracee gets to p and stops there, or just after it, as o says. *)
ContinueStop(o, p, bps, period) ==
  /\ RunsTo(p, bps) /\ InPeriod(p, period)
  /\ \/ o = Stop(p, TRUE, "SIGTRAP", {"breakpoint"}, changed) /\ Ip(p) \in bps
     \/ /\ o = Stop(p + 1, FALSE, "SIGTRAP", {"watchpoint"}, changed \/ p \in Watch)
        /\ Ip(p) \notin bps
     \/ /\ o = Stop(p + 1, FALSE, "emulated", {}, changed)
        /\ Ip(p) \notin bps /\ p \in Cpuid
     \/ o = Stop(p, FALSE, "TIME_SLICE", {}, changed)
     \/ o = [Stop(p, FALSE, "TIME_SLICE", {}, changed) EXCEPT !.stray = TRUE]
     \/ o = Stop(p, FALSE, "syscall", {}, changed) /\ p = Last /\ Ip(p) \notin bps

(* What the stops of a continued tracee are. *)
LEMMA ContinueStopsAre ==
  ASSUME NEW bps, NEW period, NEW o \in ContinueStops(bps, period)
  PROVE  \E p \in Points : ContinueStop(o, p, bps, period)
  BY Zenon DEF ContinueStops, ContinueStop

(* Continuing stops honestly. *)
LEMMA ContinueHonest ==
  ASSUME AsyncAssumption, pos \in Points, changed \in BOOLEAN,
         NEW bps, NEW period, NEW o \in ContinueStops(bps, period)
  PROVE  Honest(o, bps)
<1>1. PICK p \in Points : ContinueStop(o, p, bps, period)
  BY ContinueStopsAre
<1>2. /\ pos \in Int /\ p \in Int /\ pos <= p
      /\ \A q \in pos .. p - 1 : Ip(q) \notin bps /\ q \notin Watch
      /\ p \in Cpuid => p \notin Watch
  BY <1>1 DEF ContinueStop, RunsTo, Points, AsyncAssumption
<1>3. CASE o = Stop(p, TRUE, "SIGTRAP", {"breakpoint"}, changed) /\ Ip(p) \in bps
  BY <1>2, <1>3 DEF Honest, Stop
<1>4. CASE /\ o = Stop(p + 1, FALSE, "SIGTRAP", {"watchpoint"}, changed \/ p \in Watch)
           /\ Ip(p) \notin bps
  <2>1. /\ o.pos = p + 1 /\ o.past = FALSE /\ o.sig = "SIGTRAP" /\ o.why = {"watchpoint"}
        /\ o.changed = (changed \/ p \in Watch)
    BY <1>4 DEF Stop
  <2>2. /\ o.pos \in Int /\ pos <= o.pos
        /\ \A q \in pos .. o.pos - 1 : q \in pos .. p - 1 \/ q = p
    BY <1>2, <2>1
  <2>3. \A q \in pos .. o.pos - 1 : Ip(q) \notin bps
    BY <1>2, <1>4, <2>1, <2>2
  <2>4. (\E q \in pos .. o.pos - 1 : q \in Watch) => o.changed
    BY <1>2, <2>1, <2>2
  <2> QED BY <2>1, <2>2, <2>3, <2>4 DEF Honest
<1>5. CASE /\ o = Stop(p + 1, FALSE, "emulated", {}, changed)
           /\ Ip(p) \notin bps /\ p \in Cpuid
  <2>1. /\ o.pos = p + 1 /\ o.past = FALSE /\ o.sig = "emulated" /\ o.why = {}
        /\ o.changed = changed
    BY <1>5 DEF Stop
  <2>2. /\ o.pos \in Int /\ pos <= o.pos
        /\ \A q \in pos .. o.pos - 1 : q \in pos .. p - 1 \/ q = p
    BY <1>2, <2>1
  <2>3. \A q \in pos .. o.pos - 1 : Ip(q) \notin bps /\ q \notin Watch
    BY <1>2, <1>5, <2>1, <2>2
  <2> QED BY <2>1, <2>2, <2>3 DEF Honest
<1>6. CASE o = Stop(p, FALSE, "TIME_SLICE", {}, changed)
  BY <1>2, <1>6 DEF Honest, Stop
<1>7. CASE o = [Stop(p, FALSE, "TIME_SLICE", {}, changed) EXCEPT !.stray = TRUE]
  BY <1>2, <1>7 DEF Honest, Stop
<1>8. CASE o = Stop(p, FALSE, "syscall", {}, changed)
  BY <1>2, <1>8 DEF Honest, Stop
<1> QED BY <1>1, <1>3, <1>4, <1>5, <1>6, <1>7, <1>8 DEF ContinueStop

(* What a single step leads to, in its four cases. *)
LEMMA SinglestepCases ==
  ASSUME NEW bps, NEW o, o = SinglestepStop(bps)
  PROVE  \/ /\ Ip(pos) \in bps
            /\ o.pos = pos /\ o.past = TRUE /\ o.sig = "SIGTRAP" /\ o.changed = changed
            /\ o.why = {"singlestep", "breakpoint"}
         \/ /\ Ip(pos) \notin bps /\ pos \in Cpuid
            /\ o.pos = pos /\ o.past = FALSE /\ o.sig = "SIGSEGV" /\ o.changed = changed
            /\ o.why = {}
         \/ /\ Ip(pos) \notin bps /\ pos \notin Cpuid /\ pos = Last
            /\ o.pos = pos /\ o.past = FALSE /\ o.sig = "syscall" /\ o.changed = changed
            /\ o.why = {}
         \/ /\ Ip(pos) \notin bps /\ pos \notin Cpuid /\ pos # Last
            /\ o.pos = pos + 1 /\ o.past = FALSE /\ o.sig = "SIGTRAP"
            /\ o.changed = (changed \/ pos \in Watch)
            /\ "singlestep" \in o.why /\ "breakpoint" \notin o.why
            /\ pos \in Watch => "watchpoint" \in o.why
<1>1. CASE Ip(pos) \in bps
  BY <1>1 DEF SinglestepStop, Stop
<1>2. CASE Ip(pos) \notin bps /\ pos \in Cpuid
  BY <1>2 DEF SinglestepStop, Stop
<1>3. CASE Ip(pos) \notin bps /\ pos \notin Cpuid /\ pos = Last
  BY <1>3 DEF SinglestepStop, Stop
<1>4. CASE Ip(pos) \notin bps /\ pos \notin Cpuid /\ pos # Last
  <2> DEFINE why == {"singlestep"} \cup
            (IF pos \in Watch \cup FalseWatch THEN {"watchpoint"} ELSE {})
  <2>1. o = Stop(pos + 1, FALSE, "SIGTRAP", why, changed \/ pos \in Watch)
    BY <1>4 DEF SinglestepStop
  <2>2. /\ o.pos = pos + 1 /\ o.past = FALSE /\ o.sig = "SIGTRAP"
        /\ o.changed = (changed \/ pos \in Watch) /\ o.why = why
    BY <2>1 DEF Stop
  <2>3. "singlestep" \in why /\ "breakpoint" \notin why /\ (pos \in Watch => "watchpoint" \in why)
    OBVIOUS
  <2> QED BY <1>4, <2>2, <2>3
<1> QED BY <1>1, <1>2, <1>3, <1>4

(* A single step stops honestly. *)
LEMMA SinglestepHonest ==
  ASSUME AsyncAssumption, pos \in Points, changed \in BOOLEAN,
         NEW bps, NEW o, o = SinglestepStop(bps)
  PROVE  Honest(o, bps)
<1>1. pos \in Int /\ pos .. pos - 1 = {} /\ pos .. (pos + 1) - 1 = {pos}
  BY DEF Points
<1>2. CASE o.pos = pos
  <2>1. pos .. o.pos - 1 = {} /\ o.pos \in Int /\ pos <= o.pos /\ o.pos # pos + 1
    BY <1>1, <1>2
  <2>2. CASE /\ Ip(pos) \in bps
             /\ o.past = TRUE /\ o.sig = "SIGTRAP" /\ o.changed = changed
             /\ o.why = {"singlestep", "breakpoint"}
    BY <1>2, <2>1, <2>2 DEF Honest
  <2>3. CASE /\ o.past = FALSE /\ o.sig # "SIGTRAP" /\ o.changed = changed
             /\ o.why = {}
    BY <1>2, <2>1, <2>3 DEF Honest
  <2> QED BY <2>1, <2>2, <2>3, SinglestepCases
<1>3. CASE o.pos = pos + 1
  <2>1. pos .. o.pos - 1 = {pos} /\ o.pos # pos /\ o.pos \in Int /\ pos <= o.pos
    BY <1>1, <1>3
  <2> QED BY <1>1, <2>1, SinglestepCases DEF Honest
<1> QED BY <1>2, <1>3, SinglestepCases

(* What a single step, or a fast-forwarded one, adds to that: how far it     *)
(* gets, and when it ends in a fault or at the end of the execution.         *)
Stepped(o, bps, states) ==
  /\ Honest(o, bps)
  /\ \/ o.pos = pos
     \/ o.pos = pos + 1
     \/ /\ o.pos \in pos + 2 .. Last
        /\ \A r \in pos .. o.pos : Ip(r) = Ip(pos)
        /\ \A r \in pos + 1 .. o.pos : Regs(r) \notin states
  /\ o.sig \in {"SIGTRAP", "syscall", "SIGSEGV"}
  /\ o.sig = "syscall" => o.pos = pos /\ pos = Last /\ Ip(pos) \notin bps
  /\ o.sig = "SIGSEGV" =>
       /\ o.pos = pos /\ o.changed = changed /\ o.past = FALSE
       /\ pos \in Cpuid /\ Ip(pos) \notin bps
  /\ "breakpoint" \in o.why => Ip(pos) \in bps
  /\ o.sig = "SIGTRAP" => "singlestep" \in o.why

(* A single step is such a step. *)
LEMMA SinglestepStepped ==
  ASSUME AsyncAssumption, pos \in Points, changed \in BOOLEAN,
         NEW bps, NEW states, NEW o, o = SinglestepStop(bps)
  PROVE  Stepped(o, bps, states)
<1>1. Honest(o, bps)
  BY SinglestepHonest
<1>2. /\ o.pos = pos \/ o.pos = pos + 1
      /\ o.sig \in {"SIGTRAP", "syscall", "SIGSEGV"}
      /\ o.sig = "syscall" => o.pos = pos /\ pos = Last /\ Ip(pos) \notin bps
  BY SinglestepCases
<1>3. o.sig = "SIGSEGV" => /\ o.pos = pos /\ o.changed = changed /\ o.past = FALSE
                           /\ pos \in Cpuid /\ Ip(pos) \notin bps
  BY SinglestepCases
<1>4. /\ "breakpoint" \in o.why => Ip(pos) \in bps
      /\ o.sig = "SIGTRAP" => "singlestep" \in o.why
  BY SinglestepCases
<1> QED BY <1>1, <1>2, <1>3, <1>4 DEF Stepped

(* The tracee is fast-forwarded to q, inside a string instruction. *)
Forwarded(o, q, bps, states) ==
  /\ o = [SinglestepStop(bps) EXCEPT !.pos = q]
  /\ SinglestepStop(bps).sig = "SIGTRAP" /\ Ip(pos) \notin bps
  /\ \A r \in pos .. q : Ip(r) = Ip(pos)
  /\ \A r \in pos .. q - 1 : r \notin Watch \cup FalseWatch
  /\ \A r \in pos + 1 .. q : Regs(r) \notin states

(* What the stops of a fast-forwarded tracee are. *)
LEMMA FastForwardStopsAre ==
  ASSUME NEW bps, NEW states, NEW o \in FastForwardStops(bps, states)
  PROVE  \/ o = SinglestepStop(bps)
         \/ \E q \in pos + 2 .. Last : Forwarded(o, q, bps, states)
  BY Zenon DEF FastForwardStops, Forwarded

(* Fast-forwarding misses no breakpoint, no watched change and none of the   *)
(* states it has to stop before.                                             *)
LEMMA FastForwardStepped ==
  ASSUME AsyncAssumption, pos \in Points, changed \in BOOLEAN,
         NEW bps, NEW states, NEW o \in FastForwardStops(bps, states)
  PROVE  Stepped(o, bps, states)
<1>1. CASE o = SinglestepStop(bps)
  BY <1>1, SinglestepStepped
<1>2. ASSUME NEW q \in pos + 2 .. Last, Forwarded(o, q, bps, states)
      PROVE  Stepped(o, bps, states)
  <2> DEFINE first == SinglestepStop(bps)
  <2>1. /\ pos \in Int /\ q \in Int /\ pos + 2 <= q /\ pos \in pos .. q - 1
        /\ pos .. q - 1 \subseteq pos .. q /\ Last \in Int /\ q <= Last /\ pos # Last
    BY <1>2 DEF Points, AsyncAssumption
  <2>2. /\ o = [first EXCEPT !.pos = q] /\ first.sig = "SIGTRAP" /\ Ip(pos) \notin bps
        /\ \A r \in pos .. q : Ip(r) = Ip(pos)
        /\ \A r \in pos .. q - 1 : r \notin Watch
        /\ \A r \in pos + 1 .. q : Regs(r) \notin states
    BY <1>2 DEF Forwarded
  <2>3. pos \notin Cpuid
    BY <2>2 DEF SinglestepStop, Stop
  <2>4. PICK why : /\ first = Stop(pos + 1, FALSE, "SIGTRAP", why, changed)
                   /\ "singlestep" \in why /\ "breakpoint" \notin why
    BY <2>1, <2>2, <2>3 DEF SinglestepStop
  <2>5. /\ o.pos = q /\ o.past = FALSE /\ o.sig = "SIGTRAP" /\ o.why = why
        /\ o.changed = changed
    BY <2>2, <2>4 DEF Stop
  <2>6. \A r \in pos .. o.pos - 1 : Ip(r) \notin bps /\ r \notin Watch
    BY <2>1, <2>2, <2>5
  <2>7. Honest(o, bps)
    <3>1. o.pos \in Int /\ pos <= o.pos
      BY <2>1, <2>5
    <3> QED BY <2>4, <2>5, <2>6, <3>1 DEF Honest
  <2> QED BY <2>1, <2>2, <2>4, <2>5, <2>7 DEF Stepped
<1> QED BY <1>1, <1>2, FastForwardStopsAre

(* Emulating the CPUID that a step faulted on is one step more. *)
LEMMA EmulatedStepped ==
  ASSUME AsyncAssumption, pos \in Points, changed \in BOOLEAN,
         NEW bps, NEW states, NEW o, Stepped(o, bps, states)
  PROVE  Stepped(EmulateCpuid(o), bps, states) /\ EmulateCpuid(o).sig # "SIGSEGV"
<1>1. CASE o.sig # "SIGSEGV"
  BY <1>1 DEF EmulateCpuid
<1>2. CASE o.sig = "SIGSEGV"
  <2>1. PICK c : c = EmulateCpuid(o)
    OBVIOUS
  <2>2. /\ c.pos = pos + 1 /\ c.past = FALSE /\ c.sig = "SIGTRAP" /\ c.why = {"singlestep"}
        /\ c.changed = changed
    BY <1>2, <2>1 DEF EmulateCpuid, Stop, Stepped
  <2>3. pos \in Cpuid /\ pos \notin Watch /\ Ip(pos) \notin bps
    BY <1>2 DEF Stepped, AsyncAssumption
  <2>4. /\ c.pos \in Int /\ pos <= c.pos
        /\ \A r \in pos .. c.pos - 1 : r = pos
    BY <2>2 DEF Points
  <2>5. Honest(c, bps)
    BY <2>2, <2>3, <2>4 DEF Honest
  <2>6. Stepped(c, bps, states) /\ c.sig # "SIGSEGV"
    BY <2>2, <2>5 DEF Stepped
  <2> QED BY <2>1, <2>6
<1> QED BY <1>1, <1>2

(* The stops of the caller's command: it continues, or it is a step in which *)
(* a CPUID is emulated.                                                      *)
LEMMA CommandStops ==
  ASSUME AsyncAssumption, pos \in Points, changed \in BOOLEAN, command \in Commands,
         NEW bps, NEW period, NEW o \in continue_or_step(bps, period)
  PROVE  \/ command = "RUN_CONTINUE" /\ o \in ContinueStops(bps, period)
         \/ /\ is_singlestep(command) /\ Stepped(o, bps, {}) /\ o.sig # "SIGSEGV"
            /\ command = "RUN_SINGLESTEP" => o.pos \in {pos, pos + 1}
<1>1. command \in {"RUN_CONTINUE", "RUN_SINGLESTEP", "RUN_SINGLESTEP_FAST_FORWARD"}
  BY DEF AsyncAssumption
<1>2. CASE command = "RUN_CONTINUE"
  BY <1>2 DEF continue_or_step
<1>3. CASE command = "RUN_SINGLESTEP"
  <2>1. o = EmulateCpuid(SinglestepStop(bps))
    BY <1>3 DEF continue_or_step
  <2>2. PICK f : f = SinglestepStop(bps)
    OBVIOUS
  <2>3. Stepped(f, bps, {}) /\ f.pos \in {pos, pos + 1} /\ (f.sig = "SIGSEGV" => f.pos = pos)
    BY <2>2, SinglestepStepped, SinglestepCases
  <2>4. o.pos \in {pos, pos + 1}
    BY <2>1, <2>2, <2>3 DEF EmulateCpuid, Stop
  <2>5. Stepped(o, bps, {}) /\ o.sig # "SIGSEGV"
    BY <2>1, <2>2, <2>3, EmulatedStepped
  <2> QED BY <1>3, <2>4, <2>5 DEF is_singlestep
<1>4. CASE command = "RUN_SINGLESTEP_FAST_FORWARD"
  <2>1. PICK f \in FastForwardStops(bps, {}) : o = EmulateCpuid(f)
    BY <1>4 DEF continue_or_step
  <2>2. Stepped(f, bps, {})
    BY FastForwardStepped
  <2>3. Stepped(o, bps, {}) /\ o.sig # "SIGSEGV"
    BY <2>1, <2>2, EmulatedStepped
  <2> QED BY <1>4, <2>3 DEF is_singlestep
<1> QED BY <1>1, <1>2, <1>3, <1>4

(* An interrupt programmed SkidSize ticks early comes before the target, and *)
(* so does every other stop: step 1 never reaches the target.                *)
LEMMA AdvanceStops ==
  ASSUME AsyncAssumption, pos \in Points, changed \in BOOLEAN, command \in Commands,
         target \in Targets, ticks_left(pos) - SkidSize > SkidSize,
         NEW bps, NEW o \in continue_or_step(bps, TicksRequest)
  PROVE  Honest(o, bps) /\ o.pos <= target /\ Expected(o)
<1>1. /\ target \in Points /\ target \in Int /\ pos \in Int /\ Last \in Int /\ target <= Last
      /\ \A p \in Points : p \in Int /\ Ticks(p) \in Int
      /\ \A p \in Points : Ticks(p) < Ticks(target) => p < target
      /\ SkidSize \in Int /\ MaxSkid \in Int /\ MaxSkid < SkidSize /\ SkidSize >= 0
  BY DEF AsyncAssumption, Points
<1>2. Ticks(pos) < Ticks(target) /\ pos < target
  BY <1>1 DEF ticks_left
<1>3. CASE command = "RUN_CONTINUE" /\ o \in ContinueStops(bps, TicksRequest)
  <2>1. PICK p \in Points : ContinueStop(o, p, bps, TicksRequest)
    BY <1>3, ContinueStopsAre
  <2>2. TicksRequest = Ticks(target) - Ticks(pos) - SkidSize /\ TicksRequest # -1
    BY <1>1 DEF TicksRequest, ticks_left
  <2>3. Ticks(p) - Ticks(pos) <= TicksRequest + MaxSkid
    BY <2>1, <2>2 DEF ContinueStop, InPeriod
  <2>4. p < target
    BY <1>1, <2>2, <2>3
  <2>5. o.pos \in {p, p + 1} /\ o.sig \in {"SIGTRAP", "emulated", "TIME_SLICE", "syscall"}
        /\ (o.sig = "syscall" => p = Last)
    BY <2>1 DEF ContinueStop, Stop
  <2>6. o.pos <= target /\ Expected(o)
    BY <1>1, <2>4, <2>5 DEF Expected
  <2> QED BY <1>3, <2>6, ContinueHonest
<1>4. CASE Stepped(o, bps, {}) /\ o.sig # "SIGSEGV"
  <2>1. Honest(o, bps) /\ Expected(o)
    BY <1>1, <1>2, <1>4 DEF Stepped, Expected
  <2>2. CASE o.pos \in {pos, pos + 1}
    BY <1>1, <1>2, <2>1, <2>2
  <2>3. CASE o.pos \in pos + 2 .. Last /\ \A r \in pos .. o.pos : Ip(r) = Ip(pos)
    <3>1. o.pos \in Points /\ pos <= o.pos
      BY <1>1, <2>3 DEF Points
    <3>2. Ticks(pos) = Ticks(o.pos)
      BY <2>3, <3>1 DEF AsyncAssumption
    <3>3. o.pos < target /\ o.pos \in Int
      BY <1>1, <1>2, <3>1, <3>2
    <3>4. o.pos <= target
      BY <1>1, <3>3
    <3> QED BY <2>1, <3>4
  <2> QED BY <1>4, <2>2, <2>3 DEF Stepped
<1> QED BY <1>3, <1>4, CommandStops

(* What case 3 and case 4 need of a stop: it is honest, not past the target, *)
(* no syscall, a fault only of a CPUID at the target's $ip, and the single   *)
(* steps among its reasons are those of the command cmd.                     *)
Sought(o, bps, cmd) ==
  /\ Honest(o, bps) /\ o.pos <= target
  /\ o.sig \in {"SIGTRAP", "TIME_SLICE", "emulated", "SIGSEGV"}
  /\ o.sig = "SIGSEGV" => pos \in Cpuid /\ Ip(pos) = Ip(target)
  /\ "singlestep" \in o.why => is_singlestep(cmd)
  /\ o.sig = "SIGTRAP" /\ is_singlestep(command) => "singlestep" \in o.why
  /\ {"singlestep", "breakpoint"} \subseteq o.why => is_singlestep(command) \/ Ip(o.pos) \in user

(* A continued tracee that may not pass the target stops as sought. *)
LEMMA ContinueSought ==
  ASSUME AsyncAssumption, pos \in Points, changed \in BOOLEAN, target \in Targets,
         NEW bps, NEW period, NEW o \in ContinueStops(bps, period),
         NEW b \in pos .. target, Ip(b) \in bps, command = "RUN_CONTINUE"
  PROVE  Sought(o, bps, command)
<1>1. /\ target \in Int /\ pos \in Int /\ Last \in Int /\ target <= Last /\ b \in Int
      /\ pos <= b /\ b <= target
  BY DEF AsyncAssumption, Points
<1>2. Honest(o, bps)
  BY ContinueHonest
<1>3. o.pos <= target
  <2>1. o.pos \in Int /\ b \notin pos .. o.pos - 1
    BY <1>2 DEF Honest
  <2> QED BY <1>1, <2>1
<1>4. PICK p \in Points : ContinueStop(o, p, bps, period)
  BY ContinueStopsAre
<1>5. p \in Int /\ b \notin pos .. p - 1
  BY <1>4 DEF ContinueStop, RunsTo, Points
<1>6. ~(p = Last /\ Ip(p) \notin bps)
  BY <1>1, <1>5
<1>7. o.sig \in {"SIGTRAP", "TIME_SLICE", "emulated"} /\ "singlestep" \notin o.why
  BY <1>4, <1>6 DEF ContinueStop, Stop
<1> QED BY <1>2, <1>3, <1>7 DEF Sought, is_singlestep

(* Case 4 stops at the target's $ip at the latest. *)
LEMMA SeekToIpStops ==
  ASSUME AsyncAssumption, pos \in Points, changed \in BOOLEAN, command \in Commands,
         target \in Targets, pos <= target, Ip(pos) # Ip(target),
         NEW o \in continue_or_step(Breakpoints(TRUE), -1)
  PROVE  Sought(o, Breakpoints(TRUE), command)
<1>1. /\ target \in Int /\ pos \in Int /\ Last \in Int /\ target <= Last /\ pos < target
      /\ target \in pos .. target
  BY DEF AsyncAssumption, Points
<1>2. PICK bps : bps = Breakpoints(TRUE)
  OBVIOUS
<1>3. Ip(target) \in bps
  BY <1>2 DEF Breakpoints
<1>4. CASE command = "RUN_CONTINUE" /\ o \in ContinueStops(bps, -1)
  BY <1>1, <1>2, <1>3, <1>4, ContinueSought
<1>5. CASE is_singlestep(command) /\ Stepped(o, bps, {}) /\ o.sig # "SIGSEGV"
  <2>1. /\ Honest(o, bps) /\ o.sig = "SIGTRAP" /\ "singlestep" \in o.why
    BY <1>1, <1>5 DEF Stepped
  <2>2. o.pos \in Int /\ target \notin pos .. o.pos - 1
    BY <1>3, <2>1 DEF Honest
  <2>3. o.pos <= target
    BY <1>1, <2>2
  <2> QED BY <1>2, <1>5, <2>1, <2>3 DEF Sought
<1> QED BY <1>2, <1>4, <1>5, CommandStops

(* Case 3, when it does what the debugger asked for: nothing is executed, or *)
(* one instruction that is not the target's.                                 *)
LEMMA SeekForDebuggerStops ==
  ASSUME AsyncAssumption, pos \in Points, changed \in BOOLEAN, command \in Commands,
         target \in Targets, pos < target, StepsForDebugger,
         NEW o \in continue_or_step(Breakpoints(FALSE), -1)
  PROVE  Sought(o, Breakpoints(FALSE), command)
<1>1. /\ target \in Int /\ pos \in Int /\ Last \in Int /\ target <= Last
      /\ pos \in pos .. target
  BY DEF AsyncAssumption, Points
<1>2. PICK bps : bps = Breakpoints(FALSE)
  OBVIOUS
<1>3. bps = user
  BY <1>2 DEF Breakpoints
<1>4. CASE command = "RUN_CONTINUE" /\ o \in ContinueStops(bps, -1)
  <2>1. Ip(pos) \in bps
    BY <1>3, <1>4 DEF StepsForDebugger
  <2> QED BY <1>1, <1>2, <1>4, <2>1, ContinueSought
<1>5. CASE /\ is_singlestep(command) /\ Stepped(o, bps, {}) /\ o.sig # "SIGSEGV"
           /\ command = "RUN_SINGLESTEP" => o.pos \in {pos, pos + 1}
  <2>1. /\ Honest(o, bps) /\ o.sig = "SIGTRAP" /\ "singlestep" \in o.why
    BY <1>1, <1>5 DEF Stepped
  <2>2. Ip(pos) \in bps => o.pos = pos
    <3>1. o.pos \in Int /\ pos <= o.pos /\ (Ip(pos) \in bps => pos \notin pos .. o.pos - 1)
      BY <2>1 DEF Honest
    <3> QED BY <1>1, <3>1
  <2>3. o.pos \in {pos, pos + 1}
    BY <1>3, <1>5, <2>2 DEF StepsForDebugger
  <2>4. o.pos <= target
    BY <1>1, <2>3
  <2> QED BY <1>2, <1>5, <2>1, <2>4 DEF Sought
<1> QED BY <1>2, <1>4, <1>5, CommandStops

(* Case 3, when it steps internally: fast-forwarding stops before it gets    *)
(* past the target's registers.                                              *)
LEMMA SeekInternallyStops ==
  ASSUME AsyncAssumption, pos \in Points, changed \in BOOLEAN,
         target \in Targets, pos < target, Ip(pos) = Ip(target), ~StepsForDebugger,
         NEW o \in FastForwardStops(Breakpoints(FALSE), {Regs(target)})
  PROVE  Sought(o, Breakpoints(FALSE), "RUN_SINGLESTEP_FAST_FORWARD")
<1>1. /\ target \in Int /\ pos \in Int /\ Last \in Int /\ target <= Last
  BY DEF AsyncAssumption, Points
<1>2. PICK bps : bps = Breakpoints(FALSE)
  OBVIOUS
<1>3. bps = user /\ Ip(pos) \notin bps
  BY <1>2 DEF Breakpoints, StepsForDebugger
<1>4. Stepped(o, bps, {Regs(target)})
  BY <1>2, FastForwardStepped
<1>5. /\ Honest(o, bps) /\ o.sig \in {"SIGTRAP", "SIGSEGV"} /\ "breakpoint" \notin o.why
      /\ o.sig = "SIGTRAP" => "singlestep" \in o.why
      /\ o.sig = "SIGSEGV" => pos \in Cpuid
  BY <1>1, <1>3, <1>4 DEF Stepped
<1>6. o.pos <= target
  <2>1. CASE o.pos \in {pos, pos + 1}
    BY <1>1, <2>1
  <2>2. CASE o.pos \in pos + 2 .. Last /\ \A r \in pos + 1 .. o.pos : Regs(r) # Regs(target)
    <3>1. target \notin pos + 1 .. o.pos
      BY <2>2
    <3> QED BY <1>1, <2>2, <3>1
  <2> QED BY <1>4, <2>1, <2>2 DEF Stepped
<1>7. is_singlestep("RUN_SINGLESTEP_FAST_FORWARD")
  BY DEF is_singlestep
<1> QED BY <1>2, <1>5, <1>6, <1>7 DEF Sought

-----------------------------------------------------------------------------
(* The steps of the function. *)

(* What a step may not do: execute what the debugger has a breakpoint on, or *)
(* leave a change of a watched value unnoticed.                              *)
Unmissed ==
  /\ \A q \in pos .. pos' - 1 : Ip(q) \notin user
  /\ (\E q \in pos .. pos' - 1 : q \in Watch) => changed'

(* The tracee that stays where it is misses nothing. *)
LEMMA StaysUnmissed ==
  ASSUME pos \in Points, pos' = pos
  PROVE  Unmissed
<1>1. pos .. pos' - 1 = {}
  BY DEF Points
<1> QED BY <1>1 DEF Unmissed

(* A stop that is honest about breakpoints that include the debugger's       *)
(* misses nothing.                                                           *)
LEMMA HonestUnmissed ==
  ASSUME NEW o, NEW bps, Honest(o, bps), user \subseteq bps, pos' = o.pos, changed' = o.changed
  PROVE  Unmissed
  BY DEF Honest, Unmissed

(* What the invariant says in the middle of the function. *)
LEMMA AtAdvance ==
  ASSUME IndInv, pc = "advance"
  PROVE  /\ pos \in Points /\ target \in Targets /\ command \in Commands /\ pos <= target
         /\ bp_past = FALSE /\ changed = FALSE /\ pending = FALSE /\ result = "none"
<1>1. /\ pos \in Points /\ target \in Targets /\ command \in Commands
      /\ bp_past \in BOOLEAN /\ changed \in BOOLEAN /\ pending \in BOOLEAN
      /\ ~bp_past /\ ~changed /\ ~pending
  BY DEF IndInv, TypeOK, AdvanceClean
<1>2. pos <= target
  BY DEF IndInv, NeverPastTarget
<1>3. result = "none"
  BY DEF IndInv, ResultAgrees
<1> QED BY <1>1, <1>2, <1>3

(* Step 1 keeps the invariant, fails no ASSERT and misses nothing. *)
LEMMA AdvanceSafe ==
  ASSUME AsyncAssumption, IndInv, Advance
  PROVE  IndInv' /\ asserted' = FALSE /\ Unmissed
<1>1. pc = "advance" /\ ~asserted /\ ticks_left(pos) - SkidSize > SkidSize
  BY DEF Advance
<1>2. /\ pos \in Points /\ target \in Targets /\ command \in Commands /\ pos <= target
      /\ bp_past = FALSE /\ changed = FALSE /\ pending = FALSE /\ result = "none"
  BY <1>1, AtAdvance
<1>3. PICK o \in continue_or_step(Breakpoints(FALSE), TicksRequest) :
        /\ Stopped(o, Expected(o))
        /\ IF o.sig = "SIGTRAP" THEN Return("INCOMPLETE") ELSE UNCHANGED <<pc, result>>
  BY DEF Advance
<1>4. UNCHANGED <<given, internal, pending, sigtrap_command>>
  BY DEF Advance
<1>5. PICK bps : bps = Breakpoints(FALSE)
  OBVIOUS
<1>6. bps = user
  BY <1>5 DEF Breakpoints
<1>7. Honest(o, user) /\ o.pos <= target /\ Expected(o)
  BY <1>1, <1>2, <1>3, <1>5, <1>6, AdvanceStops
<1>8. /\ pos' = o.pos /\ bp_past' = o.past /\ reasons' = o.why /\ changed' = o.changed
      /\ stop_sig' = o.sig /\ asserted' = (asserted \/ ~Expected(o))
  BY <1>3 DEF Stopped
<1>9. asserted' = FALSE
  BY <1>1, <1>7, <1>8
<1>10. Unmissed
  BY <1>7, <1>8, HonestUnmissed
<1>11. /\ o.past \in BOOLEAN /\ o.changed \in BOOLEAN /\ o.pos \in Int /\ pos <= o.pos
       /\ o.past => o.sig = "SIGTRAP" /\ Ip(o.pos) \in user
       /\ o.changed => o.sig = "SIGTRAP" /\ "watchpoint" \in o.why
       /\ o.past <=> "breakpoint" \in o.why
  BY <1>2, <1>7 DEF Honest
<1>12. o.pos \in Points
  BY <1>2, <1>7, <1>11 DEF Points, AsyncAssumption
<1>13. target' = target /\ user' = user /\ command' = command /\ internal' = internal
       /\ pending' = FALSE /\ sigtrap_command' = sigtrap_command
  BY <1>2, <1>4 DEF given
<1>14. CASE o.sig = "SIGTRAP"
  <2>1. pc' = "return" /\ result' = "INCOMPLETE"
    BY <1>3, <1>14 DEF Return
  <2>2. TypeOK'
    BY <1>8, <1>9, <1>11, <1>12, <1>13, <2>1 DEF IndInv, TypeOK
  <2>3. IncompleteForDebugger'
    <3>1. CASE is_singlestep(command)
      BY <3>1, <1>13 DEF IncompleteForDebugger
    <3>2. CASE command = "RUN_CONTINUE" /\ o \in ContinueStops(bps, TicksRequest)
      <4>1. PICK p \in Points : ContinueStop(o, p, bps, TicksRequest)
        BY <3>2, ContinueStopsAre
      <4>2. o.past \/ "watchpoint" \in o.why
        BY <4>1, <1>14 DEF ContinueStop, Stop
      <4> QED BY <1>8, <1>11, <1>13, <4>2 DEF IncompleteForDebugger
    <3> QED BY <1>2, <1>3, <1>5, <3>1, <3>2, CommandStops
  <2>4. NeverPastTarget' /\ CompleteAtTarget' /\ ResultAgrees'
    BY <1>7, <1>8, <1>13, <2>1 DEF NeverPastTarget, CompleteAtTarget, ResultAgrees
  <2>5. AdvanceClean' /\ TrapAgrees' /\ ChangeAgrees' /\ CauseAgrees'
    BY <2>1 DEF AdvanceClean, TrapAgrees, ChangeAgrees, CauseAgrees
  <2> QED BY <1>9, <1>10, <2>2, <2>3, <2>4, <2>5 DEF IndInv
<1>15. CASE o.sig # "SIGTRAP"
  <2>1. pc' = "advance" /\ result' = "none"
    BY <1>1, <1>2, <1>3, <1>15
  <2>2. TypeOK'
    BY <1>8, <1>9, <1>11, <1>12, <1>13, <2>1 DEF IndInv, TypeOK
  <2>3. NeverPastTarget' /\ CompleteAtTarget' /\ ResultAgrees' /\ IncompleteForDebugger'
    BY <1>7, <1>8, <1>13, <2>1
    DEF NeverPastTarget, CompleteAtTarget, ResultAgrees, IncompleteForDebugger
  <2>4. AdvanceClean' /\ TrapAgrees' /\ ChangeAgrees' /\ CauseAgrees'
    BY <1>8, <1>11, <1>13, <1>15, <2>1 DEF AdvanceClean, TrapAgrees, ChangeAgrees, CauseAgrees
  <2> QED BY <1>9, <1>10, <2>2, <2>3, <2>4 DEF IndInv
<1> QED BY <1>14, <1>15

(* What the invariant says once the interrupts are done with. *)
LEMMA AtSeek ==
  ASSUME AsyncAssumption, IndInv, pc = "seek"
  PROVE  /\ pos \in Points /\ target \in Targets /\ command \in Commands /\ pos <= target
         /\ bp_past \in BOOLEAN /\ changed \in BOOLEAN /\ pending \in BOOLEAN
         /\ internal \in BOOLEAN /\ result = "none"
         /\ target \in Points /\ pos \in Int /\ target \in Int /\ target <= Last
         /\ sigtrap_command \in {"RUN_CONTINUE", "RUN_SINGLESTEP", "RUN_SINGLESTEP_FAST_FORWARD"}
<1>1. /\ pos \in Points /\ target \in Targets /\ command \in Commands
      /\ bp_past \in BOOLEAN /\ changed \in BOOLEAN /\ pending \in BOOLEAN
      /\ internal \in BOOLEAN
      /\ sigtrap_command \in {"RUN_CONTINUE", "RUN_SINGLESTEP", "RUN_SINGLESTEP_FAST_FORWARD"}
  BY DEF IndInv, TypeOK
<1>2. pos <= target
  BY DEF IndInv, NeverPastTarget
<1>3. result = "none"
  BY DEF IndInv, ResultAgrees
<1>4. target \in Points /\ pos \in Int /\ target \in Int /\ target <= Last
  BY <1>1 DEF AsyncAssumption, Points
<1> QED BY <1>1, <1>2, <1>3, <1>4

(* No trap is pending, or only one of the function's own: the tracee is not  *)
(* past a breakpoint and no change is left to be told.                       *)
LEMMA QuietSeek ==
  ASSUME AsyncAssumption, IndInv, pc = "seek", ~pending \/ OwnTrap
  PROVE  bp_past = FALSE /\ changed = FALSE /\ OwnTrapExplained
<1>1. bp_past \in BOOLEAN /\ changed \in BOOLEAN /\ pending \in BOOLEAN
  BY AtSeek
<1>2. bp_past = FALSE
  BY <1>1 DEF IndInv, TrapAgrees, OwnTrap
<1>3. changed = FALSE
  BY <1>1 DEF IndInv, ChangeAgrees, OwnTrap, DebuggerTrap
<1>4. OwnTrapExplained
  <2>1. SUFFICES ASSUME OwnTrap
                 PROVE  IF "singlestep" \in reasons THEN is_singlestep(sigtrap_command)
                                                    ELSE "watchpoint" \in reasons
    BY DEF OwnTrapExplained
  <2>2. pending /\ "breakpoint" \notin reasons
    BY <2>1 DEF OwnTrap
  <2>3. /\ reasons \cap {"breakpoint", "watchpoint", "singlestep"} # {}
        /\ "singlestep" \in reasons => is_singlestep(sigtrap_command)
    BY <2>2 DEF IndInv, CauseAgrees
  <2> QED BY <2>2, <2>3
<1> QED BY <1>2, <1>3, <1>4

(* A tracee that is not at the target is before it. *)
LEMMA BeforeTarget ==
  ASSUME AsyncAssumption, IndInv, pc = "seek", bp_past = FALSE,
         ~is_same_execution_point(pos, bp_past)
  PROVE  pos < target
<1>1. pos \in Int /\ target \in Int /\ pos <= target /\ target \in Points
  BY AtSeek
<1>2. pos # target
  <2>1. SUFFICES ASSUME pos = target PROVE FALSE
    OBVIOUS
  <2>2. Ticks(target) \in Int
    BY <1>1 DEF AsyncAssumption
  <2>3. ticks_left(pos) = 0
    BY <2>1, <2>2 DEF ticks_left
  <2> QED BY <2>1, <2>3 DEF is_same_execution_point
<1> QED BY <1>1, <1>2

(* Cases 3 and 4 keep the invariant, whatever stop they find, and fail no    *)
(* ASSERT unless it is a fault.                                              *)
LEMMA SeekStoppedSafe ==
  ASSUME AsyncAssumption, IndInv, pc = "seek", ~asserted, ~pending \/ OwnTrap,
         NEW o, NEW b \in BOOLEAN, internal' = b,
         Sought(o, Breakpoints(b), sigtrap_command'),
         SeekStopped(o), UNCHANGED <<given, pc, result>>,
         sigtrap_command' \in {"RUN_CONTINUE", "RUN_SINGLESTEP", "RUN_SINGLESTEP_FAST_FORWARD"}
  PROVE  /\ IndInv' /\ Unmissed
         /\ asserted' => pos \in Cpuid /\ Ip(pos) = Ip(target)
<1>1. /\ pos \in Points /\ target \in Targets /\ command \in Commands /\ pos <= target
      /\ result = "none" /\ target \in Points /\ pos \in Int /\ target \in Int /\ target <= Last
  BY AtSeek
<1>2. bp_past = FALSE /\ changed = FALSE /\ OwnTrapExplained
  BY QuietSeek
<1>3. /\ Honest(o, Breakpoints(b)) /\ o.pos <= target
      /\ o.sig \in {"SIGTRAP", "TIME_SLICE", "emulated", "SIGSEGV"}
      /\ o.sig = "SIGSEGV" => pos \in Cpuid /\ Ip(pos) = Ip(target)
      /\ "singlestep" \in o.why => is_singlestep(sigtrap_command')
      /\ o.sig = "SIGTRAP" /\ is_singlestep(command) => "singlestep" \in o.why
      /\ {"singlestep", "breakpoint"} \subseteq o.why =>
           is_singlestep(command) \/ Ip(o.pos) \in user
  BY DEF Sought
<1>4. /\ o.past \in BOOLEAN /\ o.changed \in BOOLEAN /\ o.pos \in Int /\ pos <= o.pos
      /\ o.past => o.sig = "SIGTRAP" /\ Ip(o.pos) \in Breakpoints(b)
      /\ o.changed => o.sig = "SIGTRAP" /\ "watchpoint" \in o.why
      /\ o.past <=> "breakpoint" \in o.why
      /\ o.sig = "SIGTRAP" => o.why \cap {"breakpoint", "watchpoint", "singlestep"} # {}
  BY <1>2, <1>3 DEF Honest
<1>5. o.pos \in Points
  BY <1>1, <1>3, <1>4 DEF Points, AsyncAssumption
<1>6. /\ pos' = o.pos /\ bp_past' = o.past /\ reasons' = o.why /\ changed' = o.changed
      /\ pending' = (o.sig = "SIGTRAP")
  BY DEF SeekStopped, Stopped
<1>7. ticks_left(o.pos) >= 0
  <2>1. Ticks(o.pos) \in Int /\ Ticks(target) \in Int /\ Ticks(o.pos) <= Ticks(target)
    BY <1>1, <1>3, <1>5 DEF AsyncAssumption
  <2> QED BY <2>1 DEF ticks_left
<1>8. asserted' \in BOOLEAN /\ (asserted' => pos \in Cpuid /\ Ip(pos) = Ip(target))
  <2>1. asserted' = (asserted \/ ~(/\ OwnTrapExplained
                                   /\ o.sig # "syscall"
                                   /\ is_same_execution_point(o.pos, o.past) \/ Expected(o)
                                   /\ ticks_left(o.pos) >= 0))
    BY DEF SeekStopped, Stopped
  <2>2. asserted \in BOOLEAN
    BY DEF IndInv, TypeOK
  <2>3. o.sig = "SIGSEGV" \/ Expected(o)
    BY <1>3 DEF Expected
  <2> QED BY <1>2, <1>3, <1>7, <2>1, <2>2, <2>3
<1>9. Unmissed
  <2>1. user \subseteq Breakpoints(b)
    BY DEF Breakpoints
  <2> QED BY <1>3, <1>6, <2>1, HonestUnmissed
<1>10. /\ target' = target /\ user' = user /\ command' = command /\ pc' = "seek"
       /\ result' = "none"
  BY <1>1 DEF given
<1>11. TypeOK'
  BY <1>1, <1>4, <1>5, <1>6, <1>8, <1>10 DEF TypeOK
<1>12. NeverPastTarget' /\ CompleteAtTarget' /\ ResultAgrees' /\ IncompleteForDebugger' /\ AdvanceClean'
  BY <1>3, <1>6, <1>10
  DEF NeverPastTarget, CompleteAtTarget, ResultAgrees, IncompleteForDebugger, AdvanceClean
<1>13. TrapAgrees'
  <2>1. Ip(pos') \in Breakpoints(b) => Ip(pos') \in Breakpoints(internal)'
    BY <1>10 DEF Breakpoints
  <2> QED BY <1>4, <1>6, <2>1 DEF TrapAgrees
<1>14. ChangeAgrees'
  BY <1>4, <1>6 DEF ChangeAgrees
<1>15. CauseAgrees'
  BY <1>3, <1>4, <1>6, <1>10 DEF CauseAgrees
<1> QED BY <1>8, <1>9, <1>11, <1>12, <1>13, <1>14, <1>15 DEF IndInv

(* Case 4 keeps the invariant and fails no ASSERT. *)
LEMMA SeekToIpSafe ==
  ASSUME AsyncAssumption, IndInv, SeekToIp
  PROVE  /\ IndInv' /\ Unmissed
         /\ asserted' => pos \in Cpuid /\ Ip(pos) = Ip(target)
<1>1. /\ pc = "seek" /\ ~asserted /\ (~pending \/ OwnTrap) /\ Ip(pos) # Ip(target)
      /\ internal' = TRUE /\ sigtrap_command' = command /\ UNCHANGED <<given, pc, result>>
  BY DEF SeekToIp
<1>2. PICK o \in continue_or_step(Breakpoints(TRUE), -1) : SeekStopped(o)
  BY DEF SeekToIp
<1>3. /\ pos \in Points /\ target \in Targets /\ command \in Commands /\ pos <= target
      /\ changed \in BOOLEAN
  BY <1>1, AtSeek
<1>4. Sought(o, Breakpoints(TRUE), command)
  BY <1>1, <1>3, SeekToIpStops
<1>5. sigtrap_command' \in {"RUN_CONTINUE", "RUN_SINGLESTEP", "RUN_SINGLESTEP_FAST_FORWARD"}
  BY <1>1, <1>3 DEF AsyncAssumption
<1>6. Sought(o, Breakpoints(TRUE), sigtrap_command')
  BY <1>1, <1>4
<1> QED BY <1>1, <1>2, <1>5, <1>6, SeekStoppedSafe

(* Case 3 keeps the invariant, and fails an ASSERT only at a CPUID. *)
LEMMA SeekOverIpSafe ==
  ASSUME AsyncAssumption, IndInv, SeekOverIp
  PROVE  /\ IndInv' /\ Unmissed
         /\ asserted' => pos \in Cpuid /\ Ip(pos) = Ip(target)
<1>1. /\ pc = "seek" /\ ~asserted /\ (~pending \/ OwnTrap) /\ Ip(pos) = Ip(target)
      /\ ~is_same_execution_point(pos, bp_past)
      /\ internal' = FALSE /\ UNCHANGED <<given, pc, result>>
  BY DEF SeekOverIp
<1>2. /\ pos \in Points /\ target \in Targets /\ command \in Commands /\ pos <= target
      /\ changed \in BOOLEAN
  BY <1>1, AtSeek
<1>3. pos < target
  BY <1>1, QuietSeek, BeforeTarget
<1>4. CASE StepsForDebugger
  <2>1. PICK o \in continue_or_step(Breakpoints(FALSE), -1) : SeekStopped(o)
    BY <1>4 DEF SeekOverIp
  <2>2. sigtrap_command' = command
    BY <1>4 DEF SeekOverIp
  <2>3. Sought(o, Breakpoints(FALSE), sigtrap_command')
    BY <1>2, <1>3, <1>4, <2>2, SeekForDebuggerStops
  <2>4. sigtrap_command' \in {"RUN_CONTINUE", "RUN_SINGLESTEP", "RUN_SINGLESTEP_FAST_FORWARD"}
    BY <1>2, <2>2 DEF AsyncAssumption
  <2> QED BY <1>1, <2>1, <2>3, <2>4, SeekStoppedSafe
<1>5. CASE ~StepsForDebugger
  <2>1. PICK o \in FastForwardStops(Breakpoints(FALSE), {Regs(target)}) : SeekStopped(o)
    BY <1>5 DEF SeekOverIp
  <2>2. sigtrap_command' = "RUN_SINGLESTEP_FAST_FORWARD"
    BY <1>5 DEF SeekOverIp
  <2>3. Sought(o, Breakpoints(FALSE), sigtrap_command')
    BY <1>1, <1>2, <1>3, <1>5, <2>2, SeekInternallyStops
  <2> QED BY <1>1, <2>1, <2>2, <2>3, SeekStoppedSafe
<1> QED BY <1>4, <1>5

(* Leaving step 1 keeps the invariant: the target's ticks are not passed. *)
LEMMA AdvanceDoneSafe ==
  ASSUME AsyncAssumption, IndInv, AdvanceDone
  PROVE  IndInv' /\ asserted' = FALSE /\ Unmissed
<1>1. /\ pc = "advance" /\ pc' = "seek" /\ asserted' = (ticks_left(pos) < 0)
      /\ target' = target /\ user' = user /\ command' = command /\ pos' = pos
      /\ bp_past' = bp_past /\ reasons' = reasons /\ changed' = changed
      /\ internal' = internal /\ pending' = pending /\ sigtrap_command' = sigtrap_command
      /\ result' = result
  BY DEF AdvanceDone, given, tracee
<1>2. /\ pos \in Points /\ target \in Targets /\ command \in Commands /\ pos <= target
      /\ bp_past = FALSE /\ changed = FALSE /\ pending = FALSE /\ result = "none"
  BY <1>1, AtAdvance
<1>3. asserted' = FALSE
  <2>1. target \in Points
    BY <1>2 DEF AsyncAssumption
  <2>2. Ticks(pos) \in Int /\ Ticks(target) \in Int /\ Ticks(pos) <= Ticks(target)
    BY <1>2, <2>1 DEF AsyncAssumption
  <2>3. ~(ticks_left(pos) < 0)
    BY <2>2 DEF ticks_left
  <2>4. (ticks_left(pos) < 0) = FALSE
    BY <2>3
  <2> QED BY <1>1, <2>4
<1>4. Unmissed
  BY <1>1, <1>2, StaysUnmissed
<1>5. TypeOK'
  BY <1>1, <1>2, <1>3 DEF IndInv, TypeOK
<1>6. NeverPastTarget' /\ CompleteAtTarget' /\ ResultAgrees' /\ IncompleteForDebugger' /\ AdvanceClean'
  BY <1>1, <1>2
  DEF NeverPastTarget, CompleteAtTarget, ResultAgrees, IncompleteForDebugger, AdvanceClean
<1>7. TrapAgrees' /\ ChangeAgrees' /\ CauseAgrees'
  BY <1>1, <1>2 DEF TrapAgrees, ChangeAgrees, CauseAgrees
<1> QED BY <1>3, <1>4, <1>5, <1>6, <1>7 DEF IndInv

(* Case 0 keeps the invariant: what it returns for, the debugger asked for. *)
LEMMA SeekDebuggerTrapSafe ==
  ASSUME AsyncAssumption, IndInv, SeekDebuggerTrap
  PROVE  IndInv' /\ Unmissed
<1>1. /\ pc = "seek" /\ pc' = "return" /\ result' = "INCOMPLETE" /\ pending /\ DebuggerTrap
      /\ target' = target /\ user' = user /\ command' = command /\ pos' = pos
      /\ bp_past' = bp_past /\ reasons' = reasons /\ changed' = changed
      /\ internal' = FALSE /\ pending' = pending /\ sigtrap_command' = sigtrap_command
      /\ asserted' = (is_singlestep(command) /\ "singlestep" \notin reasons)
  BY DEF SeekDebuggerTrap, given, tracee, Return
<1>2. pos \in Points /\ pos <= target
  BY <1>1, AtSeek
<1>3. TypeOK'
  <2>1. asserted' \in BOOLEAN
    BY <1>1
  <2> QED BY <1>1, <2>1 DEF IndInv, TypeOK
<1>4. IncompleteForDebugger'
  <2>1. "breakpoint" \in reasons => bp_past
    BY <1>1 DEF IndInv, TrapAgrees
  <2> QED BY <1>1, <2>1 DEF DebuggerTrap, IncompleteForDebugger
<1>5. NeverPastTarget' /\ CompleteAtTarget' /\ ResultAgrees' /\ AdvanceClean'
  BY <1>1, <1>2 DEF NeverPastTarget, CompleteAtTarget, ResultAgrees, AdvanceClean
<1>6. TrapAgrees' /\ ChangeAgrees' /\ CauseAgrees'
  BY <1>1 DEF TrapAgrees, ChangeAgrees, CauseAgrees
<1>7. Unmissed
  BY <1>1, <1>2, StaysUnmissed
<1> QED BY <1>3, <1>4, <1>5, <1>6, <1>7 DEF IndInv

(* Case 1 keeps the invariant: $ip is back on the internal breakpoint. *)
LEMMA SeekInternalTrapSafe ==
  ASSUME AsyncAssumption, IndInv, SeekInternalTrap
  PROVE  IndInv' /\ Unmissed
<1>1. /\ pc = "seek" /\ pc' = pc /\ result' = result /\ pending /\ ~DebuggerTrap
      /\ "breakpoint" \in reasons
      /\ target' = target /\ user' = user /\ command' = command /\ pos' = pos
      /\ bp_past' = FALSE /\ reasons' = reasons /\ changed' = changed
      /\ internal' = internal /\ pending' = FALSE /\ sigtrap_command' = sigtrap_command
  BY DEF SeekInternalTrap, given
<1>2. pos \in Points /\ pos <= target /\ result = "none" /\ changed \in BOOLEAN
  BY <1>1, AtSeek
<1>3. TypeOK'
  <2>1. asserted' \in BOOLEAN
    BY DEF SeekInternalTrap
  <2> QED BY <1>1, <2>1 DEF IndInv, TypeOK
<1>4. changed = FALSE
  BY <1>1, <1>2 DEF IndInv, ChangeAgrees, DebuggerTrap
<1>5. NeverPastTarget' /\ CompleteAtTarget' /\ ResultAgrees' /\ IncompleteForDebugger' /\ AdvanceClean'
  BY <1>1, <1>2
  DEF NeverPastTarget, CompleteAtTarget, ResultAgrees, IncompleteForDebugger, AdvanceClean
<1>6. TrapAgrees' /\ ChangeAgrees' /\ CauseAgrees'
  BY <1>1, <1>4 DEF TrapAgrees, ChangeAgrees, CauseAgrees
<1>7. Unmissed
  BY <1>1, <1>2, StaysUnmissed
<1> QED BY <1>3, <1>5, <1>6, <1>7 DEF IndInv

(* Case 2 keeps the invariant: equal ticks and registers are the target. *)
LEMMA SeekAtTargetSafe ==
  ASSUME AsyncAssumption, IndInv, SeekAtTarget
  PROVE  IndInv' /\ asserted' = FALSE /\ Unmissed
<1>1. /\ pc = "seek" /\ pc' = "return" /\ result' = "COMPLETE" /\ (~pending \/ OwnTrap)
      /\ is_same_execution_point(pos, bp_past) /\ asserted' = ~OwnTrapExplained
      /\ target' = target /\ user' = user /\ command' = command /\ pos' = pos
      /\ bp_past' = bp_past /\ reasons' = reasons /\ changed' = changed
      /\ internal' = FALSE /\ pending' = pending /\ sigtrap_command' = sigtrap_command
  BY DEF SeekAtTarget, given, tracee, Return
<1>2. pos \in Points /\ pos <= target /\ target \in Points
  BY <1>1, AtSeek
<1>3. bp_past = FALSE /\ changed = FALSE /\ OwnTrapExplained
  BY <1>1, QuietSeek
<1>4. pos = target
  <2>1. Ticks(pos) \in Int /\ Ticks(target) \in Int
    BY <1>2 DEF AsyncAssumption
  <2>2. Ticks(pos) = Ticks(target) /\ Regs(pos) = Regs(target)
    BY <1>1, <2>1 DEF is_same_execution_point, ticks_left
  <2> QED BY <1>2, <2>2 DEF AsyncAssumption
<1>5. asserted' = FALSE
  BY <1>1, <1>3
<1>6. TypeOK'
  BY <1>1, <1>5 DEF IndInv, TypeOK
<1>7. NeverPastTarget' /\ CompleteAtTarget' /\ ResultAgrees' /\ IncompleteForDebugger' /\ AdvanceClean'
  BY <1>1, <1>2, <1>3, <1>4
  DEF NeverPastTarget, CompleteAtTarget, ResultAgrees, IncompleteForDebugger, AdvanceClean
<1>8. TrapAgrees' /\ ChangeAgrees' /\ CauseAgrees'
  BY <1>1 DEF TrapAgrees, ChangeAgrees, CauseAgrees
<1>9. Unmissed
  BY <1>1, <1>2, StaysUnmissed
<1> QED BY <1>5, <1>6, <1>7, <1>8, <1>9 DEF IndInv

(* Each step of the function, and each that leaves everything as it is,      *)
(* keeps the invariant and misses nothing.                                   *)
LEMMA StepSafe ==
  ASSUME AsyncAssumption, IndInv, [Next]_vars
  PROVE  IndInv' /\ Unmissed
<1>1. CASE UNCHANGED vars
  <2>1. pos \in Points
    BY DEF IndInv, TypeOK
  <2>2. Unmissed
    BY <1>1, <2>1, StaysUnmissed DEF vars, tracee
  <2>3. IndInv'
    BY <1>1 DEF vars, given, tracee, IndInv, TypeOK, NeverPastTarget, AdvanceClean, TrapAgrees,
      ChangeAgrees, CauseAgrees, ResultAgrees, CompleteAtTarget, IncompleteForDebugger, Breakpoints
  <2> QED BY <2>2, <2>3
<1>2. CASE Advance
  BY <1>2, AdvanceSafe
<1>3. CASE AdvanceDone
  BY <1>3, AdvanceDoneSafe
<1>4. CASE SeekDebuggerTrap
  BY <1>4, SeekDebuggerTrapSafe
<1>5. CASE SeekInternalTrap
  BY <1>5, SeekInternalTrapSafe
<1>6. CASE SeekAtTarget
  BY <1>6, SeekAtTargetSafe
<1>7. CASE SeekToIp
  BY <1>7, SeekToIpSafe
<1>8. CASE SeekOverIp
  BY <1>8, SeekOverIpSafe
<1> QED BY <1>1, <1>2, <1>3, <1>4, <1>5, <1>6, <1>7, <1>8 DEF Next, emulate_async_signal, Seek, Done

(* A call starts in the invariant. *)
LEMMA StartSafe == AsyncAssumption /\ Init => IndInv
<1>1. SUFFICES ASSUME AsyncAssumption, Init PROVE IndInv
  OBVIOUS
<1>2. target \in Points /\ pos \in Points /\ pos <= target
  BY <1>1 DEF Init, AsyncAssumption, Points
<1> QED
  BY <1>1, <1>2 DEF Init, IndInv, TypeOK, NeverPastTarget, AdvanceClean, TrapAgrees,
    ChangeAgrees, CauseAgrees, ResultAgrees, CompleteAtTarget, IncompleteForDebugger

(* No step fails an ASSERT when no CPUID has the target's $ip. *)
LEMMA StepAsserts ==
  ASSUME AsyncAssumption, NoCpuidAtTarget, IndInv, [Next]_vars, ~asserted
  PROVE  ~asserted'
<1>1. CASE UNCHANGED vars
  BY <1>1 DEF vars
<1>2. CASE Advance
  BY <1>2, AdvanceSafe
<1>3. CASE AdvanceDone
  BY <1>3, AdvanceDoneSafe
<1>4. CASE SeekDebuggerTrap
  <2>1. pc = "seek" /\ pending /\ asserted' = (is_singlestep(command) /\ "singlestep" \notin reasons)
    BY <1>4 DEF SeekDebuggerTrap
  <2> QED BY <2>1 DEF IndInv, CauseAgrees
<1>5. CASE SeekInternalTrap
  <2>1. /\ pc = "seek" /\ pending /\ ~DebuggerTrap /\ "breakpoint" \in reasons
        /\ asserted' = ~(internal /\ bp_past /\ Ip(pos) = Ip(target)
                         /\ "singlestep" \notin reasons
                         /\ ~is_same_execution_point(pos, bp_past))
    BY <1>5 DEF SeekInternalTrap
  <2>2. bp_past /\ Ip(pos) \in Breakpoints(internal)
    BY <2>1 DEF IndInv, TrapAgrees
  <2>3. Ip(pos) \notin user /\ ~is_singlestep(command)
    BY <2>1 DEF DebuggerTrap
  <2>4. internal /\ Ip(pos) = Ip(target)
    BY <2>2, <2>3 DEF Breakpoints
  <2>5. "singlestep" \notin reasons
    BY <2>1, <2>3 DEF IndInv, CauseAgrees
  <2>6. ~is_same_execution_point(pos, bp_past)
    BY <2>2 DEF is_same_execution_point
  <2> QED BY <2>1, <2>2, <2>4, <2>5, <2>6
<1>6. CASE SeekAtTarget
  BY <1>6, SeekAtTargetSafe
<1>7. CASE SeekToIp
  <2>1. Ip(pos) # Ip(target)
    BY <1>7 DEF SeekToIp
  <2> QED BY <1>7, <2>1, SeekToIpSafe
<1>8. CASE SeekOverIp
  <2>1. target \in Targets
    BY DEF IndInv, TypeOK
  <2>2. ~(pos \in Cpuid /\ Ip(pos) = Ip(target))
    BY <2>1 DEF NoCpuidAtTarget
  <2> QED BY <1>8, <2>2, SeekOverIpSafe
<1> QED BY <1>1, <1>2, <1>3, <1>4, <1>5, <1>6, <1>7, <1>8 DEF Next, emulate_async_signal, Seek, Done

-----------------------------------------------------------------------------
(* The results. *)

(* emulate_async_signal keeps its inductive invariant. *)
THEOREM AsyncInvariance == AsyncAssumption => (Spec => []IndInv)
<1> SUFFICES ASSUME AsyncAssumption PROVE Spec => []IndInv
  OBVIOUS
<1>1. Init => IndInv
  BY StartSafe
<1>2. IndInv /\ [Next]_vars => IndInv'
  BY StepSafe
<1> QED BY <1>1, <1>2, PTL DEF Spec

(* emulate_async_signal returns COMPLETE only with the tracee at the         *)
(* recorded point, $ip undisturbed and no change left untold.                *)
THEOREM CompletesAtTarget == AsyncAssumption => (Spec => []CompleteAtTarget)
<1>1. IndInv => CompleteAtTarget
  BY DEF IndInv
<1> QED BY <1>1, AsyncInvariance, PTL

(* The tracee is never run past the recorded point, by no command and no     *)
(* lateness of an interrupt that the skid size allows for.                   *)
THEOREM NeverOvershoots == AsyncAssumption => (Spec => []NeverPastTarget)
<1>1. IndInv => NeverPastTarget
  BY DEF IndInv
<1> QED BY <1>1, AsyncInvariance, PTL

(* INCOMPLETE is returned only for a stop of the debugger's. *)
THEOREM InternalStopsUnseen == AsyncAssumption => (Spec => []IncompleteForDebugger)
<1>1. IndInv => IncompleteForDebugger
  BY DEF IndInv
<1> QED BY <1>1, AsyncInvariance, PTL

(* A write to a watched value is noticed in the step in which it happens. *)
THEOREM ChangesNoticed == AsyncAssumption => (Spec => NoChangeMissed)
<1> SUFFICES ASSUME AsyncAssumption PROVE Spec => NoChangeMissed
  OBVIOUS
<1>1. IndInv /\ [Next]_vars =>
        [(\E q \in pos .. pos' - 1 : q \in Watch) => changed']_vars
  BY StepSafe DEF Unmissed
<1> QED BY <1>1, AsyncInvariance, PTL DEF Spec, NoChangeMissed

(* No instruction the debugger has a breakpoint on is executed under it. *)
THEOREM BreakpointsHonoured == AsyncAssumption => (Spec => NoUserBreakpointMissed)
<1> SUFFICES ASSUME AsyncAssumption PROVE Spec => NoUserBreakpointMissed
  OBVIOUS
<1>1. IndInv /\ [Next]_vars =>
        [\A q \in pos .. pos' - 1 : Ip(q) \notin user]_vars
  BY StepSafe DEF Unmissed
<1> QED BY <1>1, AsyncInvariance, PTL DEF Spec, NoUserBreakpointMissed

(* None of the function's ASSERTs fails, guard_overshoot's included, unless  *)
(* an event was recorded at the $ip of an unrecorded CPUID.                  *)
THEOREM AsyncAssertsHold ==
  AsyncAssumption /\ NoCpuidAtTarget => (Spec => []NoAssertFails)
<1> SUFFICES ASSUME AsyncAssumption, NoCpuidAtTarget PROVE Spec => []NoAssertFails
  OBVIOUS
<1>1. Init => NoAssertFails
  BY DEF Init, NoAssertFails
<1>2. IndInv /\ NoAssertFails /\ [Next]_vars => NoAssertFails'
  BY StepAsserts DEF NoAssertFails
<1> QED BY <1>1, <1>2, AsyncInvariance, PTL DEF Spec
=============================================================================
