---------------------------- MODULE FastForward ----------------------------
(***************************************************************************)
(* fast_forward_through_instruction: a single step of a repeated string     *)
(* instruction that is extended to as many of its iterations as reach       *)
(* neither a register state the caller is looking for nor a watchpoint of   *)
(* the debugger, by running under a watchpoint of its own.                  *)
(***************************************************************************)
EXTENDS Watchpoints

CONSTANTS
  Strings,       \* the string instructions: [op, size, dir, cx, di, si]
  States,        \* register states a caller may look for: [at, cx]
  Coalesced      \* BYTES_COALESCED, which is also how late a trap may come

VARIABLE ff      \* the call, or Idle

Idle == [pc |-> "idle", ins |-> [op |-> "none", size |-> 1, dir |-> 1],
         r |-> [at |-> "none", cx |-> 0, di |-> 0, si |-> 0],
         start |-> [at |-> "none", cx |-> 0, di |-> 0, si |-> 0],
         states |-> {}, extra |-> {}, n |-> 0, status |-> {}, m0 |-> <<>>, read |-> {},
         passed |-> {}, assert |-> TRUE]

uses_si(ins) == ins.op \in {"movs", "cmps"}

modifies_flags(ins) == ins.op \in {"cmps", "scas"}

-----------------------------------------------------------------------------
(* The processor.                                                            *)

Span(a, n) == a .. a + n - 1

(* One iteration at registers r over memory m: the registers and the memory
   after it, and what it reads and writes.  The value stored or looked for is
   1; a comparison goes on while the bytes are equal, a search while they are
   not what is looked for. *)
Iteration(ins, r, m) ==
  LET z   == ins.size
      src == Span(r.si, z)
      dst == Span(r.di, z)
      m2  == CASE ins.op = "stos" -> [a \in DOMAIN m |-> IF a \in dst THEN 1 ELSE m[a]]
               [] ins.op = "movs" -> [a \in DOMAIN m |-> IF a \in dst THEN m[r.si + a - r.di] ELSE m[a]]
               [] OTHER -> m
      ends == CASE ins.op = "cmps" -> \E i \in 0 .. z - 1 : m[r.si + i] # m[r.di + i]
                [] ins.op = "scas" -> \A a \in dst : m[a] = 1
                [] OTHER -> FALSE
      over == r.cx = 1 \/ ends
  IN [m |-> m2,
      r |-> [at |-> IF over THEN "limit" ELSE "ip", cx |-> r.cx - 1,
             di |-> IF ins.op = "lods" THEN r.di ELSE r.di + ins.dir * z,
             si |-> IF ins.op \in {"movs", "cmps", "lods"} THEN r.si + ins.dir * z ELSE r.si],
      reads |-> IF ins.op \in {"movs", "lods"} THEN src
                ELSE IF ins.op = "cmps" THEN src \cup dst ELSE IF ins.op = "scas" THEN dst ELSE {},
      writes |-> IF ins.op \in {"movs", "stos"} THEN dst ELSE {}]

(* The data registers of cfgs that an iteration meets. *)
Meets(cfgs, it) ==
  {i \in DOMAIN cfgs :
     \/ cfgs[i].type = "READWRITE" /\ RegBytes(cfgs[i]) \cap (it.reads \cup it.writes) # {}
     \/ cfgs[i].type = "WRITE" /\ RegBytes(cfgs[i]) \cap it.writes # {}}

(* The ends of a run from x: the loop is over, or a register is met, and up to
   Coalesced bytes more are stored. *)
RECURSIVE Run(_, _, _)
Run(cfgs, ins, x) ==
  IF x.r.at = "limit" THEN {x}
  ELSE LET it == Iteration(ins, x.r, x.m)
           hit == x.trapped \/ Meets(cfgs, it) # {}
           y == [r |-> it.r, m |-> it.m, read |-> x.read \cup it.reads \cup it.writes,
                 seen |-> x.seen \cup {[at |-> it.r.at, cx |-> it.r.cx]}, trapped |-> hit,
                 late |-> IF x.trapped THEN x.late + ins.size ELSE 0]
       IN IF ~hit THEN Run(cfgs, ins, y)
          ELSE {y} \cup (IF ins.op \in {"stos", "movs"} /\ y.late + ins.size <= Coalesced
                         THEN Run(cfgs, ins, y) ELSE {})

-----------------------------------------------------------------------------
(* How many iterations can be done before the watch is met through reg. *)
bound_iterations_for_watchpoint(ins, reg, watch) ==
  LET lo == watch[1] hi == watch[1] + watch[2] IN
  CASE watch[2] = 0 -> Top
    [] watch[2] > 0 /\ Span(reg, ins.size) \cap Bytes(watch) # {} -> 0
    [] watch[2] > 0 /\ Span(reg, ins.size) \cap Bytes(watch) = {} /\ ins.dir > 0 ->
         IF lo < reg THEN Top ELSE (lo - reg) \div ins.size
    [] OTHER -> IF lo > reg THEN Top ELSE (reg - hi) \div ins.size + 1

(* (The iteration that reaches a state is done as well.) *)
BoundInclusive(ins, r, states, wps) ==
  Min({r.cx - 1}
      \cup {IF s.cx < r.cx /\ ~(s.at = "ip" /\ s.cx = 0) THEN r.cx - s.cx ELSE Top : s \in states}
      \cup {bound_iterations_for_watchpoint(ins, r.di, w) : w \in DOMAIN wps}
      \cup {bound_iterations_for_watchpoint(ins, r.si, w) : w \in IF uses_si(ins) THEN DOMAIN wps ELSE {}})

(* The last iteration is never done, and none that reaches a state. *)
BoundIterations(ins, r, states, wps) ==
  Min({r.cx - 1}
      \cup {IF s.cx < r.cx /\ ~(s.at = "ip" /\ s.cx = 0) THEN r.cx - s.cx - 1 ELSE Top : s \in states}
      \cup {bound_iterations_for_watchpoint(ins, r.di, w) : w \in DOMAIN wps}
      \cup {bound_iterations_for_watchpoint(ins, r.si, w) : w \in IF uses_si(ins) THEN DOMAIN wps ELSE {}})

(* (Nothing is allowed for iterations that are coalesced.) *)
WatchLast(ins, di, n) == di + ins.dir * ins.size * (n - 1)

(* Where the own watchpoint is set, to stop at or before iteration n. *)
watch_di(ins, di, n) == di + ins.dir * (ins.size * (n - 1) - Coalesced)

remove_all_watchpoints(a, d) ==
  allocate_watchpoints([a EXCEPT !.wps = [r \in {} |-> NewWatchpoint(0)]], d, alive)

save_watchpoints(a) == [a EXCEPT !.saved = Append(@, a.wps)]

restore_watchpoints(a, d) ==
  allocate_watchpoints([a EXCEPT !.wps = a.saved[Len(a.saved)], !.saved = Front(@)], d, alive)

-----------------------------------------------------------------------------
Others == <<alive, wanted, refused, watches>>

(* What SI runs over is also reached through DI. *)
Overlapping(ins) == ins.si # ins.di /\ ins.dir * (ins.si - ins.di) \in 0 .. ins.size * ins.cx

(* A task is stepped at a string instruction, by a caller that looks for
   states.  ("lods": an instruction that reads through SI, for which the
   decoder does not say so.  "overlap": a comparison that meets, through SI,
   the watchpoint meant for DI, perhaps as it ends.) *)
Begin(ins, states) ==
  /\ ff.pc = "idle"
  /\ Step
  /\ ins.op = "lods" => "lods" \in Odd
  /\ ins.op = "cmps" /\ Overlapping(ins) => "overlap" \in Odd
  /\ \A a \in DOMAIN mem : mem[a] # Unmapped
  /\ ff' = [Idle EXCEPT !.pc = "step", !.ins = [op |-> ins.op, size |-> ins.size, dir |-> ins.dir],
              !.r = [at |-> "ip", cx |-> ins.cx, di |-> ins.di, si |-> ins.si],
              !.states = states, !.m0 = mem]
  /\ UNCHANGED <<mem, as, dr, late, stop, Others>>

(* The caller's step itself: one iteration. *)
FirstStep ==
  /\ ff.pc = "step"
  /\ \E it \in {Iteration(ff.ins, ff.r, mem)} :
     LET status == Meets(dr[First], it)
         fired  == \E w \in DOMAIN as.wps : Fired(w, as.wps[w], it.m, status, 0)
         here   == [at |-> it.r.at, cx |-> it.r.cx]
     IN /\ mem' = it.m
        /\ as' = IF it.r.at = "limit" THEN as ELSE notify_watchpoint_fired(as, it.m, status, 0)
        /\ ff' = [ff EXCEPT !.r = it.r, !.read = it.reads \cup it.writes, !.status = status,
                    !.pc = IF it.r.at = "limit" \/ fired \/ here \in ff.states THEN "done" ELSE "loop"]
  /\ UNCHANGED <<dr, late, stop, steps, Others>>

(* The bound is computed, and a watchpoint set at or before the last of the
   iterations when there are enough of them. *)
WatchAt(q, a) == add_watchpoint(a.as, a.dr, alive, mem, q)

Loop ==
  /\ ff.pc = "loop"
  /\ \E n \in {BoundIterations(ff.ins, ff.r, ff.states \cup ff.extra, as.wps)} :
     IF n = 0
     THEN ff' = [ff EXCEPT !.pc = "done", !.status = {}] /\ UNCHANGED <<as, dr>>
     ELSE IF ff.ins.size * (n - 1) > Coalesced
     THEN /\ ff' = [ff EXCEPT !.pc = "run", !.n = n, !.start = ff.r]
          /\ \E a \in {WatchAt([addr |-> watch_di(ff.ins, ff.r.di, n), n |-> 1,
                                 type |-> "READWRITE"],
                                remove_all_watchpoints(save_watchpoints(as), dr))} :
                as' = a.as /\ dr' = a.dr
     ELSE ff' = [ff EXCEPT !.pc = "rest", !.n = n, !.start = ff.r] /\ UNCHANGED <<as, dr>>
  /\ UNCHANGED <<mem, late, stop, steps, Others>>

(* The task is continued to that watchpoint, or to the breakpoint behind the
   instruction; then the watchpoints of the debugger are back.  When the
   watchpoint is met early (through SI) the call ends; the offset that is
   compared wraps around when nothing is left. *)
RunAhead ==
  /\ ff.pc = "run"
  /\ \E x \in Run(dr[First], ff.ins, [r |-> ff.r, m |-> mem, read |-> ff.read, seen |-> {},
                                      trapped |-> FALSE, late |-> 0]) :
     LET status == IF x.trapped THEN DOMAIN dr[First] ELSE {}
         fired  == \E w \in DOMAIN as.wps : Fired(w, as.wps[w], x.m, status, 0)
         did    == ff.r.cx - x.r.cx
         left   == ff.n - did
         ok     == /\ ff.n >= did
                   /\ modifies_flags(ff.ins) \/ left <= Coalesced \/ fired
                   /\ fired \/ (x.r.at = "limit" /\ ~x.trapped /\ modifies_flags(ff.ins))
     IN /\ mem' = x.m
        /\ \E back \in {restore_watchpoints(as, dr)} : as' = back.as /\ dr' = back.dr
        /\ ff' = [ff EXCEPT !.r = x.r, !.read = x.read, !.passed = @ \cup x.seen, !.n = left,
                    !.assert = @ /\ ok, !.status = {},
                    !.pc = IF ~ok \/ (fired /\ (left = 0 \/ ff.ins.size * (left - 1) > Coalesced))
                            THEN "done" ELSE "rest"]
  /\ UNCHANGED <<late, stop, steps, Others>>

(* The rest is stepped.  When the flags have ended the loop the registers are
   put back, and it is run again to just before that. *)
StepRest ==
  /\ ff.pc = "rest"
  /\ IF ff.n > 0 /\ ff.r.at = "ip"
     THEN \E it \in {Iteration(ff.ins, ff.r, mem)} :
            /\ mem' = it.m
            /\ ff' = [ff EXCEPT !.r = it.r, !.n = @ - 1, !.read = @ \cup it.reads \cup it.writes,
                        !.passed = @ \cup {[at |-> it.r.at, cx |-> it.r.cx]}]
     ELSE /\ ff' = IF ff.r.at # "ip"
                   THEN [ff EXCEPT !.assert = @ /\ modifies_flags(ff.ins) /\ ff.extra = {},
                           !.extra = {[at |-> "limit", cx |-> ff.r.cx]}, !.r = ff.start, !.passed = {},
                           !.pc = IF modifies_flags(ff.ins) /\ ff.extra = {} THEN "loop" ELSE "done"]
                   ELSE [ff EXCEPT !.pc = "done", !.status = {}]
          /\ UNCHANGED mem
  /\ UNCHANGED <<as, dr, late, stop, steps, Others>>

(* The caller diagnoses the trap of a single step. *)
Return ==
  /\ ff.pc = "done"
  /\ LET must == {r \in DOMAIN as.wps :
                    \/ "w" \in watched_bits(as.wps[r]) /\ \E a \in Bytes(r) : mem[a] # ff.m0[a]
                    \/ "r" \in watched_bits(as.wps[r]) /\ Bytes(r) \cap ff.read # {}}
     IN Diagnosed(mem, [status |-> ff.status, single |-> TRUE, how |-> "step", trap |-> FALSE,
                        ip |-> 0], 0, must, must \cup late)
  /\ ff' = [Idle EXCEPT !.assert = ff.assert]
  /\ UNCHANGED <<mem, dr, steps, Others>>

-----------------------------------------------------------------------------
FFVars == <<vars, ff>>

FFInit == Init /\ ff = Idle

FFNext ==
  \/ ff.pc = "idle" /\ Next /\ UNCHANGED ff
  \/ \E ins \in Strings, s \in {{}} \cup {{x} : x \in States} : Begin(ins, s)
  \/ FirstStep \/ Loop \/ RunAhead \/ StepRest \/ Return

FFSpec == FFInit /\ [][FFNext]_FFVars

(* Running ahead never passes, nor reaches, a state the caller is looking for,
   and it ends before the instruction is left: only a step of the caller may
   do either. *)
StopsBeforeStates ==
  /\ ff.passed \cap ff.states = {}
  /\ ff.pc = "done" /\ ff.passed # {} => ff.r.at = "ip"

(* The assertions of fast_forward_through_instruction: no more iterations are
   executed than were asked for, and the loop ends early only where the flags
   can end it. *)
FFNoAssertFails == ff.assert
=============================================================================
