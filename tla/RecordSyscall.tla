---------------------------- MODULE RecordSyscall ----------------------------
(***************************************************************************)
(* The recording of system calls that are not buffered (record_syscall.cc: *)
(* TaskSyscallState, rec_prepare_syscall, rec_process_syscall,             *)
(* rec_prepare_restart_syscall and rec_abort_prepared_syscall).            *)
(*                                                                         *)
(* Tasks share memory.  While a call that may block is in the kernel other *)
(* tasks run, so rr moves its parameters to the task's scratch memory and  *)
(* copies the results back at the exit; a call during which no other task  *)
(* may run writes to its destinations.  Everything the exit changes in the *)
(* tracee's memory has to be in the trace.                                 *)
(*                                                                         *)
(* mem is the memory of the recorded process, scratch included.  Two more  *)
(* copies of the user part are kept: rep, what the replay has (it runs the *)
(* tasks' own stores and applies the recorded data at each event), and     *)
(* nat, what the memory would be without rr.                               *)
(***************************************************************************)
EXTENDS SyscallParams, Integers, SequencesExt

CONSTANTS Tasks,          \* the tasks, numbered from 1
          CallsOf,        \* CallsOf[t]: the calls task t may make
          HandlerCalls,   \* the calls a signal handler may make
          ScratchSizes,   \* values of usable_scratch_size, in cells
          Writable,       \* user cells a task's own code may store to
          Results,        \* results of calls; -1 is a failure
          RrMasks,        \* mutators whose signal set contains rr's signals
          MaxInterrupts,  \* interruptions of calls
          MaxWrites       \* stores by the tasks' own code

VARIABLES mem, rep, nat, task, scratchSize, interrupts, writes, fault

vars == <<mem, rep, nat, task, scratchSize, interrupts, writes, fault>>

Bad == -1            \* an argument the kernel refuses
Junk == -9           \* what unused scratch holds
Data == 2            \* what user memory holds at first
RrMask == 7          \* a signal set with rr's signals
PlainMask == 5       \* the set without them
Width == 12          \* cells of a bank

\* User memory: a bank the tasks share and, for each task and each depth of
\* calls (the program's and a handler's), a bank of its own.
Bank(t, d) == 100 * t + 50 * d
ScratchPtr(t) == 1000 * t
User == (1..Width) \cup {Bank(t, d) + i : t \in Tasks, d \in {0, 1}, i \in 1..Width}
Cells == User \cup {ScratchPtr(t) + i : t \in Tasks, i \in 1..Width}

Min2(a, b) == IF a <= b THEN a ELSE b
SumTo(s, n) == FoldLeft(LAMBDA acc, x : acc + x, 0, SubSeq(s, 1, n))
Overlay(m, f) == [a \in DOMAIN m |-> IF a \in DOMAIN f THEN f[a] ELSE m[a]]

-----------------------------------------------------------------------------
(* The program's side of a call: arguments in registers and memory.        *)

Listed(p) == p.mode \notin {"AFTER", "RANGE"}
IsInput(p) == p.mode \in {"IN", "IN_OUT"}
IsOutput(p) == p.mode \in {"OUT", "IN_OUT"}

\* Parameter i holds an address or a length of another one.
Holds(ps, i) == \E j \in DOMAIN ps : i \in {ps[j].ptr[1], ps[j].from[1]}

\* Outputs are in the shared bank, so that calls of different tasks may have
\* the same buffer; structures and inputs are the task's own.
Home(ps, i, t, d) ==
  (IF ps[i].mode \in {"IN", "AFTER"} \/ Holds(ps, i) THEN Bank(t, d) ELSE 0)
  + 1 + SumTo([j \in DOMAIN ps |-> ps[j].w], i - 1)

\* The arguments of the call: addresses, and other values.
Arguments(ps, t, d) ==
  [a \in 1..6 |-> IF \E i \in DOMAIN ps : ps[i].ptr = <<0, a>>
                  THEN Home(ps, CHOOSE i \in DOMAIN ps : ps[i].ptr = <<0, a>>, t, d)
                  ELSE -10 - a]

\* What the program stores before it makes the call.
Stored(ps, t, d) ==
  LET cells == {<<i, c>> \in (DOMAIN ps) \X (0..Width) :
                  c < ps[i].w /\ (ps[i].mode = "IN" \/ Holds(ps, i))}
      value(i, c) ==
        IF \E j \in DOMAIN ps : ps[j].ptr = <<i, c>>
        THEN Home(ps, CHOOSE j \in DOMAIN ps : ps[j].ptr = <<i, c>>, t, d)
        ELSE IF \E j \in DOMAIN ps : ps[j].from = <<i, c>>
        THEN ps[CHOOSE j \in DOMAIN ps : ps[j].from = <<i, c>>].w
        ELSE IF ps[i].mut \in RrMasks THEN RrMask ELSE PlainMask
  IN [a \in {Home(ps, x[1], t, d) + x[2] : x \in cells} |->
        LET x == CHOOSE y \in cells : Home(ps, y[1], t, d) + y[2] = a IN value(x[1], x[2])]

\* The parameters' addresses, as the registers r and the memory m give them.
Follow(ps, r, m, t, d) ==
  LET A[i \in DOMAIN ps] == CASE ps[i].ptr[1] = 0 -> r[ps[i].ptr[2]]
                              [] ps[i].ptr[1] = 9 -> Home(ps, i, t, d)
                              [] OTHER -> m[A[ps[i].ptr[1]] + ps[i].ptr[2]]
  IN A

-----------------------------------------------------------------------------
(* rec_prepare_syscall.                                                    *)

NoState == [dest |-> <<>>, size |-> <<>>, enabled |-> FALSE, sw |-> "ALLOW",
            saved |-> <<>>, mut |-> {}, input |-> <<>>]

\* Where parameter i has its copy in the scratch memory.
scratch(ps, st, i, t) ==
  ScratchPtr(t) + 1 + SumTo([j \in DOMAIN ps |-> IF Listed(ps[j]) THEN st.size[j] ELSE 0], i - 1)

\* Mutant: the address after the end of a parameter is taken to be in it.
ContainingEnd(ps, st, p) ==
  {i \in DOMAIN ps : Listed(ps[i]) /\ st.dest[i] <= p /\ p <= st.dest[i] + st.size[i]}

\* The parameters with the address p in them.
Containing(ps, st, p) ==
  {i \in DOMAIN ps : Listed(ps[i]) /\ st.dest[i] <= p /\ p < st.dest[i] + st.size[i]}

relocate_pointer_to_scratch(ps, st, p, t) ==
  LET i == CHOOSE j \in Containing(ps, st, p) : TRUE
  IN scratch(ps, st, i, t) + (p - st.dest[i])

\* ptr_in_memory and num_bytes.mem_ptr: the user cells named by <<k, o>>.
CellOf(st, x) == st.dest[x[1]] + x[2]
InMemory(x) == x[1] \in 1..8

\* reg_parameter and mem_ptr_parameter for the whole list.
RegisterParams(ps, r, m, t, d) ==
  LET dest == Follow(ps, r, m, t, d)
  IN [NoState EXCEPT
        !.dest = dest,
        !.size = [i \in DOMAIN ps |-> IF InMemory(ps[i].from)
                                      THEN m[dest[ps[i].from[1]] + ps[i].from[2]] ELSE ps[i].w]]

ListedOf(ps) == {i \in DOMAIN ps : Listed(ps[i])}

done_preparing_internal(ps, st, sw, t) ==
  LET need == SumTo([j \in DOMAIN ps |-> IF Listed(ps[j]) THEN st.size[j] ELSE 0], Len(ps))
      switchable == IF sw = "ALLOW" /\ need > scratchSize THEN "PREVENT" ELSE sw
  IN [st EXCEPT !.sw = switchable,
                !.enabled = switchable = "ALLOW" /\ ListedOf(ps) # {}]

\* Steps 1 and 2 on memory: inputs are copied to the scratch memory, and the
\* pointers there are made to point into it.
ToScratch(ps, st, m, t) ==
  LET copied == {i \in ListedOf(ps) : IsInput(ps[i])}
      moved == {i \in ListedOf(ps) : InMemory(ps[i].ptr)}
      inputs == [a \in UNION {{scratch(ps, st, i, t) + c : c \in 0..(st.size[i] - 1)} : i \in copied} |->
                   LET i == CHOOSE j \in copied : a - scratch(ps, st, j, t) \in 0..(st.size[j] - 1)
                   IN m[st.dest[i] + (a - scratch(ps, st, i, t))]]
      place(i) == relocate_pointer_to_scratch(ps, st, CellOf(st, ps[i].ptr), t)
      pointers == [a \in {place(i) : i \in moved} |->
                     LET i == CHOOSE j \in moved : place(j) = a IN scratch(ps, st, i, t)]
  IN Overlay(Overlay(m, inputs), pointers)

\* protect_rr_sigs and protect_rr_sigs_sa_mask on a signal set.
Strip(v) == IF v = RrMask THEN PlainMask ELSE v

\* Mutant: the set is saved after it was changed.
SavedChanged(v) == Strip(v)

\* What each mutator puts in saved_data: the set as it was, and the structure
\* as the mutator has changed it.
protect_rr_sigs(v) == v
protect_rr_sigs_sa_mask(v) == Strip(v)

Saved(p, v) == IF p.mut = "protect_rr_sigs" THEN protect_rr_sigs(v) ELSE protect_rr_sigs_sa_mask(v)

\* Step 3: the mutators.
Mutate(ps, st, m, t) ==
  LET at(i) == IF st.enabled THEN scratch(ps, st, i, t) ELSE st.dest[i]
      mut == {i \in ListedOf(ps) : ps[i].mut # "none" /\ m[at(i)] = RrMask}
  IN [st |-> [st EXCEPT !.mut = mut,
                        !.saved = IF st.enabled THEN <<>>
                                  ELSE [k \in 1..Cardinality(mut) |->
                                          LET i == CHOOSE j \in mut :
                                                     Cardinality({x \in mut : x < j}) = k - 1
                                          IN Saved(ps[i], m[at(i)])]],
      mem |-> [a \in DOMAIN m |-> IF \E i \in mut : at(i) = a THEN Strip(m[a]) ELSE m[a]]]

done_preparing(ps, st, sw, m, t) ==
  LET st1 == done_preparing_internal(ps, st, sw, t)
  IN Mutate(ps, st1, IF st1.enabled THEN ToScratch(ps, st1, m, t) ELSE m, t)

\* The argument registers once the call is prepared.
PreparedRegs(plan, st, r, t) ==
  [a \in 1..6 |->
     IF st.enabled /\ \E i \in ListedOf(plan.params) : plan.params[i].ptr = <<0, a>>
                                                  /\ plan.params[i].mode # "IN_OUT_NO_SCRATCH"
     THEN scratch(plan.params, st, CHOOSE i \in ListedOf(plan.params) : plan.params[i].ptr = <<0, a>>, t)
     ELSE IF a \in plan.set THEN Bad ELSE r[a]]

-----------------------------------------------------------------------------
(* The kernel.                                                             *)

\* The call does not do what the program asked for: rr has changed it, or it
\* is known to fail.
Refused(plan) == plan.set # {} \/ plan.no \/ plan.errno

\* The cells of parameter i that a call with the result n (-1: failed) fills.
Filled(plan, size, n) ==
  LET ps == plan.params
      F[i \in DOMAIN ps] ==
        LET consumed == SumTo([j \in DOMAIN ps |->
                                 IF j < i /\ ps[j].from = ps[i].from THEN F[j] ELSE 0], i - 1)
        IN IF Holds(ps, i) \/ ps[i].mode \in {"IN", "RANGE"} \/ (n = -1) # plan.onFailure THEN 0
           ELSE IF n = -1 THEN size[i]
           ELSE IF ps[i].from = Fixed THEN (IF ps[i].w = 1 THEN 1 ELSE Min2(n, size[i]))
           ELSE Min2(n - consumed, size[i])
  IN F

\* The stores of the call with the result n, its parameters being at A: data,
\* marked with the task that gets it, and the lengths.
KernelStores(plan, A, size, n, t) ==
  LET ps == plan.params
      F == Filled(plan, size, n)
      data == UNION {{A[i] + c : c \in 0..(F[i] - 1)} : i \in DOMAIN ps}
      lengths == {A[ps[i].from[1]] + ps[i].from[2] : i \in {j \in DOMAIN ps : InMemory(ps[j].from)}}
  IN [a \in data \cup (IF n = -1 THEN {} ELSE lengths) |-> IF a \in data THEN -t ELSE n]

-----------------------------------------------------------------------------
(* rec_process_syscall.                                                    *)

\* ParamSize::eval for every parameter: what the exit copies and records.
eval_param_size(ps, st, m, result, t) ==
  LET from(i) == LET p == CellOf(st, ps[i].from)
                 IN m[IF st.enabled THEN relocate_pointer_to_scratch(ps, st, p, t) ELSE p]
      S[i \in DOMAIN ps] ==
        LET already_consumed ==
              SumTo([j \in DOMAIN ps |-> IF j < i /\ ps[j].from = ps[i].from THEN S[j] ELSE 0], i - 1)
        IN CASE ~Listed(ps[i]) -> 0
             [] ps[i].from = Fixed -> st.size[i]
             [] ps[i].from = Result ->
                  Min2(st.size[i], (IF result < 0 THEN 0 ELSE result) - already_consumed)
             [] OTHER -> Min2(st.size[i], from(i) - already_consumed)
  IN S

\* The cells of the parameters in I, the first sizes[i] of each.
Spans(st, sizes, I) == UNION {{st.dest[i] + c : c \in 0..(sizes[i] - 1)} : i \in I}

\* Mutant: the scratch copy is recorded with its pointers.
RecordedLocal(moved, results, m) == results

\* Step 3: what is recorded of the results; from the tracee's memory when
\* pointers in it were restored.
Recorded(moved, results, m) == IF moved # {} THEN [a \in DOMAIN results |-> m[a]] ELSE results

\* The results of a call whose parameters are in the scratch memory: the new
\* memory and the recorded cells.
FromScratch(ps, st, m, result, write_back, t) ==
  LET sizes == eval_param_size(ps, st, m, result, t)
      out == {i \in ListedOf(ps) : IsOutput(ps[i])}
      source(a) == CHOOSE i \in out : /\ a - st.dest[i] \in 0..(sizes[i] - 1)
                                      /\ \A j \in out : a - st.dest[j] \in 0..(sizes[j] - 1) => j <= i
      results == [a \in Spans(st, sizes, out) |->
                    m[scratch(ps, st, source(a), t) + (a - st.dest[source(a)])]]
      moved == {i \in ListedOf(ps) : InMemory(ps[i].ptr)}
      pointers == [a \in {CellOf(st, ps[i].ptr) : i \in moved} |->
                     st.dest[CHOOSE i \in moved : CellOf(st, ps[i].ptr) = a]]
      m1 == IF write_back THEN Overlay(m, results) ELSE m
      m2 == Overlay(m1, pointers)
  IN [mem |-> m2,
      record |-> IF write_back THEN Recorded(moved, results, m2) ELSE <<>>]

\* The mutated parameters are restored from saved_data.
Restore(st, m) ==
  Overlay(m, [a \in {st.dest[i] : i \in st.mut} |->
                LET i == CHOOSE j \in st.mut : st.dest[j] = a
                IN st.saved[Cardinality({x \in st.mut : x <= i})]])

process_syscall_results(ps, st, m, result, write_back, t) ==
  IF st.enabled THEN FromScratch(ps, st, m, result, write_back, t)
  ELSE LET m1 == Restore(st, m)
       IN [mem |-> m1,
           record |-> [a \in Spans(st, eval_param_size(ps, st, m1, result, t), ListedOf(ps)) |-> m1[a]]]

\* The registers with the parameters' addresses are restored.
ResultRegs(ps, st, r) ==
  [a \in 1..6 |-> IF st.enabled /\ \E i \in ListedOf(ps) : ps[i].ptr = <<0, a>>
                  THEN st.dest[CHOOSE i \in ListedOf(ps) : ps[i].ptr = <<0, a>>] ELSE r[a]]

abort_syscall_results(ps, st, m, t) ==
  IF st.enabled THEN FromScratch(ps, st, m, -1, FALSE, t).mem ELSE Restore(st, m)

\* rec_process_syscall_arch: the arguments and the number it puts back.
RestoredRegs(call, r, entry) ==
  [a \in 1..6 |-> IF ~call.plan.errno /\ a \in rec_process_syscall_arch[call.back] THEN entry[a] ELSE r[a]]

\* Mutant: the number of a replaced call is left.
NumberLeft(call, no) == no

\* Whether the call's number is still another one.
RestoredNo(call, no) == no /\ (call.plan.errno \/ 0 \notin rec_process_syscall_arch[call.back])

-----------------------------------------------------------------------------
(* The assertions.                                                         *)

PrepareAsserts(ps, st) ==
  st.enabled =>
    \A i \in ListedOf(ps) :
      /\ ps[i].ptr # Fixed
      /\ InMemory(ps[i].ptr) => Cardinality(Containing(ps, st, CellOf(st, ps[i].ptr))) = 1
      /\ InMemory(ps[i].from) => Cardinality(Containing(ps, st, CellOf(st, ps[i].from))) = 1

ExitAsserts(ps, st, m, result, t) ==
  /\ \A i \in ListedOf(ps) : eval_param_size(ps, st, m, result, t)[i] >= 0
  /\ Len(st.saved) = IF st.enabled THEN 0 ELSE Cardinality(st.mut)

\* The kernel finds the program's input where the registers say it is.
InputSeen(plan, st, r, before, after, t, d) ==
  LET ps == plan.params
      A == Follow(ps, r, after, t, d)
  IN Refused(plan) \/
     \A i \in ListedOf(ps) : IsInput(ps[i]) =>
       \A c \in 0..(st.size[i] - 1) :
         \/ \E j \in DOMAIN ps : ps[j].ptr = <<i, c>>
         \/ after[A[i] + c] = IF ps[i].mut = "none" THEN before[st.dest[i] + c]
                              ELSE Strip(before[st.dest[i] + c])

-----------------------------------------------------------------------------
(* The recorded process.                                                   *)

NoCall == [plan |-> Prevent(<<>>), back |-> "none"]
NoRegs == [a \in 1..6 |-> 0]

Idle == [pc |-> "user", d |-> 0, call |-> NoCall, entry |-> NoRegs, regs |-> NoRegs, no |-> FALSE,
         st |-> NoState, result |-> 0, wrote |-> <<>>, made |-> {}, again |-> FALSE,
         outer |-> NoCall, changed |-> {}]

Init == /\ mem = [a \in Cells |-> IF a \in User THEN Data ELSE Junk]
        /\ rep = [a \in User |-> Data]
        /\ nat = [a \in User |-> Data]
        /\ task = [t \in Tasks |-> Idle]
        /\ scratchSize \in ScratchSizes
        /\ interrupts = 0
        /\ writes = 0
        /\ fault = FALSE

\* The task goes on in its own code with the registers r and, if no, another
\* call number than its own; changed is what is not as it was at the entry.
Returned(x, r, no) ==
  [x EXCEPT !.pc = "user", !.call = NoCall, !.entry = NoRegs, !.regs = NoRegs, !.no = FALSE,
            !.st = NoState, !.result = 0, !.wrote = <<>>, !.again = FALSE,
            !.changed = {a \in 1..6 : r[a] # x.entry[a]} \cup (IF no THEN {0} ELSE {})]

InCall(x) == x.pc \in {"kernel", "done", "interrupted"}

\* Scheduler: while a call that prevents switching is made, nothing else runs.
MayRun(t) == \A u \in Tasks \ {t} : ~(InCall(task[u]) /\ task[u].st.sw = "PREVENT")

\* rec_prepare_syscall for the call c with the arguments r, the memory being m.
Prepare(t, x, c, r, m, userRep, userNat) ==
  LET ps == c.plan.params
      st == RegisterParams(ps, r, m, t, x.d)
      written == [a \in UNION {{st.dest[i] + k : k \in 0..(ps[i].w - 1)} : i \in c.plan.pre} |-> -20 - t]
      ranges == [a \in UNION {{st.dest[i] + k : k \in 0..(ps[i].w - 1)} :
                              i \in {j \in c.plan.pre : ps[j].mode = "RANGE"}} |-> -20 - t]
      input == [a \in Spans(st, st.size, {i \in ListedOf(ps) : ps[i].mode = "IN_OUT"}) |-> m[a]]
      p == done_preparing(ps, [st EXCEPT !.input = input], c.plan.sw, Overlay(m, written), t)
      regs == PreparedRegs(c.plan, p.st, r, t)
  IN /\ mem' = p.mem
     /\ rep' = Overlay(userRep, ranges)
     /\ nat' = Overlay(userNat, written)
     /\ task' = [task EXCEPT ![t] = [x EXCEPT !.pc = "kernel", !.call = c, !.entry = r, !.regs = regs,
                                              !.no = c.plan.no, !.st = p.st, !.wrote = <<>>]]
     /\ fault' = (fault \/ ~PrepareAsserts(ps, p.st) \/ ~InputSeen(c.plan, p.st, regs, m, p.mem, t, x.d))

\* What may be called where the task is.
CallsFrom(t) ==
  IF task[t].pc # "user" THEN {} ELSE IF task[t].d = 0 THEN CallsOf[t] ELSE HandlerCalls

\* The program, or a signal handler, fills its structures and makes a call.
Enter(t, c) ==
  LET x == task[t]
      stores == Stored(c.plan.params, t, x.d)
  IN /\ x.pc = "user" /\ x.d \notin x.made
     /\ MayRun(t)
     /\ Prepare(t, [x EXCEPT !.made = @ \cup {x.d}, !.again = FALSE], c,
                Arguments(c.plan.params, t, x.d), Overlay(mem, stores), Overlay(rep, stores),
                Overlay(nat, stores))
     /\ UNCHANGED <<scratchSize, interrupts, writes>>

\* The call returns n, or fails (-1).
KernelDone(t, n) ==
  LET x == task[t]
      plan == x.call.plan
      A == Follow(plan.params, x.regs, mem, t, x.d)
  IN /\ x.pc = "kernel"
     /\ ~(plan.no /\ plan.sw = "ALLOW")           \* a pause only ends with a signal
     /\ Refused(plan) => n = -1
     /\ plan.onFailure => n \in {-1, 0}
     /\ mem' = IF Refused(plan) THEN mem ELSE Overlay(mem, KernelStores(plan, A, x.st.size, n, t))
     /\ task' = [task EXCEPT ![t] =
                   [x EXCEPT !.pc = "done", !.result = n,
                             !.wrote = IF Refused(plan) THEN <<>>
                                       ELSE KernelStores(plan, x.st.dest, x.st.size, n, t)]]
     /\ UNCHANGED <<rep, nat, scratchSize, interrupts, writes, fault>>

\* A signal interrupts a call that is waiting.
Interrupt(t) ==
  LET x == task[t]
      plan == x.call.plan
      stores(A) == IF plan.onFailure THEN KernelStores(plan, A, x.st.size, -1, t) ELSE <<>>
  IN /\ x.pc = "kernel" /\ plan.sw = "ALLOW" /\ plan.set = {} /\ ~plan.errno
     /\ x.d = 0 /\ interrupts < MaxInterrupts
     /\ interrupts' = interrupts + 1
     /\ mem' = Overlay(mem, stores(Follow(plan.params, x.regs, mem, t, x.d)))
     /\ task' = [task EXCEPT ![t] = [x EXCEPT !.pc = "interrupted", !.wrote = stores(x.st.dest)]]
     /\ UNCHANGED <<rep, nat, scratchSize, writes, fault>>

\* What the program may see of the results: the kernel's stores.  When the call
\* had a copy of a buffer, the rest of an output is not specified, nor is input
\* that another task has changed during the call.
Natively(ps, st, m, wrote) ==
  LET out == Spans(st, st.size, {i \in ListedOf(ps) : ps[i].mode = "OUT"})
      loose == out \cup {a \in DOMAIN st.input : st.input[a] # nat[a]}
  IN [a \in User |-> IF a \in DOMAIN wrote THEN wrote[a]
                     ELSE IF st.enabled /\ a \in loose THEN m[a] ELSE nat[a]]

\* rec_prepare_restart_syscall, and the signal handler starts.
RestartPrep(t) ==
  LET x == task[t]
      plan == x.call.plan
      ps == plan.params
      p == IF plan.onFailure THEN process_syscall_results(ps, x.st, mem, -1, TRUE, t)
           ELSE [mem |-> mem, record |-> <<>>]
  IN /\ x.pc = "interrupted" /\ MayRun(t)
     /\ mem' = p.mem
     /\ rep' = Overlay(rep, p.record)
     /\ nat' = IF plan.onFailure THEN Natively(ps, x.st, p.mem, x.wrote) ELSE nat
     /\ task' = [task EXCEPT ![t] = Returned([x EXCEPT !.d = 1, !.outer = x.call], x.entry,
                                             x.no /\ x.call.back # "wait")]
     /\ UNCHANGED <<scratchSize, interrupts, writes, fault>>

\* The handler has returned: the interrupted call is made again.
Restart(t) ==
  LET x == task[t] IN
  /\ x.pc = "user" /\ x.d = 1 /\ MayRun(t)
  /\ Prepare(t, [x EXCEPT !.d = 0, !.again = TRUE, !.outer = NoCall], x.outer,
             Arguments(x.outer.plan.params, t, 0), mem, rep, nat)
  /\ UNCHANGED <<scratchSize, interrupts, writes>>

\* The handler has returned: the interrupted call fails with EINTR.
NoRestart(t) ==
  LET x == task[t] IN
  /\ x.pc = "user" /\ x.d = 1 /\ MayRun(t)
  /\ task' = [task EXCEPT ![t] = [x EXCEPT !.d = 0, !.outer = NoCall]]
  /\ UNCHANGED <<mem, rep, nat, scratchSize, interrupts, writes, fault>>

\* A seccomp filter traps the restarted call: rec_abort_prepared_syscall.
Abort(t) ==
  LET x == task[t]
      ps == x.call.plan.params
  IN /\ x.pc = "kernel" /\ x.again /\ MayRun(t)
     /\ mem' = abort_syscall_results(ps, x.st, mem, t)
     /\ task' = [task EXCEPT ![t] = Returned(x, ResultRegs(ps, x.st, x.regs), FALSE)]
     /\ fault' = (fault \/ ~ExitAsserts(ps, x.st, mem, -1, t))
     /\ UNCHANGED <<rep, nat, scratchSize, interrupts, writes>>

\* rec_process_syscall: the call's exit.
Exit(t) ==
  LET x == task[t]
      plan == x.call.plan
      ps == plan.params
      r == RestoredRegs(x.call, x.regs, x.entry)
      sizes == eval_param_size(ps, x.st, mem, x.result, t)
      wrote == IF plan.errno THEN {} ELSE plan.late
      late == [a \in UNION {{r[ps[i].ptr[2]] + k : k \in 0..(sizes[i] - 1)} : i \in wrote} |-> -20 - t]
      m == Overlay(mem, late)
      p == process_syscall_results(ps, x.st, m, x.result, ~(plan.onFailure /\ x.result = 0), t)
      after == Spans(x.st, x.st.size, {i \in DOMAIN ps : ps[i].mode = "AFTER"})
  IN /\ x.pc = "done" /\ MayRun(t)
     /\ mem' = p.mem
     /\ rep' = Overlay(Overlay(rep, p.record), [a \in after |-> p.mem[a]])
     /\ nat' = Overlay(Natively(ps, x.st, p.mem, x.wrote), late)
     /\ task' = [task EXCEPT ![t] = Returned(x, ResultRegs(ps, x.st, r), RestoredNo(x.call, x.no))]
     /\ fault' = (fault \/ ~ExitAsserts(ps, x.st, m, x.result, t))
     /\ UNCHANGED <<scratchSize, interrupts, writes>>

\* The program stores to its memory.
UserWrite(t, a) ==
  LET x == task[t]
      f == [b \in {a} |-> 1]
  IN /\ x.pc = "user" /\ MayRun(t) /\ writes < MaxWrites
     /\ writes' = writes + 1
     /\ mem' = Overlay(mem, f) /\ rep' = Overlay(rep, f) /\ nat' = Overlay(nat, f)
     /\ UNCHANGED <<task, scratchSize, interrupts, fault>>

Next == \E t \in Tasks :
          \/ \E c \in CallsFrom(t) : Enter(t, c)
          \/ \E n \in Results : KernelDone(t, n)
          \/ Interrupt(t) \/ RestartPrep(t) \/ Restart(t) \/ NoRestart(t) \/ Abort(t) \/ Exit(t)
          \/ \E a \in Writable : UserWrite(t, a)

Spec == Init /\ [][Next]_vars

-----------------------------------------------------------------------------
(* Properties.                                                             *)

\* Memory that a call in the kernel is allowed to differ in: all of it for a
\* call that nothing runs beside, what after_syscall_actions record otherwise.
Pending(a) ==
  \E t \in Tasks :
    LET x == task[t]
    IN /\ InCall(x)
       /\ \/ x.st.sw = "PREVENT"
          \/ \E i \in DOMAIN x.st.dest : /\ x.call.plan.params[i].mode = "AFTER"
                                        /\ a - x.st.dest[i] \in 0..(x.st.size[i] - 1)

\* The trace has every change of the tracees' memory: whenever a task may run,
\* the memory a replay builds from its own stores and the data recorded by
\* process_syscall_results, record_ranges and the after_syscall_actions is the
\* recorded process's memory.
ReplaySame == \A a \in User : Pending(a) \/ mem[a] = rep[a]

\* rr changes nothing the program can see: the results are in the program's
\* buffers and lengths, and its structures, pointers and signal sets are what
\* they are without the scratch memory and the mutators.
Transparent == \A a \in User : Pending(a) \/ mem[a] = nat[a]

\* A task whose call was prepared, diverted, interrupted, restarted or aborted
\* returns to its code with its own arguments and call number.
RegsKept == \A t \in Tasks : task[t].changed = {}

\* No assertion of TaskSyscallState fails, and the kernel gets the program's
\* input: a relocated pointer is in exactly one parameter, sizes are not
\* consumed twice, and saved_data has what the mutators changed.
NoAssertFails == ~fault
=============================================================================
