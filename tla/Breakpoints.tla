---------------------------- MODULE Breakpoints ----------------------------
(***************************************************************************)
(* The breakpoints of an AddressSpace.  A breakpoint instruction is written *)
(* into the tracee's memory and the byte it replaces is kept; references of *)
(* the debugger (USER) and of rr itself (INTERNAL) are counted apart, and   *)
(* the recorded effects of syscalls are written over the memory meanwhile.  *)
(***************************************************************************)
EXTENDS Integers, FiniteSets

CONSTANTS
  Addr,             \* addresses of mapped bytes
  Byte,             \* byte values
  breakpoint_insn,  \* 0xCC, which the program may contain itself
  BpAddrs,          \* where breakpoints are set
  Writes,           \* recorded writes: [addr, len]
  MaxRefs           \* bound: references of one type at one address

Types == {"USER", "INTERNAL"}

Range(w) == w.addr .. w.addr + w.len - 1

ASSUME AddrAssumption ==
  /\ Addr \subseteq Int
  /\ breakpoint_insn \in Byte
  /\ BpAddrs \subseteq Addr
  /\ MaxRefs \in Nat
  /\ \A w \in Writes : /\ w.addr \in Int /\ w.len \in Nat \ {0}
                       /\ Range(w) \subseteq Addr

VARIABLES
  mem,               \* the tracee's memory
  breakpoints,       \* the addresses with an entry in the map
  count,             \* internal_count and user_count of the entries
  overwritten_data,
  program            \* what the memory would hold without breakpoints

vars == <<mem, breakpoints, count, overwritten_data, program>>

Init ==
  /\ mem \in [Addr -> Byte]
  /\ breakpoints = {}
  /\ count = [a \in Addr |-> [type \in Types |-> 0]]
  /\ overwritten_data = [a \in Addr |-> breakpoint_insn]
  /\ program = mem

total(c) == c["USER"] + c["INTERNAL"]

-----------------------------------------------------------------------------

add_breakpoint(a, type) ==
  /\ count[a][type] < MaxRefs
  /\ IF a \in breakpoints
     THEN UNCHANGED <<mem, breakpoints, overwritten_data>>
     ELSE /\ overwritten_data' = [overwritten_data EXCEPT ![a] = mem[a]]
          /\ mem' = [mem EXCEPT ![a] = breakpoint_insn]
          /\ breakpoints' = breakpoints \cup {a}
  /\ count' = [count EXCEPT ![a][type] = @ + 1]
  /\ UNCHANGED program

(* Mutant: only references of the type removed are looked at. *)
unref_own_type(a, type) == count[a][type] - 1

(* What unref returns. *)
unref(a, type) == total(count[a]) - 1

(* Mutant: the entry is erased before its byte is written back. *)
destroyed_unwritten(as) == mem

(* The memory once the breakpoints at as are destroyed. *)
destroyed(as) == [a \in Addr |-> IF a \in as THEN overwritten_data[a] ELSE mem[a]]

(* A caller gives up only a reference it has. *)
remove_breakpoint(a, type) ==
  /\ count[a][type] > 0
  /\ count' = [count EXCEPT ![a][type] = @ - 1]
  /\ IF unref(a, type) > 0
     THEN UNCHANGED <<mem, breakpoints>>
     ELSE /\ mem' = destroyed({a})
          /\ breakpoints' = breakpoints \ {a}
  /\ UNCHANGED <<overwritten_data, program>>

remove_all_breakpoints ==
  /\ breakpoints # {}
  /\ mem' = destroyed(breakpoints)
  /\ breakpoints' = {}
  /\ count' = [a \in Addr |-> [type \in Types |-> 0]]
  /\ UNCHANGED <<overwritten_data, program>>

(* Mutant: the write is taken to start behind its first byte. *)
maybe_update_breakpoints_late(w) ==
  {a \in breakpoints : w.addr < a /\ a < w.addr + w.len - 1}

(* The breakpoints maybe_update_breakpoints sets again. *)
maybe_update_breakpoints(w) ==
  {a \in breakpoints : w.addr <= a /\ a < w.addr + w.len - 1}

(* apply_all_data_records_from_trace, for one record. *)
DataRecord(w) ==
  \E data \in [Range(w) -> Byte] :
    LET hit == maybe_update_breakpoints(w)
        written == [a \in Addr |-> IF a \in Range(w) THEN data[a] ELSE mem[a]]
    IN  /\ mem' = [a \in Addr |-> IF a \in hit THEN breakpoint_insn ELSE written[a]]
        /\ overwritten_data' = [a \in Addr |->
             IF a \in hit THEN written[a] ELSE overwritten_data[a]]
        /\ program' = [a \in Addr |-> IF a \in Range(w) THEN data[a] ELSE program[a]]
        /\ UNCHANGED <<breakpoints, count>>

Next ==
  \/ \E a \in BpAddrs, type \in Types : add_breakpoint(a, type)
  \/ \E a \in BpAddrs, type \in Types : remove_breakpoint(a, type)
  \/ remove_all_breakpoints
  \/ \E w \in Writes : DataRecord(w)

Spec == Init /\ [][Next]_vars

-----------------------------------------------------------------------------
(* What the debugger is shown of the memory. *)
replace_breakpoints_with_original_values ==
  [a \in Addr |-> IF a \in breakpoints THEN overwritten_data[a] ELSE mem[a]]

(* Every variable has its type. *)
TypeOK ==
  /\ mem \in [Addr -> Byte]
  /\ breakpoints \subseteq BpAddrs
  /\ count \in [Addr -> [Types -> Nat]]
  /\ overwritten_data \in [Addr -> Byte]
  /\ program \in [Addr -> Byte]

(* A breakpoint stays in the map as long as somebody refers to it, the       *)
(* debugger or rr itself, and no longer.                                     *)
KeptWhileReferred ==
  \A a \in Addr : a \in breakpoints <=> total(count[a]) > 0

(* A breakpoint that is set stops the tracee: recorded data written over it  *)
(* does not disarm it ("This breakpoint was overwritten. Note the new data   *)
(* and reset the breakpoint.").                                              *)
Armed == \A a \in breakpoints : mem[a] = breakpoint_insn

(* Without its breakpoints the memory is the program's, byte for byte: that  *)
(* is what the debugger is shown and what removing them leaves behind.       *)
ProgramIntact == replace_breakpoints_with_original_values = program

(* No recorded write ends on an address with a breakpoint. *)
NoWriteEndsOnBreakpoint == \A w \in Writes : w.addr + w.len - 1 \notin BpAddrs
=============================================================================
