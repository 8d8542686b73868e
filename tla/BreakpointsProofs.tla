------------------------- MODULE BreakpointsProofs -------------------------
(***************************************************************************)
(* The breakpoint invariants of module Breakpoints, for all memories, all   *)
(* addresses and any number of references, provided that no recorded write  *)
(* ends on a breakpoint.                                                    *)
(***************************************************************************)
EXTENDS Breakpoints, TLAPS

(* The invariants are inductive together: that an entry is restored when its *)
(* last reference goes needs the counts, and that what is restored is the    *)
(* program's byte needs the view of the memory without breakpoints.          *)
IndInv == TypeOK /\ KeptWhileReferred /\ Armed /\ ProgramIntact

(* The program's byte at every address, read off the view without            *)
(* breakpoints.                                                              *)
LEMMA Pointwise ==
  ASSUME TypeOK
  PROVE  ProgramIntact <=>
           \A a \in Addr : program[a] = IF a \in breakpoints THEN overwritten_data[a] ELSE mem[a]
BY DEF ProgramIntact, TypeOK, replace_breakpoints_with_original_values

(* The total of an address is a natural number, and zero only if both counts *)
(* are.                                                                      *)
LEMMA TotalIsNat ==
  ASSUME TypeOK, NEW a \in Addr
  PROVE  /\ count[a]["USER"] \in Nat /\ count[a]["INTERNAL"] \in Nat
         /\ total(count[a]) \in Nat
BY DEF TypeOK, Types, total

(* The constructor leaves memory and program equal and no breakpoint set. *)
LEMMA InitHolds == Init => IndInv
<1> SUFFICES ASSUME Init PROVE IndInv
    OBVIOUS
<1>1. TypeOK
      BY AddrAssumption DEF Init, TypeOK
<1>2. KeptWhileReferred
      BY DEF Init, KeptWhileReferred, total, Types
<1>3. Armed
      BY DEF Init, Armed
<1>4. ProgramIntact
      BY <1>1, Pointwise DEF Init
<1> QED
    BY <1>1, <1>2, <1>3, <1>4 DEF IndInv

(* add_breakpoint keeps the byte it overwrites, or only counts. *)
LEMMA AddHolds ==
  ASSUME IndInv, NEW a \in BpAddrs, NEW type \in Types, add_breakpoint(a, type)
  PROVE  IndInv'
<1>a. a \in Addr /\ breakpoint_insn \in Byte
      BY AddrAssumption
<1>t. TypeOK /\ KeptWhileReferred /\ Armed /\ ProgramIntact
      BY DEF IndInv
<1>c. count' = [count EXCEPT ![a][type] = count[a][type] + 1] /\ program' = program
      BY DEF add_breakpoint
<1>m. \/ a \in breakpoints /\ mem' = mem /\ breakpoints' = breakpoints
         /\ overwritten_data' = overwritten_data
      \/ /\ a \notin breakpoints
         /\ overwritten_data' = [overwritten_data EXCEPT ![a] = mem[a]]
         /\ mem' = [mem EXCEPT ![a] = breakpoint_insn]
         /\ breakpoints' = breakpoints \cup {a}
      BY DEF add_breakpoint
<1>n. count' \in [Addr -> [Types -> Nat]]
  <2>1. count \in [Addr -> [Types -> Nat]]
      BY <1>t DEF TypeOK
  <2>2. count[a] \in [Types -> Nat] /\ count[a][type] + 1 \in Nat
      BY <1>a, <2>1
  <2>3. [count[a] EXCEPT ![type] = count[a][type] + 1] \in [Types -> Nat]
      BY <2>2
  <2>4. count' = [count EXCEPT ![a] = [count[a] EXCEPT ![type] = count[a][type] + 1]]
      BY <1>c
  <2> QED
      BY <1>a, <2>1, <2>3, <2>4
<1>1. TypeOK'
      BY <1>a, <1>t, <1>c, <1>m, <1>n DEF TypeOK
<1>2. KeptWhileReferred'
  <2> SUFFICES ASSUME NEW b \in Addr
               PROVE  b \in breakpoints' <=> total(count'[b]) > 0
      BY DEF KeptWhileReferred
  <2>1. CASE b # a
        BY <2>1, <1>a, <1>t, <1>c, <1>m DEF KeptWhileReferred, TypeOK
  <2>2. CASE b = a
    <3>1. a \in breakpoints'
          BY <1>m
    <3>2. count'[a] = [count[a] EXCEPT ![type] = count[a][type] + 1]
          BY <1>a, <1>t, <1>c DEF TypeOK
    <3>3. total(count'[a]) = total(count[a]) + 1
          BY <3>2, <1>a, <1>t, TotalIsNat DEF total, Types, TypeOK
    <3> QED
        BY <2>2, <3>1, <3>3, <1>a, <1>t, TotalIsNat
  <2> QED
      BY <2>1, <2>2
<1>3. Armed'
  <2>1. breakpoints \subseteq Addr
        BY <1>t, AddrAssumption DEF TypeOK
  <2> QED
      BY <2>1, <1>a, <1>t, <1>m DEF Armed, TypeOK
<1>4. ProgramIntact'
  <2>1. \A b \in Addr : program[b] = IF b \in breakpoints THEN overwritten_data[b] ELSE mem[b]
        BY <1>t, Pointwise
  <2>2. \A b \in Addr : program'[b] = IF b \in breakpoints' THEN overwritten_data'[b] ELSE mem'[b]
        BY <2>1, <1>a, <1>t, <1>c, <1>m DEF TypeOK
  <2> QED
      BY <2>2, <1>1 DEF ProgramIntact, TypeOK, replace_breakpoints_with_original_values
<1> QED
    BY <1>1, <1>2, <1>3, <1>4 DEF IndInv

(* remove_breakpoint writes the byte back exactly when the last reference,   *)
(* of either type, is given up.                                              *)
LEMMA RemoveHolds ==
  ASSUME IndInv, NEW a \in BpAddrs, NEW type \in Types, remove_breakpoint(a, type)
  PROVE  IndInv'
<1>a. a \in Addr
      BY AddrAssumption
<1>t. TypeOK /\ KeptWhileReferred /\ Armed /\ ProgramIntact
      BY DEF IndInv
<1>c. /\ count[a][type] > 0
      /\ count' = [count EXCEPT ![a][type] = count[a][type] - 1]
      /\ program' = program /\ overwritten_data' = overwritten_data
      BY DEF remove_breakpoint
<1>m. \/ total(count[a]) - 1 > 0 /\ mem' = mem /\ breakpoints' = breakpoints
      \/ /\ ~(total(count[a]) - 1 > 0)
         /\ mem' = [b \in Addr |-> IF b = a THEN overwritten_data[b] ELSE mem[b]]
         /\ breakpoints' = breakpoints \ {a}
      BY DEF remove_breakpoint, unref, destroyed
<1>n. count' \in [Addr -> [Types -> Nat]]
      BY <1>a, <1>t, <1>c DEF TypeOK
<1>1. TypeOK'
      BY <1>a, <1>t, <1>c, <1>m, <1>n DEF TypeOK
<1>2. KeptWhileReferred'
  <2> SUFFICES ASSUME NEW b \in Addr
               PROVE  b \in breakpoints' <=> total(count'[b]) > 0
      BY DEF KeptWhileReferred
  <2>1. CASE b # a
        BY <2>1, <1>a, <1>t, <1>c, <1>m DEF KeptWhileReferred, TypeOK
  <2>2. CASE b = a
    <3>1. count'[a] = [count[a] EXCEPT ![type] = count[a][type] - 1]
          BY <1>a, <1>t, <1>c DEF TypeOK
    <3>2. total(count'[a]) = total(count[a]) - 1
          BY <3>1, <1>a, <1>t, TotalIsNat DEF total, Types, TypeOK
    <3>3. a \in breakpoints
      <4>1. total(count[a]) > 0
            BY <1>a, <1>c, <1>t, TotalIsNat DEF total, Types
      <4> QED
          BY <4>1, <1>a, <1>t DEF KeptWhileReferred
    <3>4. total(count[a]) \in Nat
          BY <1>a, <1>t, TotalIsNat
    <3> QED
        BY <2>2, <3>2, <3>3, <3>4, <1>m
  <2> QED
      BY <2>1, <2>2
<1>3. Armed'
      BY <1>a, <1>t, <1>m, AddrAssumption DEF Armed, TypeOK
<1>4. ProgramIntact'
  <2>1. \A b \in Addr : program[b] = IF b \in breakpoints THEN overwritten_data[b] ELSE mem[b]
        BY <1>t, Pointwise
  <2>2. a \in breakpoints
    <3>1. total(count[a]) > 0
          BY <1>a, <1>c, <1>t, TotalIsNat DEF total, Types
    <3> QED
        BY <3>1, <1>a, <1>t DEF KeptWhileReferred
  <2>3. \A b \in Addr : program'[b] = IF b \in breakpoints' THEN overwritten_data'[b] ELSE mem'[b]
        BY <2>1, <2>2, <1>a, <1>c, <1>m
  <2> QED
      BY <2>3, <1>1 DEF ProgramIntact, TypeOK, replace_breakpoints_with_original_values
<1> QED
    BY <1>1, <1>2, <1>3, <1>4 DEF IndInv

(* remove_all_breakpoints writes every byte back. *)
LEMMA RemoveAllHolds ==
  ASSUME IndInv, remove_all_breakpoints
  PROVE  IndInv'
<1>t. TypeOK /\ ProgramIntact
      BY DEF IndInv
<1>m. /\ mem' = [b \in Addr |-> IF b \in breakpoints THEN overwritten_data[b] ELSE mem[b]]
      /\ breakpoints' = {}
      /\ count' = [b \in Addr |-> [type \in Types |-> 0]]
      /\ overwritten_data' = overwritten_data /\ program' = program
      BY DEF remove_all_breakpoints, destroyed
<1>1. TypeOK'
      BY <1>t, <1>m DEF TypeOK
<1>2. KeptWhileReferred'
      BY <1>m DEF KeptWhileReferred, total, Types
<1>3. Armed'
      BY <1>m DEF Armed
<1>4. ProgramIntact'
  <2>1. \A b \in Addr : program'[b] = mem'[b]
        BY <1>t, <1>m, Pointwise
  <2> QED
      BY <2>1, <1>1, <1>m DEF ProgramIntact, TypeOK, replace_breakpoints_with_original_values
<1> QED
    BY <1>1, <1>2, <1>3, <1>4 DEF IndInv

(* A recorded write that does not end on a breakpoint finds every breakpoint *)
(* it covers.                                                                *)
LEMMA RecordHolds ==
  ASSUME NoWriteEndsOnBreakpoint, IndInv, NEW w \in Writes, DataRecord(w)
  PROVE  IndInv'
<1>t. TypeOK /\ KeptWhileReferred /\ Armed /\ ProgramIntact
      BY DEF IndInv
<1>w. /\ w.addr \in Int /\ w.len \in Nat
      /\ Range(w) \subseteq Addr /\ Addr \subseteq Int /\ breakpoint_insn \in Byte
      BY AddrAssumption
<1> DEFINE hit == breakpoints \cap Range(w)
<1>h. maybe_update_breakpoints(w) = hit
  <2> SUFFICES ASSUME NEW b \in breakpoints
               PROVE  (w.addr <= b /\ b < w.addr + w.len - 1) <=> b \in Range(w)
      BY DEF maybe_update_breakpoints
  <2>1. b \in BpAddrs /\ b \in Int
        BY <1>t, AddrAssumption DEF TypeOK
  <2>2. b # w.addr + w.len - 1
        BY <2>1 DEF NoWriteEndsOnBreakpoint
  <2> DEFINE first == w.addr
             len == w.len
  <2>3. (first <= b /\ b < first + len - 1) <=> b \in first .. first + len - 1
    <3>1. first \in Int /\ len \in Nat /\ b \in Int /\ b # first + len - 1
          BY <2>1, <2>2, <1>w
    <3> HIDE DEF first, len
    <3> QED
        BY <3>1
  <2> QED
      BY <2>3 DEF Range
<1>d. PICK data \in [Range(w) -> Byte] :
        LET written == [b \in Addr |-> IF b \in Range(w) THEN data[b] ELSE mem[b]]
        IN  /\ mem' = [b \in Addr |-> IF b \in hit THEN breakpoint_insn ELSE written[b]]
            /\ overwritten_data' = [b \in Addr |->
                 IF b \in hit THEN written[b] ELSE overwritten_data[b]]
            /\ program' = [b \in Addr |-> IF b \in Range(w) THEN data[b] ELSE program[b]]
            /\ UNCHANGED <<breakpoints, count>>
      BY <1>h DEF DataRecord
<1>u. breakpoints' = breakpoints /\ count' = count
      BY <1>d
<1>e. \A b \in Addr :
        /\ mem'[b] = IF b \in hit THEN breakpoint_insn
                     ELSE IF b \in Range(w) THEN data[b] ELSE mem[b]
        /\ overwritten_data'[b] = IF b \in hit THEN data[b] ELSE overwritten_data[b]
        /\ program'[b] = IF b \in Range(w) THEN data[b] ELSE program[b]
      BY <1>d
<1>1. TypeOK'
  <2>1. mem' \in [Addr -> Byte]
        BY <1>d, <1>t, <1>w DEF TypeOK
  <2>2. overwritten_data' \in [Addr -> Byte]
        BY <1>d, <1>t, <1>w DEF TypeOK
  <2>3. program' \in [Addr -> Byte]
        BY <1>d, <1>t, <1>w DEF TypeOK
  <2> QED
      BY <2>1, <2>2, <2>3, <1>u, <1>t DEF TypeOK
<1>2. KeptWhileReferred'
      BY <1>u, <1>t DEF KeptWhileReferred
<1>3. Armed'
      BY <1>u, <1>e, <1>t, AddrAssumption DEF Armed, TypeOK
<1>4. ProgramIntact'
  <2>1. \A b \in Addr : program[b] = IF b \in breakpoints THEN overwritten_data[b] ELSE mem[b]
        BY <1>t, Pointwise
  <2>2. \A b \in Addr : program'[b] = IF b \in breakpoints' THEN overwritten_data'[b] ELSE mem'[b]
        BY <2>1, <1>e, <1>u
  <2> QED
      BY <2>2, <1>1 DEF ProgramIntact, TypeOK, replace_breakpoints_with_original_values
<1> QED
    BY <1>1, <1>2, <1>3, <1>4 DEF IndInv

(* The breakpoint invariants hold throughout: whatever the debugger and rr   *)
(* set and remove and whatever recorded data is written, a breakpoint in use *)
(* stays armed, and without breakpoints the memory is the program's.         *)
THEOREM BreakpointsSound ==
  ASSUME NoWriteEndsOnBreakpoint
  PROVE  Spec => [](TypeOK /\ KeptWhileReferred /\ Armed /\ ProgramIntact)
<1>1. IndInv /\ [Next]_vars => IndInv'
  <2> SUFFICES ASSUME IndInv, [Next]_vars PROVE IndInv'
      OBVIOUS
  <2>1. ASSUME NEW a \in BpAddrs, NEW type \in Types, add_breakpoint(a, type) PROVE IndInv'
        BY <2>1, AddHolds
  <2>2. ASSUME NEW a \in BpAddrs, NEW type \in Types, remove_breakpoint(a, type) PROVE IndInv'
        BY <2>2, RemoveHolds
  <2>3. CASE remove_all_breakpoints
        BY <2>3, RemoveAllHolds
  <2>4. ASSUME NEW w \in Writes, DataRecord(w) PROVE IndInv'
        BY <2>4, RecordHolds
  <2>5. CASE UNCHANGED vars
        BY <2>5 DEF vars, IndInv, TypeOK, KeptWhileReferred, Armed, ProgramIntact,
                    replace_breakpoints_with_original_values
  <2> QED
      BY <2>1, <2>2, <2>3, <2>4, <2>5 DEF Next
<1>2. IndInv => TypeOK /\ KeptWhileReferred /\ Armed /\ ProgramIntact
      BY DEF IndInv
<1> QED
    BY <1>1, <1>2, InitHolds, PTL DEF Spec
=============================================================================
