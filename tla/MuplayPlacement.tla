-------------------------- MODULE MuplayPlacement --------------------------
(***************************************************************************)
(* Where Muplay puts the modified code: find_lowest_base_address looks for  *)
(* a slot between the task's mappings, the code is generated for that       *)
(* address, and mmap_into_task asks the kernel to map it there.             *)
(*                                                                          *)
(* Addresses are small naturals; the difference of two of them is kept in   *)
(* an int of Width bits, as 64-bit differences are in 32 bits.              *)
(***************************************************************************)
EXTENDS Integers, Sequences, SequencesExt, FiniteSets

CONSTANTS
  PageSize,
  Limit,       \* first page the kernel does not map for a user
  Width,       \* of an int
  Layouts,     \* sets of used pages
  Sizes        \* sizes of the modified code

(* What the constants are. *)
PlacementAssumption ==
  /\ {PageSize, Limit, Width} \subseteq Nat \ {0}
  /\ \A l \in Layouts : l \subseteq Nat /\ l # {} /\ IsFiniteSet(l)
  /\ Sizes \subseteq Nat \ {0}

VARIABLES
  used,        \* the pages in use
  size,
  it, prev,    \* position in the list of mappings, and the end of the last one
  base,        \* sandbox_base, for which the code is generated
  in_slot,     \* base is the start of a slot, not the end of all mappings
  mapped,      \* the start of mapped_code_region
  pc

vars == <<used, size, it, prev, base, in_slot, mapped, pc>>

(* /proc/pid/maps: the runs of used pages, in order (adjacent mappings have *)
(* no space between them, so they count as one).                            *)
Starts == {p \in used : p - 1 \notin used}
End(p) == CHOOSE e \in {q + 1 : q \in used} : e > p /\ e \notin used /\ p .. e - 1 \subseteq used
Maps == LET s == SetToSortSeq(Starts, <)
        IN  [k \in DOMAIN s |-> [start |-> PageSize * s[k], end |-> PageSize * End(s[k])]]

(* The value of x in an int. *)
as_int(x) == LET h == 2 ^ (Width - 1) IN ((x + h) % (2 * h)) - h

Pages(n) == (n + PageSize - 1) \div PageSize
Free(addr) == LET p == addr \div PageSize
              IN  p + Pages(size) <= Limit /\ (p .. p + Pages(size) - 1) \cap used = {}

Init ==
  /\ used \in Layouts
  /\ size \in Sizes
  /\ it = 2
  /\ prev = Maps[1].end
  /\ base = 0 /\ in_slot = FALSE /\ mapped = 0
  /\ pc = "search"

Found(addr, slot) ==
  /\ base' = addr /\ in_slot' = slot
  /\ pc' = "map"
  /\ UNCHANGED <<used, size, it, prev, mapped>>

(* Mutant: any space is taken for enough. *)
FitsAny(space) == space # 0

Fits(space) == space >= 0 /\ space > size

(* One iteration of find_lowest_base_address. *)
Examine ==
  /\ pc = "search" /\ it <= Len(Maps)
  /\ IF Fits(as_int(Maps[it].start - prev)) THEN Found(prev, TRUE)
     ELSE /\ prev' = Maps[it].end
          /\ it' = it + 1
          /\ UNCHANGED <<used, size, base, in_slot, mapped, pc>>

(* Mutant: the end of a mapping is taken for its last page. *)
NoSlotInclusive ==
  /\ pc = "search" /\ it > Len(Maps)
  /\ Found(prev - PageSize, FALSE)

NoSlot ==
  /\ pc = "search" /\ it > Len(Maps)
  /\ Found(prev, FALSE)

(* mmap without MAP_FIXED takes the address as a hint. *)
mmap(addr) ==
  IF Free(addr) THEN {addr}
  ELSE {PageSize * p : p \in {q \in 1 .. Limit : Free(PageSize * q)}}

mmap_into_task ==
  /\ pc = "map"
  /\ \E a \in mmap(base) :
       /\ mapped' = a
       /\ used' = used \cup (a \div PageSize .. a \div PageSize + Pages(size) - 1)
  /\ pc' = "done"
  /\ UNCHANGED <<size, it, prev, base, in_slot>>

(* The code is in place, or the mmap system call failed, which is fatal. *)
Done ==
  /\ pc = "done" \/ (pc = "map" /\ mmap(base) = {})
  /\ UNCHANGED vars

Next == Examine \/ NoSlot \/ mmap_into_task \/ Done

Spec == Init /\ [][Next]_vars

-----------------------------------------------------------------------------
(* Properties. *)

(* A slot that the search returns has room for the whole code, although the  *)
(* size of the slot is cut to an int.                                        *)
SlotIsFree == pc = "map" /\ in_slot => Free(base)

(* The code is mapped at the address it was generated for: the functions'    *)
(* positions and the jumps into them are computed from sandbox_base.         *)
CodeWhereGenerated == pc = "done" => mapped = base

(* "If no slots large enough available load the code at the end of the       *)
(* address space".                                                           *)
LoadedAtTheEnd == pc = "done" /\ ~in_slot => mapped = base

(* "finds the lowest address where there is a slot of unused memory of size  *)
(* size".                                                                    *)
LowestSlot ==
  pc = "map" =>
    \A k \in 1 .. Len(Maps) - 1 :
      Maps[k].end < base => Maps[k + 1].start - Maps[k].end < size
=============================================================================
