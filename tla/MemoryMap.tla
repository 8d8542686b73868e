------------------------------ MODULE MemoryMap ------------------------------
(***************************************************************************)
(* The map rr keeps of a tracee's memory (class AddressSpace): a set of    *)
(* Mappings that do not overlap, the ranges the program excluded from      *)
(* forks, the sizes of the attached System V segments, and the break.      *)
(* Every operator below is one method of AddressSpace.cc, as a function    *)
(* from the map before the call to the map after it.  Addresses and sizes  *)
(* are whole pages; [s, e) is the range from page s up to page e.          *)
(*                                                                         *)
(* A KernelMapping is [s, e, file, off, prot, shared, anon, grow, name]:   *)
(* file stands for the device, the inode and the file's name; name is      *)
(* "heap" or "stack" where the kernel's name is not the file's.  A Mapping *)
(* pairs the KernelMapping of this session (m) with that of the recording  *)
(* (r), the emulated file behind it (emu), and the size the file had when  *)
(* it was mapped (stat).                                                   *)
(***************************************************************************)
EXTENDS Integers, FiniteSets, Sequences

\* The file of a mapping without one: device 0, inode 0.
NoFile == [k |-> "none", f |-> "none", fs |-> 0, snap |-> <<>>]
NoEmu == "none"
NoStat == -1

\* KernelMapping::is_real_device.
IsRealDevice(km) == km.file # NoFile

\* KernelMapping::subrange, which moves the offset along; set_range, which
\* does not; extend and set_prot.
Subrange(km, s, e) ==
  [km EXCEPT !.s = s, !.e = e,
             !.off = @ + (IF IsRealDevice(km) THEN s - km.s ELSE 0)]
SetRange(km, s, e) == [km EXCEPT !.s = s, !.e = e]
SetProt(km, prot) == [km EXCEPT !.prot = prot]
Extend(km, e) == [km EXCEPT !.e = e]

Intersects(km, s, e) == km.s < e /\ s < km.e

\* Variant of Piece that leaves the offsets where they were.
PieceKeepsOffset(mm, s, e) ==
  [mm EXCEPT !.m = SetRange(mm.m, s, e), !.r = SetRange(mm.r, s, e)]
\* The part of a Mapping in [s, e), as the underflow and overflow pieces of
\* protect and unmap_internal are made.
Piece(mm, s, e) ==
  [mm EXCEPT !.m = Subrange(mm.m, s, e), !.r = Subrange(mm.r, s, e)]

\* Names are compared unless one mapping is a stack
\* (normalized_file_names_equal with RESPECT_HEAP).
NormalizedFileNamesEqual(km1, km2) ==
  \/ "stack" \in {km1.name, km2.name}
  \/ km1.name = km2.name

IsAdjacentMapping(left, right) ==
  /\ left.e = right.s
  /\ <<left.shared, left.anon, left.grow>> = <<right.shared, right.anon, right.grow>>
  /\ left.prot = right.prot
  /\ NormalizedFileNamesEqual(left, right)
  /\ left.file = right.file
  /\ IsRealDevice(left) => left.off + (left.e - left.s) = right.off

IsCoalescable(left, right) ==
  /\ IsAdjacentMapping(left.m, right.m)
  /\ IsAdjacentMapping(left.r, right.r)

\* coalesce_around walks down and up from it while neighbours can be merged.
\* The merged mapping takes all but its end from the lowest one.
Linked(mem, lo, hi) ==
  \A x \in mem : x.m.s >= lo /\ x.m.e < hi =>
    \E y \in mem : IsCoalescable(x, y)

CoalesceAround(mem, it) ==
  LET lo == CHOOSE s \in {x.m.s : x \in mem} :
              /\ s <= it.m.s /\ Linked(mem, s, it.m.e)
              /\ \A x \in mem : x.m.s < s => ~ Linked(mem, x.m.s, it.m.e)
      hi == CHOOSE e \in {x.m.e : x \in mem} :
              /\ e >= it.m.e /\ Linked(mem, it.m.s, e)
              /\ \A x \in mem : x.m.e > e => ~ Linked(mem, it.m.s, x.m.e)
      chain == {x \in mem : lo <= x.m.s /\ x.m.e <= hi}
      first == CHOOSE x \in chain : x.m.s = lo
  IN  (mem \ chain) \cup {[first EXCEPT !.m = Extend(@, hi), !.r = Extend(@, hi)]}

\* assert_coalesceable: what is merged shares its emulated file.
AssertCoalesceable(mem) ==
  \A x, y \in mem : IsCoalescable(x, y) => x.emu = y.emu

MappingOf(mem, p) == CHOOSE x \in mem : x.m.s <= p /\ p < x.m.e
HasMapping(mem, p) == \E x \in mem : x.m.s <= p /\ p < x.m.e

\* remove_range on the set of ranges: lower_bound finds the first range that
\* does not sort before <<s, e>>, so a range that starts earlier, or starts at
\* s and ends before e, is passed over.
Sorts(r, s, e) == r[1] < s \/ (r[1] = s /\ r[2] < e)

RemoveRange(ranges, s, e) ==
  LET hit == {r \in ranges : ~ Sorts(r, s, e) /\ r[1] < e}
      last == CHOOSE r \in hit : \A q \in hit \ {r} : Sorts(q, r[1], r[2])
  IN  IF hit = {} THEN ranges
      ELSE (ranges \ hit) \cup (IF e < last[2] THEN {<<e, last[2]>>} ELSE {})

AddRange(ranges, s, e) == RemoveRange(ranges, s, e) \cup {<<s, e>>}

\* unmap_internal: every mapping that meets [s, e) keeps its parts outside it.
UnmapInternal(mem, s, e) ==
  LET hit == {x \in mem : Intersects(x.m, s, e)}
  IN  (mem \ hit)
        \cup {Piece(x, x.m.s, s) : x \in {y \in hit : y.m.s < s}}
        \cup {Piece(x, e, x.m.e) : x \in {y \in hit : e < y.m.e}}

\* unmap returns early for an empty range.
Unmap(as, s, e) ==
  IF s = e THEN as
  ELSE [as EXCEPT !.dont = RemoveRange(@, s, e), !.mem = UnmapInternal(@, s, e)]

\* map and map_and_coalesce.
MapAndCoalesce(mem, mm) == CoalesceAround(mem \cup {mm}, mm)

Map(as, km, rkm, emu, stat) ==
  IF km.s = km.e THEN as
  ELSE [as EXCEPT
          !.dont = RemoveRange(@, km.s, km.e),
          !.mem = MapAndCoalesce(UnmapInternal(@, km.s, km.e),
                                 [m |-> km, r |-> rkm, emu |-> emu, stat |-> stat])]

\* protect goes through the mappings that follow one another without a gap
\* from s on (ITERATE_CONTIGUOUS) and coalesces around the last one it changed.
Contiguous(mem, s, e) ==
  {x \in mem : /\ Intersects(x.m, s, e)
               /\ \A p \in s .. (x.m.s - 1) : HasMapping(mem, p)}

\* Variant of Protect that forgets the mapping of the recording.
ProtectOwnOnly(as, s, e, prot) ==
  LET hit == Contiguous(as.mem, s, e)
      from(x) == IF x.m.s < s THEN s ELSE x.m.s
      to(x) == IF x.m.e < e THEN x.m.e ELSE e
      overlap(x) == [Piece(x, from(x), to(x))
                       EXCEPT !.m = SetProt(@, prot)]
      mem == (as.mem \ hit)
               \cup {Piece(x, x.m.s, s) : x \in {y \in hit : y.m.s < s}}
               \cup {overlap(x) : x \in hit}
               \cup {Piece(x, e, x.m.e) : x \in {y \in hit : e < y.m.e}}
      last == CHOOSE x \in hit : \A y \in hit : y.m.s <= x.m.s
  IN  IF hit = {} THEN as
      ELSE [as EXCEPT !.mem = CoalesceAround(mem, overlap(last))]

Protect(as, s, e, prot) ==
  LET hit == Contiguous(as.mem, s, e)
      from(x) == IF x.m.s < s THEN s ELSE x.m.s
      to(x) == IF x.m.e < e THEN x.m.e ELSE e
      overlap(x) == [Piece(x, from(x), to(x))
                       EXCEPT !.m = SetProt(@, prot), !.r = SetProt(@, prot)]
      mem == (as.mem \ hit)
               \cup {Piece(x, x.m.s, s) : x \in {y \in hit : y.m.s < s}}
               \cup {overlap(x) : x \in hit}
               \cup {Piece(x, e, x.m.e) : x \in {y \in hit : e < y.m.e}}
      last == CHOOSE x \in hit : \A y \in hit : y.m.s <= x.m.s
  IN  IF hit = {} THEN as
      ELSE [as EXCEPT !.mem = CoalesceAround(mem, overlap(last))]

\* remap: the mapping at the old address moves to the new one with the new
\* size.  The offset of m follows the old address; that of r does not.
Remap(as, old, osz, new, nsz) ==
  LET mr == MappingOf(as.mem, old)
      end == IF mr.m.e < old + osz THEN mr.m.e ELSE old + osz
      moved == [m |-> SetRange(Subrange(mr.m, old, end), new, new + nsz),
                r |-> SetRange(mr.r, new, new + nsz),
                emu |-> mr.emu, stat |-> mr.stat]
      kept == {r \in as.dont : ~ Sorts(r, old, old + osz) /\ r[1] < old + osz}
      cut == RemoveRange(as.dont, old, old + osz)
      mem == UnmapInternal(UnmapInternal(as.mem, old, old + osz), new, new + nsz)
  IN  [as EXCEPT
         !.dont = IF kept # {} THEN AddRange(cut, new, new + nsz)
                  ELSE RemoveRange(cut, new, new + nsz),
         !.mem = MapAndCoalesce(mem, moved)]

\* brk maps or unmaps what lies between the old break and the new one.
BrkMapping(s, e, prot) ==
  [s |-> s, e |-> e, file |-> NoFile, off |-> 0, prot |-> prot,
   shared |-> FALSE, anon |-> TRUE, grow |-> FALSE, name |-> "heap"]

Brk(as, addr, prot) ==
  [(IF as.brk < addr
    THEN Map(as, BrkMapping(as.brk, addr, prot), BrkMapping(as.brk, addr, prot),
             NoEmu, NoStat)
    ELSE Unmap(as, addr, as.brk)) EXCEPT !.brk = addr]

\* advise
Advise(as, s, e, advice) ==
  CASE advice = "dontfork" -> [as EXCEPT !.dont = AddRange(@, s, e)]
    [] advice = "dofork" -> [as EXCEPT !.dont = RemoveRange(@, s, e)]
    [] OTHER -> as
=============================================================================
