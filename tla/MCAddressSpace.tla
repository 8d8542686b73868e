--------------------------- MODULE MCAddressSpace ---------------------------
(***************************************************************************)
(* The address space on small instances, for TLC: its breakpoints, its      *)
(* watchpoints with the fast-forwarding that works under them, and its      *)
(* mappings, side by side.  `part` says which of the three a behaviour is   *)
(* of; the other two rest.                                                  *)
(***************************************************************************)
EXTENDS Breakpoints, Sequences

VARIABLES
  part,
  bytes, as, dr, alive, wanted, refused, late, stop, steps, watches, ff, \* of FastForward
  st                                                                     \* of Mappings

wvars == <<bytes, as, dr, alive, wanted, refused, late, stop, steps, watches, ff>>

CONSTANTS
  OddWatches,   \* Odd of Watchpoints
  OddMaps,      \* Odd of Mappings
  MapRanges     \* of Mappings

-----------------------------------------------------------------------------
(* Breakpoints: four bytes of memory, two of which may have breakpoints. *)

W(a, n) == [addr |-> a, len |-> n]

InnerWrites == {W(0, 4), W(1, 3), W(2, 2), W(0, 1)}

(* A write that ends on an address with a breakpoint. *)
EndingWrites == {W(0, 2)}

-----------------------------------------------------------------------------
(* Watchpoints and string instructions, on sixteen bytes. *)

Req(a, n, t) == [addr |-> a, n |-> n, type |-> t]

MCRequests == {Req(3, 4, "WRITE"), Req(1, 2, "WRITE"), Req(3, 4, "READWRITE"),
               Req(9, 1, "EXEC"), Req(0, 0, "WRITE"), Req(12, 9, "WRITE")}

Acc(k, a, n, v) == [k |-> k, addr |-> a, n |-> n, v |-> v]

MCAccesses == {Acc("write", 2, 2, 1), Acc("write", 6, 1, 1), Acc("write", 7, 8, 1), Acc("read", 0, 4, 0)}

Str(op, size, dir, cx, di, si) ==
  [op |-> op, size |-> size, dir |-> dir, cx |-> cx, di |-> di, si |-> si]

MCStrings == {Str("stos", 1, 1, 8, 0, 0), Str("stos", 2, -1, 5, 10, 0), Str("movs", 1, 1, 10, 0, 4),
              Str("movs", 2, -1, 4, 6, 14), Str("cmps", 1, 1, 8, 8, 0), Str("scas", 1, 1, 9, 1, 0),
              Str("cmps", 1, 1, 10, 0, 5), Str("lods", 1, 1, 7, 0, 0)}

MCStates == {[at |-> "ip", cx |-> 3], [at |-> "limit", cx |-> 0], [at |-> "limit", cx |-> 4]}

Watch == INSTANCE FastForward WITH
  Top <- 16, Word <- 8, NumRegs <- 4, Tasks <- {1, 2}, First <- 1,
  Requests <- MCRequests, Accesses <- MCAccesses, Code <- {8, 9, 10}, Jumps <- {9, 10},
  Bps <- {8}, MaxWatches <- 3, MaxSteps <- 2, Odd <- OddWatches,
  Strings <- MCStrings, States <- MCStates, Coalesced <- 2, mem <- bytes

-----------------------------------------------------------------------------
(* Mappings: a program with six pages, one of code, three to map, the stack, *)
(* and rr's scratch page.                                                    *)

MCMapRanges == {<<1, 1>>, <<2, 2>>}

(* Ranges with which a page of a segment is replaced. *)
MCOddRanges == {<<2, 1>>, <<2, 2>>}

MCCallRanges == {<<2, 1>>, <<3, 1>>, <<2, 2>>}
MCMoves == {<<2, 1, 2, 2>>, <<2, 2, 1, 1>>, <<1, 1, 2, 2>>, <<3, 1, 1, 1>>, <<2, 1, 1, 1>>}
MCAnons == {<<"rw", FALSE, FALSE>>, <<"rw", TRUE, FALSE>>, <<"rw", FALSE, TRUE>>}
MCFileMaps ==
  {<<"w", "rw", TRUE, 0>>, <<"r", "r", TRUE, 0>>, <<"r", "rw", FALSE, 0>>, <<"q", "r", FALSE, 0>>,
   <<"q", "r", TRUE, 0>>, <<"r", "rw", FALSE, 1>>, <<"r", "rw", FALSE, 2>>}

Maps == INSTANCE Mappings WITH
  NPages <- 6, CallRanges <- MCCallRanges, Moves <- MCMoves, Anons <- MCAnons,
  FileMaps <- MCFileMaps, Advices <- {"dontfork", "dofork", "dontneed"}, Breaks <- {2, 4},
  ShmAddrs <- {2}, Odd <- OddMaps, MaxMaps <- 2, MaxCalls <- 2, MaxWrites <- 2,
  MaxForks <- 1, MaxExecs <- 1, MaxCheckpoints <- 1, MaxSteps <- 4

-----------------------------------------------------------------------------
BreakpointsRest == mem = [a \in Addr |-> breakpoint_insn] /\ Init

MapsRest == st = <<>>

MCInit ==
  \/ part = "breakpoints" /\ Init /\ Watch!FFInit /\ MapsRest
  \/ part = "watchpoints" /\ BreakpointsRest /\ Watch!FFInit /\ MapsRest
  \/ part = "mappings" /\ BreakpointsRest /\ Watch!FFInit /\ Maps!Init

BreakpointsNext == part = "breakpoints" /\ Next /\ UNCHANGED <<part, wvars, st>>

WatchNext == part = "watchpoints" /\ Watch!FFNext /\ UNCHANGED <<part, vars, st>>

MapsNext == part = "mappings" /\ Maps!Next /\ UNCHANGED <<part, vars, wvars>>

MCNext == BreakpointsNext \/ WatchNext \/ MapsNext

MCSpec == MCInit /\ [][MCNext]_<<part, vars, wvars, st>>

-----------------------------------------------------------------------------
(* The properties of the parts, under their names there. *)

(* A change of a watched range is reported (Watchpoints). *)
WatchReported == Watch!WatchReported

(* A breakpoint that is reported has been hit (Watchpoints). *)
BreakpointIsReal == Watch!BreakpointIsReal

(* Running ahead stops before the states looked for (FastForward). *)
StopsBeforeStates == Watch!StopsBeforeStates

(* A replayed process has the pages of the recorded one (Mappings). *)
ReplaySame == part = "mappings" => Maps!ReplaySame

(* rr's map agrees with the kernel's (Mappings). *)
CacheTrue == part = "mappings" => Maps!CacheTrue

(* A checkpoint shares no memory with its session (Mappings). *)
CheckpointKept == part = "mappings" => Maps!CheckpointKept
=============================================================================
