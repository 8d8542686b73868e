------------------------------ MODULE MCReplay ------------------------------
(***************************************************************************)
(* Replay and mutable replay on small instances, for TLC: finding the point *)
(* of an asynchronous event, the session that replays a trace frame by      *)
(* frame, mutable replay on top of it, the reading of the patch and the     *)
(* placement of the modified code, side by side.  `part` says which of them *)
(* a behaviour is of; the others rest.                                      *)
(***************************************************************************)
EXTENDS MuplaySession

VARIABLES
  part,
  target, breaks, command, apos, bp_past, stop_sig, reasons, changed, internal, pending,
  sigtrap_command, apc, result, asserted, astrays,               \* of AsyncSignal
  rtrace, rframe, raction, rpos, rpast, rinsys, rlive, rsyscall_bp, ruser, rmuplay_mode,
  rstatus, rfault, rstrays, rclones,                             \* of ReplaySession
  patch, file, lines, next, currenthk, HK, file_to_lines, qpc,   \* of MuplayPatch
  used, size, it, prev, base, in_slot, mapped, ppc               \* of MuplayPlacement

avars == <<target, breaks, command, apos, bp_past, stop_sig, reasons, changed, internal,
           pending, sigtrap_command, apc, result, asserted, astrays>>
svars == <<rtrace, rframe, raction, rpos, rpast, rinsys, rlive, rsyscall_bp, ruser,
           rmuplay_mode, rstatus, rfault, rstrays, rclones>>
qvars == <<patch, file, lines, next, currenthk, HK, file_to_lines, qpc>>
pvars == <<used, size, it, prev, base, in_slot, mapped, ppc>>

-----------------------------------------------------------------------------
(* The execution around an asynchronous event: a loop around a string        *)
(* instruction.  The body is A, then three iterations of C, then a CPUID,    *)
(* then the branch B, which retires.  The register file tells the iterations *)
(* apart and, like a loop counter of two bits, one turn of the loop from the *)
(* next.                                                                     *)

Body == <<"A", "C", "C", "C", "U", "B">>

MCExecution ==
  [p \in 0 .. 59 |->
     LET turn_ == p \div 6
         place == (p % 6) + 1
     IN  [ip |-> Body[place], ticks |-> turn_, regs |-> <<place, turn_ % 2>>]]

Async == INSTANCE AsyncSignal WITH
  Last <- 59, Execution <- MCExecution, Watch <- {2, 49}, FalseWatch <- {14, 51},
  Cpuid <- {10, 52}, Targets <- {44, 45, 50, 53, 54}, UserSets <- {{}, {"C"}, {"B"}},
  Commands <- {"RUN_CONTINUE", "RUN_SINGLESTEP", "RUN_SINGLESTEP_FAST_FORWARD"},
  SkidSize <- 2, MaxSkid <- 1, MaxStray <- 1,
  user <- breaks, pos <- apos, pc <- apc, strays <- astrays

ASSUME Async!AsyncAssumption

-----------------------------------------------------------------------------
(* The traces of plain replay: a task A clones a thread B, and their events  *)
(* were recorded one after the other in any order; B runs only once A has    *)
(* entered the clone.                                                        *)

ReplayedCode ==
  [t \in Tasks |-> IF t = "A" THEN <<"a1", "clone", "a2", "b1", "a3", "a4", "write", "a5">>
                   ELSE <<"b1", "a3", "write", "b1", "a4">>]

Frame(t, e, p) == [tid |-> t, event |-> e, at |-> p, child |-> None]

ReplayedOfA ==
  <<[Frame("A", "ENTER", 2) EXCEPT !.child = "B"], Frame("A", "EXIT", 3),
    Frame("A", "FLUSH", 5), Frame("A", "RESET", 5), Frame("A", "SIGNAL", 6),
    Frame("A", "DELIVER", 6), Frame("A", "PATCH", 7), Frame("A", "ENTER", 7)>>
ReplayedOfB ==
  <<Frame("B", "SCHED", 2), Frame("B", "ENTER_PTRACE", 3), Frame("B", "ENTER", 3),
    Frame("B", "RESTART", 4), Frame("B", "TRAP", 5), Frame("B", "TASK_EXIT", 5)>>

Turn(order, k) == Cardinality({j \in 1 .. k : order[j] = order[k]})

ReplayedTraces ==
  {[k \in 1 .. 14 |-> IF o[k] = "A" THEN ReplayedOfA[Turn(o, k)] ELSE ReplayedOfB[Turn(o, k)]] :
     o \in {p \in [1 .. 14 -> Tasks] :
              p[1] = "A" /\ Cardinality({k \in 1 .. 14 : p[k] = "A"}) = Len(ReplayedOfA)}}

CONSTANT Debugged    \* where the debugger of a plain replay may set breakpoints

Replay == INSTANCE ReplaySession WITH
  Code <- ReplayedCode, Syscalls <- {"clone", "write"}, Branches <- {"b1"},
  ReadOnly <- {"clone"}, Traces <- ReplayedTraces, UserAddrs <- Debugged, MaxStray <- 0,
  MaxClones <- 1,
  trace <- rtrace, frame <- rframe, action <- raction, pos <- rpos, past <- rpast,
  insys <- rinsys, live <- rlive, syscall_bp <- rsyscall_bp, user <- ruser,
  muplay_mode <- rmuplay_mode, status <- rstatus, fault <- rfault, strays <- rstrays,
  clones <- rclones

-----------------------------------------------------------------------------
(* Mutable replay: a program that clones a thread B after _start; f and g are   *)
(* modified, h is new.  The frame in flight at _start is a SCHED or a flush  *)
(* of the syscallbuf.                                                        *)

CodeOf(t) == IF t = "A"
             THEN <<"ld", "start", "a1", "clone", "a2", "f", "a3", "write", "a4">>
             ELSE <<"b1", "b2", "g", "b3">>
MCCode == [t \in Tasks |-> CodeOf(t)]

InFlightAtStart == {Frame("A", "FLUSH", 3), Frame("A", "SCHED", 3)}
InFlightAtF == {Frame("A", "FLUSH", 7), Frame("A", "SCHED", 8), Frame("A", "SIGNAL", 7),
                Frame("A", "TRAP", 7), Frame("A", "PATCH", 8), Frame("A", "ENTER", 8)}
InFlightAtG == {Frame("B", "FLUSH", 4), Frame("B", "SCHED", 4)}

EventsOfA(s, f) ==
  <<s, [Frame("A", "ENTER", 4) EXCEPT !.child = "B"], Frame("A", "EXIT", 5), f,
    Frame("A", "FLUSH", 8)>>
EventsOfB(g) == <<Frame("B", "SCHED", 2), g, Frame("B", "TASK_EXIT", 4)>>

(* B runs once A has entered the clone. *)
Orders ==
  {o \in [1 .. 8 -> {"A", "B"}] :
     /\ Cardinality({k \in 1 .. 8 : o[k] = "A"}) = 5
     /\ o[1] = "A" /\ o[2] = "A"}

TracesWithHit ==
  {[k \in 1 .. 8 |-> IF o[k] = "A" THEN EventsOfA(s, f)[Turn(o, k)]
                                   ELSE EventsOfB(g)[Turn(o, k)]] :
     o \in Orders, s \in InFlightAtStart, f \in InFlightAtF, g \in InFlightAtG}

(* Traces that end before a modified function is executed. *)
TracesWithoutHit ==
  {<<s, [Frame("A", "ENTER", 4) EXCEPT !.child = "B"], Frame("A", "EXIT", 5)>> :
     s \in InFlightAtStart}

MCTraces == TracesWithHit \cup TracesWithoutHit

Summary(type, funcs) == [type |-> type, funcs |-> funcs]
MCSummaries ==
  <<Summary("INSERTED", {"fun_f", "fun_h"}), Summary("DELETED", {"fun_f"}),
    Summary("INSERTED", {"fun_g"}), Summary("DELETED", {})>>

(* Lines are inserted in one file and only deleted in the other. *)
SummariesOfDeletion ==
  <<Summary("INSERTED", {"fun_f", "fun_g", "fun_h"}), Summary("DELETED", {}),
    Summary("INSERTED", {}), Summary("DELETED", {"fun_g"})>>

MCOldSymbol == [n \in {"fun_f", "fun_g"} |-> IF n = "fun_f" THEN "f" ELSE "g"]

MCLive == [n \in {"fun_f", "fun_g", "fun_h"} |->
             <<"n1", "write", "n2", "n3", "write", "exit">>]

(* The new version of f returns to a caller that goes on to call g. *)
LiveCallsG == [MCLive EXCEPT !["fun_f"] = <<"n1", "write", "g", "b3", "exit">>]

-----------------------------------------------------------------------------
(* The patches: of two files, every script of up to six lines for the first  *)
(* and two for the second; of one file, scripts of up to seven.              *)

(* The operators of git diff, which do not depend on the patches. *)
Diff == INSTANCE MuplayPatch WITH Patches <- {}, Garbage <- {0, 77}, pc <- qpc

Scripts(n) == UNION {[1 .. k -> Diff!Ops] : k \in 1 .. n}

(* A hunk lists the deletions of a place before its insertions. *)
Printable(s) == /\ Diff!Changed(s) # {}
                /\ \A k \in 1 .. Len(s) - 1 : ~(s[k] = "ins" /\ s[k + 1] = "del")

(* Every count of every hunk is printed. *)
CountsPrinted(f) ==
  \A a \in Diff!HunkStarts(f) : Len(Diff!Header(f.script, a, Diff!HunkEnd(f, a)).numbers) = 4

FilesOf(name, n, contexts) ==
  {[name |-> name, script |-> s, context |-> c, nonl |-> {}] :
     s \in {x \in Scripts(n) : Printable(x)}, c \in contexts}

Others ==
  {[name |-> "b.c", script |-> <<"keep", "ins", "keep", "keep", "del", "del">>,
    context |-> 0, nonl |-> {}],
   [name |-> "b.c", script |-> <<"del", "keep", "ins", "ins">>, context |-> 1, nonl |-> {}]}

WellPrinted(fs) == {f \in fs : CountsPrinted(f)}

MCPatches ==
  {<<f>> : f \in WellPrinted(FilesOf("a.c", 7, {1}))}
    \cup {<<f, g>> : f \in WellPrinted(FilesOf("a.c", 6, {0, 1})), g \in WellPrinted(Others)}

(* Patches with counts that are not printed. *)
AnyCount == {<<f>> : f \in FilesOf("a.c", 4, {1})}

(* Neither version of the file ends with a newline; a line that is the last  *)
(* of one version only is not the same line in the other.                    *)
EndsDiffer(s) ==
  \A k \in Diff!Indices(s, "keep") : Diff!IsLast(s, k, "ins") <=> Diff!IsLast(s, k, "del")
WithoutNewline == {<<[f EXCEPT !.nonl = {"old", "new"}]>> :
                     f \in {g \in WellPrinted(FilesOf("a.c", 4, {1})) : EndsDiffer(g.script)}}

CONSTANT Patches

Patch == INSTANCE MuplayPatch WITH Garbage <- {0, 77}, pc <- qpc

ASSUME Patch!PatchesAssumption

-----------------------------------------------------------------------------
(* The placement: all layouts of a small address space, with room behind the *)
(* last mapping.  Gaps of more than three pages overflow an int.             *)

UserPages == {{1} \cup s : s \in SUBSET (2 .. 8)}

(* With a mapping beyond the user's part, as [vsyscall] is. *)
WithVsyscall == {l \cup {14} : l \in UserPages}

CONSTANTS Layouts, Limit

Placement == INSTANCE MuplayPlacement WITH
  PageSize <- 2, Width <- 4, Sizes <- 1 .. 5, pc <- ppc

ASSUME Placement!PlacementAssumption

-----------------------------------------------------------------------------
AsyncRests ==
  /\ target = 44 /\ apos = 0 /\ breaks = {} /\ command = "RUN_CONTINUE"
  /\ Async!Init

ReplayRests ==
  /\ rtrace = <<>> /\ rframe = 1 /\ raction = "TSTEP_NONE"
  /\ rpos = <<>> /\ rpast = <<>> /\ rinsys = <<>> /\ rlive = {}
  /\ rsyscall_bp = None /\ ruser = {} /\ rmuplay_mode = FALSE
  /\ rstatus = "REPLAY_CONTINUE" /\ rfault = "none" /\ rstrays = 0 /\ rclones = 0

MuplayRests ==
  /\ trace = CHOOSE tr \in Traces : TRUE
  /\ metadata_mode = TRUE
  /\ MuInit

PatchRests ==
  /\ patch = <<>> /\ file = 0 /\ lines = <<>> /\ next = 0 /\ currenthk = <<>>
  /\ HK = <<>> /\ file_to_lines = <<>> /\ qpc = "rests"

PlacementRests ==
  /\ used = {} /\ size = 0 /\ it = 0 /\ prev = 0 /\ base = 0 /\ in_slot = FALSE
  /\ mapped = 0 /\ ppc = "rests"

MCInit ==
  /\ part \in {"async", "replay", "muplay", "patch", "placement"}
  /\ IF part = "async" THEN Async!Init ELSE AsyncRests
  /\ IF part = "replay" THEN Replay!Init ELSE ReplayRests
  /\ IF part = "muplay" THEN MuInit ELSE MuplayRests
  /\ IF part = "patch" THEN Patch!Init ELSE PatchRests
  /\ IF part = "placement" THEN Placement!Init ELSE PlacementRests

AsyncNext == Async!Next /\ UNCHANGED <<svars, muvars, qvars, pvars>>
ReplayNext == Replay!Next /\ UNCHANGED <<avars, muvars, qvars, pvars>>
MuplayNext == MuNext /\ UNCHANGED <<avars, svars, qvars, pvars>>
PatchNext == Patch!Next /\ UNCHANGED <<avars, svars, muvars, pvars>>
PlacementNext == Placement!Next /\ UNCHANGED <<avars, svars, muvars, qvars>>

MCNext ==
  /\ UNCHANGED part
  /\ \/ part = "async" /\ AsyncNext
     \/ part = "replay" /\ ReplayNext
     \/ part = "muplay" /\ MuplayNext
     \/ part = "patch" /\ PatchNext
     \/ part = "placement" /\ PlacementNext

MCSpec ==
  /\ MCInit /\ [][MCNext]_<<part, avars, svars, muvars, qvars, pvars>>
  /\ WF_avars(part = "async" /\ Async!emulate_async_signal)
  /\ WF_svars(part = "replay" /\ Replay!replay_step)
  /\ WF_muvars(part = "muplay" /\ MuNext)

-----------------------------------------------------------------------------
(* The properties of the parts, under their names there. *)

(* The tracee never runs past the recorded point (AsyncSignal). *)
NeverPastTarget == Async!NeverPastTarget

(* COMPLETE is returned only at the recorded point (AsyncSignal). *)
CompleteAtTarget == Async!CompleteAtTarget

(* A write to a watched value is noticed when it happens (AsyncSignal). *)
NoChangeMissed == Async!NoChangeMissed

(* A task never runs ahead of its own frames (ReplaySession). *)
AheadOfNoFrame == Replay!NeverAhead

(* A frame is retired at its recorded point (ReplaySession). *)
RetiredAtItsPoint == Replay!RetiredWhenReached

(* The whole trace is replayed (ReplaySession). *)
ReplayEnds == part = "replay" => Replay!Ends

(* Mutable replay ends after a hit (MuplaySession). *)
MuplayEndsAfterHit == part = "muplay" => MuEndsAfterHit

(* Mutable replay ends (MuplaySession). *)
MuplayEnds == part = "muplay" => MuEnds

(* The lines a patch changes are found (MuplayPatch). *)
LinesFound == Patch!LinesFound

(* A slot the search returns is free (MuplayPlacement). *)
SlotIsFree == Placement!SlotIsFree

(* The code is mapped where it was generated for (MuplayPlacement). *)
CodeWhereGenerated == Placement!CodeWhereGenerated
=============================================================================
