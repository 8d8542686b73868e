------------------------------ MODULE MCTrace ------------------------------
(***************************************************************************)
(* The trace on small instances, for TLC: the compressing writer, the trace *)
(* directory with its readers and rr dump, and rr pack, side by side.       *)
(* `part` says which of the three a behaviour is of; the other two rest.    *)
(***************************************************************************)
EXTENDS CompressedWriter, FiniteSets, TLC

VARIABLES
  part,
  w, dir, stored, rec, rd,                                   \* of TraceStream
  fs, data, mmaps, temp, pk, want, crashes, writes           \* of TracePack

svars == <<w, dir, stored, rec, rd>>
pvars == <<fs, data, mmaps, temp, pk, want, crashes, writes>>

(* The events of a recording. *)
Ev(type, number, state) ==
  [type |-> type, number |-> number, is_restart |-> FALSE, state |-> state, disp |-> "none",
   det |-> FALSE, mprotect |-> <<>>, offset |-> -1, closes |-> <<>>, opened |-> <<>>]

MCShapes ==
  {[ev |-> [Ev("SYSCALLBUF_FLUSH", "none", "none") EXCEPT !.mprotect = <<7, 8>>],
    raws |-> <<2>>, maps |-> 0, task |-> "none"],
   [ev |-> [Ev("SYSCALL", "execve", "EXITING") EXCEPT !.closes = <<4, 5>>],
    raws |-> <<1>>, maps |-> 2, task |-> "EXEC"],
   [ev |-> Ev("SYSCALL", "clone", "ENTERING"), raws |-> <<>>, maps |-> 0, task |-> "CLONE"],
   [ev |-> [Ev("SYSCALL", "pwrite64", "EXITING") EXCEPT !.offset = 0],
    raws |-> <<2, 0, 1>>, maps |-> 0, task |-> "none"],
   [ev |-> [Ev("SYSCALL", "open", "EXITING") EXCEPT !.is_restart = TRUE, !.opened = <<3>>],
    raws |-> <<3>>, maps |-> 1, task |-> "none"],
   [ev |-> Ev("EXIT", "none", "none"), raws |-> <<>>, maps |-> 0, task |-> "EXIT"],
   [ev |-> [Ev("SIGNAL_HANDLER", "none", "none") EXCEPT !.disp = "USER_HANDLER", !.det = TRUE],
    raws |-> <<1, 1>>, maps |-> 0, task |-> "none"]}

(* The command lines of rr dump. *)
MCSpecs == {<<<<a, b>>>> : a \in 1 .. 3, b \in {1, 2, 3, 9}} \cup {<<<<1, 1>>, <<2, 3>>>>, <<<<1, 1>>, <<3, 3>>>>}

(* The files a trace maps: two outside it, a hard link to the first of them,
   and copies rr has made. *)
Name(d, k, b) == [d |-> d, k |-> k, b |-> b]

MCNames ==
  Name("out", "plain", 1) :> 1 @@ Name("out", "plain", 2) :> 2
    @@ Name("trace", "hardlink", 1) :> 1 @@ Name("trace", "copy", 1) :> 3
    @@ Name("trace", "clone", 2) :> 4

Seqs == INSTANCE SequencesExt

MCRecordings == {[names |-> MCNames, regions |-> Seqs!SetToSeq(s)] :
                   s \in {x \in SUBSET DOMAIN MCNames : Cardinality(x) \in 1 .. 3}}

Dir == INSTANCE TraceDump WITH
  Shapes <- MCShapes, BlockSize <- 2, MaxFrames <- 3, MaxFails <- 1, MaxPeeks <- 1,
  Readers <- {"r", "copy"}, First <- "r", Odd <- {}, Specs <- MCSpecs, file <- stored

Pack == INSTANCE TracePack WITH
  Recordings <- MCRecordings, Contents <- {"x", "y"}, MaxPack <- 8, MaxInode <- 20, MaxCrashes <- 2, MaxWrites <- 1

ASSUME Pack!PackAssumption

DirRests == w = <<>> /\ dir = <<>> /\ stored = <<>> /\ rec = <<>> /\ rd = <<>>

PackRests ==
  /\ fs = <<>> /\ data = <<>> /\ mmaps = <<>> /\ want = <<>> /\ temp = <<>>
  /\ pk = Pack!Idle /\ crashes = 0 /\ writes = 0

MCInit ==
  \/ part = "writer" /\ Init /\ DirRests /\ PackRests
  \/ part = "directory" /\ Init /\ fd_open /\ Dir!Init /\ PackRests
  \/ part = "pack" /\ Init /\ fd_open /\ DirRests /\ Pack!Init

WriterNext == part = "writer" /\ Next /\ UNCHANGED <<part, svars, pvars>>

DirNext == part = "directory" /\ Dir!Next /\ UNCHANGED <<part, vars, pvars>>

PackNext == part = "pack" /\ Pack!Next /\ UNCHANGED <<part, vars, svars>>

(* A trace is read and packed as often as one likes; only the writer must
   never get stuck. *)
Stop == part # "writer" /\ UNCHANGED <<part, vars, svars, pvars>>

MCNext == WriterNext \/ DirNext \/ PackNext \/ Stop

MCSpec ==
  /\ MCInit /\ [][MCNext]_<<part, vars, svars, pvars>>
  /\ WF_vars(part = "writer" /\ Producer)
  /\ \A t \in Threads : WF_vars(part = "writer" /\ Thread(t))
  /\ WF_pvars(part = "pack" /\ Pack!PackStep)

(* What a reader gets is what was recorded: TraceStream's ReadsBack. *)
ReadsBack == part = "directory" => Dir!ReadsBack

(* A trace with a version file is complete: TraceStream's VersionMeansComplete. *)
VersionMeansComplete == part = "directory" => Dir!VersionMeansComplete

(* rr dump shows the events of its range: TraceDump's DumpShowsRange. *)
DumpShowsRange == part = "directory" => Dir!DumpShowsRange

(* The trace can be replayed wherever a pack is killed: TracePack's
   StaysReplayable. *)
StaysReplayable == Pack!StaysReplayable

(* A pack that was killed can be completed: TracePack's PackCompletes. *)
PackCompletes == part = "pack" => Pack!PackCompletes

(* The same wherever it was killed: TracePack's PackAlwaysCompletes. *)
PackAlwaysCompletes == part = "pack" => Pack!PackAlwaysCompletes
=============================================================================
