------------------------------ MODULE Mappings ------------------------------
(***************************************************************************)
(* How a recording captures a program's memory mappings and a replay makes *)
(* them again: mmap, munmap, mprotect, mremap, brk, madvise, shmat and     *)
(* shmdt, fork, exec, the growth of a stack, writes to a file that is      *)
(* mapped, and the checkpoints of a replay.                                *)
(*                                                                         *)
(* Each action below is one system call (or fault) of a tracee.  It does   *)
(* in one step what the kernel did during the recording, what the recorder *)
(* then did (the process_ functions of record_syscall.cc, write_mapped_    *)
(* region of TraceStream.cc, Task::on_syscall_exit), and what the replay   *)
(* does with the records of that frame (replay_syscall.cc).  Recording and *)
(* replay are only connected by these records, and a record is only read   *)
(* in the frame it was written in, so that running the two in lock step    *)
(* loses no behaviour as long as the files the recorder decides not to     *)
(* copy stay as they are.                                                  *)
(*                                                                         *)
(* st.rec and st.rep are the two sessions: per process the map of          *)
(* MemoryMap and k, the pages as the kernel has them; and the monitors of  *)
(* file descriptors.  st.disk holds the files, st.emu the emulated files   *)
(* of the replay (EmuFs) of each session.                                  *)
(***************************************************************************)
EXTENDS MemoryMap

CONSTANTS
  NPages,        \* pages of an address space; the last is rr's scratch page
  MapRanges,     \* the <<first page, size>> that mappings are made at
  CallRanges,    \* the ranges munmap, mprotect and madvise are called with
  Moves,         \* the <<old, old size, new, new size>> of mremap
  Anons,         \* the <<protection, shared, grows down>> of anonymous mmaps
  FileMaps,      \* the <<descriptor, protection, shared, offset>> of mmaps
  Advices,       \* subset of {"dontfork", "dofork", "dontneed"}
  Breaks,        \* the breaks the program asks for
  ShmAddrs,      \* where the System V segment is attached
  Odd,           \* the unusual calls the program may make; see Usual
  MaxMaps, MaxCalls, MaxWrites, MaxForks, MaxExecs, MaxCheckpoints, MaxSteps

VARIABLE st

Pages == 0 .. NPages - 1
Stack == NPages - 2
Scratch == NPages - 1
BrkStart == 2
Vms == {1, 2}

\* Files: c is one the tracees may write (should_copy_mmap_region says copy),
\* s one that is assumed not to change, v a System V segment, z1 and z2 the
\* objects behind shared anonymous memory.
Zs == {"z1", "z2"}
ShmSize == 2
InitialDisk ==
  [c |-> <<"c0">>, s |-> <<"s0">>, v |-> <<"v0", "v1">>, z1 |-> <<>>, z2 |-> <<>>]

\* Descriptors: w and x (when open) can write c, r only reads it, q reads s.
Fds == {"w", "x", "r", "q"}
FileOf(fd) == IF fd = "q" THEN "s" ELSE "c"
IsWritable(fd) == fd \in {"w", "x"}
NoMon == <<0, "">>

Disk(f) == [k |-> "disk", f |-> f, fs |-> 0, snap |-> <<>>]
Clone(f, snap) == [k |-> "clone", f |-> f, fs |-> 0, snap |-> snap]
EmuObj(f, fs) == [k |-> "emu", f |-> f, fs |-> fs, snap |-> <<>>]

Min(a, b) == IF a < b THEN a ELSE b
KM(s, e, file, off, prot, shared, anon, grow, name) ==
  [s |-> s, e |-> e, file |-> file, off |-> off, prot |-> prot,
   shared |-> shared, anon |-> anon, grow |-> grow, name |-> name]

-----------------------------------------------------------------------------
(* The kernel.  A page is [obj, off, prot, shared, val, df]: val is the      *)
(* content of a private page, "bus" where there is none because the file     *)
(* ends before it, "?" where it is not specified.                            *)

Unmapped == [obj |-> [k |-> "unmapped", f |-> "", fs |-> 0, snap |-> <<>>],
             off |-> 0, prot |-> "", shared |-> FALSE, val |-> "", df |-> FALSE]
Mapped(k, p) == p \in Pages /\ k[p] # Unmapped

At(data, i) == IF i < Len(data) THEN data[i + 1] ELSE "bus"
FileData(w, obj) ==
  CASE obj.k = "disk" -> w.disk[obj.f]
    [] obj.k = "emu" -> w.emu[obj.fs][obj.f]
    [] OTHER -> obj.snap
FileVal(w, obj, i) == IF obj = NoFile THEN "0" ELSE At(FileData(w, obj), i)

Content(w, pg) == IF pg.shared THEN FileVal(w, pg.obj, pg.off) ELSE pg.val
ReadMem(w, s, v, a, n) ==
  [i \in 1 .. n |-> Content(w, w[s].as[v].k[a + i - 1])]

NewPage(w, obj, off, prot, shared) ==
  [obj |-> obj, off |-> off, prot |-> prot, shared |-> shared,
   val |-> IF shared THEN "" ELSE FileVal(w, obj, off), df |-> FALSE]
PageAt(w, obj, off, i, prot, shared) ==
  NewPage(w, obj, IF obj = NoFile THEN 0 ELSE off + i, prot, shared)

KMmap(w, k, a, b, obj, off, prot, shared) ==
  [p \in Pages |-> IF a <= p /\ p < b THEN PageAt(w, obj, off, p - a, prot, shared)
                   ELSE k[p]]
KMunmap(k, a, b) == [p \in Pages |-> IF a <= p /\ p < b THEN Unmapped ELSE k[p]]

\* mprotect changes pages up to the first hole, then fails.
KReach(k, a, b) == {p \in a .. (b - 1) : \A q \in a .. p : Mapped(k, q)}
KMprotect(k, a, b, prot) ==
  [p \in Pages |-> IF p \in KReach(k, a, b) THEN [k[p] EXCEPT !.prot = prot] ELSE k[p]]

\* mremap works on one area: pages of one object that follow one another.
OneArea(k, a, n) ==
  /\ \A p \in a .. (a + n - 1) : Mapped(k, p)
  /\ \A i \in 0 .. (n - 1) :
       /\ [k[a + i] EXCEPT !.off = 0, !.val = ""] = [k[a] EXCEPT !.off = 0, !.val = ""]
       /\ k[a].obj # NoFile => k[a + i].off = k[a].off + i
KMremap(w, k, a, n, b, m) ==
  [p \in Pages |->
     IF b <= p /\ p < b + m
     THEN IF p - b < n THEN k[a + (p - b)]
          ELSE [PageAt(w, k[a].obj, k[a].off, p - b, k[a].prot, k[a].shared)
                  EXCEPT !.df = k[a].df]
     ELSE IF a <= p /\ p < a + n THEN Unmapped ELSE k[p]]

KMadvise(w, k, a, b, advice) ==
  [p \in Pages |->
     IF ~ (a <= p /\ p < b /\ Mapped(k, p)) THEN k[p]
     ELSE CASE advice = "dontfork" -> [k[p] EXCEPT !.df = TRUE]
            [] advice = "dofork" -> [k[p] EXCEPT !.df = FALSE]
            [] OTHER -> IF k[p].shared THEN k[p]
                        ELSE [k[p] EXCEPT !.val = FileVal(w, k[p].obj, k[p].off)]]

\* A store to a page, by the tracee or through its memory file.
Poke(w, s, v, p, val) ==
  LET pg == w[s].as[v].k[p]
      o == pg.obj
  IN  IF ~ pg.shared THEN [w EXCEPT ![s].as[v].k[p].val = val]
      ELSE IF o.k = "disk" THEN [w EXCEPT !.disk[o.f][pg.off + 1] = val]
      ELSE [w EXCEPT !.emu[o.fs][o.f][pg.off + 1] = val]

RECURSIVE PokeAll(_, _, _, _, _)
PokeAll(w, s, v, a, vals) ==
  IF vals = <<>> THEN w
  ELSE PokeAll(Poke(w, s, v, a, Head(vals)), s, v, a + 1, Tail(vals))

-----------------------------------------------------------------------------
(* The trace of one frame: w.maps and w.raw, written by the recorder and     *)
(* consumed by the replay.                                                   *)

Fail(w, what) == [w EXCEPT !.fault = IF @ = "" THEN what ELSE @]
Assert_(w, ok, what) == IF ok THEN w ELSE Fail(w, what)

\* TraceWriter::write_mapped_region: where the replay will find the content.
\* copied: the file could be cloned into the trace, or is copied because it is
\* executable.
MappingSource(km, origin, copied) ==
  IF origin = "remap" THEN "zero"
  ELSE IF km.file.f = "v" THEN "trace"
  ELSE IF origin = "syscall" /\ (km.file = NoFile \/ km.file.f \in Zs) THEN "zero"
  ELSE IF km.file = NoFile THEN "trace"
  ELSE IF km.file.f = "s" \/ (~ km.shared /\ copied) THEN "file"
  ELSE "trace"

WriteMappedRegion(w, km, size, origin, fds, skip, copied) ==
  LET src == MappingSource(km, origin, copied)
      backing == IF src # "file" THEN NoFile
                 ELSE IF km.file.f = "s" THEN Disk("s")
                 ELSE Clone(km.file.f, w.disk[km.file.f])
  IN  [w EXCEPT !.maps = Append(@, [km |-> km, src |-> src, backing |-> backing,
                                    size |-> size, fds |-> fds, skip |-> skip])]
InTrace(w) == w.maps[Len(w.maps)].src = "trace"

\* record_remote and record_remote_fallible: the latter stops at the first
\* page that cannot be read.
RecordRemote(w, v, a, n) ==
  [w EXCEPT !.raw = Append(@, [v |-> v, a |-> a, vals |-> ReadMem(w, "rec", v, a, n)])]
Readable(w, v, a, n) ==
  CHOOSE i \in 0 .. n :
    /\ \A j \in 0 .. (i - 1) : Content(w, w.rec.as[v].k[a + j]) # "bus"
    /\ i < n => Content(w, w.rec.as[v].k[a + i]) = "bus"
RecordRemoteFallible(w, v, a, n) ==
  IF n < 0 THEN Fail(w, "negative size") ELSE RecordRemote(w, v, a, Readable(w, v, a, n))

\* TraceReader::read_mapped_region and read_raw_data (set_data_from_trace,
\* apply_all_data_records_from_trace).
NextMap(w) == Head(w.maps)
PopMap(w) == [w EXCEPT !.maps = Tail(@)]
SetDataFromTrace(w) ==
  IF w.raw = <<>> THEN Fail(w, "no data record")
  ELSE LET r == Head(w.raw)
       IN  [PokeAll(w, "rep", r.v, r.a, r.vals) EXCEPT !.raw = Tail(@)]
RECURSIVE ApplyAllDataRecords(_)
ApplyAllDataRecords(w) ==
  IF w.raw = <<>> THEN w ELSE ApplyAllDataRecords(SetDataFromTrace(w))

\* AddressSpace::map of one session, with assert_coalesceable.
DoMap(w, s, v, km, rkm, emu, stat) ==
  LET new == [w EXCEPT ![s].as[v] = Map(@, km, rkm, emu, stat)]
      mm == [m |-> km, r |-> rkm, emu |-> emu, stat |-> stat]
      before == UnmapInternal(w[s].as[v].mem, km.s, km.e)
  IN  Assert_(new, AssertCoalesceable(before \cup {mm}), "coalesce")
SetK(w, s, v, k) == [w EXCEPT ![s].as[v].k = k]

-----------------------------------------------------------------------------
(* EmuFs.  A file lives as long as a mapping of its session refers to it.    *)

HasFileFor(w, fs, f) == f \in DOMAIN w.emu[fs]
Zeros(n) == IF n <= 0 THEN <<>> ELSE <<>> \o [i \in 1 .. n |-> "0"]
PutFile(w, fs, f, data) ==
  LET old == w.emu[fs]
  IN  [w EXCEPT !.emu[fs] = [g \in DOMAIN old \cup {f} |-> IF g = f THEN data ELSE old[g]]]
EnsureSize(w, fs, f, n) ==
  LET old == w.emu[fs][f]
  IN  PutFile(w, fs, f, old \o Zeros(n - Len(old)))
GetOrCreate(w, fs, km) ==
  LET n == km.off + (km.e - km.s)
  IN  IF HasFileFor(w, fs, km.file.f) THEN EnsureSize(w, fs, km.file.f, n)
      ELSE PutFile(w, fs, km.file.f, Zeros(n))

Referred(side) == {x.emu : x \in UNION {side.as[v].mem : v \in Vms}}
\* ~EmuFile, when the last Mapping that holds it is gone.
DestroyedFiles(w) ==
  [w EXCEPT !.emu[w.fs] = [f \in DOMAIN @ \cap Referred(w.rep) |-> @[f]]]

-----------------------------------------------------------------------------
(* Monitors of file descriptors (FdTable, MmappedFileMonitor).  A monitor is *)
(* named by the descriptor it was made for; dup and fork share it.           *)

OpenFds(w, f) ==
  {<<v, fd>> \in Vms \X Fds : w.rec.as[v].live /\ fd \in w.open[v] /\ FileOf(fd) = f}

\* The end of process_mmap (and of finish_shared_mmap): a monitor is made, or
\* the one that is there revived.
Monitor(side, fds) ==
  LET id(v, fd) == IF side.mon[v][fd] = NoMon THEN <<v, fd>> ELSE side.mon[v][fd]
  IN  [side EXCEPT
         !.mon = [v \in Vms |-> [fd \in Fds |->
                    IF <<v, fd>> \in fds THEN id(v, fd) ELSE @[v][fd]]],
         !.dead = @ \ {id(x[1], x[2]) : x \in fds}]

\* MmappedFileMonitor::did_write of page i of file f.  The recorder looks for
\* shared mappings of the file, the replay for mappings of the emulated one.
Watched(w, s, f) ==
  {<<v, mm>> \in UNION {{v} \X w[s].as[v].mem : v \in Vms} :
     IF s = "rec" THEN mm.m.file = Disk(f) /\ mm.m.shared ELSE mm.emu = f}
PageOf(mm, i) == mm.m.s + i - mm.m.off
Hit(w, s, f, i) == {x \in Watched(w, s, f) : Intersects(x[2].m, PageOf(x[2], i), PageOf(x[2], i) + 1)}

RECURSIVE RecordHits(_, _, _)
RecordHits(w, hits, i) ==
  IF hits = {} THEN w
  ELSE LET x == CHOOSE y \in hits : TRUE
       IN  RecordHits(RecordRemote(w, x[1], PageOf(x[2], i), 1), hits \ {x}, i)

DidWrite(w, s, v, fd, i) ==
  LET id == w[s].mon[v][fd]
      f == FileOf(fd)
      seen == [w EXCEPT ![s].dead = IF Watched(w, s, f) = {} THEN @ \cup {id} ELSE @]
  IN  IF id = NoMon \/ id \in w[s].dead THEN w
      ELSE IF s = "rec" THEN RecordHits(seen, Hit(w, s, f, i), i)
      ELSE IF Hit(w, s, f, i) # {} THEN EnsureSize(seen, w.fs, f, i + 1)
      ELSE seen

-----------------------------------------------------------------------------
(* mmap, recorded: process_mmap of record_syscall.cc.                        *)

RecordAnonymous(w, v, a, n, prot, shared, grow, z) ==
  LET obj == IF shared THEN Disk(z) ELSE NoFile
      km == KM(a, a + n, obj, 0, prot, shared, TRUE, grow, "")
      w1 == IF shared THEN [w EXCEPT !.disk[z] = Zeros(n)] ELSE w
      w2 == SetK(w1, "rec", v, KMmap(w1, w1.rec.as[v].k, a, a + n, obj, 0, prot, shared))
      w3 == WriteMappedRegion(DoMap(w2, "rec", v, km, km, NoEmu, NoStat),
                              km, n, "syscall", {}, FALSE, FALSE)
  IN  Assert_(w3, ~ InTrace(w3), "anonymous data")

\* Variant of ExtraFds that does not look for other descriptors.
NoExtraFds(w, v, fd) == {}
\* monitor_fd_for_mapping: the other descriptors, of any process, that can
\* write the file.
ExtraFds(w, v, fd) ==
  {x \in OpenFds(w, FileOf(fd)) : IsWritable(x[2])} \ {<<v, fd>>}

RecordFile(w, v, fd, a, n, prot, shared, off, copied) ==
  LET f == FileOf(fd)
      km == KM(a, a + n, Disk(f), off, prot, shared, FALSE, FALSE, "")
      size == Len(w.disk[f])
      extra == IF shared THEN ExtraFds(w, v, fd) ELSE {}
      own == IF shared /\ IsWritable(fd) THEN {<<v, fd>>} ELSE {}
      w1 == SetK(w, "rec", v, KMmap(w, w.rec.as[v].k, a, a + n, Disk(f), off, prot, shared))
      w2 == WriteMappedRegion(DoMap(w1, "rec", v, km, km, NoEmu, size),
                              km, size, "syscall", extra, own = {}, copied)
      w3 == IF InTrace(w2) THEN RecordRemoteFallible(w2, v, a, Min(size - off, n)) ELSE w2
  IN  [w3 EXCEPT !.rec = Monitor(@, extra \cup own)]

-----------------------------------------------------------------------------
(* mmap, replayed: finish_anonymous_mmap, finish_direct_mmap,                *)
(* finish_private_mmap, finish_shared_mmap and process_mmap.                 *)

FinishAnonymous(w, v, a, n, prot, shared, grow) ==
  LET data == NextMap(w)
      f == data.km.file.f
      w1 == GetOrCreate(Assert_(w, data.src = "zero", "anonymous source"), w.fs, data.km)
      obj == IF shared THEN EmuObj(f, w.fs) ELSE NoFile
      w2 == IF shared THEN w1 ELSE w
      w3 == SetK(w2, "rep", v, KMmap(w2, w2.rep.as[v].k, a, a + n, obj, 0, prot, shared))
  IN  DoMap(PopMap(w3), "rep", v, KM(a, a + n, obj, 0, prot, shared, TRUE, grow, ""),
            data.km, IF shared THEN f ELSE NoEmu, NoStat)

\* write_mapped_data at page a, at most n pages.
FileTail(w, obj, off) == SubSeq(FileData(w, obj), off + 1, Len(FileData(w, obj)))
WriteMappedData(w, v, a, n, data) ==
  CASE data.src = "trace" -> SetDataFromTrace(w)
    [] data.src = "file" ->
         LET tail == FileTail(w, data.backing, data.km.off)
         IN  PokeAll(w, "rep", v, a, SubSeq(tail, 1, Min(n, Len(tail))))
    [] OTHER -> w

FinishPrivate(w, v, prot, off, km, data) ==
  LET w1 == SetK(w, "rep", v, KMmap(w, w.rep.as[v].k, km.s, km.e, NoFile, 0, prot, FALSE))
      w2 == DoMap(w1, "rep", v, KM(km.s, km.e, NoFile, off, prot, FALSE, TRUE, FALSE, ""),
                  km, NoEmu, NoStat)
  IN  WriteMappedData(w2, v, km.s, km.e - km.s, data)

FinishShared(w, v, prot, fds, off, km, data) ==
  LET f == km.file.f
      obj == EmuObj(f, w.fs)
      w1 == GetOrCreate(w, w.fs, km)
      w2 == SetK(w1, "rep", v, KMmap(w1, w1.rep.as[v].k, km.s, km.e, obj, off, prot, TRUE))
      w3 == DoMap(w2, "rep", v, KM(km.s, km.e, obj, off, prot, TRUE, FALSE, FALSE, ""),
                  km, f, NoStat)
      w4 == WriteMappedData(w3, v, km.s, km.e - km.s, data)
  IN  [w4 EXCEPT !.rep = Monitor(@, fds)]

\* The part of the file that exists is mapped from the file that backs it; what
\* lies beyond its end is made as if its content were zero.
ReplayFile(w0, v, fd, prot, shared, off) ==
  LET data == NextMap(w0)
      w == PopMap(w0)
      km == data.km
      n == km.e - km.s
      direct == IF data.src = "file" /\ data.size > km.off THEN Min(data.size - km.off, n) ELSE 0
      mid == km.s + direct
      w1 == SetK(w, "rep", v, KMmap(w, w.rep.as[v].k, km.s, mid, data.backing, km.off, prot, shared))
      w2 == IF direct = 0 THEN w
            ELSE DoMap(w1, "rep", v,
                       KM(km.s, mid, data.backing, off, prot, shared, FALSE, FALSE, ""),
                       Subrange(km, km.s, mid), NoEmu, NoStat)
      rest == Subrange(km, mid, km.e)
      left == IF direct = 0 THEN data ELSE [data EXCEPT !.src = "zero"]
      fds == data.fds \cup (IF data.skip THEN {} ELSE {<<v, fd>>})
      w3 == IF mid = km.e THEN w2
            ELSE IF shared THEN FinishShared(w2, v, prot, fds, off + direct, rest, left)
            ELSE FinishPrivate(Assert_(w2, data.fds = {}, "extra fds"), v, prot,
                               off + direct, rest, left)
  IN  ApplyAllDataRecords(w3)

-----------------------------------------------------------------------------
(* mremap, recorded and replayed.                                            *)

\* The moved part and then the grown one are written to the trace.
WriteRemapped(w, v, mm, osz, new, nsz, copied) ==
  LET moved == Subrange(mm.m, new, new + Min(nsz, osz))
      stat == IF mm.stat = NoStat THEN Min(nsz, osz) ELSE mm.stat
      grown == Subrange(mm.m, new + osz, new + nsz)
      size == IF stat = 0 THEN mm.m.off + nsz ELSE stat
      end == IF size > grown.off THEN size - grown.off ELSE 0
      w2 == WriteMappedRegion(w, moved, stat, "remap", {}, FALSE, FALSE)
      WithGrown(w3) == IF InTrace(w3)
                       THEN RecordRemoteFallible(w3, v, grown.s, Min(end, nsz - osz)) ELSE w3
  IN  IF osz >= nsz THEN w2
      ELSE WithGrown(WriteMappedRegion(w2, grown, size, "syscall", {}, FALSE, copied))
RecordMremap(w, v, old, osz, new, nsz, copied) ==
  LET k == KMremap(w, w.rec.as[v].k, old, osz, new, nsz)
      w1 == SetK([w EXCEPT !.rec.as[v] = Remap(@, old, osz, new, nsz)], "rec", v, k)
      Written(x) == WriteRemapped(x, v, MappingOf(x.rec.as[v].mem, new), osz, new, nsz, copied)
  IN  Written(w1)

\* AddressSpace::ensure_replay_matches_single_recorded_mapping: pieces that were
\* mapped directly become anonymous copies, and all pieces are merged.
Anonymous(mm) ==
  [mm EXCEPT !.m = KM(@.s, @.e, NoFile, 0, @.prot, @.shared, TRUE, @.grow, "")]
\* Variant of EnsureSingle that does nothing.
LeavePieces(w, v, a, n) == w
EnsureSingle(w, v, a, n) ==
  LET as == w.rep.as[v]
      hit == {x \in as.mem : Intersects(x.m, a, a + n) /\ <<x.m.s, x.m.e>> # <<a, a + n>>}
      direct == {x \in hit : ~ x.m.anon}
      copied(p) == \E x \in direct : x.m.s <= p /\ p < x.m.e
      mem == (as.mem \ direct) \cup {Anonymous(x) : x \in direct}
      it == CHOOSE x \in mem : Intersects(x.m, a, a + n)
      w1 == [w EXCEPT
               !.rep.as[v].mem = CoalesceAround(mem, it),
               !.rep.as[v].k = [p \in Pages |->
                  IF copied(p)
                  THEN [PageAt(w, NoFile, 0, 0, @[p].prot, FALSE) EXCEPT !.val = Content(w, as.k[p])]
                  ELSE @[p]]]
  IN  IF \E x \in hit : x.m.shared \/ x.emu # NoEmu THEN Fail(w, "single mapping") ELSE w1

\* What follows the remapping w: memory the file behind it is too short for
\* becomes anonymous, and the data of the grown part are written.
FinishMremap(w, v, osz, new, nsz, found, data) ==
  LET mm == MappingOf(w.rep.as[v].mem, new)
      short == /\ mm.emu = NoEmu /\ nsz > osz /\ mm.m.file # NoFile
               /\ Len(FileData(w, mm.m.file)) < mm.m.off + nsz
      named == mm.m.file # NoFile /\ ~ short
      anon == KM(new, new + nsz, NoFile, mm.m.off, mm.m.prot, FALSE, TRUE, FALSE, "")
      w4 == SetK([w EXCEPT !.rep.as[v] = Unmap(@, new, new + nsz)], "rep", v,
                 KMmap(w, w.rep.as[v].k, new, new + nsz, NoFile, 0, mm.m.prot, FALSE))
      Filled(w5) == IF found /\ (data.src # "file" \/ mm.emu # NoEmu \/ ~ named)
                    THEN WriteMappedData(w5, v, new + osz, nsz - osz, data) ELSE w5
  IN  Filled(IF mm.emu # NoEmu THEN EnsureSize(w, w.fs, mm.emu, mm.m.off + nsz)
             ELSE IF short THEN PokeAll(DoMap(w4, "rep", v, anon, mm.r, NoEmu, NoStat),
                                        "rep", v, new, ReadMem(w, "rep", v, new, osz))
             ELSE w)
MoveReplayed(w1, v, old, osz, new, nsz) ==
  LET found == w1.maps # <<>>
      w2 == IF found THEN PopMap(w1) ELSE w1
      Moved(w) == SetK([w EXCEPT !.rep.as[v] = Remap(@, old, osz, new, nsz)], "rep", v,
                       KMremap(w, w.rep.as[v].k, old, osz, new, nsz))
  IN  IF w1.fault # "" THEN w1
      ELSE IF ~ OneArea(w2.rep.as[v].k, old, osz) THEN Fail(w2, "mremap fails")
      ELSE FinishMremap(Moved(w2), v, osz, new, nsz, found, NextMap(w1))
ReplayMremap(w, v, old, osz, new, nsz) ==
  MoveReplayed(PopMap(EnsureSingle(w, v, old, osz)), v, old, osz, new, nsz)

-----------------------------------------------------------------------------
(* brk, shmat and shmdt.                                                     *)

RecordBrk(w, v, addr) ==
  LET as == w.rec.as[v]
      up == as.brk < addr
      km == IF up THEN [BrkMapping(as.brk, addr, "rw") EXCEPT !.anon = FALSE]
            ELSE KM(addr, as.brk, NoFile, 0, "", FALSE, FALSE, FALSE, "")
      k == IF up THEN KMmap(w, as.k, as.brk, addr, NoFile, 0, "rw", FALSE)
           ELSE KMunmap(as.k, addr, as.brk)
      w1 == WriteMappedRegion(w, km, km.e - km.s, "syscall", {}, FALSE, FALSE)
  IN  SetK([w1 EXCEPT !.rec.as[v] = Brk(@, addr, "rw")], "rec", v, k)

\* process_brk: a record without flags stands for an unmapping.
ReplayBrk(w0, v) ==
  LET data == NextMap(w0)
      km == data.km
      w == PopMap(w0)
      k == w.rep.as[v].k
  IN  IF km.prot # ""
      THEN DoMap(SetK(w, "rep", v, KMmap(w, k, km.s, km.e, NoFile, 0, km.prot, FALSE)),
                 "rep", v, [km EXCEPT !.anon = TRUE], km, NoEmu, NoStat)
      ELSE SetK([w EXCEPT !.rep.as[v] = Unmap(@, km.s, km.e)], "rep", v,
                KMunmap(k, km.s, km.e))

RecordShmat(w, v, a, prot) ==
  LET km == KM(a, a + ShmSize, Disk("v"), 0, prot, TRUE, FALSE, FALSE, "")
      w1 == SetK(w, "rec", v, KMmap(w, w.rec.as[v].k, a, km.e, Disk("v"), 0, prot, TRUE))
      w2 == DoMap(w1, "rec", v, km, km, NoEmu, NoStat)
      w3 == WriteMappedRegion([w2 EXCEPT !.rec.as[v].shm = @ \cup {a}],
                              km, ShmSize, "syscall", {}, FALSE, FALSE)
  IN  RecordRemote(Assert_(w3, InTrace(w3), "shm data"), v, a, ShmSize)

ReplayShmat(w0, v, prot) ==
  LET data == NextMap(w0)
      w1 == FinishShared(PopMap(w0), v, prot, {}, 0, data.km, data)
  IN  ApplyAllDataRecords([w1 EXCEPT !.rep.as[v].shm = @ \cup {data.km.s}])

\* The kernel detaches the pages of the segment that are where shmat put them
\* in relation to a, and no others.
Attached(k, a) == {p \in Pages : k[p].obj.f = "v" /\ p - a = k[p].off}
\* Task::on_syscall_exit's process_shmdt.
ShmSizeAt(as, a) == IF a \in as.shm THEN ShmSize ELSE 0
ForgetShm(as, a) == Unmap([as EXCEPT !.shm = @ \ {a}], a, a + ShmSizeAt(as, a))

RecordShmdt(w, v, a) ==
  LET k == w.rec.as[v].k
  IN  SetK([w EXCEPT !.rec.as[v] = ForgetShm(@, a)], "rec", v,
           [p \in Pages |-> IF p \in Attached(k, a) THEN Unmapped ELSE k[p]])
ReplayShmdt(w, v, a) ==
  LET as == w.rep.as[v]
      n == ShmSizeAt(as, a)
      w1 == SetK([w EXCEPT !.rep.as[v] = ForgetShm(@, a)], "rep", v, KMunmap(as.k, a, a + n))
  IN  Assert_(w1, n > 0, "munmap of nothing")

-----------------------------------------------------------------------------
(* munmap, mprotect, madvise: Task::on_syscall_exit in both sessions.  The   *)
(* replay makes the same call, except for advice without effect on content.  *)

BothMunmap(w, v, a, b) ==
  LET one(side) == [side EXCEPT !.as[v] = [Unmap(@, a, b) EXCEPT !.k = KMunmap(@, a, b)]]
  IN  [w EXCEPT !.rec = one(@), !.rep = one(@)]

BothMprotect(w, v, a, b, prot) ==
  LET one(side) == [side EXCEPT !.as[v] =
                      [Protect(@, a, b, prot) EXCEPT !.k = KMprotect(@, a, b, prot)]]
  IN  Assert_([w EXCEPT !.rec = one(@), !.rep = one(@)],
              KReach(w.rec.as[v].k, a, b) = KReach(w.rep.as[v].k, a, b), "mprotect result")

BothMadvise(w, v, a, b, advice) ==
  LET one(side) == [side EXCEPT !.as[v] = Advise(@, a, b, advice)]
      w1 == [w EXCEPT !.rec = one(@), !.rep = one(@)]
      w2 == SetK(w1, "rec", v, KMadvise(w, w.rec.as[v].k, a, b, advice))
  IN  IF advice # "dontneed" THEN w2
      ELSE SetK(w2, "rep", v, KMadvise(w, w.rep.as[v].k, a, b, advice))

-----------------------------------------------------------------------------
(* execve and the growth of a stack.                                         *)

\* restore_mapped_region: a mapping made again from its record alone.
RestoreMappedRegion(w, v, data) ==
  LET km == data.km
      file == data.backing
      k == KMmap(w, w.rep.as[v].k, km.s, km.e, file, km.off, km.prot, FALSE)
      own == KM(km.s, km.e, file, IF data.src = "file" THEN km.off ELSE 0, km.prot,
                FALSE, km.anon \/ data.src # "file", km.grow, "")
  IN  DoMap(SetK(Assert_(w, ~ km.shared, "shared after exec"), "rep", v, k),
            "rep", v, own, km, NoEmu, NoStat)
RECURSIVE RestoreAll(_, _)
RestoreAll(w, v) ==
  IF w.maps = <<>> THEN w ELSE RestoreAll(RestoreMappedRegion(PopMap(w), v, NextMap(w)), v)

EmptySpace ==
  [live |-> TRUE, mem |-> {}, dont |-> {}, shm |-> {}, brk |-> BrkStart,
   k |-> [p \in Pages |-> Unmapped]]

\* The kernel's new address space: the executable at page 0 and the stack.
ExeMapping == KM(0, 1, Disk("s"), 0, "r", FALSE, FALSE, FALSE, "")
StackMapping == KM(Stack, Stack + 1, NoFile, 0, "rw", FALSE, FALSE, TRUE, "stack")
ScratchMapping == KM(Scratch, Scratch + 1, NoFile, 0, "rwx", FALSE, TRUE, FALSE, "")
ExecPages(w) ==
  LET k1 == KMmap(w, EmptySpace.k, 0, 1, Disk("s"), 0, "r", FALSE)
      k2 == KMmap(w, k1, Stack, Stack + 1, NoFile, 0, "rw", FALSE)
      k3 == KMmap(w, k2, Scratch, Scratch + 1, NoFile, 0, "rwx", FALSE)
  IN  [k3 EXCEPT ![Stack].val = "args"]

\* process_execve of record_syscall.cc: the stack's record comes first, the
\* scratch mapping's last; the last page of what is not in the trace is.
RecordExec(w, v) ==
  LET whole(km) == [m |-> km, r |-> km, emu |-> NoEmu, stat |-> NoStat]
      w1 == [w EXCEPT !.rec.as[v] =
               [EmptySpace EXCEPT !.mem = {whole(ExeMapping), whole(StackMapping)},
                                  !.k = ExecPages(w)]]
      w2 == WriteMappedRegion(w1, StackMapping, 1, "exec", {}, FALSE, FALSE)
      w3 == RecordRemote(Assert_(w2, InTrace(w2), "stack data"), v, Stack, 1)
      w4 == WriteMappedRegion(w3, ExeMapping, Len(w.disk.s), "exec", {}, FALSE, FALSE)
      w5 == RecordRemote(w4, v, 0, 1)
      w6 == DoMap(w5, "rec", v, ScratchMapping, ScratchMapping, NoEmu, NoStat)
  IN  WriteMappedRegion(w6, ScratchMapping, 0, "syscall", {}, FALSE, FALSE)

\* process_execve of replay_syscall.cc: a stub is executed, all its mappings
\* are removed, and every record restored, the stack first.
ReplayExec(w, v) ==
  LET w1 == [w EXCEPT !.rep.as[v] = EmptySpace]
      w2 == Assert_(w1, NextMap(w).km.name = "stack", "can't find stack")
  IN  ApplyAllDataRecords(RestoreAll(w2, v))

\* try_grow_map of record_signal.cc, for an access to page p.
GrowSize == 2
NextAbove(mem, p) == CHOOSE x \in mem : x.m.s > p /\ \A y \in mem : y.m.s > p => x.m.s <= y.m.s
CanGrow(mem, p) ==
  /\ ~ HasMapping(mem, p)
  /\ \E x \in mem : x.m.s > p
  /\ NextAbove(mem, p).m.grow
  /\ ~ HasMapping(mem, p - 1)
GrowStart(mem, p) ==
  LET above == NextAbove(mem, p).m
      lower == Min(p, above.s - GrowSize)
  IN  IF /\ above.s >= GrowSize /\ lower >= 1
         /\ \A q \in (lower - 1) .. p : ~ HasMapping(mem, q)
      THEN lower ELSE p
RecordGrow(w, v, p) ==
  LET mem == w.rec.as[v].mem
      above == NextAbove(mem, p).m
      km == KM(GrowStart(mem, p), above.s, NoFile, 0, above.prot, above.shared, TRUE,
               above.grow, "")
      w1 == SetK(w, "rec", v, KMmap(w, w.rec.as[v].k, km.s, km.e, NoFile, 0, km.prot, FALSE))
  IN  WriteMappedRegion(DoMap(w1, "rec", v, km, km, NoEmu, NoStat),
                        km, km.e - km.s, "syscall", {}, FALSE, FALSE)
\* process_grow_map
ReplayGrow(w, v) == RestoreMappedRegion(PopMap(w), v, NextMap(w))

-----------------------------------------------------------------------------
(* fork, threads and checkpoints.                                            *)

\* The copy of an AddressSpace: the ranges excluded from forks are not copied.
CopySpace(as) == [as EXCEPT !.dont = {}]
RECURSIVE UnmapAll(_, _)
UnmapAll(as, ranges) ==
  IF ranges = {} THEN as
  ELSE LET r == CHOOSE x \in ranges : TRUE
       IN  UnmapAll(Unmap(as, r[1], r[2]), ranges \ {r})

\* did_fork_into.  While recording the kernel has left the pages out.
Excluded(ranges, p) == \E r \in ranges : r[1] <= p /\ p < r[2]
ForkSide(side, kept) ==
  LET as == side.as[1]
      child == UnmapAll(CopySpace(as), as.dont)
  IN  [side EXCEPT
         !.as[2] = [child EXCEPT !.k = [p \in Pages |->
                      IF p \in kept THEN [as.k[p] EXCEPT !.df = FALSE] ELSE Unmapped]],
         !.mon[2] = side.mon[1]]
ForkBoth(w) ==
  LET kept == {p \in Pages : ~ w.rec.as[1].k[p].df}
      left == {p \in Pages : ~ Excluded(w.rep.as[1].dont, p)}
  IN  [w EXCEPT !.rec = ForkSide(@, kept), !.rep = ForkSide(@, left), !.open[2] = w.open[1]]

\* Task::clone with a shared address space (stacks in shared memory are left
\* out): the mapping that holds the new
\* stack is entered again under the name [stack].
ThreadStack(w, s, v, p) ==
  LET mm == MappingOf(w[s].as[v].mem, p)
      km == [mm.m EXCEPT !.name = "stack"]
  IN  IF ~ HasMapping(w[s].as[v].mem, p) \/ mm.r.name = "heap" THEN w
      ELSE DoMap(w, s, v, km, km, NoEmu, NoStat)

\* Session::copy_state_to into a session with an empty EmuFs fs: the kernel
\* forks every process; a shared mapping whose recorded file has an emulated
\* one is then mapped again from a copy of it (remap_shared_mmap).
ToRemap(w, as) == {x \in as.mem : x.r.shared /\ HasFileFor(w, w.fs, x.r.file.f)}
RemapSpace(w, as0, fs) ==
  LET as == CopySpace(as0)
      moved == ToRemap(w, as)
      own(x) == [x EXCEPT !.m.file = EmuObj(x.r.file.f, fs), !.emu = x.r.file.f, !.stat = NoStat]
      at(p) == CHOOSE x \in moved : x.m.s <= p /\ p < x.m.e
  IN  [as EXCEPT
         !.mem = (@ \ moved) \cup {own(x) : x \in moved},
         !.k = [p \in Pages |->
           IF \E x \in moved : x.m.s <= p /\ p < x.m.e
           THEN PageAt(w, EmuObj(at(p).r.file.f, fs), at(p).m.off, p - at(p).m.s,
                       at(p).m.prot, TRUE)
           ELSE @[p]]]
ClonedFiles(w) == {x.r.file.f : x \in UNION {ToRemap(w, w.rep.as[v]) : v \in Vms}}
\* Variant of CopyStateTo that makes the emulated files but does not copy them.
CopyNoData(w, fs) ==
  LET w1 == [w EXCEPT !.emu[fs] = [f \in ClonedFiles(w) |-> Zeros(Len(w.emu[w.fs][f]))]]
  IN  [w1 EXCEPT !.ck.side = [w.rep EXCEPT !.as = [v \in Vms |-> RemapSpace(w1, @[v], fs)]],
                 !.ck.fs = fs]
CopyStateTo(w, fs) ==
  LET w1 == [w EXCEPT !.emu[fs] = [f \in ClonedFiles(w) |-> w.emu[w.fs][f]]]
  IN  [w1 EXCEPT !.ck.side = [w.rep EXCEPT !.as = [v \in Vms |-> RemapSpace(w1, @[v], fs)]],
                 !.ck.fs = fs]

-----------------------------------------------------------------------------
(* Files: writes through a descriptor, stores to memory, open, dup, close.   *)

\* A private page that still shows the file is unspecified once that page of
\* the file has been written; pages the program stored to hold "m".
Unspecify(w, f, i) ==
  [w EXCEPT !.rec.as = [v \in Vms |-> [@[v] EXCEPT !.k = [p \in Pages |->
     IF ~ @[p].shared /\ @[p].obj = Disk(f) /\ @[p].off = i /\ @[p].val # "m"
     THEN [@[p] EXCEPT !.val = "?"] ELSE @[p]]]]]

\* write: the kernel writes page i of the file and the monitor is told; the
\* replay tells its monitor, then takes the records.
WriteBoth(w, v, fd, i) ==
  LET f == FileOf(fd)
      new == IF At(w.disk[f], i) = "d" THEN "e" ELSE "d"
      w1 == [w EXCEPT !.disk[f] = IF i < Len(@) THEN [@ EXCEPT ![i + 1] = new]
                                  ELSE Append(@, new)]
      w2 == DidWrite(Unspecify(w1, f, i), "rec", v, fd, i)
  IN  ApplyAllDataRecords(DidWrite(w2, "rep", v, fd, i))

Writable(w, s, v, p) ==
  LET pg == w[s].as[v].k[p]
  IN  pg.prot \in {"rw", "rwx"} /\ Content(w, pg) # "bus"
StoreBoth(w, v, p) ==
  LET pg == w.rec.as[v].k[p]
      w1 == Poke(w, "rec", v, p, "m")
      w2 == IF pg.shared THEN Unspecify(w1, pg.obj.f, pg.off) ELSE w1
  IN  IF Writable(w, "rep", v, p) THEN Poke(w2, "rep", v, p, "m") ELSE Fail(w2, "fault")

\* handle_opened_file and handle_opened_files: a descriptor that can write a
\* file mapped shared is monitored from the start.
IsMappedShared(w, f) ==
  \E v \in Vms : \E x \in w.rec.as[v].mem :
    x.m.shared /\ x.stat # NoStat /\ x.m.file = Disk(f)
OpenBoth(w, v, fd) ==
  LET f == FileOf(fd)
      w1 == [w EXCEPT !.open[v] = @ \cup {fd}]
  IN  IF ~ (IsMappedShared(w, f) /\ IsWritable(fd)) THEN w1
      ELSE IF ~ HasFileFor(w, w.fs, f) THEN Fail(w1, "no emulated file")
      ELSE [w1 EXCEPT !.rec = Monitor(@, {<<v, fd>>}), !.rep = Monitor(@, {<<v, fd>>})]

\* FdTable::did_dup and did_close.
DupBoth(w, v, from, to) ==
  LET one(side) == [side EXCEPT !.mon[v][to] = side.mon[v][from]]
  IN  [w EXCEPT !.open[v] = @ \cup {to}, !.rec = one(@), !.rep = one(@)]
CloseBoth(w, v, fd) ==
  LET one(side) == [side EXCEPT !.mon[v][fd] = NoMon]
  IN  [w EXCEPT !.open[v] = @ \ {fd}, !.rec = one(@), !.rep = one(@)]

-----------------------------------------------------------------------------
(* The calls of the program.                                                 *)

\* What programs rarely do and the code does not reproduce.  Each kind is left
\* out unless Odd names it:
\*   eof        maps part of a file that starts beyond its end
\*   sharedeof  maps a file that is not copied shared, beyond its end
\*   stat       mremap grows a mapping of a file that was resized since
\*   clone      mremap grows a mapping of a cloned file that was written since
\*   partshared mremap moves part of a shared mapping
\*   mid        mremap moves a part of a file mapping other than its start
\*   dontneed   MADV_DONTNEED on a mapping of a file that is replayed as private
\*   dontfork   touches part of a MADV_DONTFORK range that starts before it, or
\*              starts a thread whose stack is in one
\*   shm        shmdt after parts of the segment were moved or replaced
\*   thread     starts a thread whose stack is in a mapping of a file
\*   ckfork     forks after a checkpoint with MADV_DONTFORK in force
Usual(kind, usual) == kind \in Odd \/ usual

Found(ranges, s, e) == \A r \in ranges : r[1] < e /\ s < r[2] => ~ Sorts(r, s, e)
Touches(v, s, e) == Usual("dontfork", Found(st.rec.as[v].dont, s, e))
Ready(v) == st.fault = "" /\ st.rec.as[v].live

\* A call without effect is not counted.
Done(w, counter) ==
  \E new \in {[DestroyedFiles(w) EXCEPT !.maps = <<>>, !.raw = <<>>]} :
    st' = IF new = st THEN st
          ELSE [new EXCEPT !.n[counter] = @ + 1, !.n.steps = @ + 1]
Counted(counter, bound) == st.n[counter] < bound /\ st.n.steps < MaxSteps

FreeZs == {z \in Zs : st.disk[z] = <<>>}
MmapAnonymous(v) ==
  /\ Ready(v) /\ Counted("maps", MaxMaps)
  /\ \E r \in MapRanges, how \in Anons :
       /\ Touches(v, r[1], r[1] + r[2])
       /\ how[2] => FreeZs # {}
       /\ LET z == IF how[2] THEN CHOOSE x \in FreeZs : TRUE ELSE "z1"
              w == RecordAnonymous(st, v, r[1], r[2], how[1], how[2], how[3], z)
          IN  Done(FinishAnonymous(w, v, r[1], r[2], how[1], how[2], how[3]), "maps")

MmapFile(v) ==
  /\ Ready(v) /\ Counted("maps", MaxMaps)
  /\ \E r \in MapRanges, how \in FileMaps, copied \in BOOLEAN :
       LET fd == how[1]
           f == FileOf(fd)
       IN  /\ Touches(v, r[1], r[1] + r[2])
           /\ fd \in st.open[v]
           /\ how[3] /\ how[2] = "rw" => IsWritable(fd)
           /\ copied => f = "c" /\ ~ how[3]
           /\ Usual("eof", how[4] <= Len(st.disk[f]))
           /\ Usual("sharedeof", f = "s" /\ how[3] => how[4] + r[2] <= Len(st.disk.s))
           /\ Done(ReplayFile(RecordFile(st, v, fd, r[1], r[2], how[2], how[3], how[4], copied),
                              v, fd, how[2], how[3], how[4]), "maps")

Munmap(v) ==
  /\ Ready(v) /\ Counted("calls", MaxCalls)
  /\ \E r \in CallRanges :
       /\ Touches(v, r[1], r[1] + r[2])
       /\ Done(BothMunmap(st, v, r[1], r[1] + r[2]), "calls")

\* A shared mapping is not made writable: whether that is allowed depends on
\* how its file was opened.
Mprotect(v) ==
  /\ Ready(v) /\ Counted("calls", MaxCalls)
  /\ \E r \in CallRanges, prot \in {"r", "rw"} :
       /\ prot = "rw" => \A p \in r[1] .. (r[1] + r[2] - 1) : ~ st.rec.as[v].k[p].shared
       /\ Done(BothMprotect(st, v, r[1], r[1] + r[2], prot), "calls")

Mremap(v) ==
  /\ Ready(v) /\ Counted("calls", MaxCalls)
  /\ \E r \in Moves, copied \in BOOLEAN :
       LET old == r[1]  osz == r[2]  new == r[3]  nsz == r[4]
           as == st.rec.as[v]
           mm == MappingOf(as.mem, old)
       IN  /\ OneArea(as.k, old, osz)
           /\ old = new => \A p \in (old + osz) .. (old + nsz - 1) : ~ Mapped(as.k, p)
           /\ Touches(v, old, old + osz) /\ Touches(v, new, new + nsz)
           /\ copied => nsz > osz /\ mm.m.file = Disk("c") /\ ~ mm.m.shared
           /\ Usual("partshared", mm.m.shared => mm.m.s = old /\ mm.m.e = old + osz)
           /\ Usual("mid", IsRealDevice(mm.m) => mm.m.s = old)
           /\ Usual("stat", nsz > osz /\ mm.stat # NoStat => mm.stat = Len(st.disk[mm.m.file.f]))
           /\ Usual("clone", nsz > osz /\ st.rep.as[v].k[old].obj.k = "clone"
                               => st.rep.as[v].k[old].obj.snap = st.disk[mm.m.file.f])
           /\ Done(ReplayMremap(RecordMremap(st, v, old, osz, new, nsz, copied),
                                v, old, osz, new, nsz), "calls")

Madvise(v) ==
  /\ Ready(v) /\ Counted("calls", MaxCalls)
  /\ \E r \in CallRanges, advice \in Advices :
       LET pages == r[1] .. (r[1] + r[2] - 1)
           k == st.rec.as[v].k
       IN  /\ \A p \in pages : Mapped(k, p)
           /\ advice # "dontneed" => Touches(v, r[1], r[1] + r[2])
           /\ Usual("dontneed", advice = "dontneed" =>
                      \A p \in pages : k[p].obj = NoFile \/ st.rep.as[v].k[p].shared)
           /\ Done(BothMadvise(st, v, r[1], r[1] + r[2], advice), "calls")

SetBrk(v) ==
  /\ Ready(v) /\ Counted("calls", MaxCalls)
  /\ \E addr \in Breaks \ {st.rec.as[v].brk} :
       LET brk == st.rec.as[v].brk
       IN  /\ addr > brk => \A p \in brk .. (addr - 1) : ~ Mapped(st.rec.as[v].k, p)
           /\ Touches(v, Min(addr, brk), IF addr < brk THEN brk ELSE addr)
           /\ Done(ReplayBrk(RecordBrk(st, v, addr), v), "calls")

Shmat(v) ==
  /\ Ready(v) /\ Counted("maps", MaxMaps)
  /\ \E a \in ShmAddrs, prot \in {"r", "rw"} :
       /\ \A p \in a .. (a + ShmSize - 1) : ~ Mapped(st.rec.as[v].k, p)
       /\ Touches(v, a, a + ShmSize)
       /\ Done(ReplayShmat(RecordShmat(st, v, a, prot), v, prot), "maps")
Shmdt(v) ==
  /\ Ready(v) /\ Counted("calls", MaxCalls)
  /\ \E a \in ShmAddrs :
       LET here == Attached(st.rec.as[v].k, a)
       IN  /\ here # {}
           /\ Touches(v, a, a + ShmSize)
           /\ Usual("shm", here = a .. (a + ShmSize - 1) /\ a \in st.rec.as[v].shm)
           /\ Done(ReplayShmdt(RecordShmdt(st, v, a), v, a), "calls")

Fork ==
  /\ Ready(1) /\ ~ st.rec.as[2].live /\ Counted("forks", MaxForks)
  /\ Usual("ckfork", st.rec.as[1].dont = st.rep.as[1].dont)
  /\ Done(ForkBoth(st), "forks")
Execve(v) ==
  /\ Ready(v) /\ Counted("execs", MaxExecs)
  /\ Done(ReplayExec(RecordExec(st, v), v), "execs")
GrowMap(v) ==
  /\ Ready(v) /\ Counted("calls", MaxCalls)
  /\ \E p \in Pages :
       /\ CanGrow(st.rec.as[v].mem, p)
       /\ Touches(v, GrowStart(st.rec.as[v].mem, p), NextAbove(st.rec.as[v].mem, p).m.s)
       /\ Done(ReplayGrow(RecordGrow(st, v, p), v), "calls")
CloneThread(v) ==
  /\ Ready(v) /\ Counted("calls", MaxCalls)
  /\ \E p \in Pages \ {Scratch} :
       /\ Mapped(st.rec.as[v].k, p)
       /\ LET km == MappingOf(st.rec.as[v].mem, p).m
          IN  /\ ~ km.shared
              /\ Usual("thread", ~ IsRealDevice(km))
              /\ Usual("dontfork", ~ \E r \in st.rec.as[v].dont : Intersects(km, r[1], r[2]))
       /\ Done(ThreadStack(ThreadStack(st, "rec", v, p), "rep", v, p), "calls")

MaxFile == 2    \* pages a file may grow to
Write(v) ==
  /\ Ready(v) /\ Counted("writes", MaxWrites)
  /\ \E fd \in {x \in st.open[v] : IsWritable(x)} : \E i \in 0 .. Len(st.disk[FileOf(fd)]) :
       i < MaxFile /\ Done(WriteBoth(st, v, fd, i), "writes")
Store(v) ==
  /\ Ready(v) /\ Counted("writes", MaxWrites)
  /\ \E p \in Pages \ {Scratch} :
       /\ Writable(st, "rec", v, p)
       /\ Content(st, st.rec.as[v].k[p]) # "m"
       /\ Done(StoreBoth(st, v, p), "writes")

\* x is opened, or made from w by dup, when no process holds an earlier x.
NoneHolds(v) == \A u \in Vms, fd \in Fds : st.rec.mon[u][fd] # <<v, "x">> /\ st.rep.mon[u][fd] # <<v, "x">>
Open(v) ==
  /\ Ready(v) /\ Counted("calls", MaxCalls) /\ "x" \notin st.open[v] /\ NoneHolds(v)
  /\ Done(OpenBoth(st, v, "x"), "calls")
Dup(v) ==
  /\ Ready(v) /\ Counted("calls", MaxCalls) /\ "x" \notin st.open[v]
  /\ Done(DupBoth(st, v, "w", "x"), "calls")
Close(v) ==
  /\ Ready(v) /\ Counted("calls", MaxCalls) /\ "x" \in st.open[v]
  /\ Done(CloseBoth(st, v, "x"), "calls")

\* The replay goes on in the session that was copied, or in the copy.
Contents(w, side) ==
  [v \in Vms |-> [p \in Pages |-> IF side.as[v].live THEN Content(w, side.as[v].k[p]) ELSE ""]]
Checkpoint ==
  /\ st.fault = "" /\ Counted("checkpoints", MaxCheckpoints) /\ st.ck.on = FALSE
  /\ \E resumed \in BOOLEAN :
       LET w == CopyStateTo(st, 1 - st.fs)
           kept == [w EXCEPT !.ck.on = TRUE, !.ck.snap = Contents(st, st.rep)]
       IN  Done(IF resumed THEN [kept EXCEPT !.rep = w.ck.side, !.fs = w.ck.fs,
                                             !.ck.side = st.rep, !.ck.fs = st.fs]
                ELSE kept, "checkpoints")

NoSide ==
  LET none == [EmptySpace EXCEPT !.live = FALSE]
      unmonitored == [w |-> NoMon, x |-> NoMon, r |-> NoMon, q |-> NoMon]
  IN  [as |-> <<none, none>>, mon |-> <<unmonitored, unmonitored>>, dead |-> {}]
Empty ==
  [disk |-> InitialDisk, emu |-> [i \in 0 .. 1 |-> [f \in {} |-> <<>>]],
   rec |-> NoSide, rep |-> NoSide, open |-> <<{"w", "r", "q"}, {"w", "r", "q"}>>,
   fs |-> 0, ck |-> [on |-> FALSE, side |-> NoSide, fs |-> 1, snap |-> <<>>],
   maps |-> <<>>, raw |-> <<>>, fault |-> "",
   n |-> [maps |-> 0, calls |-> 0, writes |-> 0, forks |-> 0, execs |-> 0, checkpoints |-> 0,
         steps |-> 0]]

\* The program starts with an exec.
Init == st = ReplayExec(RecordExec(Empty, 1), 1)
Next ==
  \/ Fork \/ Checkpoint
  \/ \E v \in Vms :
       \/ MmapAnonymous(v) \/ MmapFile(v) \/ Munmap(v) \/ Mprotect(v) \/ Mremap(v)
       \/ Madvise(v) \/ SetBrk(v) \/ Shmat(v) \/ Shmdt(v) \/ Execve(v) \/ GrowMap(v)
       \/ CloneThread(v) \/ Write(v) \/ Store(v) \/ Open(v) \/ Dup(v) \/ Close(v)
Spec == Init /\ [][Next]_st

-----------------------------------------------------------------------------
(* Properties.                                                               *)

Lives == {v \in Vms : st.rec.as[v].live}

\* Every page the tracee can see is as it was: after any sequence of calls a
\* replayed process has the pages the recorded one had, with the same
\* protection and the same content, although most mappings of files are
\* replayed from copies, from the trace or from emulated files
\* (finish_private_mmap, finish_shared_mmap, process_mremap,
\* MmappedFileMonitor::did_write).  Left out are pages beyond the end of a file
\* and private pages whose file was written after they were mapped.
ReplaySame ==
  st.fault = "" => \A v \in Lives, p \in Pages :
    LET was == st.rec.as[v].k[p]
        is == st.rep.as[v].k[p]
    IN  /\ (was = Unmapped) = (is = Unmapped)
        /\ was.prot = is.prot
        /\ Content(st, was) \in {"bus", "?", Content(st, is)}

\* The map rr keeps agrees with the kernel's on every page of every process,
\* in the recording and in the replay: what AddressSpace::verify asserts.
AgreesWithKernel(w, as) ==
  \A p \in Pages :
    /\ HasMapping(as.mem, p) = (as.k[p] # Unmapped)
    /\ as.k[p] # Unmapped =>
         LET km == MappingOf(as.mem, p).m
         IN  /\ km.prot = as.k[p].prot /\ km.shared = as.k[p].shared
             /\ km.file = as.k[p].obj
             /\ IsRealDevice(km) => km.off + (p - km.s) = as.k[p].off
CacheTrue ==
  st.fault = "" => \A v \in Lives :
    AgreesWithKernel(st, st.rec.as[v]) /\ AgreesWithKernel(st, st.rep.as[v])

\* The recorded mapping a replay keeps beside each of its own, which names
\* files and offsets to the debugger and to EmuFs, is the mapping of the
\* recording at that page (Mapping::recorded_map).
RecordedTrue ==
  st.fault = "" => \A v \in Lives, p \in Pages :
    HasMapping(st.rec.as[v].mem, p) /\ HasMapping(st.rep.as[v].mem, p) =>
      LET was == MappingOf(st.rec.as[v].mem, p).m
          is == MappingOf(st.rep.as[v].mem, p).r
      IN  /\ was.file = is.file /\ was.prot = is.prot /\ was.shared = is.shared
          /\ IsRealDevice(was) => was.off + (p - was.s) = is.off + (p - is.s)

\* A checkpoint and the session it was taken of do not share memory: whichever
\* of the two is set aside keeps the content of every page, also that of shared
\* mappings, whatever the other one goes on to do (Session::copy_state_to,
\* remap_shared_mmap, EmuFile::clone).
CheckpointKept == st.ck.on => Contents(st, st.ck.side) = st.ck.snap

\* None of the assertions on the way fails: records are found where they are
\* read, what is merged shares its emulated file, mremap and mprotect succeed
\* as they did, and no store faults that did not fault in the recording.
NoAssertFails == st.fault = ""
=============================================================================
