---------------------------- MODULE TraceStream ----------------------------
(***************************************************************************)
(* A trace directory: the recorder that writes its four substreams and      *)
(* leaves a version file when they are complete (TraceWriter), and the      *)
(* readers that replay, checkpoints and rr dump open on it (TraceReader     *)
(* over CompressedReader).                                                  *)
(*                                                                          *)
(* A substream is a sequence of units, stored in blocks of BlockSize of     *)
(* them.  A message takes one to three units, so that messages start and    *)
(* end anywhere in a block and straddle two.  The threads of                *)
(* CompressedWriter are taken at their word (OrderedStream): whole blocks   *)
(* are in the file in order, the rest when the writer is closed, and when   *)
(* the writer fails nothing more.                                           *)
(***************************************************************************)
EXTENDS Integers, Sequences, FiniteSets, SequencesExt

CONSTANTS
  Shapes,        \* what a recorded event may look like: see Shape below
  BlockSize,     \* units of a block
  MaxFrames,     \* bound on the events of a recording
  MaxFails,      \* bound on the substreams whose writer fails
  MaxPeeks,      \* bound on the uses of peek_frame and rewind
  Readers,       \* the readers: the first is opened, the others are copies
  First,         \* the reader that is opened
  Odd            \* uses of the reader that do not keep its promises, see Next

Substreams == <<"events", "data", "mmaps", "tasks">>

SubstreamSet == {Substreams[i] : i \in 1 .. Len(Substreams)}

(* A shape is an event with what is recorded for it: the lengths of its raw
   data, the number of regions it maps, and its task event or "none":
   [ev, raws, maps, task]. *)

VARIABLES
  w,             \* the recorder: TraceWriter
  dir,           \* the version file of the trace directory
  file,          \* the stored part of every substream: blocks
  rec,           \* the shapes recorded so far
  rd             \* the readers

vars == <<w, dir, file, rec, rd>>

-----------------------------------------------------------------------------
(* What write_frame makes of an event, and read_frame of the message.        *)

(* At most one of the three extra parts of a system call is stored: the
   offset of a write, the descriptors an exec closes, the files it opened. *)
to_trace_extra(ev) ==
  CASE ev.offset >= 0 -> [k |-> "writeOffset", v |-> <<ev.offset>>]
    [] ev.offset < 0 /\ ev.closes # <<>> -> [k |-> "execFdsToClose", v |-> ev.closes]
    [] ev.offset < 0 /\ ev.closes = <<>> /\ ev.opened # <<>> ->
         [k |-> "openedFds", v |-> ev.opened]
    [] OTHER -> [k |-> "none", v |-> <<>>]

Recordable ==
  {"INSTRUCTION_TRAP", "PATCH_SYSCALL", "SYSCALLBUF_ABORT_COMMIT", "SYSCALLBUF_RESET",
   "SCHED", "GROW_MAP", "SIGNAL", "SIGNAL_DELIVERY", "SIGNAL_HANDLER", "EXIT",
   "SYSCALLBUF_FLUSH", "SYSCALL"}

(* The message of an event: a restarted call is stored as restart_syscall. *)
to_trace_event(ev) ==
  [type |-> ev.type,
   number |-> IF ev.type = "SYSCALL" /\ ev.is_restart THEN "restart_syscall" ELSE ev.number,
   state |-> ev.state, disp |-> ev.disp, det |-> ev.det, mprotect |-> ev.mprotect,
   extra |-> IF ev.type = "SYSCALL" THEN to_trace_extra(ev) ELSE [k |-> "none", v |-> <<>>]]

(* The event of a message. *)
from_trace_event(m) ==
  [type |-> m.type, number |-> m.number, is_restart |-> FALSE,
   state |-> m.state, disp |-> m.disp, det |-> m.det, mprotect |-> m.mprotect,
   offset |-> IF m.extra.k = "writeOffset" THEN m.extra.v[1] ELSE -1,
   closes |-> IF m.extra.k = "execFdsToClose" THEN m.extra.v ELSE <<>>,
   opened |-> IF m.extra.k = "openedFds" THEN m.extra.v ELSE <<>>]

NoEvent ==
  [type |-> "none", number |-> "none", is_restart |-> FALSE, state |-> "none", disp |-> "none",
   det |-> FALSE, mprotect |-> <<>>, offset |-> -1, closes |-> <<>>, opened |-> <<>>]

(* What replay needs to get back: the event, with a restart under its own name. *)
AsReplayed(ev) ==
  [ev EXCEPT !.number = IF ev.is_restart THEN "restart_syscall" ELSE @, !.is_restart = FALSE]

-----------------------------------------------------------------------------
(* The recorder.                                                             *)

Stored(f) == FoldLeft(LAMBDA a, b : a \o b, <<>>, f)

(* The units of a message of n units. *)
Message(id, body, n) == [i \in 1 .. n |-> [id |-> id, i |-> i, n |-> n, body |-> body]]

(* CompressedWriter::write: whole blocks go to the file, the rest waits. *)
RECURSIVE Put(_, _)
Put(p, units) ==   \* p = [blocks, buf]
  LET all == p.buf \o units IN
  IF Len(all) < BlockSize THEN [p EXCEPT !.buf = all]
  ELSE Put([blocks |-> Append(p.blocks, SubSeq(all, 1, BlockSize)), buf |-> <<>>],
           SubSeq(all, BlockSize + 1, Len(all)))

(* The pair of files and buffers after the units of substream s. *)
Write(p, s, units) ==   \* p = [file, buf, failed]
  IF s \in p.failed THEN p
  ELSE LET q == Put([blocks |-> p.file[s], buf |-> p.buf[s]], units) IN
       [p EXCEPT !.file[s] = q.blocks, !.buf[s] = q.buf]

(* Sizes, in units: what matters is that messages and blocks do not line up. *)
FrameSize(shape) == IF shape.ev.type = "SYSCALL" THEN 3 ELSE 1

MapSize == 3

TaskSize == 1

write_raw(p, t, j, n) ==
  [Write(p, "data", [i \in 1 .. n |-> <<t, j, i>>]) EXCEPT
     !.raws = Append(@, [addr |-> j, size |-> n])]

write_mapped_region(p, t, j) ==
  Write(p, "mmaps", Message(<<t, j>>, [time |-> t, map |-> j], MapSize))

write_task_event(p, t, type) ==
  Write(p, "tasks", Message(<<t>>, [time |-> t, type |-> type], TaskSize))

(* write_frame: the raw data recorded since the last event go with this one,
   and the time moves on. *)
write_frame(p, t, shape) ==
  [Write(p, "events", Message(<<t>>, [ev |-> to_trace_event(shape.ev), mem |-> p.raws],
                              FrameSize(shape))) EXCEPT !.raws = <<>>, !.time = @ + 1]

(* A task event, regions, raw data, and the frame they belong to, as the
   recording of an event writes them. *)
RecordShape(p, shape) ==
  LET t  == p.time
      p1 == IF shape.task = "none" THEN p ELSE write_task_event(p, t, shape.task)
      p2 == FoldLeft(LAMBDA q, j : write_mapped_region(q, t, j), p1, [j \in 1 .. shape.maps |-> j])
      p3 == FoldLeft(LAMBDA q, j : write_raw(q, t, j, shape.raws[j]), p2,
                     [j \in 1 .. Len(shape.raws) |-> j])
  IN write_frame(p3, t, shape)

(* The constructor of TraceWriter, in the order in which others can see it:
   the directory, the substreams, the version file under its first name, its
   lock, and the version in it.  A substream whose file cannot be created has
   a writer that drops what it is given. *)
MakeTraceDir ==
  /\ w.pc = "start"
  /\ w' = [w EXCEPT !.pc = "dir"]
  /\ dir' = [dir EXCEPT !.made = TRUE]
  /\ UNCHANGED <<file, rec, rd>>

CreateIncomplete(failed) ==
  /\ w.pc = "dir"
  /\ w' = [w EXCEPT !.pc = "incomplete", !.failed = failed]
  /\ dir' = [dir EXCEPT !.name = "incomplete"]
  /\ UNCHANGED <<file, rec, rd>>

(* (The lock is not taken.) *)
NoLock ==
  /\ w.pc = "incomplete"
  /\ w' = [w EXCEPT !.pc = "locked"]
  /\ UNCHANGED <<dir, file, rec, rd>>

LockVersion ==
  /\ w.pc = "incomplete"
  /\ w' = [w EXCEPT !.pc = "locked"]
  /\ dir' = [dir EXCEPT !.locked = TRUE]
  /\ UNCHANGED <<file, rec, rd>>

WriteVersion ==
  /\ w.pc = "locked"
  /\ w' = [w EXCEPT !.pc = "rec"]
  /\ dir' = [dir EXCEPT !.empty = FALSE]
  /\ UNCHANGED <<file, rec, rd>>

(* An event is recorded. *)
RecordFrame(shape) ==
  /\ w.pc = "rec"
  /\ Len(rec) < MaxFrames
  /\ shape.ev.type \in Recordable
  /\ \E p \in {RecordShape([file |-> file, buf |-> w.buf, failed |-> w.failed,
                            raws |-> w.raws, time |-> w.time], shape)} :
       /\ w' = [w EXCEPT !.buf = p.buf, !.raws = p.raws, !.time = p.time]
       /\ file' = p.file
  /\ rec' = Append(rec, shape)
  /\ UNCHANGED <<dir, rd>>

(* The compression of a block of substream s fails: its writer stores no more,
   and TraceWriter is not told.  (A write that fails ends rr.) *)
FailCompress(s) ==
  /\ w.pc = "rec"
  /\ Cardinality(w.failed) < MaxFails
  /\ s \notin w.failed
  /\ w.buf[s] # <<>>
  /\ w' = [w EXCEPT !.failed = @ \cup {s}, !.buf[s] = <<>>]
  /\ UNCHANGED <<dir, file, rec, rd>>

(* terminate_recording, or emergency_debug on an error of rr: close().  The
   header says which, and nothing reads it. *)
BeginClose ==
  /\ w.pc = "rec"
  /\ w' = [w EXCEPT !.pc = "close", !.next = 1]
  /\ UNCHANGED <<dir, file, rec, rd>>

(* close() closes the writers one after the other: what they hold is stored. *)
CloseSubstream ==
  /\ w.pc = "close"
  /\ w.next <= Len(Substreams)
  /\ LET s == Substreams[w.next] IN
     /\ file' = IF w.buf[s] = <<>> THEN file
                ELSE [file EXCEPT ![s] = Append(@, w.buf[s])]
     /\ w' = [w EXCEPT !.next = @ + 1, !.buf[s] = <<>>]
  /\ UNCHANGED <<dir, rec, rd>>

(* (The version file gets its name while the last substream is open.) *)
PublishEarly ==
  /\ w.pc = "close"
  /\ w.next >= Len(Substreams)
  /\ w' = [w EXCEPT !.pc = "done"]
  /\ dir' = [dir EXCEPT !.name = "version", !.locked = FALSE]
  /\ UNCHANGED <<file, rec, rd>>

(* Then the header is written, the version file gets its name, and its lock
   is let go. *)
Publish ==
  /\ w.pc = "close"
  /\ w.next > Len(Substreams)
  /\ w' = [w EXCEPT !.pc = "done"]
  /\ dir' = [dir EXCEPT !.name = "version", !.locked = FALSE]
  /\ UNCHANGED <<file, rec, rd>>

(* rr is killed: what is not in the files is lost, and the lock with it. *)
Kill ==
  /\ w.pc \notin {"start", "done", "dead"}
  /\ w' = [w EXCEPT !.pc = "dead", !.buf = [s \in SubstreamSet |-> <<>>]]
  /\ dir' = [dir EXCEPT !.locked = FALSE]
  /\ UNCHANGED <<file, rec, rd>>

-----------------------------------------------------------------------------
(* CompressedReader: the reader of one substream.                            *)

(* The constructor. *)
OpenSubstream(f) ==
  [off |-> 0, buf |-> <<>>, pos |-> 0, eof |-> f = <<>>, error |-> FALSE,
   saved |-> FALSE, savedBuf |-> FALSE, soff |-> 0, spos |-> 0, sbuf |-> <<>>]

at_end(c) == c.eof /\ c.pos = Len(c.buf)

(* The next block is read.  The first refill after save_state keeps the
   buffer for restore_state. *)
refill_buffer(c, f) ==
  LET c1 == IF c.saved /\ ~c.savedBuf
            THEN [c EXCEPT !.buf = c.sbuf, !.sbuf = c.buf, !.savedBuf = TRUE] ELSE c
  IN IF c.off >= Len(f) THEN [c1 EXCEPT !.error = TRUE]
     ELSE [c1 EXCEPT !.off = @ + 1, !.buf = f[c.off + 1], !.pos = 0,
             !.eof = @ \/ (c.off + 1 = Len(f))]

(* read(), and skip() which throws the units away: [c, got], short if it fails. *)
RECURSIVE Fetch(_, _, _, _)
Fetch(c, f, n, got) ==
  CASE n = 0 \/ c.error -> [c |-> c, got |-> got]
    [] n > 0 /\ ~c.error /\ c.pos < Len(c.buf) ->
         LET m == IF n < Len(c.buf) - c.pos THEN n ELSE Len(c.buf) - c.pos
         IN Fetch([c EXCEPT !.pos = @ + m], f, n - m, got \o SubSeq(c.buf, c.pos + 1, c.pos + m))
    [] OTHER -> Fetch(refill_buffer(c, f), f, n, got)

read(c, f, n) == Fetch(c, f, n, <<>>)

(* A message is read: as many units as its first says.  "ok" when they are
   the units of one message; otherwise IOException, or garbage. *)
Parsed(c, m) ==
  [c |-> c, body |-> IF m = <<>> THEN {} ELSE {m[1].body},
   ok |-> m # <<>> /\ Len(m) = m[1].n /\ \A i \in DOMAIN m : m[i].i = i /\ m[i].id = m[1].id]

ReadRest(a, f) ==
  IF Len(a.got) # 1 THEN Parsed(a.c, <<>>)
  ELSE LET Joined(b) == Parsed(b.c, a.got \o b.got) IN Joined(read(a.c, f, a.got[1].n - 1))

ReadMessage(c, f) == ReadRest(read(c, f, 1), f)

save_state(c) ==
  [c EXCEPT !.saved = TRUE, !.savedBuf = FALSE, !.soff = c.off, !.spos = c.pos]

(* (A state restored with the end of the file it had seen.) *)
RestoreKeepsEof(c) ==
  [c EXCEPT !.saved = FALSE, !.off = c.soff,
     !.buf = IF c.savedBuf THEN c.sbuf ELSE @, !.sbuf = IF c.savedBuf THEN <<>> ELSE @,
     !.pos = c.spos]

restore_state(c) ==
  [c EXCEPT !.saved = FALSE, !.eof = IF c.soff < c.off THEN FALSE ELSE @, !.off = c.soff,
     !.buf = IF c.savedBuf THEN c.sbuf ELSE @, !.sbuf = IF c.savedBuf THEN <<>> ELSE @,
     !.pos = c.spos]

discard_state(c) ==
  [c EXCEPT !.saved = FALSE, !.sbuf = IF c.savedBuf THEN <<>> ELSE @]

rewind_substream(c) ==
  [c EXCEPT !.off = 0, !.pos = 0, !.buf = <<>>, !.eof = FALSE]

-----------------------------------------------------------------------------
(* TraceReader.  A reader is what it knows and, in last, what its last call
   returned; step counts the results of one kind that the current event has
   given so far. *)

Nothing == [k |-> "none", time |-> 0, n |-> 0, val |-> <<>>]

NoReader == [on |-> FALSE, time |-> 0, raws |-> <<>>, cs |-> <<>>, last |-> Nothing,
             ev |-> NoEvent, nraw |-> 0, nmap |-> 0, maps |-> TRUE, task |-> TRUE, peeks |-> 0]

Failed(r, what) == [r EXCEPT !.last = [k |-> "failed", time |-> r.time, n |-> 0, val |-> <<what>>]]

(* read_frame: the time ticks, and the list of raw data is built in reverse,
   so that records are taken from its end. *)
read_frame(r) ==
  LET m == ReadMessage(r.cs["events"], file["events"]) IN
  IF ~m.ok THEN Failed([r EXCEPT !.cs["events"] = m.c], "IOException")
  ELSE LET body == CHOOSE b \in m.body : TRUE
           ev   == from_trace_event(body.ev)
       IN [r EXCEPT !.cs["events"] = m.c, !.time = @ + 1, !.raws = Reverse(body.mem),
             !.ev = ev, !.nraw = 0, !.nmap = 0, !.maps = FALSE, !.task = FALSE,
             !.last = [k |-> "frame", time |-> r.time + 1, n |-> 0, val |-> <<ev>>]]

(* read_raw_data_for_frame: the last record of the list, and as many units. *)
read_raw_data(r) ==
  LET d == r.raws[Len(r.raws)]
      g == read(r.cs["data"], file["data"], d.size)
  IN [r EXCEPT !.cs["data"] = g.c, !.raws = Front(@), !.nraw = @ + 1,
        !.last = [k |-> "raw", time |-> r.time, n |-> r.nraw + 1, val |-> g.got]]

(* read_mapped_region for the current time: a region of another time is put
   back. *)
read_mapped_region(r) ==
  LET c == r.cs["mmaps"]
      m == ReadMessage(save_state(c), file["mmaps"])
  IN IF at_end(c) THEN [r EXCEPT !.maps = TRUE,
                          !.last = [k |-> "nomap", time |-> r.time, n |-> r.nmap, val |-> <<>>]]
     ELSE IF ~m.ok THEN Failed([r EXCEPT !.cs["mmaps"] = m.c], "IOException")
     ELSE LET body == CHOOSE b \in m.body : TRUE IN
          IF body.time # r.time
          THEN [r EXCEPT !.cs["mmaps"] = restore_state(m.c), !.maps = TRUE,
                  !.last = [k |-> "nomap", time |-> r.time, n |-> r.nmap, val |-> <<>>]]
          ELSE [r EXCEPT !.cs["mmaps"] = discard_state(m.c), !.nmap = @ + 1,
                  !.last = [k |-> "map", time |-> r.time, n |-> r.nmap + 1, val |-> <<body>>]]

(* read_task_trace_event of replay: events of other types and times are
   passed over until the one of this time is found. *)
RECURSIVE FindTask(_, _, _)
FindTask(r, c, type) ==
  IF at_end(c) THEN Failed([r EXCEPT !.cs["tasks"] = c], "no task event")
  ELSE LET m == ReadMessage(c, file["tasks"]) IN
       IF ~m.ok THEN Failed([r EXCEPT !.cs["tasks"] = m.c], "IOException")
       ELSE LET body == CHOOSE b \in m.body : TRUE IN
            IF body.type # type \/ body.time < r.time THEN FindTask(r, m.c, type)
            ELSE IF body.time # r.time
                 THEN Failed([r EXCEPT !.cs["tasks"] = m.c], "task event of another time")
                 ELSE [r EXCEPT !.cs["tasks"] = m.c, !.task = TRUE,
                         !.last = [k |-> "task", time |-> r.time, n |-> 0, val |-> <<body>>]]

(* peek_frame: the events are put back, and the time; the list of raw data
   stays that of the next event. *)
peek_frame(r) ==
  LET c == r.cs["events"]
      s == [r EXCEPT !.cs["events"] = save_state(c)]
      g == IF at_end(c) THEN s ELSE read_frame(s)
  IN [g EXCEPT !.cs["events"] = restore_state(@), !.time = r.time, !.ev = r.ev,
        !.nraw = r.nraw, !.nmap = r.nmap, !.maps = r.maps, !.task = r.task,
        !.last = IF at_end(c) THEN [Nothing EXCEPT !.k = "nothing to peek", !.time = r.time]
                 ELSE IF g.last.k = "frame" THEN [g.last EXCEPT !.k = "peek"] ELSE g.last]

(* TraceReader::rewind. *)
rewind(r) ==
  [r EXCEPT !.cs = [s \in SubstreamSet |-> rewind_substream(r.cs[s])], !.time = 0,
     !.ev = NoEvent, !.nraw = 0, !.nmap = 0, !.maps = TRUE, !.task = TRUE, !.last = Nothing]

-----------------------------------------------------------------------------
(* Replay over the readers: every event is read with all that belongs to it,
   the task event first, then the regions, then the raw data. *)

(* The events whose replay reads the raw data of the event. *)
ReadsData(ev) ==
  ev.type \in {"SYSCALLBUF_FLUSH", "SIGNAL_HANDLER"}
    \/ (ev.type = "SYSCALL" /\ ev.state = "EXITING")

(* The task event the replay of a call looks for. *)
TaskOf(ev) ==
  CASE ev.number = "execve" /\ ev.state = "EXITING" -> "EXEC"
    [] ev.number = "clone" /\ ev.state = "ENTERING" -> "CLONE"
    [] OTHER -> "none"

EventDone(r) ==
  /\ ReadsData(r.ev) => r.raws = <<>>
  /\ r.maps
  /\ TaskOf(r.ev) # "none" => r.task

Works(r) == r.on /\ r.last.k \notin {"failed", "end"}

(* The constructor of TraceReader: without a version file the program ends,
   saying whether the recording is incomplete or there is none.  (Readers of a
   trace with a failed writer are not followed.) *)
OpenTrace ==
  /\ dir.name = "version"
  /\ w.failed = {}
  /\ ~rd[First].on
  /\ rd' = [rd EXCEPT ![First] = [NoReader EXCEPT !.on = TRUE,
               !.cs = [s \in SubstreamSet |-> OpenSubstream(file[s])]]]
  /\ UNCHANGED <<w, dir, file, rec>>

(* The copy of a checkpoint (which peeks and rewinds no more). *)
CopyReader(r) ==
  /\ r # First
  /\ ~rd[r].on
  /\ Works(rd[First])
  /\ rd' = [rd EXCEPT ![r] = [rd[First] EXCEPT !.peeks = MaxPeeks]]
  /\ UNCHANGED <<w, dir, file, rec>>

(* advance_to_next_trace_frame. *)
NextFrame(r) ==
  /\ Works(rd[r])
  /\ EventDone(rd[r]) \/ "unread" \in Odd
  /\ rd' = [rd EXCEPT ![r] =
       IF at_end(@.cs["events"])
       THEN [@ EXCEPT !.last = [k |-> "end", time |-> @.time, n |-> 0, val |-> <<>>]]
       ELSE read_frame(@)]
  /\ UNCHANGED <<w, dir, file, rec>>

ReadRaw(r) ==
  /\ Works(rd[r])
  /\ ReadsData(rd[r].ev)
  /\ rd[r].raws # <<>>
  /\ rd[r].maps
  /\ rd' = [rd EXCEPT ![r] = read_raw_data(@)]
  /\ UNCHANGED <<w, dir, file, rec>>

ReadRegion(r) ==
  /\ Works(rd[r])
  /\ ~rd[r].maps
  /\ TaskOf(rd[r].ev) # "none" => rd[r].task
  /\ rd' = [rd EXCEPT ![r] = read_mapped_region(@)]
  /\ UNCHANGED <<w, dir, file, rec>>

ReadTask(r) ==
  /\ Works(rd[r])
  /\ TaskOf(rd[r].ev) # "none"
  /\ ~rd[r].task
  /\ rd' = [rd EXCEPT ![r] = FindTask(@, @.cs["tasks"], TaskOf(@.ev))]
  /\ UNCHANGED <<w, dir, file, rec>>

(* peek_frame, which replay calls when it starts: at an event whose replay
   reads no data, for the list of raw data is not put back. *)
PeekFrame(r) ==
  /\ Works(rd[r])
  /\ rd[r].peeks < MaxPeeks
  /\ rd[r].time > 0
  /\ ~ReadsData(rd[r].ev) \/ "peek" \in Odd
  /\ rd' = [rd EXCEPT ![r] = [peek_frame(@) EXCEPT !.peeks = @ + 1]]
  /\ UNCHANGED <<w, dir, file, rec>>

(* rewind, where no substream is empty: it forgets which are. *)
Rewind(r) ==
  /\ rd[r].on
  /\ rd[r].last.k # "failed"
  /\ rd[r].peeks < MaxPeeks
  /\ (\A s \in SubstreamSet : file[s] # <<>>) \/ "rewind" \in Odd
  /\ rd' = [rd EXCEPT ![r] = [rewind(@) EXCEPT !.peeks = @ + 1]]
  /\ UNCHANGED <<w, dir, file, rec>>

-----------------------------------------------------------------------------
Init ==
  /\ w = [pc |-> "start", time |-> 1, raws |-> <<>>, buf |-> [s \in SubstreamSet |-> <<>>],
           failed |-> {}, next |-> 0]
  /\ dir = [made |-> FALSE, name |-> "none", locked |-> FALSE, empty |-> TRUE]
  /\ file = [s \in SubstreamSet |-> <<>>]
  /\ rec = <<>>
  /\ rd = [r \in Readers |-> NoReader]

Next ==
  \/ MakeTraceDir \/ LockVersion \/ WriteVersion
  \/ \E shape \in Shapes : RecordFrame(shape)
  \/ \E failed \in SUBSET SubstreamSet :
       Cardinality(failed) <= MaxFails /\ CreateIncomplete(failed)
  \/ \E s \in SubstreamSet : FailCompress(s)
  \/ BeginClose \/ CloseSubstream \/ Publish \/ Kill
  \/ OpenTrace
  \/ \E r \in Readers : \/ CopyReader(r) \/ NextFrame(r) \/ ReadRaw(r) \/ ReadRegion(r)
                         \/ ReadTask(r) \/ PeekFrame(r) \/ Rewind(r)

Spec == Init /\ [][Next]_vars

-----------------------------------------------------------------------------
(* The result of a reader's last call is what was recorded. *)
AsRecorded(r) ==
  LET l == r.last t == r.last.time IN
  CASE l.k \in {"frame", "peek"} -> t \in DOMAIN rec /\ l.val[1] = AsReplayed(rec[t].ev)
    [] l.k = "raw" -> /\ l.n \in DOMAIN rec[t].raws
                      /\ l.val = [i \in 1 .. rec[t].raws[l.n] |-> <<t, l.n, i>>]
    [] l.k = "map" -> l.n <= rec[t].maps /\ l.val[1] = [time |-> t, map |-> l.n]
    [] l.k = "nomap" -> l.n = rec[t].maps
    [] l.k = "task" -> l.val[1] = [time |-> t, type |-> rec[t].task]
    [] l.k \in {"end", "nothing to peek"} -> t = Len(rec)
    [] l.k = "failed" -> FALSE
    [] OTHER -> TRUE

(* A reader gets back what was recorded, event by event: the event itself,
   its raw data, regions and task event, and the end after the last event and
   not before - read with copies, peeks and rewinds in between, and wherever
   the blocks of the substreams end (TraceReader and CompressedReader). *)
ReadsBack ==
  \A r \in Readers : AsRecorded(rd[r])

(* Everything the recorder wrote, however it is cut into blocks. *)
Everything ==
  LET p == FoldLeft(RecordShape, [file |-> [s \in SubstreamSet |-> <<>>],
                                  buf |-> [s \in SubstreamSet |-> <<>>],
                                  failed |-> {}, raws |-> <<>>, time |-> 1], rec)
  IN [s \in SubstreamSet |-> Stored(p.file[s]) \o p.buf[s]]

VersionComplete ==
  dir.name = "version" => [s \in SubstreamSet |-> Stored(file[s])] = Everything

(* "If the trace directory contains the file `version` the trace is valid and
   ready for replay": wherever rr is killed, and whether it closes the trace
   itself or after an error, as long as the writers of its substreams work. *)
VersionMeansComplete == w.failed = {} => VersionComplete

(* What an observer may conclude from the lock of `incomplete`: held, the
   recorder is at work; free with something in the file, it has died; free
   with nothing in it, it has just started or died doing so. *)
LockTellsState ==
  dir.name = "incomplete" =>
    IF dir.locked THEN w.pc \in {"locked", "rec", "close"}
    ELSE IF ~dir.empty THEN w.pc = "dead" ELSE w.pc \in {"incomplete", "dead"} /\ rec = <<>>
=============================================================================
