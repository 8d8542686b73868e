----------------------------- MODULE TraceDump -----------------------------
(***************************************************************************)
(* rr dump: the events of a trace that match the ranges on the command      *)
(* line, with their task events, regions and the sizes of their raw data,   *)
(* read by one TraceReader from the first to the last.                      *)
(***************************************************************************)
EXTENDS TraceStream

CONSTANT Specs   \* the command lines: sequences of ranges <<first, last>>

(* The task events, by time: all are read before the first range. *)
RECURSIVE TaskEvents(_, _)
TaskEvents(c, got) ==
  IF at_end(c) THEN [c |-> c, got |-> got]
  ELSE LET m == ReadMessage(c, file["tasks"]) IN
       IF ~m.ok THEN [c |-> m.c, got |-> got]
       ELSE TaskEvents(m.c, got \cup m.body)

(* The regions of the event: the number found. *)
RECURSIVE DumpRegions(_)
DumpRegions(r) ==
  LET g == read_mapped_region(r) IN IF g.last.k = "map" THEN DumpRegions(g) ELSE g

(* The raw data of the event: their places, the data skipped. *)
RECURSIVE DumpRaw(_, _)
DumpRaw(r, got) ==
  IF r.raws = <<>> THEN [r |-> r, got |-> got]
  ELSE LET g == read_raw_data(r)
       IN DumpRaw(g, Append(got, [size |-> r.raws[Len(r.raws)].size, data |-> g.last.val]))

(* dump_events_matching: events before the range are read with what belongs
   to them, and the first one after it ends the scan. *)
RECURSIVE DumpFrames(_, _, _, _)
DumpFrames(r, range, tasks, out) ==
  IF at_end(r.cs["events"]) THEN [r |-> r, out |-> out]
  ELSE LET g == read_frame(r) IN
       IF g.last.k = "failed" \/ range[2] < g.time THEN [r |-> g, out |-> out]
       ELSE LET m == DumpRegions(g)
                d == DumpRaw(m, <<>>)
            IN DumpFrames(d.r, range, tasks,
                 IF g.time < range[1] THEN out
                 ELSE Append(out, [time |-> g.time, type |-> g.ev.type, maps |-> m.nmap,
                                   raws |-> d.got,
                                   task |-> {b.type : b \in {x \in tasks : x.time = g.time}}]))

(* (The last event of the range is left out.) *)
ScanEndsEarly(q, range) ==
  LET t == TaskEvents(q.r.cs["tasks"], {}) IN
  DumpFrames([q.r EXCEPT !.cs["tasks"] = t.c], <<range[1], range[2] - 1>>, t.got, q.out)

dump_events_matching(q, range) ==   \* q = [r, out]
  LET t == TaskEvents(q.r.cs["tasks"], {}) IN
  DumpFrames([q.r EXCEPT !.cs["tasks"] = t.c], range, t.got, q.out)

dump(specs) ==
  FoldLeft(dump_events_matching,
           [r |-> [NoReader EXCEPT !.on = TRUE,
                     !.cs = [s \in SubstreamSet |-> OpenSubstream(file[s])]],
            out |-> <<>>], specs).out

(* The output for an event. *)
Shown(t) ==
  [time |-> t, type |-> rec[t].ev.type, maps |-> rec[t].maps,
   raws |-> [j \in 1 .. Len(rec[t].raws) |->
              [size |-> rec[t].raws[j], data |-> [i \in 1 .. rec[t].raws[j] |-> <<t, j, i>>]]],
   task |-> IF rec[t].task = "none" THEN {} ELSE {rec[t].task}]

InRange(range) == SelectSeq([i \in 1 .. Len(rec) |-> i], LAMBDA t : range[1] <= t /\ t <= range[2])

Finished == w.pc = "done" /\ w.failed = {} /\ ~rd[First].on

ShowsRanges(specs) ==
  dump(specs) = FoldLeft(LAMBDA a, range : a \o [i \in 1 .. Len(InRange(range)) |->
                                                  Shown(InRange(range)[i])], <<>>, specs)

(* rr dump shows every event of the range it is given, with its own task
   event, regions and raw data, and no other. *)
DumpShowsRange == Finished => \A specs \in Specs : Len(specs) = 1 => ShowsRanges(specs)

(* The same of several ranges: "specs should be constructed so as to match
   properly on a serial linear scan; that is, they should comprise disjoint
   and monotonically increasing event sets". *)
DumpShowsRanges ==
  Finished => \A specs \in Specs :
    (\A i \in 1 .. Len(specs) - 1 : specs[i][2] < specs[i + 1][1]) => ShowsRanges(specs)
=============================================================================
