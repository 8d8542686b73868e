-------------------------- MODULE MCReplayTimeline --------------------------
(* Two executions of a process with two threads for the timeline.             *)
EXTENDS ReplayTimeline

Pos(time, task, ticks, step, ip, string, writes, ends) ==
  [time |-> time, task |-> task, ticks |-> ticks, step |-> step, ip |-> ip, string |-> string,
   writes |-> writes, ends |-> ends]
(* a: exec; a: x, two iterations of r that write w, y, a system call;          *)
(* b: x, z that writes v and gets a signal; a: x, y, the end.                 *)
Run ==
  << Pos(1, "a", 2, 0, "e", FALSE, {}, ""),
     Pos(2, "a", 2, 0, "x", FALSE, {}, ""),
     Pos(2, "a", 2, 1, "x", FALSE, {}, ""),
     Pos(2, "a", 2, 1, "r", TRUE, {}, ""),
     Pos(2, "a", 2, 1, "r", TRUE, {"w"}, ""),
     Pos(2, "a", 2, 1, "r", TRUE, {"w"}, ""),
     Pos(2, "a", 2, 1, "y", FALSE, {}, "step"),
     Pos(3, "b", 2, 0, "x", FALSE, {}, ""),
     Pos(3, "b", 2, 1, "x", FALSE, {}, ""),
     Pos(3, "b", 3, 1, "z", FALSE, {"w"}, "signal"),
     Pos(4, "a", 3, 0, "x", FALSE, {}, ""),
     Pos(4, "a", 3, 1, "x", FALSE, {}, ""),
     Pos(4, "a", 4, 1, "y", FALSE, {}, "none"),
     Pos(5, "a", 4, 0, "y", FALSE, {}, "") >>
MCExecs == {[run |-> Run, first |-> 2, barrier |-> b, coalesce |-> c] :
              b \in {2}, c \in {TRUE}}
MCBreaks == {[ip |-> "x", cond |-> TRUE], [ip |-> "y", cond |-> FALSE]}
(* A breakpoint on an instruction that writes the watched variable. *)
WriterBreaks == {[ip |-> "r", cond |-> TRUE]}
(* The same execution with ticks that count from 0. *)
ZeroExecs == {[e EXCEPT !.run = [p \in DOMAIN Run |-> [Run[p] EXCEPT !.ticks = @ - 2]]] :
                e \in MCExecs}
=============================================================================
