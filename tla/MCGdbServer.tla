---------------------------- MODULE MCGdbServer ----------------------------
(* A replay of two processes: "x", which is not debugged, and "d", with the
   threads A and B, created, interrupted by each other and ending one after
   the other. *)
EXTENDS GdbServer

MCGroup == [t \in {"A", "B", "X"} |-> IF t = "X" THEN "x" ELSE "d"]

E(t, k, a, time) == [t |-> t, k |-> k, a |-> a, time |-> time]

MCTrace == <<E("X", "sys", "", 1), E("X", "clone", "A", 2),
             E("A", "insn", 1, 3), E("A", "insn", 2, 3), E("A", "sys", "", 3),
             E("A", "clone", "B", 4), E("X", "exec", "", 5),
             E("B", "insn", 1, 6), E("B", "sys", "", 6), E("A", "sig", "", 7),
             E("A", "exiting", "", 8), E("A", "exit", "", 8), E("X", "sys", "", 9),
             E("B", "insn", 2, 10), E("B", "sys", "", 10),
             E("B", "exiting", "", 11), E("B", "exit", "", 11),
             E("X", "exiting", "", 12), E("X", "exit", "", 12)>>

(* The same without its end: a trace that was cut short. *)
MCCut == SubSeq(MCTrace, 1, 15)

MCSymbols == <<1, 2>>

Pk(name, target, arg) == [NoPacket EXCEPT !.name = name, !.target = target, !.arg = arg]

Act(a, t) == [a |-> a, t |-> t]

Cont == [NoPacket EXCEPT !.name = "vCont", !.acts = <<Act("cont", "all")>>]

StepOne(t) == [NoPacket EXCEPT !.name = "vCont", !.acts = <<Act("cont", "all"), Act("step", t)>>]

Cmd(c, arg) == Pk("qRRCmd", c, arg)

MCPackets ==
  [threads |-> {Cont, StepOne("A"), StepOne("B"), Pk("bs", "any", 0), Pk("bc", "any", 0),
                Pk("g", "any", 0), Pk("Hg", "A", 0), Pk("Hc", "B", 0)},
   breaks |-> {Cont, StepOne("A"), Pk("bc", "any", 0), Pk("bs", "any", 0),
               Pk("Z0", "any", 1), Pk("Z0", "any", 2),
               Pk("z0", "any", 1)},
   restart |-> {Cont, Pk("bc", "any", 0), Cmd("checkpoint", 0), Cmd("delete", 1),
                Pk("vRun", "checkpoint", 1), Pk("vRun", "previous", 0), Pk("vRun", "event", 8),
                Pk("D", "any", 0)},
   divert |-> {Cont, Pk("bc", "any", 0), Pk("g", "any", 0), Pk("qXfer:siginfo:read", "any", 0),
               Pk("qXfer:siginfo:write", "any", 0), Pk("X", "any", 0), Cmd("when", 0),
               Pk("Hg", "B", 0)},
   history |-> {Cont, StepOne("A"), Pk("bc", "any", 0), Pk("g", "any", 0), Cmd("push", 0),
                Cmd("back", 0), Cmd("forward", 0)},
   misc |-> {Cont, Pk("qC", "any", 0), Pk("qfThreadInfo", "any", 0), Pk("T", "B", 0),
             Pk("qThreadExtraInfo", "B", 0), Pk("qSymbol", "plain", 0), Pk("qSymbol", "found", 1),
             Pk("vFile:open", "read", 0), Pk("vFile:close", "any", 0), Pk("vFile:pread", "any", 0),
             Pk("unknown", "any", 0)}]
=============================================================================
