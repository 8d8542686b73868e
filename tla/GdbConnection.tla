--------------------------- MODULE GdbConnection ---------------------------
(***************************************************************************)
(* The remote-protocol end of rr: GdbConnection.cc.                        *)
(*                                                                         *)
(* The operators work on a record s that holds, among the fields of the    *)
(* server that owns the connection,                                        *)
(*   net      the bytes gdb has sent that rr has not read,                 *)
(*   shut     whether gdb has closed its end of the socket,                *)
(*   inbuf    the bytes read and not processed,                            *)
(*   alive    connection_alive_,                                           *)
(*   req      the request being served,                                    *)
(*   query    query_thread, resume  resume_thread,                         *)
(*   tgid     the process being debugged,                                  *)
(*   out      the packets sent that gdb has not read,                      *)
(*   bad      the first assertion that failed ("" while none has).         *)
(*                                                                         *)
(* A byte is the start or the end of a packet, a character of a checksum,  *)
(* an acknowledgement, an interrupt, or the whole body of a packet, which  *)
(* is one element here.  A thread id is a task, or "any", "all" (pid and   *)
(* tid 0, or -1) or "group" (every thread of the debugged process).        *)
(***************************************************************************)
EXTENDS Integers, Sequences

CONSTANTS Tasks,    \* the tasks of the trace
          Group,    \* the process of every task
          NoTask,   \* no task
          Split     \* whether a packet may arrive in pieces

NoPacket == [name |-> "", target |-> "any", arg |-> 0, acts |-> <<>>]

Byte(b) == [b |-> b, p |-> NoPacket]

(* What gdb puts on the wire for a packet, and for an interrupt. *)
Wire(p) == <<Byte("$"), [b |-> "body", p |-> p], Byte("#"), Byte("sum")>>

WireInterrupt == <<Byte("int")>>

NoReq == [type |-> "NONE", target |-> "all", dir |-> "fwd", arg |-> 0, sub |-> "", acts |-> <<>>]

Req(type, target) == [NoReq EXCEPT !.type = type, !.target = target]

is_resume_request(r) == r.type = "CONT"

Assert(s, ok, why) == IF ok \/ s.bad # "" THEN s ELSE [s EXCEPT !.bad = why]

------------------------------------------------------------------------------
(* Writing.  Every reply ends with consume_request, which forgets the request
   and flushes the output buffer; a write to a closed socket marks the
   connection dead and drops the output. *)

NoReply == [k |-> "", t |-> NoTask, sig |-> "", at |-> 0]

write_flush(s, r) ==
  IF s.shut THEN [s EXCEPT !.alive = FALSE] ELSE [s EXCEPT !.out = Append(@, r)]

consume_request(s, r) == [write_flush(s, r) EXCEPT !.req = NoReq]

reply(s, kind) == consume_request(s, [NoReply EXCEPT !.k = kind])

(* reply_select_thread: only a selection that succeeded changes the thread. *)
reply_select_thread(s, ok) ==
  reply(CASE ok /\ s.req.type = "SET_CONTINUE_THREAD" -> [s EXCEPT !.resume = s.req.target]
          [] ok /\ s.req.type = "SET_QUERY_THREAD" -> [s EXCEPT !.query = s.req.target]
          [] OTHER -> s,
        IF ok THEN "OK" ELSE "E01")

(* Registers, memory and the like: the reply tells of a task at a moment. *)
reply_get(s, t, at) == consume_request(s, [NoReply EXCEPT !.k = "data", !.t = t, !.at = at])

reply_ok(s, ok) == reply(s, IF ok THEN "OK" ELSE "E01")

(* A register that cannot be set is answered with an empty packet: gdb takes
   an error here for a catastrophe. *)
reply_set_reg(s, ok) == reply(s, IF ok THEN "OK" ELSE "unsupported")

(* Only the threads of the debugged process are listed. *)
reply_get_thread_list(s, threads) ==
  reply(s, IF threads = {} THEN "end" ELSE
           IF \E t \in threads : Group[t] = s.tgid THEN "list" ELSE "unsupported")

reply_file(s, err) == reply(s, IF err THEN "F-1" ELSE "F")

(* notify_no_such_thread compares its argument, a copy, with the request by
   memcmp; the strings of two requests never have the same representation. *)
notify_no_such_thread(s) == reply(Assert(s, FALSE, "notify_no_such_thread"), "E10")

send_stop_reply_packet(s, t, sig, at) ==
  consume_request(s, [k |-> "stop", t |-> t, sig |-> sig, at |-> at])

(* notify_stop: a stop of another process is not reported, and the request
   stays to be run on.  After a backward resume gdb wants the threads it
   selected forgotten; after anything else it wants the stopped thread. *)
Quiet(s) == is_resume_request(s.req) \/ s.req.type = "INTERRUPT"

(* (A stop after which the request is still there.) *)
NotifyKeepsRequest(s, t, sig, at) ==
  IF t = NoTask \/ (t # NoTask /\ Group[t] # s.tgid) THEN s
  ELSE [write_flush(s, [k |-> "stop", t |-> t, sig |-> sig, at |-> at]) EXCEPT
          !.query = t, !.resume = t]

notify_stop(s, t, sig, at) ==
  LET a == Assert(s, Quiet(s), "notify_stop without a resume request")
      th == IF is_resume_request(s.req) /\ s.req.dir = "bwd" THEN "any" ELSE t
  IN IF t = NoTask \/ (t # NoTask /\ Group[t] # s.tgid) THEN a
     ELSE send_stop_reply_packet([a EXCEPT !.query = th, !.resume = th], t, sig, at)

notify_exit_code(s) ==
  reply(Assert(s, Quiet(s), "notify_exit_code without a resume request"), "exit")

notify_restart_failed(s) == reply(s, "E01")

(* notify_restart, and the stop reason gdb is told in its place. *)
notify_restart(s) ==
  [s EXCEPT !.resume = "any", !.query = "any", !.req = Req("GET_STOP_REASON", "any")]

------------------------------------------------------------------------------
(* Reading. *)

Starts(b) == b.b \in {"$", "int"}

(* skip_to_packet_start: what precedes the start of a packet is dropped. *)
skip_to_packet_start(s) ==
  LET at == {i \in DOMAIN s.inbuf : Starts(s.inbuf[i])}
  IN IF at = {} THEN [s EXCEPT !.inbuf = <<>>]
     ELSE [s EXCEPT !.inbuf =
             SubSeq(@, CHOOSE i \in at : \A j \in at : i <= j, Len(@))]

(* sniff_packet: a closed socket polls as readable. *)
Readable(s) == s.net # <<>> \/ s.shut

sniff_packet(s) == skip_to_packet_start(s).inbuf # <<>> \/ Readable(s)

(* One read() of the socket: some of what has arrived, or its end. *)
ReadsOnce(s) ==
  IF s.net # <<>>
  THEN {[s EXCEPT !.inbuf = @ \o SubSeq(s.net, 1, n), !.net = SubSeq(@, n + 1, Len(@))]
          : n \in {m \in 1 .. Len(s.net) :
                     Split \/ s.net[m].b \in {"sum", "int"}}}
  ELSE IF s.shut THEN {[s EXCEPT !.alive = FALSE]} ELSE {}

(* read_packet returns once the buffer, from the start of a packet, holds an
   interrupt or the end of the packet. *)
PacketRead(s) ==
  LET b == skip_to_packet_start(s).inbuf
  IN b # <<>> /\ (Head(b).b = "int" \/ \E i \in DOMAIN b : b[i].b = "#")

------------------------------------------------------------------------------
(* From packets to requests. *)

(* process_bpacket: backwards, always the thread that is to be resumed. *)
process_bpacket(s, p) ==
  [Req("CONT", "all") EXCEPT !.dir = "bwd",
                             !.acts = <<[a |-> IF p.name = "bc" THEN "cont" ELSE "step",
                                         t |-> s.resume]>>]

(* query: the q packets that the target has to answer. *)
query(s, p) ==
  CASE p.name = "qRRCmd" -> [Req("RR_CMD", "all") EXCEPT !.sub = p.target, !.arg = p.arg]
    [] p.name = "qC" -> Req("GET_CURRENT_THREAD", "all")
    [] p.name = "qfThreadInfo" -> Req("GET_THREAD_LIST", "all")
    [] p.name = "qGetTLSAddr" -> Req("TLS", p.target)
    [] p.name = "qOffsets" -> Req("GET_OFFSETS", s.query)
    [] p.name = "qSymbol" -> [Req("QSYMBOL", "all") EXCEPT !.sub = p.target, !.arg = p.arg]
    [] p.name = "qThreadExtraInfo" -> Req("GET_THREAD_EXTRA_INFO", p.target)
    [] p.name = "qSearch" -> Req("SEARCH_MEM", s.query)

(* xfer *)
xfer(s, p) ==
  CASE p.name = "qXfer:auxv:read" -> Req("GET_AUXV", s.query)
    [] p.name = "qXfer:siginfo:read" -> Req("READ_SIGINFO", s.query)
    [] p.name = "qXfer:siginfo:write" -> Req("WRITE_SIGINFO", s.query)
    [] p.name = "qXfer:exec-file:read" -> Req("GET_EXEC_FILE", p.target)

(* process_vpacket: vCont keeps the order of its actions and puts a default
   action last. *)
vCont(p) ==
  [Req("CONT", "all") EXCEPT
     !.acts = SelectSeq(p.acts, LAMBDA x : x.t # "all")
              \o SelectSeq(p.acts, LAMBDA x : x.t = "all")]

(* vRun names where to restart from. *)
vRun(p) == [Req("RESTART", "all") EXCEPT !.sub = p.target, !.arg = p.arg]

vFile(p) ==
  CASE p.name = "vFile:open" -> [Req("FILE_OPEN", "all") EXCEPT !.sub = p.target]
    [] p.name = "vFile:pread" -> [Req("FILE_PREAD", "all") EXCEPT !.arg = p.arg]
    [] p.name = "vFile:close" -> [Req("FILE_CLOSE", "all") EXCEPT !.arg = p.arg]
    [] p.name = "vFile:setfs" -> Req("FILE_SETFS", "all")

Internal == {"qSupported", "QStartNoAckMode", "vKill", "unknown"}

(* process_packet: the request a packet makes. *)
Request(s, p) ==
  CASE p.name \in {"bc", "bs"} -> process_bpacket(s, p)
    [] p.name = "D" -> Req("DETACH", "all")
    [] p.name = "g" -> Req("GET_REGS", s.query)
    [] p.name = "m" -> Req("GET_MEM", s.query)
    [] p.name = "X" -> Req("SET_MEM", s.query)
    [] p.name = "p" -> Req("GET_REG", s.query)
    [] p.name = "P" -> Req("SET_REG", s.query)
    [] p.name = "?" -> Req("GET_STOP_REASON", s.query)
    [] p.name = "Hc" -> Req("SET_CONTINUE_THREAD", p.target)
    [] p.name = "Hg" -> Req("SET_QUERY_THREAD", p.target)
    [] p.name = "T" -> Req("GET_IS_THREAD_ALIVE", p.target)
    [] p.name = "Z0" -> [Req("SET_SW_BREAK", "all") EXCEPT !.arg = p.arg]
    [] p.name = "z0" -> [Req("REMOVE_SW_BREAK", "all") EXCEPT !.arg = p.arg]
    [] p.name = "vCont" -> vCont(p)
    [] p.name = "vRun" -> vRun(p)
    [] p.name \in {"vFile:open", "vFile:pread", "vFile:close", "vFile:setfs"} -> vFile(p)
    [] p.name \in {"qXfer:auxv:read", "qXfer:siginfo:read", "qXfer:siginfo:write",
                   "qXfer:exec-file:read"} -> xfer(s, p)
    [] OTHER -> query(s, p)

(* process_packet, on a buffer that holds a whole packet: the packet leaves
   the buffer; one that concerns the protocol alone is answered here and
   leaves no request behind. *)
process_packet(s) ==
  LET b == skip_to_packet_start(s).inbuf
      e == CHOOSE i \in DOMAIN b : b[i].b = "#" /\ \A j \in 1 .. i - 1 : b[j].b # "#"
      p == b[2].p
  IN IF Head(b).b = "int" THEN [s EXCEPT !.inbuf = Tail(b), !.req = Req("INTERRUPT", "all")]
     ELSE LET r == [s EXCEPT !.inbuf = SubSeq(b, e + 1, Len(b))]
          IN IF p.name \in Internal THEN reply(r, "internal")
             ELSE [r EXCEPT !.req = Request(s, p)]
=============================================================================
