------------------------------- MODULE FdTable -------------------------------
(***************************************************************************)
(* The file descriptors rr watches (FdTable.cc, the monitors, and what     *)
(* record_syscall.cc and Task.cc do with them).                            *)
(*                                                                         *)
(* rr keeps, for every descriptor table of the tracees, the monitors of    *)
(* the descriptors that open something special: rr's own files, the        *)
(* standard streams, /proc/<pid>/mem, virtual performance counters.  Calls *)
(* on such descriptors must be traced, so every address space holds an     *)
(* array, syscallbuf_fds_disabled, of the descriptors whose calls may not  *)
(* use the syscall buffer.  Tasks share address spaces and descriptor      *)
(* tables independently of each other, tables are copied by clone, unshare *)
(* and exec, and a call that may block is over in the kernel before rr     *)
(* sees it exit, with other tasks running in between.                      *)
(*                                                                         *)
(* A file is its kind.  The kernel's tables are the truth: kern; rr's are  *)
(* mon.  Descriptors from Limit on have no entry of their own in the array *)
(* and share the last one.                                                 *)
(***************************************************************************)
EXTENDS Integers, FiniteSets

CONSTANTS
  Tasks,      \* task ids; task 1 is there from the start
  MaxFd,      \* the descriptors are 0 .. MaxFd
  Limit,      \* SYSCALLBUF_FDS_DISABLED_SIZE
  MaxCalls,   \* bound on the calls the tracees make
  Odd         \* which unusual behaviours may happen, see below

\* The standard streams, which are watched from the start, have entries.
ASSUME FdAssumption ==
  /\ IsFiniteSet(Tasks) /\ Tasks \subseteq Nat \ {0} /\ 1 \in Tasks
  /\ MaxFd \in Nat /\ Limit \in Nat \ {0, 1} /\ MaxCalls \in Nat

(***************************************************************************)
(* Odd holds                                                               *)
(*   "mid"    a table is copied while another task is still in an open     *)
(*            that has its descriptor already,                             *)
(*   "exec"   a task closes a descriptor of the table it shares with a     *)
(*            task that is in execve,                                      *)
(*   "late"   a task closes a descriptor another task is writing to,       *)
(*   "kill"   a task is killed in a call the kernel has performed,         *)
(*   "eintr"  close fails although the descriptor is closed,               *)
(*   "pass"   a special descriptor rr does not know by its path is passed  *)
(*            over a socket.                                               *)
(***************************************************************************)

VARIABLES
  kern,     \* kernel: table -> fd -> [kind, cloexec]
  ktab,     \* kernel: task -> its table, 0 if there is no such task
  mon,      \* rr: table -> fd -> kind of its monitor, "none"
  beyond,   \* rr: table -> fd_count_beyond_limit
  rtab,     \* rr: task -> its FdTable
  vm,       \* task -> its AddressSpace
  globals,  \* address space -> are the preload_globals known
  disabled, \* address space -> entries of syscallbuf_fds_disabled that are set
  desched,  \* task -> desched_fd_child, -1
  call,     \* task -> the call it is in
  unseen,   \* a write to a special file was not seen by its monitor
  failed,   \* an ASSERT failed
  n         \* calls made

vars == <<kern, ktab, mon, beyond, rtab, vm, globals, disabled, desched, call,
          unseen, failed, n>>

Fds == 0 .. MaxFd
Ids == Tasks
RootDir == 0
Stdout == 1
NoFile == [kind |-> "none", cloexec |-> FALSE]
File(k, c) == [kind |-> k, cloexec |-> c]
Idle == [op |-> "none", fd |-> -1, kind |-> "none"]
Kinds == {"plain", "rr", "std", "mem", "perf"}
Special == {"rr", "std", "mem", "perf"}
Live == {t \in Tasks : ktab[t] # 0}
TaskSet(tb) == {t \in Live : rtab[t] = tb}
VmTasks(v) == {t \in Live : vm[t] = v}
Entry(fd) == IF fd >= Limit THEN Limit - 1 ELSE fd
NewId(used) == CHOOSE i \in Ids \ used : \A j \in Ids \ used : i <= j
Free(tb) == {fd \in Fds : kern[tb][fd] = NoFile}
LowestFree(tb) == CHOOSE fd \in Free(tb) : \A g \in Free(tb) : fd <= g
HighestFree(tb) == CHOOSE fd \in Free(tb) : \A g \in Free(tb) : fd >= g
Monitored(m) == {fd \in Fds : m[fd] # "none"}

(***************************************************************************)
(* FdTable.  A table is the record of its monitors and of its count of     *)
(* descriptors beyond the array.                                           *)
(***************************************************************************)
Table(tb) == [m |-> mon[tb], count |-> beyond[tb]]

is_rr_fd(tb, fd) == fd \in Fds /\ mon[tb][fd] = "rr"

Watched(table, fd, kind) ==
  [m |-> [table.m EXCEPT ![fd] = kind],
   count |-> table.count
               + (IF fd >= Limit /\ table.m[fd] = "none" THEN 1 ELSE 0)]

Unwatched(table, fd) ==
  [m |-> [table.m EXCEPT ![fd] = "none"],
   count |-> table.count
               - (IF fd >= Limit /\ table.m[fd] # "none" THEN 1 ELSE 0)]

DupNotCounted(table, from, to) ==
  IF table.m[from] # "none"
  THEN [table EXCEPT !.m[to] = table.m[from]]
  ELSE Unwatched(table, to)

DupKeepsTarget(table, from, to) ==
  IF table.m[from] # "none" THEN Watched(table, to, table.m[from]) ELSE table

did_dup(table, from, to) ==
  IF table.m[from] # "none"
  THEN Watched(table, to, table.m[from])
  ELSE Unwatched(table, to)

did_close(table, fd) == Unwatched(table, fd)

(***************************************************************************)
(* is_fd_monitored_in_any_task: tabs gives the table of every task of the  *)
(* address space.                                                          *)
(***************************************************************************)
OwnTableOnly(tables, own, fd) ==
  \/ fd \in Monitored(own.m)
  \/ fd >= Limit - 1 /\ own.count > 0

is_fd_monitored_in_any_task(tables, own, fd) ==
  \E table \in tables :
     \/ fd \in Monitored(table.m)
     \/ fd >= Limit - 1 /\ table.count > 0

(***************************************************************************)
(* update_syscallbuf_fds_disabled after table tb became new: every address *)
(* space with a task using tb gets its entry recomputed.                   *)
(***************************************************************************)
TableOf(t, tb, new) == IF rtab[t] = tb THEN new ELSE Table(rtab[t])

OnlyCallersVm(tb, new, fd, t) ==
  [v \in Ids |->
     IF v = vm[t] /\ globals[v]
     THEN IF is_fd_monitored_in_any_task({TableOf(u, tb, new) : u \in VmTasks(v)},
                                         new, Entry(fd))
          THEN disabled[v] \cup {Entry(fd)} ELSE disabled[v] \ {Entry(fd)}
     ELSE disabled[v]]

update_syscallbuf_fds_disabled(tb, new, fd, t) ==
  [v \in Ids |->
     IF globals[v] /\ \E u \in TaskSet(tb) : vm[u] = v
     THEN IF is_fd_monitored_in_any_task({TableOf(u, tb, new) : u \in VmTasks(v)},
                                         new, Entry(fd))
          THEN disabled[v] \cup {Entry(fd)} ELSE disabled[v] \ {Entry(fd)}
     ELSE disabled[v]]

\* The caller's table becomes new, fd being the descriptor that changed.
Install(t, new, fd) ==
  /\ mon' = [mon EXCEPT ![rtab[t]] = new.m]
  /\ beyond' = [beyond EXCEPT ![rtab[t]] = new.count]
  /\ disabled' = update_syscallbuf_fds_disabled(rtab[t], new, fd, t)

add_monitor(t, fd, kind) ==
  /\ failed' = (failed \/ mon[rtab[t]][fd] # "none")
  /\ Install(t, Watched(Table(rtab[t]), fd, kind), fd)

(***************************************************************************)
(* The program is free to call what it likes on the descriptors it has,    *)
(* but not to guess at one an open of another task has not returned yet.   *)
(***************************************************************************)
Ready(t) == t \in Live /\ call[t] = Idle /\ n < MaxCalls
InFlight(tb, fd) ==
  \E u \in Live : ktab[u] = tb /\ call[u].op = "open" /\ call[u].fd = fd
Opening(tb) == \E u \in Live : ktab[u] = tb /\ call[u].op = "open"
Has(t, fd) == kern[ktab[t]][fd] # NoFile /\ ~InFlight(ktab[t], fd)

\* May t let go of what fd refers to?
MayDrop(t, fd) ==
  /\ ~InFlight(ktab[t], fd)
  /\ \/ "exec" \in Odd
     \/ \A u \in TaskSet(rtab[t]) : call[u].op # "exec"
  /\ \/ "late" \in Odd
     \/ \A u \in TaskSet(rtab[t]) : ~(call[u].op = "write" /\ call[u].fd = fd)
MayCopy(t) == "mid" \in Odd \/ ~Opening(ktab[t])

Calls == n' = n + 1
NoMonitorChange == UNCHANGED <<mon, beyond, disabled, failed>>
SameTasks == UNCHANGED <<ktab, rtab, vm, globals, desched>>

(***************************************************************************)
(* open and openat, and recvmsg with a descriptor in its control message.  *)
(* Both may block, so that other tasks run between the kernel's part and   *)
(* rr's handling of the exit.                                              *)
(***************************************************************************)
Enter(t, kind, cloexec) ==
  /\ Ready(t) /\ Free(ktab[t]) # {}
  /\ LET fd == LowestFree(ktab[t])
     IN /\ kern' = [kern EXCEPT ![ktab[t]][fd] = File(kind, cloexec)]
        /\ call' = [call EXCEPT ![t] = [op |-> "open", fd |-> fd, kind |-> kind]]
  /\ Calls /\ SameTasks /\ NoMonitorChange /\ UNCHANGED unseen

Open(t) == \E kind \in {"plain", "mem"}, cloexec \in BOOLEAN : Enter(t, kind, cloexec)

Receive(t) ==
  \E u \in Live, fd \in Fds :
     /\ Has(u, fd)
     /\ LET kind == kern[ktab[u]][fd].kind
        IN /\ kind = "mem" \/ ("pass" \in Odd /\ kind \in {"std", "perf"})
           /\ Enter(t, kind, FALSE)

\* handle_opened_file looks at what the descriptor refers to now: it knows
\* /proc/<pid>/mem by its path.
handle_opened_file(t, fd) ==
  IF kern[ktab[t]][fd].kind = "mem"
  THEN add_monitor(t, fd, "mem")
  ELSE NoMonitorChange

OpenExit(t) ==
  /\ t \in Live /\ call[t].op = "open"
  /\ handle_opened_file(t, call[t].fd)
  /\ call' = [call EXCEPT ![t] = Idle]
  /\ SameTasks /\ UNCHANGED <<kern, unseen, n>>

\* perf_event_open of rr's ticks counter: an inotify descriptor and a monitor
\* that emulates the calls on it.  No other task runs in between.
PerfEventOpen(t) ==
  /\ Ready(t) /\ Free(ktab[t]) # {}
  /\ LET fd == LowestFree(ktab[t])
     IN /\ kern' = [kern EXCEPT ![ktab[t]][fd] = File("perf", FALSE)]
        /\ add_monitor(t, fd, "perf")
  /\ Calls /\ SameTasks /\ UNCHANGED <<call, unseen>>

(***************************************************************************)
(* dup, dup2, dup3, close and fcntl(F_SETFD): rr lets no other task run    *)
(* while they are under way, and protects its own descriptors.             *)
(***************************************************************************)
Dup(t) ==
  /\ Ready(t) /\ Free(ktab[t]) # {}
  /\ \E from \in Fds :
       LET to == LowestFree(ktab[t])
       IN /\ Has(t, from)
          /\ kern' = [kern EXCEPT ![ktab[t]][to] = File(kern[ktab[t]][from].kind, FALSE)]
          /\ Install(t, did_dup(Table(rtab[t]), from, to), to)
  /\ Calls /\ SameTasks /\ UNCHANGED <<call, unseen, failed>>

Dup2Unguarded(t, from, to) == FALSE

\* dup2 over one of rr's descriptors fails with EBADF.
Dup2Refused(t, from, to) == is_rr_fd(rtab[t], to)

Dup2(t) ==
  /\ Ready(t)
  /\ \E from, to \in Fds :
       /\ Has(t, from) /\ from # to /\ MayDrop(t, to)
       /\ IF Dup2Refused(t, from, to)
          THEN UNCHANGED <<kern, mon, beyond, disabled>>
          ELSE /\ kern' = [kern EXCEPT ![ktab[t]][to] =
                             File(kern[ktab[t]][from].kind, FALSE)]
               /\ Install(t, did_dup(Table(rtab[t]), from, to), to)
  /\ Calls /\ SameTasks /\ UNCHANGED <<call, unseen, failed>>

Close(t) ==
  /\ Ready(t)
  /\ \E fd \in Fds :
       /\ Has(t, fd) /\ MayDrop(t, fd)
       /\ IF is_rr_fd(rtab[t], fd)
          THEN UNCHANGED <<kern, mon, beyond, disabled>>
          ELSE /\ kern' = [kern EXCEPT ![ktab[t]][fd] = NoFile]
               \* on_syscall_exit ignores a call that failed
               /\ \/ Install(t, did_close(Table(rtab[t]), fd), fd)
                  \/ "eintr" \in Odd /\ UNCHANGED <<mon, beyond, disabled>>
  /\ Calls /\ SameTasks /\ UNCHANGED <<call, unseen, failed>>

SetCloexec(t) ==
  /\ Ready(t)
  /\ \E fd \in Fds, cloexec \in BOOLEAN :
       /\ Has(t, fd) /\ ~is_rr_fd(rtab[t], fd)
       /\ kern[ktab[t]][fd].cloexec # cloexec
       /\ kern' = [kern EXCEPT ![ktab[t]][fd].cloexec = cloexec]
  /\ Calls /\ SameTasks /\ NoMonitorChange /\ UNCHANGED <<call, unseen>>

(***************************************************************************)
(* write.  With the entry of the descriptor clear the call goes through    *)
(* the syscall buffer and no monitor hears of it; the check and the call   *)
(* are in the wrapper's critical section.  A traced write on a standard    *)
(* stream lets no other task run, other writes may block, and did_write    *)
(* looks the monitor up when the call exits.                               *)
(***************************************************************************)
is_bufferable_fd(t, fd) == globals[vm[t]] /\ Entry(fd) \notin disabled[vm[t]]

Write(t) ==
  /\ Ready(t)
  /\ \E fd \in Fds :
       LET kind == kern[ktab[t]][fd].kind
       IN /\ Has(t, fd) /\ kind \in {"std", "mem"}
          /\ IF is_bufferable_fd(t, fd) \/ mon[rtab[t]][fd] = "std"
             THEN /\ unseen' = (unseen \/ is_bufferable_fd(t, fd) \/ kind # "std")
                  /\ UNCHANGED call
             ELSE /\ call' = [call EXCEPT ![t] = [op |-> "write", fd |-> fd, kind |-> kind]]
                  /\ UNCHANGED unseen
  /\ Calls /\ SameTasks /\ NoMonitorChange /\ UNCHANGED kern

did_write(t) ==
  /\ t \in Live /\ call[t].op = "write"
  /\ unseen' = (unseen \/ mon[rtab[t]][call[t].fd] # call[t].kind)
  /\ call' = [call EXCEPT ![t] = Idle]
  /\ SameTasks /\ NoMonitorChange /\ UNCHANGED <<kern, n>>

(***************************************************************************)
(* rrcall_init_preload and rrcall_init_buffers.  The desched descriptor is *)
(* rr's own, close-on-exec, and numbered high.                             *)
(***************************************************************************)
InitOwnTable(t) == {Entry(fd) : fd \in Monitored(mon[rtab[t]])}

init_syscallbuf_fds_disabled(t) ==
  UNION {{Entry(fd) : fd \in Monitored(mon[rtab[u]])} : u \in VmTasks(vm[t])}

at_preload_init(t) ==
  /\ Ready(t) /\ ~globals[vm[t]]
  /\ globals' = [globals EXCEPT ![vm[t]] = TRUE]
  /\ disabled' = [disabled EXCEPT ![vm[t]] = init_syscallbuf_fds_disabled(t)]
  /\ UNCHANGED <<kern, ktab, mon, beyond, rtab, vm, desched, call, unseen, failed, n>>

init_buffers(t) ==
  /\ Ready(t) /\ globals[vm[t]] /\ desched[t] = -1 /\ Free(ktab[t]) # {}
  /\ LET fd == HighestFree(ktab[t])
     IN /\ kern' = [kern EXCEPT ![ktab[t]][fd] = File("rr", TRUE)]
        /\ desched' = [desched EXCEPT ![t] = fd]
        /\ add_monitor(t, fd, "rr")
  /\ UNCHANGED <<ktab, rtab, vm, globals, call, unseen, n>>

(***************************************************************************)
(* Task::clone, with any combination of CLONE_VM and CLONE_FILES.  A child *)
(* with a table of its own closes the desched descriptors of the tasks     *)
(* that use its parent's (close_buffers_for), one by one; the closes       *)
(* recompute the entries of the child's address space.                     *)
(***************************************************************************)
KeepBuffers(t) == {}

BuffersToClose(t) == {desched[u] : u \in TaskSet(rtab[t])} \ {-1}

ClosedIn(table, fds) ==
  [m |-> [fd \in Fds |-> IF fd \in fds THEN "none" ELSE table.m[fd]],
   count |-> table.count
               - Cardinality({fd \in fds : fd >= Limit /\ table.m[fd] # "none"})]

Clone(t) ==
  /\ Ready(t) /\ Tasks \ Live # {}
  /\ \E shareVm, shareFiles \in BOOLEAN :
       LET c == NewId(Live)
           k == IF shareFiles THEN ktab[t] ELSE NewId({ktab[u] : u \in Live})
           r == IF shareFiles THEN rtab[t] ELSE NewId({rtab[u] : u \in Live})
           v == IF shareVm THEN vm[t] ELSE NewId({vm[u] : u \in Live})
           closed == IF shareFiles THEN {} ELSE BuffersToClose(t)
           table == ClosedIn(Table(rtab[t]), closed)
           others == {Table(rtab[u]) : u \in IF shareVm THEN VmTasks(vm[t]) ELSE {}}
           Still(e) == is_fd_monitored_in_any_task(others \cup {table}, table, e)
       IN /\ shareFiles \/ MayCopy(t)
          /\ ktab' = [ktab EXCEPT ![c] = k]
          /\ rtab' = [rtab EXCEPT ![c] = r]
          /\ vm' = [vm EXCEPT ![c] = v]
          /\ kern' = [kern EXCEPT ![k] =
                        [fd \in Fds |-> IF fd \in closed THEN NoFile
                                        ELSE kern[ktab[t]][fd]]]
          /\ mon' = [mon EXCEPT ![r] = table.m]
          /\ beyond' = [beyond EXCEPT ![r] = table.count]
          /\ globals' = [globals EXCEPT ![v] = globals[vm[t]]]
          /\ disabled' = [disabled EXCEPT ![v] =
                            {e \in disabled[vm[t]] :
                               e \in {Entry(fd) : fd \in closed} => Still(e)}]
          /\ failed' = (failed \/ \E fd \in closed : kern[ktab[t]][fd] = NoFile)
  /\ Calls /\ UNCHANGED <<desched, call, unseen>>

Unshare(t) ==
  /\ Ready(t) /\ MayCopy(t)
  /\ \E u \in Live \ {t} : ktab[u] = ktab[t]
  /\ LET k == NewId({ktab[u] : u \in Live})
         r == NewId({rtab[u] : u \in Live})
     IN /\ ktab' = [ktab EXCEPT ![t] = k]
        /\ kern' = [kern EXCEPT ![k] = kern[ktab[t]]]
        /\ rtab' = [rtab EXCEPT ![t] = r]
        /\ mon' = [mon EXCEPT ![r] = mon[rtab[t]]]
        /\ beyond' = [beyond EXCEPT ![r] = beyond[rtab[t]]]
  /\ Calls /\ UNCHANGED <<vm, globals, disabled, desched, call, unseen, failed>>

(***************************************************************************)
(* execve.  The kernel unshares the table and closes the close-on-exec     *)
(* descriptors; other tasks may run before rr handles the exit with        *)
(* post_exec and fds_to_close_after_exec.                                  *)
(***************************************************************************)
ExecEnter(t) ==
  /\ Ready(t) /\ MayCopy(t)
  /\ LET k == IF \E u \in Live \ {t} : ktab[u] = ktab[t]
              THEN NewId({ktab[u] : u \in Live}) ELSE ktab[t]
     IN /\ ktab' = [ktab EXCEPT ![t] = k]
        /\ kern' = [kern EXCEPT ![k] =
                      [fd \in Fds |-> IF kern[ktab[t]][fd].cloexec THEN NoFile
                                      ELSE kern[ktab[t]][fd]]]
  /\ call' = [call EXCEPT ![t] = [op |-> "exec", fd |-> -1, kind |-> "none"]]
  /\ Calls /\ UNCHANGED <<rtab, vm, globals, desched, unseen>> /\ NoMonitorChange

KeepClosed(t) == {}

fds_to_close_after_exec(t) ==
  {fd \in Monitored(mon[rtab[t]]) : kern[ktab[t]][fd] = NoFile}

ExecExit(t) ==
  /\ t \in Live /\ call[t].op = "exec"
  /\ LET r == NewId({rtab[u] : u \in Live \ {t}})
         v == NewId({vm[u] : u \in Live \ {t}})
         table == ClosedIn(Table(rtab[t]), fds_to_close_after_exec(t))
     IN /\ rtab' = [rtab EXCEPT ![t] = r]
        /\ vm' = [vm EXCEPT ![t] = v]
        /\ mon' = [mon EXCEPT ![r] = table.m]
        /\ beyond' = [beyond EXCEPT ![r] = table.count]
        /\ globals' = [globals EXCEPT ![v] = FALSE]
        /\ disabled' = [disabled EXCEPT ![v] = {}]
  /\ desched' = [desched EXCEPT ![t] = -1]
  /\ call' = [call EXCEPT ![t] = Idle]
  /\ UNCHANGED <<kern, ktab, unseen, failed, n>>

(***************************************************************************)
(* A task that calls exit has its desched descriptor closed                *)
(* (destroy_buffers); one that is killed leaves it to those that share its *)
(* table.                                                                  *)
(***************************************************************************)
Gone(t) ==
  /\ ktab' = [ktab EXCEPT ![t] = 0]
  /\ rtab' = [rtab EXCEPT ![t] = 0]
  /\ vm' = [vm EXCEPT ![t] = 0]
  /\ desched' = [desched EXCEPT ![t] = -1]
  /\ call' = [call EXCEPT ![t] = Idle]
  /\ UNCHANGED <<globals, n>>

destroy_buffers(t) ==
  IF desched[t] = -1
  THEN UNCHANGED <<kern, mon, beyond, disabled, failed>>
  ELSE /\ failed' = (failed \/ kern[ktab[t]][desched[t]] = NoFile)
       /\ kern' = [kern EXCEPT ![ktab[t]][desched[t]] = NoFile]
       /\ Install(t, did_close(Table(rtab[t]), desched[t]), desched[t])

Exit(t) ==
  /\ t \in Live /\ call[t] = Idle /\ Live # {t}
  /\ destroy_buffers(t) /\ Gone(t) /\ UNCHANGED unseen

Killed(t) ==
  /\ t \in Live /\ Live # {t}
  /\ "kill" \in Odd \/ call[t].op \notin {"open", "write"}
  /\ unseen' = (unseen \/ call[t].op = "write")
  /\ Gone(t) /\ NoMonitorChange /\ UNCHANGED kern

(***************************************************************************)
(* setup_fd_table: rr has just started its first tracee.                   *)
(***************************************************************************)
First == [fd \in Fds |-> IF fd = RootDir THEN File("rr", FALSE)
                         ELSE IF fd = Stdout THEN File("std", FALSE) ELSE NoFile]
setup_fd_table == [fd \in Fds |-> First[fd].kind]

Init ==
  /\ kern = [i \in Ids |-> First]
  /\ mon = [i \in Ids |-> setup_fd_table]
  /\ beyond = [i \in Ids |-> 0]
  /\ ktab = [t \in Tasks |-> IF t = 1 THEN 1 ELSE 0]
  /\ rtab = ktab /\ vm = ktab
  /\ globals = [i \in Ids |-> FALSE]
  /\ disabled = [i \in Ids |-> {}]
  /\ desched = [t \in Tasks |-> -1]
  /\ call = [t \in Tasks |-> Idle]
  /\ unseen = FALSE /\ failed = FALSE /\ n = 0

Next ==
  \E t \in Tasks :
     \/ Open(t) \/ Receive(t) \/ OpenExit(t) \/ PerfEventOpen(t)
     \/ Dup(t) \/ Dup2(t) \/ Close(t) \/ SetCloexec(t)
     \/ Write(t) \/ did_write(t)
     \/ at_preload_init(t) \/ init_buffers(t)
     \/ Clone(t) \/ Unshare(t) \/ ExecEnter(t) \/ ExecExit(t)
     \/ Exit(t) \/ Killed(t)

Spec == Init /\ [][Next]_vars

-----------------------------------------------------------------------------
Running(t) == t \in Live /\ call[t].op # "exec"

(***************************************************************************)
(* Whatever special file a task can reach through a descriptor, rr's table *)
(* for the task has the file's monitor there, and if the task can buffer   *)
(* calls its address space has the descriptor's entry set.  It must hold   *)
(* for every way tasks can share address spaces and tables, and for the    *)
(* descriptors that share the last entry.  A descriptor an open has not    *)
(* returned yet is nobody's, and a task in execve runs no code.            *)
(***************************************************************************)
SpecialIsTraced ==
  \A t \in Live : Running(t) =>
     \A fd \in Fds :
        LET kind == kern[ktab[t]][fd].kind
        IN kind \in Special /\ ~InFlight(ktab[t], fd) =>
              /\ mon[rtab[t]][fd] = kind
              /\ globals[vm[t]] => Entry(fd) \in disabled[vm[t]]

(***************************************************************************)
(* A monitor stays on no descriptor that is closed or reused: did_dup,     *)
(* did_close and fds_to_close_after_exec keep rr's table in step with the  *)
(* kernel's, and with it the count behind the last entry.                  *)
(***************************************************************************)
MonitorsAreReal ==
  \A t \in Live : Running(t) =>
     /\ \A fd \in Monitored(mon[rtab[t]]) : kern[ktab[t]][fd].kind = mon[rtab[t]][fd]
     /\ beyond[rtab[t]] =
          Cardinality({fd \in Monitored(mon[rtab[t]]) : fd >= Limit})

(***************************************************************************)
(* The tracees cannot take rr's descriptors away: every task keeps the     *)
(* root directory rr opens files under, through any exec, and the desched  *)
(* descriptor its buffers use.                                             *)
(***************************************************************************)
OwnFdsKept ==
  \A t \in Live : Running(t) =>
     /\ kern[ktab[t]][RootDir].kind = "rr"
     /\ desched[t] # -1 => kern[ktab[t]][desched[t]].kind = "rr"

\* Every write to a special file is seen by its monitor.
WritesSeen == ~unseen

\* add_monitor never finds a monitor in its place, and the closes rr makes for
\* itself never fail.
NoAssertFails == ~failed

-----------------------------------------------------------------------------
(* The inductive invariant from which SpecialIsTraced, MonitorsAreReal,      *)
(* OwnFdsKept and NoAssertFails follow when nothing odd happens but late     *)
(* closes.  The theorems are in FdTableProofs.                               *)

Files == {NoFile} \cup [kind : Kinds, cloexec : BOOLEAN]
Entries == {Entry(fd) : fd \in Fds}
CallOps == {"none", "open", "write", "exec"}

TypeOK ==
  /\ kern \in [Ids -> [Fds -> Files]]
  /\ ktab \in [Tasks -> Ids \cup {0}]
  /\ mon \in [Ids -> [Fds -> Special \cup {"none"}]]
  /\ beyond \in [Ids -> Int]
  /\ rtab \in [Tasks -> Ids \cup {0}]
  /\ vm \in [Tasks -> Ids \cup {0}]
  /\ globals \in [Ids -> BOOLEAN]
  /\ disabled \in [Ids -> SUBSET Entries]
  /\ desched \in [Tasks -> Fds \cup {-1}]
  /\ call \in [Tasks -> [op : CallOps, fd : Fds \cup {-1}, kind : Kinds \cup {"none"}]]
  /\ unseen \in BOOLEAN /\ failed \in BOOLEAN /\ n \in Nat

InExec(t) == t \in Live /\ call[t].op = "exec"

\* rr and the kernel agree on which tasks there are.
TasksAgree ==
  \A t \in Tasks :
     /\ (rtab[t] = 0) = (ktab[t] = 0)
     /\ (vm[t] = 0) = (ktab[t] = 0)
     /\ ktab[t] = 0 => desched[t] = -1 /\ call[t] = Idle

\* They agree on who shares a table, but for a task in execve: the kernel has
\* given it a table of its own, rr has not yet.
SharingAgrees ==
  \A t, u \in Live :
     /\ ktab[t] = ktab[u] => rtab[t] = rtab[u]
     /\ rtab[t] = rtab[u] /\ ~InExec(t) /\ ~InExec(u) => ktab[t] = ktab[u]
     /\ InExec(t) /\ ktab[t] = ktab[u] => t = u

\* The monitors of a running task are those of its special descriptors.
MonitorsAgree ==
  \A t \in Live : Running(t) =>
     \A fd \in Fds :
        mon[rtab[t]][fd] = IF /\ kern[ktab[t]][fd].kind \in Special
                              /\ ~InFlight(ktab[t], fd)
                           THEN kern[ktab[t]][fd].kind ELSE "none"

\* What a task in execve has kept has the monitor it had, and is open, and
\* returned, in the table of those that still share rr's with it.
ExecAgrees ==
  \A t \in Live : InExec(t) =>
     \A fd \in Fds : kern[ktab[t]][fd] # NoFile =>
        /\ mon[rtab[t]][fd] = IF kern[ktab[t]][fd].kind \in Special
                              THEN kern[ktab[t]][fd].kind ELSE "none"
        /\ \A u \in TaskSet(rtab[t]) :
              Running(u) => kern[ktab[u]][fd] # NoFile /\ ~InFlight(ktab[u], fd)
        /\ \A u \in TaskSet(rtab[t]) : desched[u] # fd

\* The desched descriptors of the users of a table are open in it, each for
\* one task.
DeschedOpen ==
  \A t \in Live :
     /\ Running(t) => \A u \in TaskSet(rtab[t]) :
           desched[u] # -1 => kern[ktab[t]][desched[u]] = File("rr", TRUE)
     /\ \A u \in TaskSet(rtab[t]) : desched[u] = desched[t] /\ desched[t] # -1 => u = t

RootOpen == \A t \in Live : kern[ktab[t]][RootDir] = File("rr", FALSE)

\* fd_count_beyond_limit is the number of monitors beyond the array.
CountAgrees ==
  \A t \in Live : beyond[rtab[t]] =
                    Cardinality({fd \in Monitored(mon[rtab[t]]) : fd >= Limit})

\* The array of an address space covers the monitors of all its tasks.
ArrayCovers ==
  \A t \in Live : globals[vm[t]] =>
     \A fd \in Monitored(mon[rtab[t]]) : Entry(fd) \in disabled[vm[t]]

\* An open under way has its descriptor in the kernel, and no other has it.
OpensAgree ==
  \A t \in Live : call[t].op = "open" =>
     /\ call[t].fd \in Fds
     /\ kern[ktab[t]][call[t].fd] # NoFile
     /\ kern[ktab[t]][call[t].fd].kind = call[t].kind
     /\ call[t].kind \in {"plain", "mem"}
     /\ \A u \in Live : /\ ktab[u] = ktab[t] /\ call[u].op = "open"
                        /\ call[u].fd = call[t].fd
                        => u = t

IndInv ==
  /\ TypeOK /\ TasksAgree /\ SharingAgrees /\ MonitorsAgree /\ ExecAgrees
  /\ DeschedOpen /\ RootOpen /\ CountAgrees /\ ArrayCovers /\ OpensAgree
  /\ ~failed
==============================================================================
