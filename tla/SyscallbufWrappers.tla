------------------------- MODULE SyscallbufWrappers -------------------------
(***************************************************************************)
(* What each system-call wrapper of preload/syscallbuf.c does with the     *)
(* buffer.  A wrapper is a plan: a sequence of stages, each of them one    *)
(* system call, made through the buffer or traced.  A stage says           *)
(*   fd        the descriptor that prep_syscall_for_fd tests, or NoFd      *)
(*   block     MAY_BLOCK or WONT_BLOCK                                     *)
(*   outs      the output parameters, each with the place the kernel       *)
(*             writes ("rec": the record, "mem": the program's memory,     *)
(*             "scratch"), whether the place is first filled with the      *)
(*             program's value (memcpy_input_parameter), and the rule by   *)
(*             which the value goes back to the program                    *)
(*   replayed  the system call is executed again in the replay             *)
(*   goes      a traced fallback is followed by the next stage             *)
(*   next      the stage that follows, by result; 0 returns the result     *)
(* A call is a record [no, arg, fd, null, chaos]: null stands for a null   *)
(* pointer or an empty buffer, chaos for a positive answer of              *)
(* force_traced_syscall_for_chaos_mode, arg for the command, flag or       *)
(* advice that the wrapper looks at.                                       *)
(***************************************************************************)
EXTENDS Integers, Sequences, TLC

NoFd == -1

\* Results, as the wrappers tell them apart.  "eagain" and "eintr" are
\* errors; "short" is a positive result below the size asked for.
Rets == {"err", "eagain", "eintr", "zero", "short", "full"}
NonNegative == {"zero", "short", "full"}
Positive == {"short", "full"}

Returns == [r \in Rets |-> 0]
NoOuts == <<>>

\* traced_raw_syscall(call)
Traced == [kind |-> "traced", fd |-> NoFd, block |-> TRUE, outs |-> NoOuts,
           replayed |-> FALSE, goes |-> TRUE, next |-> Returns]

\* prep_syscall[_for_fd], start_commit_buffered_syscall, the untraced system
\* call, the copies and commit_raw_syscall
Buffered(fd, block, outs) ==
    [kind |-> "buffered", fd |-> fd, block |-> block, outs |-> outs,
     replayed |-> FALSE, goes |-> FALSE, next |-> Returns]

Then(stage, rets, i) ==
    [stage EXCEPT !.next = [r \in Rets |-> IF r \in rets THEN i ELSE @[r]]]
Replayed(stage) == [stage EXCEPT !.replayed = TRUE]
\* the wrapper goes on with its next stage even when this one had to be traced
GoesOn(stage) == [stage EXCEPT !.goes = TRUE]

MAY_BLOCK == TRUE
WONT_BLOCK == FALSE

Param(to, in, copy) == [to |-> to, in |-> in, copy |-> copy]
Out(c, p, copy) == IF c.null THEN NoOuts ELSE p :> Param("rec", FALSE, copy)
InOut(c, p, copy) == IF c.null THEN NoOuts ELSE p :> Param("rec", TRUE, copy)

sys_generic_nonblocking(c) == << Buffered(NoFd, WONT_BLOCK, NoOuts) >>
sys_generic_nonblocking_fd(c) == << Buffered(c.fd, WONT_BLOCK, NoOuts) >>

sys_clock_gettime(c) == << Buffered(NoFd, WONT_BLOCK, Out(c, "tp", "ok")) >>
sys_gettimeofday(c) ==
    << Buffered(NoFd, WONT_BLOCK, Out(c, "tp", "ok") @@ Out(c, "tzp", "ok")) >>
sys_xstat64(c) == << Buffered(NoFd, WONT_BLOCK, Out(c, "buf", "ok")) >>
sys_statfs(c) == << Buffered(NoFd, WONT_BLOCK, Out(c, "buf", "ok")) >>
sys_getrusage(c) == << Buffered(NoFd, WONT_BLOCK, Out(c, "buf", "ok")) >>
sys_socketpair(c) == << Buffered(NoFd, WONT_BLOCK, Out(c, "sv", "ok")) >>

\* The kernel is given a null pointer and the result is stored in user space.
sys_time(c) ==
    << Buffered(NoFd, WONT_BLOCK,
                IF c.null THEN NoOuts ELSE "tp" :> Param("none", FALSE, "value")) >>

sys_fcntl64_no_outparams(c) == << Buffered(c.fd, WONT_BLOCK, NoOuts) >>
sys_fcntl64_own_ex(c) == << Buffered(c.fd, WONT_BLOCK, InOut(c, "owner", "ok")) >>
sys_fcntl64_setlk64(c) ==
    IF c.chaos THEN << Traced >>
    ELSE << Buffered(c.fd, WONT_BLOCK, InOut(c, "lock", "ok")) >>
sys_fcntl64_setlkw64(c) ==
    IF c.chaos THEN << Traced >> ELSE << Buffered(c.fd, MAY_BLOCK, NoOuts) >>
sys_fcntl(c) ==
    CASE c.arg = "no_outparams" -> sys_fcntl64_no_outparams(c)
      [] c.arg = "own_ex" -> sys_fcntl64_own_ex(c)
      [] c.arg = "setlk" -> sys_fcntl64_setlk64(c)
      [] c.arg = "setlkw" -> sys_fcntl64_setlkw64(c)
      [] OTHER -> << Traced >>

sys_flistxattr(c) == << Buffered(c.fd, WONT_BLOCK, Out(c, "buf", "ret")) >>
sys_generic_getxattr(c) == << Buffered(NoFd, WONT_BLOCK, Out(c, "value", "ret")) >>
sys_fgetxattr(c) == << Buffered(c.fd, WONT_BLOCK, Out(c, "value", "ret")) >>
sys_generic_listxattr(c) == << Buffered(NoFd, WONT_BLOCK, Out(c, "buf", "ret")) >>
sys_generic_getdents(c) == << Buffered(c.fd, WONT_BLOCK, Out(c, "buf", "ret")) >>
sys_readlink(c) == << Buffered(NoFd, WONT_BLOCK, Out(c, "buf", "ret")) >>

sys_safe_nonblocking_ioctl(c) == << Buffered(c.fd, WONT_BLOCK, NoOuts) >>
sys_ioctl(c) ==
    IF c.arg \in {"clone_range", "fioclex", "fionclex"}
    THEN sys_safe_nonblocking_ioctl(c) ELSE << Traced >>

\* The futex words cannot be replaced, so the kernel writes the program's
\* memory and copy_futex_int moves the words afterwards.
FutexInt == Param("mem", FALSE, "futex")
sys_futex(c) ==
    IF c.chaos THEN << Traced >>
    ELSE CASE c.arg = "wake" ->
                << Buffered(NoFd, WONT_BLOCK, "uaddr" :> FutexInt) >>
           [] c.arg \in {"cmp_requeue", "wake_op"} ->
                << Buffered(NoFd, WONT_BLOCK,
                            "uaddr" :> FutexInt @@ "uaddr2" :> FutexInt) >>
           [] OTHER -> << Traced >>

\* Mutant: the room is not filled with the program's value first.
sys__llseek_Unfilled(c) == << Buffered(c.fd, WONT_BLOCK, Out(c, "result", "always")) >>
\* *result = *result2 whatever the system call returned
sys__llseek(c) == << Buffered(c.fd, WONT_BLOCK, InOut(c, "result", "always")) >>

sys_madvise(c) ==
    IF c.arg \in {"listed", "free"}
    THEN << Replayed(Buffered(NoFd, WONT_BLOCK, NoOuts)) >> ELSE << Traced >>
sys_mprotect(c) ==
    IF c.arg = "other_prot" \/ c.mprotects_full THEN << Traced >>
    ELSE << Replayed(Buffered(NoFd, WONT_BLOCK, NoOuts)) >>

\* supported_open_flags and allow_buffered_open are the two tests
sys_open(c) ==
    IF c.chaos \/ c.arg \in {"odd_flags", "special_file"} THEN << Traced >>
    ELSE << Buffered(NoFd, MAY_BLOCK, NoOuts) >>
sys_creat(c) == sys_open(c)
sys_openat(c) ==
    IF c.chaos \/ c.arg \in {"odd_flags", "special_file", "relative"} THEN << Traced >>
    ELSE << Buffered(NoFd, MAY_BLOCK, NoOuts) >>

\* Mutant: the descriptors are copied back after an error too.
sys_poll_CopiesAlways(c) ==
    LET try == Buffered(NoFd, WONT_BLOCK, InOut(c, "fds", "always"))
    IN  IF c.arg = "no_timeout" THEN << try >> ELSE << Then(try, {"zero"}, 2), Traced >>
\* A call with timeout 0 first; a traced one when that finds nothing.
sys_poll(c) ==
    LET try == Buffered(NoFd, WONT_BLOCK, InOut(c, "fds", "ok"))
    IN  IF c.arg = "no_timeout" THEN << try >> ELSE << Then(try, {"zero"}, 2), Traced >>
\* ret is compared with EINTR, not with -EINTR: only 0 leads to a second call
sys_epoll_wait(c) ==
    LET try == Buffered(NoFd, WONT_BLOCK, Out(c, "events", "ret"))
    IN  IF c.arg = "no_timeout" THEN << try >> ELSE << Then(try, {"zero"}, 2), Traced >>

\* Large reads: lseek, clone the data, read with the clone in the replay.
\* A lseek that fails or is not page aligned, or a clone that fails, leads to
\* the plain read, stage 4.
ClonedRead(c) ==
    << GoesOn(Then(Then(Buffered(c.fd, WONT_BLOCK, NoOuts), Rets, 4), {"zero", "full"}, 2)),
       GoesOn(Then(Then(Buffered(NoFd, WONT_BLOCK, NoOuts), Rets, 4), NonNegative, 3)),
       IF c.arg = "huge"
       THEN Replayed(Buffered(NoFd, WONT_BLOCK, "buf" :> Param("mem", FALSE, "none")))
       ELSE Replayed(Buffered(NoFd, MAY_BLOCK, "buf" :> Param("scratch", FALSE, "ret"))) >>
sys_read(c) ==
    LET plain == Buffered(c.fd, MAY_BLOCK, Out(c, "buf", "ret"))
    IN  CASE c.chaos -> << Traced >>
          [] ~c.chaos /\ ~c.null /\ c.arg \in {"huge", "scratch"} ->
                Append(ClonedRead(c), plain)
          [] OTHER -> << plain >>
sys_pread64(c) == << Buffered(c.fd, MAY_BLOCK, Out(c, "buf", "ret")) >>

sys_socketcall_recv(c) ==
    IF c.chaos THEN << Traced >>
    ELSE << Buffered(c.fd, MAY_BLOCK, Out(c, "buf", "ret")) >>
sys_socketcall(c) == IF c.arg = "recv" THEN sys_socketcall_recv(c) ELSE << Traced >>
sys_recvfrom(c) ==
    IF c.chaos THEN << Traced >>
    ELSE << Buffered(c.fd, MAY_BLOCK,
                     Out(c, "src_addr", "ok") @@ InOut(c, "addrlen", "ok")
                        @@ Out(c, "buf", "ret")) >>
\* msg_received_file_descriptors is the "fds" variant: see NotifyControlMsg
sys_recvmsg(c) ==
    IF c.chaos THEN << Traced >>
    ELSE << Buffered(c.fd, MAY_BLOCK,
                     InOut(c, "msg", "ok") @@ Out(c, "iov", "ok")) >>

sys_sendmsg(c) == IF c.chaos THEN << Traced >> ELSE << Buffered(c.fd, MAY_BLOCK, NoOuts) >>
sys_sendto(c) == IF c.chaos THEN << Traced >> ELSE << Buffered(c.fd, MAY_BLOCK, NoOuts) >>
sys_write(c) == IF c.chaos THEN << Traced >> ELSE << Buffered(c.fd, MAY_BLOCK, NoOuts) >>
sys_writev(c) == IF c.chaos THEN << Traced >> ELSE << Buffered(c.fd, MAY_BLOCK, NoOuts) >>
sys_pwrite64(c) == << Buffered(c.fd, MAY_BLOCK, NoOuts) >>
sys_setsockopt(c) ==
    IF c.arg = "packet_ring" THEN << Traced >> ELSE << Buffered(c.fd, MAY_BLOCK, NoOuts) >>

\* The record has room for the quota, but the kernel is given addr itself and
\* the room is copied over it.
sys_quotactl(c) ==
    IF c.arg # "getquota" THEN << Traced >>
    ELSE << Buffered(NoFd, WONT_BLOCK,
                     IF c.null THEN NoOuts ELSE "addr" :> Param("mem", FALSE, "ok")) >>

\* process_vm_readv stands in for PTRACE_PEEKDATA; anything but a whole word
\* is asked for again with a traced call.
sys_ptrace(c) ==
    IF c.arg # "peekdata" \/ c.null THEN << Traced >>
    ELSE << Then(Buffered(NoFd, WONT_BLOCK, Out(c, "data", "ret")), Rets \ {"full"}, 2),
            Traced >>

\* oldset2 is always reserved; -EAGAIN is the tracer's request to retry.
sys_rt_sigprocmask(c) ==
    IF c.arg = "odd_size" THEN << Traced >>
    ELSE << Then(Buffered(NoFd, WONT_BLOCK, Out(c, "oldset", "ok")), {"eagain"}, 2), Traced >>

\* syscall_hook_internal: the dispatch
Plan(c) ==
    CASE c.no = "getpid" -> sys_generic_nonblocking(c)
      [] c.no = "close" -> sys_generic_nonblocking_fd(c)
      [] c.no = "clock_gettime" -> sys_clock_gettime(c)
      [] c.no = "gettimeofday" -> sys_gettimeofday(c)
      [] c.no = "stat" -> sys_xstat64(c)
      [] c.no = "statfs" -> sys_statfs(c)
      [] c.no = "getrusage" -> sys_getrusage(c)
      [] c.no = "socketpair" -> sys_socketpair(c)
      [] c.no = "time" -> sys_time(c)
      [] c.no = "fcntl" -> sys_fcntl(c)
      [] c.no = "flistxattr" -> sys_flistxattr(c)
      [] c.no \in {"getxattr", "lgetxattr"} -> sys_generic_getxattr(c)
      [] c.no = "fgetxattr" -> sys_fgetxattr(c)
      [] c.no \in {"listxattr", "llistxattr"} -> sys_generic_listxattr(c)
      [] c.no = "getdents" -> sys_generic_getdents(c)
      [] c.no = "readlink" -> sys_readlink(c)
      [] c.no = "ioctl" -> sys_ioctl(c)
      [] c.no = "futex" -> sys_futex(c)
      [] c.no = "_llseek" -> sys__llseek(c)
      [] c.no = "madvise" -> sys_madvise(c)
      [] c.no = "mprotect" -> sys_mprotect(c)
      [] c.no = "open" -> sys_open(c)
      [] c.no = "creat" -> sys_creat(c)
      [] c.no = "openat" -> sys_openat(c)
      [] c.no = "poll" -> sys_poll(c)
      [] c.no = "epoll_wait" -> sys_epoll_wait(c)
      [] c.no = "read" -> sys_read(c)
      [] c.no = "pread64" -> sys_pread64(c)
      [] c.no = "socketcall" -> sys_socketcall(c)
      [] c.no = "recvfrom" -> sys_recvfrom(c)
      [] c.no = "recvmsg" -> sys_recvmsg(c)
      [] c.no = "sendmsg" -> sys_sendmsg(c)
      [] c.no = "sendto" -> sys_sendto(c)
      [] c.no = "write" -> sys_write(c)
      [] c.no = "writev" -> sys_writev(c)
      [] c.no = "pwrite64" -> sys_pwrite64(c)
      [] c.no = "setsockopt" -> sys_setsockopt(c)
      [] c.no = "quotactl" -> sys_quotactl(c)
      [] c.no = "ptrace" -> sys_ptrace(c)
      [] c.no = "rt_sigprocmask" -> sys_rt_sigprocmask(c)
      [] OTHER -> << Traced >>
=============================================================================
