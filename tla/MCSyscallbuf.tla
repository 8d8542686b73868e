---------------------------- MODULE MCSyscallbuf ----------------------------
(***************************************************************************)
(* Instances of RecordSyscallbuf: every wrapper as the first call of the   *)
(* program, then a call that may block, change the mask or neither.        *)
(***************************************************************************)
EXTENDS RecordSyscallbuf

Call(no, arg) == [NoCall EXCEPT !.no = no, !.arg = arg, !.null = FALSE]

Plain == {Call(no, "") : no \in
             {"getpid", "close", "clock_gettime", "gettimeofday", "stat", "statfs", "getrusage",
              "socketpair", "time", "flistxattr", "getxattr", "fgetxattr", "listxattr",
              "getdents", "readlink", "_llseek", "mprotect", "open", "creat", "openat",
              "poll", "epoll_wait", "read", "pread64", "recvfrom", "recvmsg", "sendmsg",
              "sendto", "write", "writev", "pwrite64", "setsockopt", "ioctl", "exotic"}}
         \cup {Call("fcntl", a) : a \in {"no_outparams", "own_ex", "setlk", "setlkw", "other"}}
         \cup {Call("futex", a) : a \in {"wake", "wake_op", "wait"}}
         \cup {Call("read", a) : a \in {"huge", "scratch"}}
         \cup {Call("ioctl", "fioclex"), Call("madvise", "listed"), Call("poll", "no_timeout"),
               Call("epoll_wait", "no_timeout"), Call("recvmsg", "fds"),
               Call("socketcall", "recv"), Call("ptrace", "peekdata"),
               Call("rt_sigprocmask", "block"), Call("rt_sigprocmask", "odd_size")}
\* a null pointer, chaos mode, a full table of mprotects, an unbufferable
\* descriptor, a call that the program's seccomp filter traps
Special == {[Call("recvfrom", "") EXCEPT !.null = TRUE], [Call("write", "") EXCEPT !.chaos = TRUE],
            [Call("mprotect", "") EXCEPT !.mprotects_full = TRUE]}
           \cup {[Call("read", a) EXCEPT !.fd = 2] : a \in {"", "huge"}}
Filtered == {[Call(no, "") EXCEPT !.trap = TRUE] :
                no \in {"clock_gettime", "recvfrom", "poll", "epoll_wait", "getdents"}}

MCFirst == Plain \cup Special \cup Filtered
MCLater == {Call("read", ""), Call("rt_sigprocmask", "unblock")}
MCHandler == {Call("rt_sigprocmask", "unblock")}
MCDisabled == {2}
=============================================================================
