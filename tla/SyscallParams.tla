---------------------------- MODULE SyscallParams ----------------------------
(***************************************************************************)
(* What rr's recorder knows about every system call: the memory parameters *)
(* it registers at the entry of the call, the argument registers it        *)
(* changes to divert the call, whether another task may run while the call *)
(* is in the kernel, and the registers it puts back at the exit            *)
(* (record_syscall.cc: rec_prepare_syscall_arch and the prepare_ functions *)
(* it calls, and the switch of rec_process_syscall_arch).                  *)
(*                                                                         *)
(* A call is described by a plan.  Its parameters are a sequence; each one *)
(* says where its address is found (register <<0, a>>, or cell <<k, o>>:   *)
(* offset o of parameter k), how many cells it has, its mode, and where    *)
(* its final size comes from.  Sizes are in cells: a structure without     *)
(* pointers is one cell, a structure with pointers or lengths has one cell *)
(* for each of them, a buffer has two.                                     *)
(***************************************************************************)
EXTENDS Naturals, Sequences, FiniteSets, TLC

Fixed == <<9, 9>>
Result == <<0, 0>>

Param(k, o, w, mode) ==
  [ptr |-> <<k, o>>, w |-> w, mode |-> mode, from |-> Fixed, mut |-> "none"]

\* reg_parameter and mem_ptr_parameter with a fixed size.
Reg(a, w, mode) == Param(0, a, w, mode)
Mem(k, o, w, mode) == Param(k, o, w, mode)

\* ParamSize::from_syscall_result and ParamSize::from_(initialized_)mem.
FromResult(p) == [p EXCEPT !.from = Result]
FromMem(p, k, o) == [p EXCEPT !.from = <<k, o>>]

\* A parameter a mutator rewrites before the call.
Mutated(p, mutator) == [p EXCEPT !.mut = mutator]

\* An output whose address is in memory that is no parameter of the call.
Elsewhere(w) == Param(9, 9, w, "OUT")

\* Memory the kernel writes that no parameter names, recorded by an
\* after_syscall_action.
Extra(w) == Param(9, 9, w, "AFTER")

\* Memory rr writes and records at the entry; it is not in param_list.
Ranges(w) == Param(9, 9, w, "RANGE")

Plan(sw, params) ==
  [sw |-> sw, params |-> params, errno |-> FALSE, set |-> {}, no |-> FALSE,
   emulate |-> FALSE, pre |-> {}, late |-> {},
   onFailure |-> FALSE]

Allow(params) == Plan("ALLOW", params)
Prevent(params) == Plan("PREVENT", params)

\* The recorder knows the call must fail and only checks that it does.
Expect == [Prevent(<<>>) EXCEPT !.errno = TRUE]

\* The arguments in S are replaced so that the kernel refuses the call, and
\* the result is rr's.
Disable(S, params) == [Prevent(params) EXCEPT !.set = S, !.emulate = TRUE]

\* rr writes the parameters in S itself before the call runs.
Written(plan, S) == [plan EXCEPT !.pre = S]

\* The call is replaced by another system call.
Hijack(params) == [Prevent(params) EXCEPT !.no = TRUE]

Each(names, plan) == [n \in names |-> plan]
Merge(families) == [n \in UNION {DOMAIN f : f \in families} |->
                      (CHOOSE f \in families : n \in DOMAIN f)[n]]

-----------------------------------------------------------------------------
(* Sockets.                                                                *)

\* A msghdr has the cells name, namelen, iov, control, controllen.
HdrCells == 5

\* The message whose header starts at offset o of parameter k; the header's
\* parameters follow parameter n, and its iovecs fill from size.
prepare_recvmsg(k, o, n, iovs, size) ==
  << FromMem(Mem(k, o, 1, "OUT"), k, o + 1),
     Mem(k, o + 2, iovs, "IN") >>
  \o [i \in 1..iovs |-> [Mem(n + 2, i - 1, 1, "OUT") EXCEPT !.from = size]]
  \o << FromMem(Mem(k, o + 3, 1, "OUT"), k, o + 4) >>

\* One mmsghdr: a header and its msg_len.
prepare_recvmmsg(k, n) == prepare_recvmsg(k, 0, n, 1, <<k, HdrCells>>)

prepare_setsockopt(pre) ==
  [blocked |-> Disable({1}, pre),
   replace |-> Prevent(pre \o <<Elsewhere(1)>>),
   other |-> Prevent(pre)]

maybe_blacklist_connect(pre) ==
  [refused |-> Hijack(pre), allowed |-> Prevent(pre)]

\* The argument structure of socketcall is parameter 1.
Args(w) == Reg(2, w, "IN")

\* A length in the argument structure (its cell 1) and the buffer it bounds.
Bounded(k) == <<Mem(1, 1, 1, "IN_OUT"), FromMem(Mem(1, 0, 2, "OUT"), k, 0)>>

prepare_socketcall ==
  Merge({
    Each({"SOCKET", "BIND", "LISTEN", "SHUTDOWN"}, Prevent(<<>>)),
    Each({"SEND", "SENDTO"}, Allow(<<>>)),
    Each({"CONNECT"}, maybe_blacklist_connect(<<Args(1)>>).allowed),
    Each({"CONNECT_REFUSED"}, maybe_blacklist_connect(<<Args(1)>>).refused),
    Each({"SETSOCKOPT"}, prepare_setsockopt(<<Args(1)>>).other),
    Each({"SETSOCKOPT_BLOCKED"}, prepare_setsockopt(<<Args(1)>>).blocked),
    Each({"SETSOCKOPT_REPLACE"}, prepare_setsockopt(<<Args(1)>>).replace),
    Each({"GETSOCKOPT", "GETPEERNAME", "GETSOCKNAME"}, Prevent(<<Args(2)>> \o Bounded(2))),
    Each({"SOCKETPAIR"}, Prevent(<<Args(1), Mem(1, 0, 2, "OUT")>>)),
    Each({"RECV"}, Allow(<<Args(1), FromResult(Mem(1, 0, 2, "OUT"))>>))})

prepare_socketcall_messages ==
  Merge({
    Each({"ACCEPT", "ACCEPT4"}, Allow(<<Args(2)>> \o Bounded(2))),
    Each({"RECVFROM"},
         Allow(<<Args(3), FromResult(Mem(1, 2, 2, "OUT"))>> \o Bounded(3))),
    Each({"RECVMSG"}, Allow(<<Args(1), Mem(1, 0, HdrCells, "IN_OUT")>>
                            \o prepare_recvmsg(2, 0, 2, 2, Result))),
    Each({"RECVMSG_DONTWAIT"}, Prevent(<<Args(1), Mem(1, 0, HdrCells, "IN_OUT")>>
                                       \o prepare_recvmsg(2, 0, 2, 2, Result))),
    Each({"RECVMMSG"}, Allow(<<Args(1), Mem(1, 0, HdrCells + 1, "IN_OUT")>>
                             \o prepare_recvmmsg(2, 2))),
    Each({"SENDMSG"}, Allow(<<>>)), Each({"SENDMSG_DONTWAIT"}, Prevent(<<>>)),
    Each({"SENDMMSG"}, Allow(<<Args(1), Mem(1, 0, 1, "IN_OUT")>>)),
    Each({"SENDMMSG_DONTWAIT"}, Prevent(<<Args(1), Mem(1, 0, 1, "IN_OUT")>>)),
    Each({"UNKNOWN"}, Expect)})

sockets ==
  Merge({
    Each({"recvfrom"}, Allow(<<FromResult(Reg(2, 2, "OUT")), Reg(6, 1, "IN_OUT"),
                               FromMem(Reg(5, 2, "OUT"), 2, 0)>>)),
    Each({"recvmsg"}, Allow(<<Reg(2, HdrCells, "IN_OUT")>> \o prepare_recvmsg(1, 0, 1, 2, Result))),
    Each({"recvmsg_DONTWAIT"},
         Prevent(<<Reg(2, HdrCells, "IN_OUT")>> \o prepare_recvmsg(1, 0, 1, 2, Result))),
    Each({"recvmmsg"}, Allow(<<Reg(2, HdrCells + 1, "IN_OUT")>> \o prepare_recvmmsg(1, 1))),
    Each({"sendto", "sendmsg"}, Allow(<<>>)),
    Each({"sendto_DONTWAIT", "sendmsg_DONTWAIT"}, Prevent(<<>>)),
    Each({"sendmmsg"}, Allow(<<Reg(2, 1, "IN_OUT")>>)),
    Each({"sendmmsg_DONTWAIT"}, Prevent(<<Reg(2, 1, "IN_OUT")>>)),
    Each({"getsockname", "getpeername"},
         Prevent(<<Reg(3, 1, "IN_OUT"), FromMem(Reg(2, 2, "OUT"), 1, 0)>>)),
    Each({"setsockopt"}, prepare_setsockopt(<<>>).other),
    Each({"setsockopt_REPLACE"}, prepare_setsockopt(<<>>).replace),
    Each({"setsockopt_BLOCKED"}, prepare_setsockopt(<<>>).blocked),
    Each({"getsockopt"}, Prevent(<<Reg(5, 1, "IN_OUT"), FromMem(Reg(4, 2, "OUT"), 1, 0)>>))})

accept == Each({"accept", "accept4"},
               Allow(<<Reg(3, 1, "IN_OUT"), FromMem(Reg(2, 2, "OUT"), 1, 0)>>))

connect == Each({"allowed"}, maybe_blacklist_connect(<<>>).allowed) @@
           Each({"refused"}, maybe_blacklist_connect(<<>>).refused)

-----------------------------------------------------------------------------
(* System V IPC; ptr is the register with the buffer's address.            *)

prepare_msgctl(ptr) ==
  Merge({Each({"IPC_STAT", "MSG_STAT", "IPC_INFO", "MSG_INFO"}, Prevent(<<Reg(ptr, 1, "OUT")>>)),
         Each({"IPC_SET", "IPC_RMID"}, Prevent(<<>>)),
         Each({"UNKNOWN"}, Expect)})

prepare_shmctl(ptr) ==
  Merge({Each({"IPC_SET", "IPC_RMID", "SHM_LOCK", "SHM_UNLOCK"}, Prevent(<<>>)),
         Each({"IPC_STAT", "SHM_STAT", "IPC_INFO", "SHM_INFO"}, Prevent(<<Reg(ptr, 1, "OUT")>>)),
         Each({"UNKNOWN"}, Expect)})

\* With DEREFERENCE the register holds the address of the buffer's address.
prepare_semctl(ptr, deref) ==
  LET out(w) == IF deref THEN <<Reg(ptr, 1, "OUT"), Mem(1, 0, w, "OUT")>>
                ELSE <<Reg(ptr, w, "OUT")>>
  IN Merge({Each({"IPC_SET", "IPC_RMID", "GETNCNT", "GETPID", "GETVAL", "GETZCNT",
                  "SETALL", "SETVAL"}, Prevent(<<>>)),
            Each({"IPC_STAT", "SEM_STAT", "IPC_INFO", "SEM_INFO"}, Prevent(out(1))),
            Each({"GETALL"}, Prevent(out(2))),
            Each({"UNKNOWN"}, Expect)})

Plans(family) == {family[n] : n \in DOMAIN family}

ipc ==
  Plans(prepare_msgctl(5)) \cup Plans(prepare_shmctl(5)) \cup Plans(prepare_semctl(5, TRUE))
  \cup Plans(Merge({
         Each({"MSGGET", "SHMDT", "SHMGET", "SEMGET"}, Prevent(<<>>)),
         Each({"MSGSND", "SEMOP", "SEMTIMEDOP"}, Allow(<<>>)),
         Each({"MSGRCV"}, Allow(<<Reg(5, 1, "IN"), Mem(1, 0, 2, "OUT")>>)),
         Each({"SHMAT"}, Prevent(<<Reg(4, 1, "OUT")>>)),
         Each({"UNKNOWN"}, Expect)}))

-----------------------------------------------------------------------------
(* ioctl.                                                                  *)

StackPage == Extra(1)

\* The file's monitor answers the request itself.
emulated_ioctl == Disable({1}, <<>>)

\* Requests that do not follow the _IOC conventions.
prepare_ioctl_irregular ==
  Merge({
    Each({"SIOCETHTOOL", "SIOCBONDINFOQUERY"},
         Prevent(<<Reg(3, 1, "IN"), Mem(1, 0, 1, "OUT"), StackPage>>)),
    Each({"SIOCGIFCONF"},
         Prevent(<<Reg(3, 2, "IN_OUT"), FromMem(Mem(1, 0, 2, "OUT"), 1, 1), StackPage>>)),
    Each({"SIOCSIFADDR", "SIOCSIFDSTADDR", "SIOCSIFBRDADDR", "SIOCSIFHWADDR", "SIOCSIFFLAGS",
          "SIOCSIFPFLAGS", "SIOCSIFTXQLEN", "SIOCSIFMTU", "SIOCSIFNAME", "SIOCSIFNETMASK",
          "SIOCSIFMETRIC", "SIOCSIFHWBROADCAST", "SIOCSIFMAP", "SIOCADDMULTI", "SIOCDELMULTI",
          "SIOCBRADDBR", "SIOCBRDELBR", "SIOCBRADDIF", "SIOCBRDELIF", "SIOCADDRT", "SIOCDELRT"},
         Prevent(<<>>)),
    Each({"SIOCGIFADDR", "SIOCGIFDSTADDR", "SIOCGIFBRDADDR", "SIOCGIFHWADDR", "SIOCGIFFLAGS",
          "SIOCGIFPFLAGS", "SIOCGIFTXQLEN", "SIOCGIFINDEX", "SIOCGIFMTU", "SIOCGIFNAME",
          "SIOCGIFNETMASK", "SIOCGIFMETRIC", "SIOCGIFMAP", "SIOCGIWFREQ", "SIOCGIWMODE",
          "SIOCGIWNAME", "SIOCGIWRATE", "SIOCGIWSENS"},
         Prevent(<<Reg(3, 1, "OUT"), StackPage>>)),
    Each({"SIOCGIWESSID"}, Prevent(<<Reg(3, 1, "IN_OUT"), Mem(1, 0, 2, "OUT"), StackPage>>)),
    Each({"SIOCGSTAMP", "SIOCGSTAMPNS", "TCGETS", "TIOCGLCKTRMIOS", "TCGETA", "TIOCINQ", "TIOCOUTQ",
          "TIOCGETD", "TIOCGWINSZ", "TIOCGPGRP", "TIOCGSID", "SNDRV_CTL_IOCTL_PVERSION",
          "SNDRV_CTL_IOCTL_CARD_INFO", "HCIGETDEVINFO", "HCIGETDEVLIST"},
         Prevent(<<Reg(3, 1, "OUT")>>))})

\* Requests without the _IOC_READ bit.
prepare_ioctl_no_read ==
  Merge({
    Each({"TCSETS", "TCSETSW", "TCSETSF", "TCSETA", "TCSETAW", "TCSETAF", "TIOCSLCKTRMIOS", "TCSBRK",
          "TCSBRKP", "TIOCSBRK", "TIOCCBRK", "TCXONC", "TCFLSH", "TIOCEXCL", "TIOCNXCL", "TIOCSCTTY",
          "TIOCNOTTY", "TIOCSPGRP", "TIOCSTI", "TIOCSWINSZ", "TIOCCONS", "TIOCPKT", "FIONBIO",
          "FIOASYNC", "TIOCSETD", "TIOCSPTLCK", "TIOCGPTPEER", "FIOCLEX", "FIONCLEX",
          "BTRFS_IOC_CLONE", "BTRFS_IOC_CLONE_RANGE", "USBDEVFS_DISCARDURB", "USBDEVFS_RESET",
          "TUNSET", "TUNATTACHFILTER", "TUNDETACHFILTER", "OTHER_TYPE"}, Prevent(<<>>)),
    Each({"USBDEVFS_GETDRIVER", "TUNSETIFF"}, Prevent(<<Reg(3, 1, "OUT")>>)),
    Each({"USBDEVFS_REAPURB", "USBDEVFS_REAPURBNDELAY"}, Allow(<<Reg(3, 1, "OUT"), Extra(1)>>)),
    Each({"TIO_UNKNOWN", "SIO_UNKNOWN"}, Expect)})

\* Requests with the _IOC_READ bit.
prepare_ioctl_read ==
  Merge({
    Each({"EVIOCGBIT", "TIOCGPTN", "TIOCGPKT", "TIOCGPTLCK", "TIOCGEXCL", "USBDEVFS_GET_CAPABILITIES",
          "FS_IOC_GETVERSION", "FS_IOC_GETFLAGS", "TUNGETFEATURES", "TUNGETSNDBUF",
          "TUNGETVNETHDRSZ", "TUNGETVNETLE", "TUNGETVNETBE", "EVIOCG", "TUNGETIFF", "TUNGETFILTER"},
         Prevent(<<Reg(3, 1, "OUT")>>)),
    Each({"VIDIOC_QUERYCAP", "VIDIOC_ENUM", "VIDIOC_G", "VIDIOC_S", "VIDIOC_TRY_FMT", "VIDIOC_REQBUFS",
          "VIDIOC_QUERYBUF", "VIDIOC_QUERYCTRL", "VIDIOC_QBUF", "VFAT_IOCTL_READDIR_BOTH"},
         Prevent(<<Reg(3, 1, "IN_OUT")>>)),
    Each({"USBDEVFS_ALLOC_STREAMS", "USBDEVFS_CLAIMINTERFACE", "USBDEVFS_CLEAR_HALT",
          "USBDEVFS_DISCONNECT_CLAIM", "USBDEVFS_FREE_STREAMS", "USBDEVFS_RELEASEINTERFACE",
          "USBDEVFS_SETCONFIGURATION", "USBDEVFS_SETINTERFACE", "USBDEVFS_SUBMITURB"}, Prevent(<<>>)),
    Each({"USBDEVFS_IOCTL", "USBDEVFS_CONTROL"},
         Prevent(<<Reg(3, 1, "IN"), Mem(1, 0, 2, "OUT")>>)),
    Each({"VIDIOC_DQBUF"}, Allow(<<Reg(3, 1, "IN_OUT"), Extra(1)>>)),
    Each({"UNKNOWN"}, Expect)})

prepare_ioctl ==
  {emulated_ioctl} \cup Plans(prepare_ioctl_irregular) \cup Plans(prepare_ioctl_no_read)
                  \cup Plans(prepare_ioctl_read)

-----------------------------------------------------------------------------
(* Files and descriptors.                                                  *)

fcntl ==
  Merge({
    Each({"EMULATED", "SETFD_RR_FD"}, Disable({1}, <<>>)),
    Each({"DUPFD", "DUPFD_CLOEXEC", "GETFD", "GETFL", "SETFL", "SETLK", "SETLK64", "OFD_SETLK",
          "SETOWN", "SETOWN_EX", "GETSIG", "SETSIG", "SETPIPE_SZ", "GETPIPE_SZ", "ADD_SEALS",
          "SET_RW_HINT", "SET_FILE_RW_HINT", "SETFD"}, Prevent(<<>>)),
    Each({"GETLK", "OFD_GETLK", "GETLK64"}, Prevent(<<Reg(3, 1, "IN_OUT")>>)),
    Each({"GETOWN_EX", "GET_RW_HINT", "GET_FILE_RW_HINT"}, Prevent(<<Reg(3, 1, "OUT")>>)),
    Each({"SETLKW", "SETLKW64", "OFD_SETLKW"}, Allow(<<>>)),
    Each({"UNKNOWN"}, Expect)})

\* A read the file's monitor answers: record_ranges records the data at the
\* entry, and the kernel refuses the call.
Emulated(params, S) == Written(Disable({1}, params), S)

read ==
  Each({"read", "pread64"}, Allow(<<FromResult(Reg(2, 2, "OUT"))>>)) @@
  Each({"EMULATED"}, Emulated(<<Ranges(2)>>, {1}))

readv ==
  Each({"readv", "preadv"},
       Allow(<<Reg(2, 2, "IN"), FromResult(Mem(1, 0, 1, "OUT")), FromResult(Mem(1, 1, 1, "OUT"))>>)) @@
  Each({"EMULATED"}, Emulated(<<Reg(2, 1, "IN"), Ranges(2)>>, {2}))

writes_and_copies ==
  Each({"write_MONITORED"}, Prevent(<<>>)) @@ Each({"write", "writev"}, Allow(<<>>)) @@
  Each({"copy_file_range"}, Allow(<<Reg(2, 1, "IN_OUT"), Reg(4, 1, "IN_OUT")>>))

rec_prepare_open(path) ==
  [refused |-> [Allow(<<>>) EXCEPT !.set = {path}], gcrypt |-> Hijack(<<>>), other |-> Allow(<<>>)]

opens ==
  Merge({
    Each({"open"}, rec_prepare_open(1).other),
    Each({"open_REFUSED"}, rec_prepare_open(1).refused),
    Each({"open_GCRYPT"}, rec_prepare_open(1).gcrypt),
    Each({"openat_RELATIVE", "openat"}, rec_prepare_open(2).other),
    Each({"openat_REFUSED"}, rec_prepare_open(2).refused)})

\* close, dup2 and dup3 of one of rr's own descriptors.
descriptors ==
  Each({"close", "dup2"}, Prevent(<<>>)) @@
  Each({"close_RR_FD", "dup2_RR_FD"}, [Prevent(<<>>) EXCEPT !.set = {1}])

transfers ==
  Each({"splice"}, Allow(<<Reg(2, 1, "IN_OUT"), Reg(4, 1, "IN_OUT")>>)) @@
  Each({"sendfile", "sendfile64"}, Allow(<<Reg(3, 1, "IN_OUT")>>))

\* Calls whose output is as long as the result says.
getrandom ==
  Each({"BLOCK"}, Allow(<<FromResult(Reg(1, 2, "OUT"))>>)) @@
  Each({"NONBLOCK"}, Prevent(<<FromResult(Reg(1, 2, "OUT"))>>))

directories ==
  Each({"getcwd"}, Prevent(<<FromResult(Reg(1, 2, "OUT"))>>)) @@
  Each({"getdents", "getdents64", "readlink"}, Prevent(<<FromResult(Reg(2, 2, "OUT"))>>)) @@
  Each({"readlinkat"}, Prevent(<<FromResult(Reg(3, 2, "OUT"))>>))

xattrs ==
  Each({"getxattr", "lgetxattr", "fgetxattr"}, Prevent(<<FromResult(Reg(3, 2, "OUT"))>>)) @@
  Each({"listxattr", "llistxattr", "flistxattr"}, Prevent(<<FromResult(Reg(2, 2, "OUT"))>>))

queues ==
  Each({"mq_timedreceive"}, Allow(<<FromResult(Reg(2, 2, "OUT")), Reg(4, 1, "OUT")>>)) @@
  Each({"modify_ldt"}, Allow(<<FromResult(Reg(2, 2, "OUT"))>>)) @@
  Each({"modify_ldt_WRITE"}, Allow(<<>>)) @@
  Each({"name_to_handle_at"}, Allow(<<Reg(3, 1, "OUT"), Reg(4, 1, "OUT")>>))

\* sched_getaffinity for the task itself: rr writes its own mask over the
\* kernel's at the exit.
sched_getaffinity ==
  [Prevent(<<FromResult(Reg(3, 2, "OUT"))>>) EXCEPT !.late = {1}]

-----------------------------------------------------------------------------
(* Waiting.                                                                *)

futex ==
  Merge({
    Each({"WAIT", "WAIT_BITSET"}, Allow(<<>>)),
    Each({"CMP_REQUEUE", "WAKE_OP"}, Prevent(<<Reg(5, 1, "IN_OUT_NO_SCRATCH")>>)),
    Each({"WAKE", "WAKE_BITSET"}, Prevent(<<>>)),
    Each({"LOCK_PI", "UNLOCK_PI", "TRYLOCK_PI", "CMP_REQUEUE_PI", "WAIT_REQUEUE_PI"},
         Disable({2}, <<>>)),
    Each({"UNKNOWN"}, Expect)})

Inout(a) == Reg(a, 1, "IN_OUT")

select ==
  Merge({
    Each({"select_STRUCT"},
         Allow(<<Reg(1, 4, "IN"), Mem(1, 0, 1, "IN_OUT"), Mem(1, 1, 1, "IN_OUT"),
                 Mem(1, 2, 1, "IN_OUT"), Mem(1, 3, 1, "IN_OUT")>>)),
    Each({"_newselect"}, Allow(<<Inout(2), Inout(3), Inout(4), Inout(5)>>)),
    Each({"pselect6"},
         Allow(<<Inout(2), Inout(3), Inout(4), Inout(5), Reg(6, 1, "IN"),
                 Mutated(Mem(5, 0, 1, "IN"), "protect_rr_sigs")>>))})

poll ==
  Each({"ppoll"},
       Allow(<<Inout(3), Mutated(Reg(4, 1, "IN"), "protect_rr_sigs"), Reg(1, 2, "IN_OUT")>>)) @@
  Each({"poll"}, Allow(<<Reg(1, 2, "IN_OUT")>>))

epoll == Each({"epoll_wait", "epoll_pwait"}, Allow(<<Reg(2, 2, "OUT")>>))

sleeps ==
  Each({"nanosleep"}, [Allow(<<Reg(2, 1, "OUT")>>) EXCEPT !.onFailure = TRUE]) @@
  Each({"clock_nanosleep"}, [Allow(<<Reg(4, 1, "OUT")>>) EXCEPT !.onFailure = TRUE])

\* A wait that maybe_emulate_wait answers is made to fail by an invalid option
\* and rr writes the status at the exit; one that only an emulated ptrace
\* stop can end becomes a pause.
EmulatedWait(params, option) ==
  [Prevent(params) EXCEPT !.set = {option}, !.late = {1}, !.emulate = TRUE]

waits ==
  Merge({
    Each({"wait4"}, Allow(<<Inout(2), Reg(4, 1, "OUT")>>)),
    Each({"waitpid"}, Allow(<<Inout(2)>>)),
    Each({"waitid"}, Allow(<<Inout(3)>>)),
    Each({"wait4_EMULATED"}, EmulatedWait(<<Inout(2), Reg(4, 1, "OUT")>>, 3)),
    Each({"waitpid_EMULATED"}, EmulatedWait(<<Inout(2)>>, 3)),
    Each({"waitid_EMULATED"}, EmulatedWait(<<Inout(3)>>, 4)),
    Each({"wait4_PAUSE"}, [Allow(<<Inout(2), Reg(4, 1, "OUT")>>) EXCEPT !.no = TRUE]),
    Each({"waitid_PAUSE"}, [Allow(<<Inout(3)>>) EXCEPT !.no = TRUE]),
    Each({"waitid_UNKNOWN"}, [Allow(<<Inout(3)>>) EXCEPT !.errno = TRUE])})

\* waitid with an unknown idtype while a stop is pending.
waitid_unknown_emulated == [EmulatedWait(<<Inout(3)>>, 4) EXCEPT !.errno = TRUE]

\* Calls that may block and have nothing, or little, to record.
blocking ==
  Each({"fdatasync", "fsync", "msgsnd", "msync", "semop", "semtimedop", "sync", "sync_file_range",
        "syncfs"}, Allow(<<>>)) @@
  Each({"msgrcv"}, Allow(<<Reg(2, 2, "OUT")>>))

yielding == Each({"pause", "sched_yield", "sigsuspend", "rt_sigsuspend"}, Allow(<<>>))

signals ==
  Each({"rt_sigprocmask", "sigprocmask"},
       Prevent(<<Reg(3, 1, "OUT"), Mutated(Reg(2, 1, "IN"), "protect_rr_sigs")>>)) @@
  Each({"sigaction", "rt_sigaction"},
       Prevent(<<Mutated(Reg(2, 1, "IN"), "protect_rr_sigs_sa_mask"), Reg(3, 1, "OUT")>>)) @@
  Each({"rt_sigpending"}, Prevent(<<Reg(1, 1, "OUT")>>)) @@
  Each({"rt_sigtimedwait"}, Allow(<<Reg(2, 1, "OUT")>>))

-----------------------------------------------------------------------------
(* The process and the machine.                                            *)

prctl ==
  Merge({
    Each({"PR_GET_CHILD_SUBREAPER", "PR_GET_ENDIAN", "PR_GET_FPEMU", "PR_GET_FPEXC",
          "PR_GET_PDEATHSIG", "PR_GET_UNALIGN", "PR_GET_NAME"}, Prevent(<<Reg(2, 1, "OUT")>>)),
    Each({"PR_GET_KEEPCAPS", "PR_GET_NO_NEW_PRIVS", "PR_GET_TIMERSLACK", "PR_MCE_KILL",
          "PR_MCE_KILL_GET", "PR_SET_CHILD_SUBREAPER", "PR_SET_KEEPCAPS", "PR_SET_NAME",
          "PR_SET_PDEATHSIG", "PR_SET_TIMERSLACK", "PR_CAP_AMBIENT", "PR_CAPBSET_DROP",
          "PR_CAPBSET_READ", "PR_GET_SPECULATION_CTRL", "PR_SET_SPECULATION_CTRL",
          "PR_SET_DUMPABLE", "PR_SET_NO_NEW_PRIVS", "PR_SET_SECCOMP_STRICT",
          "PR_SET_SECCOMP_BEFORE_EXEC"}, Prevent(<<>>)),
    Each({"PR_SET_DUMPABLE_0", "PR_SET_TSC", "PR_SET_PTRACER"}, Disable({1}, <<>>)),
    Each({"PR_GET_DUMPABLE", "PR_GET_SECCOMP"}, Disable({}, <<>>)),
    Each({"PR_GET_TSC"}, Written(Disable({1}, <<Reg(2, 1, "IN_OUT_NO_SCRATCH")>>), {1})),
    Each({"PR_SET_SECCOMP_FILTER"}, [Prevent(<<>>) EXCEPT !.set = {1}]),
    Each({"PR_SET_NO_NEW_PRIVS_0", "PR_SET_SECCOMP_UNKNOWN", "UNKNOWN"}, Expect)})

arch_prctl ==
  Merge({
    Each({"ARCH_SET_FS", "ARCH_SET_GS", "ARCH_CPUID_UNSUPPORTED"}, Prevent(<<>>)),
    Each({"ARCH_GET_FS", "ARCH_GET_GS"}, Prevent(<<Reg(2, 1, "OUT")>>)),
    Each({"ARCH_SET_CPUID", "ARCH_GET_CPUID"}, Disable({1}, <<>>)),
    Each({"UNKNOWN"}, Expect)})

seccomp ==
  Each({"SET_MODE_STRICT"}, Prevent(<<>>)) @@
  Each({"SET_MODE_FILTER"}, [Prevent(<<>>) EXCEPT !.set = {1}]) @@
  Each({"UNKNOWN"}, Expect)

_sysctl == Prevent(<<Reg(1, 2, "IN"), Mem(1, 0, 1, "IN_OUT"), FromMem(Mem(1, 1, 2, "OUT"), 2, 0)>>)

quotactl ==
  Each({"Q_GETQUOTA", "Q_GETINFO", "Q_GETFMT"}, Prevent(<<Reg(4, 1, "OUT")>>)) @@
  Each({"Q_QUOTAON", "Q_QUOTAOFF", "Q_SETINFO", "Q_SYNC", "UNKNOWN"}, Prevent(<<>>))

keyctl ==
  Merge({
    Each({"GET_KEYRING_ID", "JOIN_SESSION_KEYRING", "UPDATE", "REVOKE", "CHOWN", "SETPERM", "CLEAR",
          "LINK", "UNLINK", "SEARCH", "INSTANTIATE", "INSTANTIATE_IOV", "NEGATE", "REJECT",
          "SET_REQKEY_KEYRING", "SET_TIMEOUT", "ASSUME_AUTHORITY", "SESSION_TO_PARENT",
          "INVALIDATE"}, Prevent(<<>>)),
    Each({"DESCRIBE", "READ", "GET_SECURITY", "DH_COMPUTE"}, Prevent(<<FromResult(Reg(3, 2, "OUT"))>>)),
    Each({"UNKNOWN"}, Expect)})

\* Calls on the process's own memory; chaos mode changes an mmap's address, and
\* MAP_GROWSDOWN and PROT_GROWSDOWN are taken out.
memory ==
  Each({"brk", "munmap", "mremap", "shmat", "shmdt", "rrcall_notify_syscall_hook_exit"}, Prevent(<<>>)) @@
  Each({"process_vm_readv", "process_vm_writev"}, Prevent(<<Extra(2)>>))

madvise ==
  Merge({
    Each({"mincore"}, Prevent(<<Reg(3, 2, "OUT")>>)),
    Each({"get_mempolicy"}, Prevent(<<Reg(1, 1, "OUT"), Reg(2, 2, "OUT")>>)),
    Each({"madvise"}, Prevent(<<>>)),
    Each({"madvise_FREE"}, [Prevent(<<>>) EXCEPT !.set = {3}]),
    Each({"madvise_UNKNOWN"}, Expect)})

prepare_mmap_register_params == [Prevent(<<>>) EXCEPT !.set = {1, 4}]
fixup_mprotect_growsdown_parameters == [Prevent(<<>>) EXCEPT !.set = {1, 2, 3}]

\* Calls rr refuses, with the argument that makes the kernel ignore them.
io_setup ==
  Each({"io_setup"}, Disable({2}, <<>>)) @@ Each({"memfd_create_REFUSED"}, Disable({1}, <<>>)) @@
  Each({"memfd_create"}, Prevent(<<>>))

affinity ==
  Each({"sched_setaffinity"}, Disable({1}, <<>>)) @@
  Each({"sched_getaffinity"}, Prevent(<<FromResult(Reg(3, 2, "OUT"))>>))

\* perf_event_open of a counter rr virtualises becomes inotify_init.
perf_event_open == Each({"VIRTUAL"}, Hijack(<<>>)) @@ Each({"OTHER"}, Prevent(<<>>))

capget ==
  Each({"VERSION_1", "VERSION_2"}, Prevent(<<Reg(1, 1, "IN_OUT"), Reg(2, 2, "OUT")>>)) @@
  Each({"UNKNOWN"}, Prevent(<<Reg(1, 1, "IN_OUT")>>))

thread_areas == Each({"get_thread_area", "set_thread_area"}, Prevent(<<Reg(1, 1, "IN_OUT")>>))

sysfs ==
  Each({"1", "3"}, Prevent(<<>>)) @@ Each({"2"}, Prevent(<<Reg(3, 2, "OUT")>>)) @@
  Each({"UNKNOWN"}, Expect)

getgroups == Each({"getgroups", "getgroups32"}, Prevent(<<Reg(2, 2, "OUT")>>))

personality ==
  Each({"PER_LINUX"}, Prevent(<<>>)) @@ Each({"UNKNOWN"}, Expect)

rrcalls ==
  Each({"notify_control_msg", "init_preload"}, Disable({}, <<>>)) @@
  Each({"init_buffers"}, Prevent(<<Reg(1, 1, "IN_OUT")>>))

\* execve, whose results are process_execve's, and calls rr does not know.
execve == Each({"execve"}, Allow(<<>>))
unknown == Each({"UNKNOWN", "NEGATIVE"}, Expect)

\* The regular calls of syscalls.py: fixed outputs in the registers args.
regular(args) == Prevent([i \in 1..Len(args) |-> Reg(args[i], 1, "OUT")])

-----------------------------------------------------------------------------
(* ptrace, which rr emulates for its tracees: the call never reaches the   *)
(* kernel.                                                                 *)

Emulate(params, S) == Written(Disable({1}, params), S)

ptrace_get_reg_set == Emulate(<<Reg(4, 1, "IN_OUT"), Mem(1, 0, 2, "OUT")>>, {2})

prepare_ptrace_attach == Each({"ATTACH", "TRACEME", "SEIZE", "SETOPTIONS", "ESRCH"}, Emulate(<<>>, {}))

\* Requests that return the tracee's state.
prepare_ptrace_get ==
  Each({"GETEVENTMSG", "GETSIGINFO", "GETREGS", "GETFPREGS"}, Emulate(<<Reg(4, 1, "OUT")>>, {1})) @@
  Each({"GETREGSET_PRSTATUS", "GETREGSET_FPREGSET", "GETREGSET_XSTATE"}, ptrace_get_reg_set) @@
  Each({"GETREGSET_UNKNOWN"}, Expect)

\* Requests that set it.
prepare_ptrace_set ==
  Each({"SETREGS", "SETFPREGS", "SETREGSET_PRSTATUS", "SETREGSET_FPREGSET", "SETREGSET_XSTATE"},
       Emulate(<<>>, {})) @@
  Each({"SETREGSET_UNKNOWN"}, Expect)

\* Requests for its memory; what is written there is recorded as the tracee's.
prepare_ptrace_memory ==
  Each({"PEEKTEXT", "PEEKDATA", "PEEKUSER"}, Emulate(<<Reg(4, 1, "OUT")>>, {1})) @@
  Each({"POKETEXT", "POKEDATA"}, Emulate(<<Ranges(1)>>, {1})) @@
  Each({"POKEUSER"}, Emulate(<<>>, {}))

\* Requests that make it run.
prepare_ptrace_run ==
  Each({"SYSCALL", "SINGLESTEP", "SYSEMU", "SYSEMU_SINGLESTEP", "CONT", "DETACH", "KILL"}, Emulate(<<>>, {}))

prepare_ptrace_areas ==
  Each({"GET_THREAD_AREA", "ARCH_GET_FS"}, Emulate(<<Ranges(1)>>, {1})) @@
  Each({"SET_THREAD_AREA", "ARCH_SET_FS"}, Emulate(<<>>, {})) @@
  Each({"THREAD_AREA_X86_64", "ARCH_PRCTL_X86", "UNKNOWN"}, Expect)

\* GETFPXREGS and SETFPXREGS of a 64-bit tracer.
prepare_ptrace_fpxregs == [Emulate(<<>>, {}) EXCEPT !.errno = TRUE, !.emulate = FALSE]

-----------------------------------------------------------------------------
(* The exit: the argument registers, and the call's number (0), that       *)
(* rec_process_syscall_arch puts back.                                     *)

restored_early ==
  [ipc |-> {}, none |-> {}, mmap |-> {1, 4}, perf_event_open |-> {0}, connect |-> {0},
   open |-> {0, 1, 2}, setsockopt |-> {1}]

restored_late ==
  [socketcall |-> {0, 1}, ioctl |-> {1, 2, 3}, fcntl |-> {1, 2, 3}, read |-> {1, 2, 3},
   close |-> {1, 2, 3}, futex |-> {1, 2, 3}, mprotect |-> {1, 2, 3}, madvise |-> {1, 2, 3},
   refused |-> {1, 2, 3}, ptrace |-> {1, 2, 3}]

restored_wait == [wait |-> {0, 1, 2, 3, 4}]

restored_prctl == [prctl |-> {1}, arch_prctl |-> {1}, seccomp |-> {1}]

rec_process_syscall_arch == restored_early @@ restored_late @@ restored_wait @@ restored_prctl

Calls(plans, sysno) == {[plan |-> p, back |-> sysno] : p \in plans}

AllCalls ==
  UNION {
    Calls(Plans(prepare_socketcall) \cup Plans(prepare_socketcall_messages), "socketcall"),
    Calls(Plans(sockets), "setsockopt"), Calls(Plans(accept), "none"), Calls(Plans(connect), "connect"),
    Calls(ipc, "ipc"), Calls(prepare_ioctl, "ioctl"), Calls(Plans(fcntl), "fcntl"),
    Calls(Plans(prepare_msgctl(3)) \cup Plans(prepare_shmctl(3)) \cup Plans(prepare_semctl(4, FALSE)), "none"),
    Calls(Plans(read) \cup Plans(readv), "read"), Calls(Plans(opens), "open"),
    Calls(Plans(descriptors), "close"),
    Calls(UNION {Plans(f) : f \in {writes_and_copies, transfers, getrandom, directories, xattrs, queues}},
          "none"),
    Calls(Plans(futex), "futex"),
    Calls(UNION {Plans(f) : f \in {select, poll, epoll, sleeps, blocking, yielding, signals}}, "none"),
    Calls(Plans(waits), "wait"), Calls(Plans(prctl), "prctl"),
    Calls(Plans(arch_prctl), "arch_prctl"), Calls(Plans(seccomp), "seccomp"),
    Calls({_sysctl, sched_getaffinity} \cup UNION {Plans(f) : f \in {quotactl, keyctl, memory, capget,
            thread_areas, sysfs, getgroups, personality, rrcalls, execve, unknown}}, "none"),
    Calls(Plans(madvise), "madvise"), Calls({prepare_mmap_register_params}, "mmap"),
    Calls({fixup_mprotect_growsdown_parameters}, "mprotect"),
    Calls(Plans(io_setup) \cup Plans(affinity), "refused"),
    Calls(Plans(perf_event_open), "perf_event_open"),
    Calls({regular(<<>>), regular(<<1>>), regular(<<2>>), regular(<<3>>), regular(<<4>>),
           regular(<<5>>), regular(<<1, 2>>), regular(<<2, 3>>), regular(<<1, 2, 3>>)}, "none"),
    Calls(UNION {Plans(f) : f \in {prepare_ptrace_attach, prepare_ptrace_get, prepare_ptrace_set,
                                   prepare_ptrace_memory, prepare_ptrace_run, prepare_ptrace_areas}},
          "ptrace")}

\* The two calls that are both diverted and expected to fail.
Diverted == Calls({prepare_ptrace_fpxregs}, "ptrace") \cup Calls({waitid_unknown_emulated}, "wait")
=============================================================================
