---------------------------- MODULE FdTableSteps ----------------------------
(***************************************************************************)
(* What FdTable's invariant rests on when a step gives or takes away a     *)
(* descriptor or a table, for any number of tasks and descriptors.  A      *)
(* step's effect is a predicate on the tasks and the tables, and a lemma   *)
(* says that the effect alone keeps the conjuncts that speak of several    *)
(* tasks.  The actions that leave rr's tables alone are here too.          *)
(***************************************************************************)
EXTENDS FdTable, TLAPS

(* The monitor rr has for an open file.                                       *)
MonitorFor(file) == IF file.kind \in Special THEN file.kind ELSE "none"

(* The monitors of a table behind the last entry of the array.                *)
Beyond(m) == {fd \in Monitored(m) : fd >= Limit}

(* The modes of the tasks and the opens under way are what they were.         *)
ModesStay(S) ==
  \A u \in S : (InExec(u)' <=> InExec(u)) /\ (Running(u)' <=> Running(u))
FlightsStay == \A i, g : InFlight(i, g)' <=> InFlight(i, g)

(* A task that is there has tables and an address space.                      *)
LEMMA LiveTypes ==
  ASSUME IndInv, NEW t \in Live
  PROVE  t \in Tasks /\ ktab[t] \in Ids /\ rtab[t] \in Ids /\ vm[t] \in Ids
BY Zenon DEF IndInv, TypeOK, TasksAgree, Live

(* A task that may call is not in execve.                                     *)
LEMMA ReadyRuns ==
  ASSUME NEW t, Ready(t)
  PROVE  t \in Live /\ Running(t)
BY DEF Ready, Running, Idle

(* The tasks that are left have the tables and address spaces they had.       *)
SharingStays ==
  /\ Live' \subseteq Live
  /\ \A u \in Live' : ktab'[u] = ktab[u] /\ rtab'[u] = rtab[u] /\ vm'[u] = vm[u]
  /\ globals' = globals

(* They are also in the calls they were in, and none has left in an open.     *)
TasksStay ==
  /\ SharingStays
  /\ \A u \in Live' : call'[u] = call[u]
  /\ \A u \in Live : u \notin Live' => call[u].op # "open"

(* Neither rr, for the tasks of S, nor the opens under way need descriptor fd *)
(* of t's table.                                                              *)
Unneeded(t, fd, S) ==
  /\ fd # RootDir /\ ~InFlight(ktab[t], fd)
  /\ \A u \in S : rtab[u] = rtab[t] => desched[u] # fd

(* The tasks in execve that still share rr's table with t have closed fd.     *)
ClosedInExec(t, fd) ==
  \A u \in Live : InExec(u) /\ rtab[u] = rtab[t] => kern[ktab[u]][fd] = NoFile

(* Only t may get a new desched descriptor, which was free.                   *)
DeschedStays(t, fd, file) ==
  \A u \in Live' : \/ desched'[u] = desched[u]
                   \/ /\ u = t /\ desched'[u] = fd
                      /\ file = File("rr", TRUE) /\ kern[ktab[t]][fd] = NoFile

(* In the kernel fd of t's table becomes file, and in rr's table its monitor. *)
Puts(t, fd, file) == kern' = [kern EXCEPT ![ktab[t]][fd] = file]
Watches(t, fd, file) ==
  \A i \in Ids, g \in Fds :
     mon'[i][g] = IF i = rtab[t] /\ g = fd THEN MonitorFor(file) ELSE mon[i][g]

TaskTypes ==
  /\ ktab \in [Tasks -> Ids \cup {0}] /\ rtab \in [Tasks -> Ids \cup {0}]
  /\ vm \in [Tasks -> Ids \cup {0}] /\ desched \in [Tasks -> Fds \cup {-1}]
  /\ call \in [Tasks -> [op : CallOps, fd : Fds \cup {-1}, kind : Kinds \cup {"none"}]]
  /\ unseen \in BOOLEAN /\ n \in Nat

(* What a descriptor that is free in the caller's table is not. *)
LEMMA FreeIsUnneeded ==
  ASSUME IndInv, NEW t \in Live, Running(t), NEW fd \in Free(ktab[t])
  PROVE  /\ fd \in Fds /\ Unneeded(t, fd, Live) /\ ClosedInExec(t, fd)
         /\ kern[ktab[t]][fd] = NoFile /\ mon[rtab[t]][fd] = "none"
<1>1. fd \in Fds /\ kern[ktab[t]][fd] = NoFile BY Zenon DEF Free
<1>2. fd # RootDir BY <1>1 DEF IndInv, RootOpen, NoFile, File
<1>3. ~InFlight(ktab[t], fd)
  <2> SUFFICES ASSUME NEW u \in Live, ktab[u] = ktab[t], call[u].op = "open", call[u].fd = fd
               PROVE  FALSE
    BY Zenon DEF InFlight
  <2> QED BY Zenon, <1>1 DEF IndInv, OpensAgree
<1>4. mon[rtab[t]][fd] = "none"
  BY <1>1 DEF IndInv, MonitorsAgree, NoFile, Special
<1>5. ASSUME NEW u \in Live, rtab[u] = rtab[t] PROVE desched[u] # fd
  <2>1. fd # -1 BY <1>1, FdAssumption DEF Fds
  <2> QED BY <1>1, <1>5, <2>1 DEF IndInv, DeschedOpen, TaskSet, File, NoFile
<1>6. ASSUME NEW u \in Live, InExec(u), rtab[u] = rtab[t] PROVE kern[ktab[u]][fd] = NoFile
  BY Zenon, <1>1, <1>6 DEF IndInv, ExecAgrees, TaskSet
<1> QED BY Zenon, <1>1, <1>2, <1>3, <1>4, <1>5, <1>6 DEF Unneeded, ClosedInExec

(* What is_rr_fd protects: a descriptor that is not rr's may be dropped. *)
LEMMA OwnIsProtected ==
  ASSUME IndInv, NEW t \in Live, Running(t), NEW fd \in Fds,
         ~is_rr_fd(rtab[t], fd), ~InFlight(ktab[t], fd)
  PROVE  Unneeded(t, fd, Live)
<1>1. mon[rtab[t]][fd] # "rr" BY Zenon DEF is_rr_fd
<1>2. kern[ktab[t]][fd].kind # "rr"
  BY Zenon, <1>1 DEF IndInv, MonitorsAgree, Special
<1>3. fd # RootDir BY <1>2 DEF IndInv, RootOpen, File
<1>4. ASSUME NEW u \in Live, rtab[u] = rtab[t] PROVE desched[u] # fd
  <2>1. fd # -1 BY FdAssumption DEF Fds
  <2> QED BY <1>2, <1>4, <2>1 DEF IndInv, DeschedOpen, TaskSet, File
<1> QED BY Zenon, <1>3, <1>4 DEF Unneeded

(* The caller's descriptor fd becomes file, and its monitor follows.  The     *)
(* tasks in execve that still share rr's table have closed it, or see no      *)
(* change.                                                                    *)
LEMMA LocalSafe ==
  ASSUME IndInv, NEW t \in Live, Running(t), NEW fd \in Fds, NEW file \in Files,
         Puts(t, fd, file), Watches(t, fd, file),
         TasksStay, Unneeded(t, fd, Live'), DeschedStays(t, fd, file),
         \/ ClosedInExec(t, fd)
         \/ file # NoFile /\ MonitorFor(file) = mon[rtab[t]][fd]
  PROVE  /\ SharingAgrees' /\ MonitorsAgree' /\ ExecAgrees'
         /\ DeschedOpen' /\ RootOpen' /\ OpensAgree'
<1>0. /\ ktab[t] \in Ids /\ rtab[t] \in Ids
      /\ \A u \in Live : ktab[u] \in Ids /\ rtab[u] \in Ids
      /\ kern \in [Ids -> [Fds -> Files]]
  BY Zenon, LiveTypes DEF IndInv, TypeOK
<1>1. \A i \in Ids, g \in Fds :
         kern'[i][g] = IF i = ktab[t] /\ g = fd THEN file ELSE kern[i][g]
  BY Zenon, <1>0 DEF Puts
<1>1a. \A i \in Ids, g \in Fds :
         mon'[i][g] = IF i = rtab[t] /\ g = fd THEN MonitorFor(file) ELSE mon[i][g]
  BY Zenon DEF Watches
<1>2. /\ SharingAgrees /\ MonitorsAgree /\ ExecAgrees /\ DeschedOpen /\ RootOpen /\ OpensAgree
  BY Zenon DEF IndInv
<1>2a. \A u \in Live' : /\ u \in Live /\ ktab'[u] = ktab[u] /\ rtab'[u] = rtab[u]
                       /\ call'[u] = call[u]
  BY Zenon DEF TasksStay, SharingStays
<1>3. \A u \in Live' : (InExec(u)' <=> InExec(u)) /\ (Running(u)' <=> Running(u))
  BY Zenon, <1>2a DEF InExec, Running
<1>4. \A i, g : InFlight(i, g)' <=> InFlight(i, g)
  <2> TAKE i, g
  <2>1. ASSUME InFlight(i, g)' PROVE InFlight(i, g)
    BY Zenon, <2>1, <1>2a DEF InFlight
  <2>2. ASSUME InFlight(i, g) PROVE InFlight(i, g)'
    BY Zenon, <2>2, <1>2a DEF InFlight, TasksStay, SharingStays
  <2> QED BY Zenon, <2>1, <2>2
<1>5. \A x \in Live : InExec(x) => ktab[x] # ktab[t]
  BY Zenon, <1>2 DEF SharingAgrees, InExec, Running
<1>6. \A x \in Live : Running(x) => (rtab[x] = rtab[t] <=> ktab[x] = ktab[t])
  BY Zenon, <1>2 DEF SharingAgrees, InExec, Running
<1>6a. /\ fd # RootDir /\ ~InFlight(ktab[t], fd)
      /\ \A u \in Live' : rtab[u] = rtab[t] => desched[u] # fd
  BY Zenon DEF Unneeded
<1>7. SharingAgrees'
  BY <1>2, <1>2a, <1>3 DEF SharingAgrees
<1>8. MonitorsAgree'
  <2> SUFFICES ASSUME NEW x \in Live', Running(x)', NEW g \in Fds
               PROVE  mon'[rtab[x]][g] = IF kern'[ktab[x]][g].kind \in Special
                                            /\ ~InFlight(ktab[x], g)
                                         THEN kern'[ktab[x]][g].kind ELSE "none"
    BY Zenon, <1>2a, <1>4 DEF MonitorsAgree
  <2>1. x \in Live /\ Running(x) /\ rtab[x] \in Ids /\ ktab[x] \in Ids BY Zenon, <1>2a, <1>3, <1>0
  <2>2. mon[rtab[x]][g] = IF kern[ktab[x]][g].kind \in Special /\ ~InFlight(ktab[x], g)
                          THEN kern[ktab[x]][g].kind ELSE "none"
    BY Zenon, <2>1, <1>2 DEF MonitorsAgree
  <2>3. CASE rtab[x] = rtab[t] /\ g = fd
    <3>1. ktab[x] = ktab[t] BY Zenon, <2>1, <2>3, <1>6
    <3>2. kern'[ktab[x]][g] = file BY Zenon, <2>1, <2>3, <3>1, <1>1
    <3>3. mon'[rtab[x]][g] = MonitorFor(file) BY Zenon, <2>1, <2>3, <1>1a
    <3> QED BY Zenon, <2>3, <3>1, <3>2, <3>3, <1>6a DEF MonitorFor
  <2>4. CASE ~(rtab[x] = rtab[t] /\ g = fd)
    <3>1. ~(ktab[x] = ktab[t] /\ g = fd) BY Zenon, <2>1, <2>4, <1>6
    <3>2. kern'[ktab[x]][g] = kern[ktab[x]][g] BY Zenon, <2>1, <3>1, <1>1
    <3>3. mon'[rtab[x]][g] = mon[rtab[x]][g] BY Zenon, <2>1, <2>4, <1>1a
    <3> QED BY Zenon, <2>2, <3>2, <3>3
  <2> QED BY Zenon, <2>3, <2>4
<1>9. ExecAgrees'
  <2> SUFFICES ASSUME NEW x \in Live', InExec(x)', NEW g \in Fds, kern'[ktab[x]][g] # NoFile
               PROVE  /\ mon'[rtab[x]][g] = IF kern'[ktab[x]][g].kind \in Special
                                            THEN kern'[ktab[x]][g].kind ELSE "none"
                      /\ \A u \in Live' : rtab[u] = rtab[x] /\ Running(u)' =>
                            kern'[ktab[u]][g] # NoFile /\ ~InFlight(ktab[u], g)
                      /\ \A u \in Live' : rtab[u] = rtab[x] => desched'[u] # g
    BY SMTT(30), <1>2a, <1>4 DEF ExecAgrees, TaskSet
  <2>1. x \in Live /\ InExec(x) /\ rtab[x] \in Ids /\ ktab[x] \in Ids BY Zenon, <1>2a, <1>3, <1>0
  <2>2. kern'[ktab[x]][g] = kern[ktab[x]][g] BY Zenon, <2>1, <1>1, <1>5
  <2>3. /\ mon[rtab[x]][g] = IF kern[ktab[x]][g].kind \in Special
                             THEN kern[ktab[x]][g].kind ELSE "none"
        /\ \A u \in Live : rtab[u] = rtab[x] /\ Running(u) =>
              kern[ktab[u]][g] # NoFile /\ ~InFlight(ktab[u], g)
        /\ \A u \in Live : rtab[u] = rtab[x] => desched[u] # g
    BY SMTT(30), <2>1, <2>2, <1>2 DEF ExecAgrees, TaskSet
  <2>4. rtab[x] = rtab[t] /\ g = fd => file # NoFile /\ MonitorFor(file) = mon[rtab[t]][fd]
    BY Zenon, <2>1, <2>2 DEF ClosedInExec
  <2>5. mon'[rtab[x]][g] = mon[rtab[x]][g] BY Zenon, <2>1, <2>4, <1>1a
  <2>6. ASSUME NEW u \in Live', rtab[u] = rtab[x], Running(u)'
        PROVE  kern'[ktab[u]][g] # NoFile /\ ~InFlight(ktab[u], g)
    <3>1. u \in Live /\ Running(u) /\ ktab[u] \in Ids BY Zenon, <2>6, <1>2a, <1>3, <1>0
    <3>2. kern[ktab[u]][g] # NoFile /\ ~InFlight(ktab[u], g) BY Zenon, <3>1, <2>6, <2>3
    <3>3. CASE ktab[u] = ktab[t] /\ g = fd
      BY Zenon, <3>1, <3>2, <3>3, <2>4, <2>6, <1>1, <1>6
    <3>4. CASE ~(ktab[u] = ktab[t] /\ g = fd)
      BY Zenon, <3>1, <3>2, <3>4, <1>1
    <3> QED BY Zenon, <3>3, <3>4
  <2>7. ASSUME NEW u \in Live', rtab[u] = rtab[x] PROVE desched'[u] # g
    <3>1. u \in Live /\ desched[u] # g BY Zenon, <2>7, <2>3, <1>2a
    <3>2. CASE desched'[u] = desched[u] BY Zenon, <3>1, <3>2
    <3>3. CASE u = t /\ desched'[u] = fd /\ kern[ktab[t]][fd] = NoFile
      BY Zenon, <2>3, <2>7, <3>1, <3>3
    <3> QED BY Zenon, <3>2, <3>3 DEF DeschedStays
  <2> QED BY Zenon, <2>2, <2>3, <2>5, <2>6, <2>7
<1>10. DeschedOpen'
  <2> SUFFICES ASSUME NEW x \in Live', NEW u \in Live', rtab[u] = rtab[x]
               PROVE  /\ Running(x)' /\ desched'[u] # -1 =>
                            kern'[ktab[x]][desched'[u]] = File("rr", TRUE)
                      /\ desched'[u] = desched'[x] /\ desched'[x] # -1 => u = x
    BY SMTT(30), <1>2a DEF DeschedOpen, TaskSet, File
  <2>1. x \in Live /\ u \in Live /\ ktab[x] \in Ids /\ rtab[x] \in Ids BY Zenon, <1>2a, <1>0
  <2>2. desched[u] \in Fds \cup {-1} /\ desched[x] \in Fds \cup {-1}
    BY Zenon, <2>1, LiveTypes DEF IndInv, TypeOK
  <2>3. /\ Running(x) /\ desched[u] # -1 => kern[ktab[x]][desched[u]] = File("rr", TRUE)
        /\ desched[u] = desched[x] /\ desched[x] # -1 => u = x
    BY Zenon, <2>1, <1>2 DEF DeschedOpen, TaskSet
  <2>4. CASE rtab[x] = rtab[t]
    <3>1. desched[u] # fd /\ desched[x] # fd BY Zenon, <2>4, <1>6a
    <3>2. ASSUME Running(x)', desched'[u] # -1
          PROVE  kern'[ktab[x]][desched'[u]] = File("rr", TRUE)
      <4>1. Running(x) /\ ktab[x] = ktab[t] BY Zenon, <3>2, <2>1, <2>4, <1>3, <1>6
      <4>2. CASE desched'[u] = desched[u]
        <5>1. desched[u] \in Fds /\ desched[u] # fd BY Zenon, <3>1, <3>2, <4>2, <2>2
        <5>2. kern'[ktab[x]][desched[u]] = kern[ktab[x]][desched[u]] BY Zenon, <5>1, <2>1, <1>1
        <5> QED BY Zenon, <5>2, <4>1, <4>2, <3>2, <2>3
      <4>3. CASE desched'[u] = fd /\ file = File("rr", TRUE)
        <5>1. kern'[ktab[x]][fd] = file BY Zenon, <4>1, <2>1, <1>1
        <5> QED BY Zenon, <5>1, <4>3
      <4> QED BY Zenon, <4>2, <4>3 DEF DeschedStays
    <3>3. desched'[u] = desched'[x] /\ desched'[x] # -1 => u = x
      <4>1. \A y \in Live' : desched'[y] = desched[y] \/ (y = t /\ desched'[y] = fd)
        BY Zenon DEF DeschedStays
      <4>2. /\ desched'[u] = desched[u] \/ (u = t /\ desched'[u] = fd)
            /\ desched'[x] = desched[x] \/ (x = t /\ desched'[x] = fd)
        BY Zenon, <4>1
      <4> QED BY Zenon, <4>2, <3>1, <2>3
    <3> QED BY Zenon, <3>2, <3>3
  <2>5. CASE rtab[x] # rtab[t]
    <3>1. desched'[u] = desched[u] /\ desched'[x] = desched[x] BY Zenon, <2>5 DEF DeschedStays
    <3>2. ASSUME Running(x)' PROVE Running(x) /\ ktab[x] # ktab[t]
      BY Zenon, <3>2, <2>1, <2>5, <1>3, <1>6
    <3>3. ASSUME Running(x)', desched[u] # -1
          PROVE  kern'[ktab[x]][desched[u]] = File("rr", TRUE)
      <4>1. Running(x) /\ ktab[x] # ktab[t] /\ desched[u] \in Fds BY Zenon, <3>2, <3>3, <2>2
      <4>2. kern'[ktab[x]][desched[u]] = kern[ktab[x]][desched[u]] BY Zenon, <4>1, <2>1, <1>1
      <4> QED BY Zenon, <4>1, <4>2, <3>3, <2>3
    <3> QED BY Zenon, <3>1, <3>3, <2>3
  <2> QED BY Zenon, <2>4, <2>5
<1>11. RootOpen'
  <2>1. RootDir \in Fds BY FdAssumption DEF RootDir, Fds
  <2>2. ASSUME NEW x \in Live' PROVE kern'[ktab'[x]][RootDir] = File("rr", FALSE)
    <3>1. x \in Live /\ ktab'[x] = ktab[x] /\ ktab[x] \in Ids BY Zenon, <1>2a, <1>0
    <3>2. kern[ktab[x]][RootDir] = File("rr", FALSE) BY Zenon, <3>1, <1>2 DEF RootOpen
    <3>3. kern'[ktab[x]][RootDir] = kern[ktab[x]][RootDir] BY Zenon, <2>1, <3>1, <1>1, <1>6a
    <3> QED BY Zenon, <3>1, <3>2, <3>3
  <2> QED BY Zenon, <2>2 DEF RootOpen, File, RootDir
<1>12. OpensAgree'
  <2> SUFFICES ASSUME NEW x \in Live', call[x].op = "open"
               PROVE  /\ call[x].fd \in Fds
                      /\ kern'[ktab[x]][call[x].fd] # NoFile
                      /\ kern'[ktab[x]][call[x].fd].kind = call[x].kind
                      /\ call[x].kind \in {"plain", "mem"}
                      /\ \A u \in Live' : /\ ktab[u] = ktab[x] /\ call[u].op = "open"
                                          /\ call[u].fd = call[x].fd
                                          => u = x
    BY SMTT(30), <1>2a DEF OpensAgree
  <2>1. x \in Live /\ ktab[x] \in Ids BY Zenon, <1>2a, <1>0
  <2>2. ~(ktab[x] = ktab[t] /\ call[x].fd = fd) BY Zenon, <2>1, <1>6a DEF InFlight
  <2>3. /\ call[x].fd \in Fds
        /\ kern[ktab[x]][call[x].fd] # NoFile
        /\ kern[ktab[x]][call[x].fd].kind = call[x].kind
        /\ call[x].kind \in {"plain", "mem"}
        /\ \A u \in Live : /\ ktab[u] = ktab[x] /\ call[u].op = "open"
                           /\ call[u].fd = call[x].fd
                           => u = x
    BY Zenon, <2>1, <1>2 DEF OpensAgree
  <2>4. kern'[ktab[x]][call[x].fd] = kern[ktab[x]][call[x].fd] BY Zenon, <2>1, <2>2, <2>3, <1>1
  <2> QED BY Zenon, <2>3, <2>4, <1>2a
<1> QED BY Zenon, <1>7, <1>8, <1>9, <1>10, <1>11, <1>12

(* The tables are as they were, and so are the tasks that are left, but for   *)
(* the calls, other than opens and execve, that they are in.                  *)
Undisturbed ==
  /\ UNCHANGED <<kern, mon, beyond>>
  /\ \A u \in Live' :
        /\ u \in Live /\ ktab'[u] = ktab[u] /\ rtab'[u] = rtab[u] /\ vm'[u] = vm[u]
        /\ desched'[u] = desched[u]
        /\ (InExec(u)' <=> InExec(u)) /\ (Running(u)' <=> Running(u))
        /\ call'[u].op = "open" => call'[u] = call[u]
  /\ \A i, g : InFlight(i, g)' <=> InFlight(i, g)

(* The conjuncts that speak of the tables then hold as they did.              *)
LEMMA UndisturbedSafe ==
  ASSUME IndInv, Undisturbed
  PROVE  /\ SharingAgrees' /\ MonitorsAgree' /\ ExecAgrees' /\ DeschedOpen' /\ RootOpen'
         /\ CountAgrees' /\ OpensAgree'
<1>1. kern' = kern /\ mon' = mon /\ beyond' = beyond BY Zenon DEF Undisturbed
<1>2. \A u \in Live' : u \in Live /\ ktab'[u] = ktab[u] /\ rtab'[u] = rtab[u]
  BY Zenon DEF Undisturbed
<1>3. \A u \in Live' : (InExec(u)' <=> InExec(u)) /\ (Running(u)' <=> Running(u))
  BY Zenon DEF Undisturbed
<1>4. \A u \in Live' : desched'[u] = desched[u] BY Zenon DEF Undisturbed
<1>5. \A u \in Live' : call'[u].op = "open" => call'[u] = call[u] BY Zenon DEF Undisturbed
<1>6. \A i, g : InFlight(i, g)' <=> InFlight(i, g) BY Zenon DEF Undisturbed
<1>7. /\ SharingAgrees /\ MonitorsAgree /\ ExecAgrees /\ DeschedOpen /\ RootOpen
      /\ CountAgrees /\ OpensAgree
  BY Zenon DEF IndInv
<1>8. SharingAgrees' BY <1>2, <1>3, <1>7 DEF SharingAgrees
<1>9. MonitorsAgree'
  <2> SUFFICES ASSUME NEW x \in Live', Running(x)', NEW g \in Fds
               PROVE  mon[rtab[x]][g] = IF kern[ktab[x]][g].kind \in Special
                                           /\ ~InFlight(ktab[x], g)
                                        THEN kern[ktab[x]][g].kind ELSE "none"
    BY Zenon, <1>1, <1>2, <1>6 DEF MonitorsAgree
  <2>1. x \in Live /\ Running(x) BY Zenon, <1>2, <1>3
  <2> QED BY Zenon, <2>1, <1>7 DEF MonitorsAgree
<1>10. ExecAgrees'
  <2> SUFFICES ASSUME NEW x \in Live', InExec(x)', NEW g \in Fds, kern[ktab[x]][g] # NoFile
               PROVE  /\ mon[rtab[x]][g] = IF kern[ktab[x]][g].kind \in Special
                                           THEN kern[ktab[x]][g].kind ELSE "none"
                      /\ \A u \in Live' : rtab[u] = rtab[x] /\ Running(u)' =>
                            kern[ktab[u]][g] # NoFile /\ ~InFlight(ktab[u], g)
                      /\ \A u \in Live' : rtab[u] = rtab[x] => desched[u] # g
    BY SMTT(30), <1>1, <1>2, <1>4, <1>6 DEF ExecAgrees, TaskSet
  <2>1. x \in Live /\ InExec(x) BY Zenon, <1>2, <1>3
  <2>2. /\ mon[rtab[x]][g] = IF kern[ktab[x]][g].kind \in Special
                             THEN kern[ktab[x]][g].kind ELSE "none"
        /\ \A u \in Live : rtab[u] = rtab[x] /\ Running(u) =>
              kern[ktab[u]][g] # NoFile /\ ~InFlight(ktab[u], g)
        /\ \A u \in Live : rtab[u] = rtab[x] => desched[u] # g
    BY <2>1, <1>7 DEF ExecAgrees, TaskSet
  <2> QED BY Zenon, <2>2, <1>2, <1>3
<1>11. DeschedOpen'
  <2> SUFFICES ASSUME NEW x \in Live', NEW u \in Live', rtab[u] = rtab[x]
               PROVE  /\ Running(x)' /\ desched[u] # -1 =>
                            kern[ktab[x]][desched[u]] = File("rr", TRUE)
                      /\ desched[u] = desched[x] /\ desched[x] # -1 => u = x
    BY <1>1, <1>2, <1>4 DEF DeschedOpen, TaskSet, File
  <2>1. x \in Live /\ u \in Live /\ (Running(x)' => Running(x)) BY Zenon, <1>2, <1>3
  <2> QED BY Zenon, <2>1, <1>7 DEF DeschedOpen, TaskSet
<1>12. RootOpen' /\ CountAgrees'
  BY Zenon, <1>1, <1>2, <1>7 DEF RootOpen, CountAgrees
<1>13. OpensAgree'
  <2> SUFFICES ASSUME NEW x \in Live', call[x].op = "open"
               PROVE  /\ call[x].fd \in Fds
                      /\ kern[ktab[x]][call[x].fd] # NoFile
                      /\ kern[ktab[x]][call[x].fd].kind = call[x].kind
                      /\ call[x].kind \in {"plain", "mem"}
                      /\ \A u \in Live' : /\ ktab[u] = ktab[x] /\ call[u].op = "open"
                                          /\ call[u].fd = call[x].fd
                                          => u = x
    BY <1>1, <1>2, <1>5 DEF OpensAgree
  <2>1. x \in Live BY Zenon, <1>2
  <2> QED BY Zenon, <2>1, <1>2, <1>7 DEF OpensAgree
<1> QED BY Zenon, <1>8, <1>9, <1>10, <1>11, <1>12, <1>13

-----------------------------------------------------------------------------
(* fcntl(F_SETFD) changes no monitor, and none of rr's descriptors.           *)
LEMMA SetCloexecSafe ==
  ASSUME IndInv, NEW t \in Tasks, SetCloexec(t)
  PROVE  IndInv'
<1>1. t \in Live /\ Running(t) BY Zenon, ReadyRuns DEF SetCloexec
<1>2. Calls /\ SameTasks /\ NoMonitorChange /\ UNCHANGED <<call, unseen>>
  BY Zenon DEF SetCloexec
<1>3. PICK fd \in Fds, cloexec \in BOOLEAN :
        /\ Has(t, fd) /\ ~is_rr_fd(rtab[t], fd)
        /\ kern' = [kern EXCEPT ![ktab[t]][fd].cloexec = cloexec]
  BY Zenon DEF SetCloexec
<1> DEFINE old == kern[ktab[t]][fd]
           file == File(old.kind, cloexec)
<1>4. /\ ktab[t] \in Ids /\ rtab[t] \in Ids
      /\ kern \in [Ids -> [Fds -> Files]]
      /\ mon \in [Ids -> [Fds -> Special \cup {"none"}]]
  BY Zenon, <1>1, LiveTypes DEF IndInv, TypeOK
<1>5. old \in [kind : Kinds, cloexec : BOOLEAN] /\ ~InFlight(ktab[t], fd)
  BY Zenon, <1>3, <1>4 DEF Has, Files
<1>6. file \in Files /\ file # NoFile
  BY Zenon, <1>5 DEF Files, File, NoFile, Kinds
<1>7. Puts(t, fd, file)
  <2>1. [old EXCEPT !.cloexec = cloexec] = file
    <3> HIDE DEF old
    <3> QED BY <1>5 DEF File
  <2>2. kern' = [kern EXCEPT ![ktab[t]] =
                   [kern[ktab[t]] EXCEPT ![fd] = [old EXCEPT !.cloexec = cloexec]]]
    BY Zenon, <1>3
  <2> QED BY Zenon, <2>1, <2>2 DEF Puts
<1>8. mon[rtab[t]][fd] = MonitorFor(file)
  BY Zenon, <1>1, <1>5 DEF IndInv, MonitorsAgree, MonitorFor, File
<1>9. Unneeded(t, fd, Live) BY Zenon, <1>1, <1>3, <1>5, OwnIsProtected
<1> HIDE DEF old, file
<1>10. /\ SharingAgrees' /\ MonitorsAgree' /\ ExecAgrees'
       /\ DeschedOpen' /\ RootOpen' /\ OpensAgree'
  <2>1. Live' = Live BY Zenon, <1>2 DEF SameTasks, Live
  <2>2. TasksStay BY Zenon, <1>2, <2>1 DEF SameTasks, TasksStay, SharingStays
  <2>3. DeschedStays(t, fd, file) BY Zenon, <1>2 DEF SameTasks, DeschedStays
  <2>4. mon' = mon BY Zenon, <1>2 DEF NoMonitorChange
  <2>5. Watches(t, fd, file) BY Zenon, <1>8, <2>4 DEF Watches
  <2>7. Unneeded(t, fd, Live') BY Zenon, <1>9, <2>1
  <2> QED BY Zenon, <2>2, <2>3, <2>5, <2>7, <1>1, <1>6, <1>7, <1>8, LocalSafe
<1>11. CountAgrees' /\ ArrayCovers' /\ TasksAgree'
  BY Zenon, <1>2 DEF IndInv, SameTasks, NoMonitorChange, CountAgrees, ArrayCovers, TasksAgree, Live
<1>12. kern' \in [Ids -> [Fds -> Files]] BY Zenon, <1>4, <1>6, <1>7 DEF Puts
<1>13. TypeOK'
  BY <1>2, <1>12 DEF IndInv, TypeOK, SameTasks, NoMonitorChange, Calls, Entries, CallOps
<1> QED BY Zenon, <1>2, <1>10, <1>11, <1>13 DEF IndInv, NoMonitorChange

(* A call that rr refuses, or that changes nothing but who is in a write and  *)
(* what is seen of it.                                                        *)
LEMMA CallSafe ==
  ASSUME IndInv, UNCHANGED <<kern, mon, beyond, disabled, failed>>, SameTasks,
         call' \in [Tasks -> [op : CallOps, fd : Fds \cup {-1}, kind : Kinds \cup {"none"}]],
         \A u \in Tasks : \/ call'[u] = call[u]
                          \/ /\ u \in Live
                             /\ call[u].op \in {"none", "write"}
                             /\ call'[u].op \in {"none", "write"},
         unseen' \in BOOLEAN, n' \in Nat
  PROVE  IndInv'
<1>1. TypeOK' BY Zenon DEF IndInv, TypeOK, SameTasks, CallOps, Entries
<1>2. Live' = Live /\ \A u \in Live : u \in Tasks BY Zenon DEF SameTasks, Live
<1>3. \A u \in Live : (InExec(u)' <=> InExec(u)) /\ (Running(u)' <=> Running(u))
  BY Zenon, <1>2 DEF SameTasks, InExec, Running
<1>4. \A i, g : InFlight(i, g)' <=> InFlight(i, g)
  <2> TAKE i, g
  <2>1. ktab' = ktab BY Zenon DEF SameTasks
  <2>2. \A u \in Live : (call'[u].op = "open" <=> call[u].op = "open")
                        /\ (call[u].op = "open" => call'[u] = call[u])
    BY Zenon, <1>2
  <2> QED BY Zenon, <1>2, <2>1, <2>2 DEF InFlight
<1>5. Undisturbed
  <2>1. \A u \in Live : call'[u].op = "open" => call'[u] = call[u] BY Zenon, <1>2
  <2> QED BY Zenon, <1>2, <1>3, <1>4, <2>1 DEF Undisturbed, SameTasks
<1>6. TasksAgree'
  BY Zenon DEF IndInv, TasksAgree, SameTasks, Live
<1>7. ArrayCovers'
  BY Zenon, <1>2 DEF IndInv, SameTasks, ArrayCovers
<1> QED BY Zenon, <1>1, <1>5, <1>6, <1>7, UndisturbedSafe DEF IndInv

(* A write changes no table, whether it is buffered, traced or under way.     *)
LEMMA WriteSafe ==
  ASSUME IndInv, NEW t \in Tasks, Write(t)
  PROVE  IndInv'
<1>1. t \in Live /\ call[t] = Idle BY Zenon DEF Write, Ready
<1>2. Calls /\ SameTasks /\ UNCHANGED <<kern, mon, beyond, disabled, failed>>
  BY Zenon DEF Write, NoMonitorChange
<1>3. PICK fd \in Fds :
        LET kind == kern[ktab[t]][fd].kind
        IN /\ kind \in {"std", "mem"}
           /\ \/ unseen' \in BOOLEAN /\ UNCHANGED call
              \/ /\ call' = [call EXCEPT ![t] = [op |-> "write", fd |-> fd, kind |-> kind]]
                 /\ UNCHANGED unseen
  BY Zenon DEF Write
<1> DEFINE CallType == [op : CallOps, fd : Fds \cup {-1}, kind : Kinds \cup {"none"}]
<1>4. call \in [Tasks -> CallType] /\ n' \in Nat /\ unseen \in BOOLEAN
  BY <1>2 DEF IndInv, TypeOK, Calls
<1>5. unseen' \in BOOLEAN BY Zenon, <1>3, <1>4
<1>6. CASE call' = call
  BY Zenon, <1>2, <1>4, <1>5, <1>6, CallSafe
<1>7. CASE call' = [call EXCEPT ![t] = [op |-> "write", fd |-> fd, kind |-> kern[ktab[t]][fd].kind]]
  <2>1. [op |-> "write", fd |-> fd, kind |-> kern[ktab[t]][fd].kind] \in CallType
    BY Zenon, <1>3 DEF CallOps, Kinds
  <2>2. call' \in [Tasks -> CallType] BY Zenon, <2>1, <1>4, <1>7
  <2>3. \A u \in Tasks : \/ call'[u] = call[u]
                         \/ /\ u \in Live
                            /\ call[u].op \in {"none", "write"}
                            /\ call'[u].op \in {"none", "write"}
    BY <1>1, <1>4, <1>7 DEF Idle
  <2> QED BY Zenon, <2>2, <2>3, <1>2, <1>4, <1>5, CallSafe
<1> QED BY Zenon, <1>3, <1>6, <1>7

(* The exit of a write changes no table.                                      *)
LEMMA did_writeSafe ==
  ASSUME IndInv, NEW t \in Tasks, did_write(t)
  PROVE  IndInv'
<1> DEFINE CallType == [op : CallOps, fd : Fds \cup {-1}, kind : Kinds \cup {"none"}]
<1>1. /\ t \in Live /\ call[t].op = "write" /\ call' = [call EXCEPT ![t] = Idle]
      /\ SameTasks /\ UNCHANGED <<kern, mon, beyond, disabled, failed>>
  BY Zenon DEF did_write, NoMonitorChange
<1>2. unseen' \in BOOLEAN /\ n' \in Nat BY Zenon DEF did_write, IndInv, TypeOK
<1>3. call \in [Tasks -> CallType] /\ Idle \in CallType /\ Idle.op = "none"
  BY Zenon DEF IndInv, TypeOK, Idle, CallOps
<1>4. call' \in [Tasks -> CallType] BY Zenon, <1>1, <1>3
<1>5. \A u \in Tasks : \/ call'[u] = call[u]
                       \/ /\ u \in Live
                          /\ call[u].op \in {"none", "write"}
                          /\ call'[u].op \in {"none", "write"}
  BY Zenon, <1>1, <1>3
<1> QED BY Zenon, <1>1, <1>2, <1>4, <1>5, CallSafe

(* init_syscallbuf_fds_disabled covers the monitors of every task of the      *)
(* address space, not only of the caller.                                     *)
LEMMA at_preload_initSafe ==
  ASSUME IndInv, NEW t \in Tasks, at_preload_init(t)
  PROVE  IndInv'
<1>1. /\ t \in Live
      /\ globals' = [globals EXCEPT ![vm[t]] = TRUE]
      /\ disabled' = [disabled EXCEPT ![vm[t]] = init_syscallbuf_fds_disabled(t)]
      /\ UNCHANGED <<kern, ktab, mon, beyond, rtab, vm, desched, call, unseen, failed, n>>
  BY Zenon DEF at_preload_init, Ready
<1>2. /\ globals \in [Ids -> BOOLEAN] /\ disabled \in [Ids -> SUBSET Entries]
      /\ \A u \in Live : vm[u] \in Ids
  BY Zenon, LiveTypes DEF IndInv, TypeOK
<1>3. init_syscallbuf_fds_disabled(t) \in SUBSET Entries
  BY Zenon DEF init_syscallbuf_fds_disabled, Entries, Monitored
<1>4. globals' \in [Ids -> BOOLEAN] /\ disabled' \in [Ids -> SUBSET Entries]
  BY Zenon, <1>1, <1>2, <1>3
<1>5. TypeOK' BY Zenon, <1>1, <1>4 DEF IndInv, TypeOK, Entries, CallOps
<1>6. Live' = Live BY Zenon, <1>1 DEF Live
<1>7. ArrayCovers'
  <2> SUFFICES ASSUME NEW u \in Live, globals'[vm[u]], NEW fd \in Monitored(mon[rtab[u]])
               PROVE  Entry(fd) \in disabled'[vm[u]]
    BY Zenon, <1>1, <1>6 DEF ArrayCovers
  <2>1. CASE vm[u] = vm[t]
    <3>1. u \in VmTasks(vm[t]) BY Zenon, <2>1 DEF VmTasks
    <3>2. Entry(fd) \in init_syscallbuf_fds_disabled(t)
      BY <3>1 DEF init_syscallbuf_fds_disabled
    <3> QED BY Zenon, <3>2, <2>1, <1>1, <1>2
  <2>2. CASE vm[u] # vm[t]
    BY Zenon, <2>2, <1>1, <1>2 DEF IndInv, ArrayCovers
  <2> QED BY Zenon, <2>1, <2>2
<1>8. Undisturbed
  <2>1. \A u : (InExec(u)' <=> InExec(u)) /\ (Running(u)' <=> Running(u))
    BY Zenon, <1>1, <1>6 DEF InExec, Running
  <2>2. \A tb, fd : InFlight(tb, fd)' <=> InFlight(tb, fd) BY Zenon, <1>1, <1>6 DEF InFlight
  <2> QED BY Zenon, <2>1, <2>2, <1>1, <1>6 DEF Undisturbed
<1>9. TasksAgree' BY Zenon, <1>1 DEF IndInv, TasksAgree
<1> QED BY Zenon, <1>1, <1>5, <1>7, <1>8, <1>9, UndisturbedSafe DEF IndInv

(* What the end of a task that is not in an open leaves. *)
LEMMA GoneFacts ==
  ASSUME IndInv, NEW t \in Live, Gone(t), call[t].op # "open", unseen' \in BOOLEAN
  PROVE  /\ Live' = Live \ {t} /\ \A u \in Live' : desched'[u] = desched[u]
         /\ TasksStay /\ TasksAgree' /\ TaskTypes'
<1>0. /\ ktab \in [Tasks -> Ids \cup {0}] /\ rtab \in [Tasks -> Ids \cup {0}]
      /\ vm \in [Tasks -> Ids \cup {0}] /\ desched \in [Tasks -> Fds \cup {-1}]
      /\ call \in [Tasks -> [op : CallOps, fd : Fds \cup {-1}, kind : Kinds \cup {"none"}]]
      /\ n \in Nat /\ t \in Tasks
  BY Zenon DEF IndInv, TypeOK, Live
<1>1. Idle \in [op : CallOps, fd : Fds \cup {-1}, kind : Kinds \cup {"none"}]
  BY Zenon DEF Idle, CallOps
<1>2. Live' = Live \ {t} BY Zenon, <1>0 DEF Gone, Live
<1>3. \A u \in Live' : /\ ktab'[u] = ktab[u] /\ rtab'[u] = rtab[u] /\ vm'[u] = vm[u]
                       /\ call'[u] = call[u] /\ desched'[u] = desched[u]
  <2>1. \A u \in Live' : u \in Tasks /\ u # t BY Zenon, <1>2 DEF Live
  <2> QED BY Zenon, <2>1, <1>0 DEF Gone
<1>4. TasksAgree'
  <2>1. TasksAgree BY Zenon DEF IndInv
  <2> QED BY Zenon, <2>1, <1>0 DEF Gone, TasksAgree
<1>5. TaskTypes' BY Zenon, <1>0, <1>1 DEF Gone, TaskTypes, CallOps
<1>6. TasksStay BY Zenon, <1>2, <1>3 DEF Gone, TasksStay, SharingStays
<1> QED BY Zenon, <1>2, <1>3, <1>4, <1>5, <1>6

(* The end of a task that leaves the tables to the others.                    *)
LEMMA LeaveSafe ==
  ASSUME IndInv, NEW t \in Live, Gone(t), call[t].op # "open", unseen' \in BOOLEAN,
         UNCHANGED <<kern, mon, beyond, disabled, failed>>
  PROVE  IndInv'
<1>1. /\ Live' \subseteq Live
      /\ \A u \in Live' : /\ ktab'[u] = ktab[u] /\ rtab'[u] = rtab[u] /\ vm'[u] = vm[u]
                           /\ call'[u] = call[u] /\ desched'[u] = desched[u]
      /\ \A u \in Live : u \notin Live' => call[u].op # "open"
      /\ globals' = globals
  BY Zenon, GoneFacts DEF TasksStay, SharingStays
<1>2. TypeOK'
  <2>1. TaskTypes' BY Zenon, GoneFacts
  <2> QED BY Zenon, <2>1, <1>1 DEF IndInv, TypeOK, TaskTypes, Entries, CallOps
<1>3. TasksAgree' BY Zenon, GoneFacts
<1>4. \A u \in Live' : u \in Live /\ (InExec(u)' <=> InExec(u)) /\ (Running(u)' <=> Running(u))
  BY Zenon, <1>1 DEF InExec, Running
<1>5. \A i, g : InFlight(i, g)' <=> InFlight(i, g)
  BY Zenon, <1>1 DEF InFlight
<1>6. Undisturbed BY Zenon, <1>1, <1>4, <1>5 DEF Undisturbed
<1>7. ArrayCovers' BY Zenon, <1>1 DEF IndInv, ArrayCovers
<1> QED BY Zenon, <1>2, <1>3, <1>6, <1>7, UndisturbedSafe DEF IndInv

(* A task that is killed leaves its desched descriptor open and watched.      *)
LEMMA KilledSafe ==
  ASSUME IndInv, Odd \subseteq {"late"}, NEW t \in Tasks, Killed(t)
  PROVE  IndInv'
<1>1. t \in Live /\ Gone(t) /\ call[t].op \notin {"open", "write"}
      /\ UNCHANGED <<kern, mon, beyond, disabled, failed>>
  BY Zenon DEF Killed, NoMonitorChange
<1>2. unseen' \in BOOLEAN BY Zenon DEF Killed
<1> QED BY Zenon, <1>1, <1>2, LeaveSafe

-----------------------------------------------------------------------------
(* While nobody opens in the caller's table, nothing is in flight there. *)
LEMMA CopyIsQuiet ==
  ASSUME Odd \subseteq {"late"}, NEW t, MayCopy(t)
  PROVE  \A g : ~InFlight(ktab[t], g)
BY Zenon DEF MayCopy, Opening, InFlight

(* The caller of unshare gets the unused identifiers k and r.                 *)
UnsharedIds(t, k, r) ==
  /\ t \in Live /\ Live' = Live
  /\ ktab'[t] = k /\ rtab'[t] = r
  /\ \A u \in Live : u # t => ktab'[u] = ktab[u] /\ rtab'[u] = rtab[u]
  /\ \A u \in Live : ktab[u] # k /\ rtab[u] # r

(* The tables behind them are copies, and the others stay.                    *)
UnsharedTables(t, k, r) ==
  /\ kern'[k] = kern[ktab[t]] /\ mon'[r] = mon[rtab[t]] /\ beyond'[r] = beyond[rtab[t]]
  /\ \A u \in Live : /\ kern'[ktab[u]] = kern[ktab[u]]
                     /\ mon'[rtab[u]] = mon[rtab[u]]
                     /\ beyond'[rtab[u]] = beyond[rtab[u]]

(* The caller is in no call, and nothing is in flight in its table.           *)
UnsharedModes(t, k) ==
  /\ ~InExec(t) /\ call[t].op # "open"
  /\ ModesStay(Live) /\ FlightsStay
  /\ \A g : ~InFlight(ktab[t], g) /\ ~InFlight(k, g)
  /\ UNCHANGED <<vm, globals, disabled, desched, call>>

LEMMA UnsharedKeeps ==
  ASSUME IndInv, NEW t, NEW k, NEW r,
         UnsharedIds(t, k, r), UnsharedTables(t, k, r), UnsharedModes(t, k)
  PROVE  /\ SharingAgrees' /\ MonitorsAgree' /\ ExecAgrees' /\ DeschedOpen'
         /\ RootOpen' /\ CountAgrees' /\ ArrayCovers' /\ OpensAgree'
<1>1. Live' = Live BY Zenon DEF UnsharedIds
<1>2. SharingAgrees'
  <2> SUFFICES ASSUME NEW x \in Live, NEW u \in Live
               PROVE  /\ ktab'[x] = ktab'[u] => rtab'[x] = rtab'[u]
                      /\ rtab'[x] = rtab'[u] /\ ~InExec(x) /\ ~InExec(u) => ktab'[x] = ktab'[u]
                      /\ InExec(x) /\ ktab'[x] = ktab'[u] => x = u
    BY Zenon, <1>1 DEF SharingAgrees, UnsharedModes, ModesStay
  <2>1. CASE x # t /\ u # t BY <2>1 DEF IndInv, SharingAgrees, UnsharedIds
  <2>2. CASE x = t \/ u = t BY Zenon, <2>2 DEF UnsharedIds
  <2> QED BY Zenon, <2>1, <2>2
<1>3. MonitorsAgree'
  <2> SUFFICES ASSUME NEW x \in Live, Running(x), NEW g \in Fds
               PROVE  mon'[rtab'[x]][g] = IF kern'[ktab'[x]][g].kind \in Special
                                             /\ ~InFlight(ktab'[x], g)
                                          THEN kern'[ktab'[x]][g].kind ELSE "none"
    BY Zenon, <1>1 DEF MonitorsAgree, UnsharedModes, ModesStay, FlightsStay
  <2>1. mon[rtab[x]][g] = IF kern[ktab[x]][g].kind \in Special /\ ~InFlight(ktab[x], g)
                          THEN kern[ktab[x]][g].kind ELSE "none"
    BY Zenon DEF IndInv, MonitorsAgree
  <2>2. CASE x = t BY Zenon, <2>1, <2>2 DEF UnsharedIds, UnsharedTables, UnsharedModes
  <2>3. CASE x # t BY Zenon, <2>1, <2>3 DEF UnsharedIds, UnsharedTables
  <2> QED BY Zenon, <2>2, <2>3
<1>4. ExecAgrees'
  <2> SUFFICES ASSUME NEW x \in Live, InExec(x), NEW g \in Fds, kern'[ktab'[x]][g] # NoFile
               PROVE  /\ mon'[rtab'[x]][g] = IF kern'[ktab'[x]][g].kind \in Special
                                             THEN kern'[ktab'[x]][g].kind ELSE "none"
                      /\ \A u \in Live : rtab'[u] = rtab'[x] /\ Running(u) =>
                            kern'[ktab'[u]][g] # NoFile /\ ~InFlight(ktab'[u], g)
                      /\ \A u \in Live : rtab'[u] = rtab'[x] => desched[u] # g
    BY <1>1 DEF ExecAgrees, TaskSet, UnsharedModes, ModesStay, FlightsStay
  <2>1. x # t BY Zenon DEF UnsharedModes
  <2>2. /\ mon[rtab[x]][g] = IF kern[ktab[x]][g].kind \in Special
                             THEN kern[ktab[x]][g].kind ELSE "none"
        /\ \A u \in Live : rtab[u] = rtab[x] /\ Running(u) =>
              kern[ktab[u]][g] # NoFile /\ ~InFlight(ktab[u], g)
        /\ \A u \in Live : rtab[u] = rtab[x] => desched[u] # g
    BY <2>1 DEF IndInv, ExecAgrees, TaskSet, UnsharedIds, UnsharedTables
  <2>3. \A u \in Live : rtab'[u] = rtab'[x] => u # t BY Zenon, <2>1 DEF UnsharedIds
  <2> QED BY <2>1, <2>2, <2>3 DEF UnsharedIds, UnsharedTables
<1>5. DeschedOpen'
  <2> SUFFICES ASSUME NEW x \in Live, NEW u \in Live, rtab'[u] = rtab'[x]
               PROVE  /\ Running(x) /\ desched[u] # -1 =>
                            kern'[ktab'[x]][desched[u]] = File("rr", TRUE)
                      /\ desched[u] = desched[x] /\ desched[x] # -1 => u = x
    BY <1>1 DEF DeschedOpen, TaskSet, File, UnsharedModes, ModesStay
  <2>1. rtab[u] = rtab[x] BY Zenon DEF UnsharedIds
  <2>2. /\ Running(x) /\ desched[u] # -1 => kern[ktab[x]][desched[u]] = File("rr", TRUE)
        /\ desched[u] = desched[x] /\ desched[x] # -1 => u = x
    BY Zenon, <2>1 DEF IndInv, DeschedOpen, TaskSet
  <2>3. kern'[ktab'[x]] = kern[ktab[x]] BY Zenon DEF UnsharedIds, UnsharedTables
  <2> QED BY Zenon, <2>2, <2>3
<1>6. RootOpen'
  <2>1. ASSUME NEW x \in Live PROVE kern'[ktab'[x]][RootDir] = File("rr", FALSE)
    <3>1. kern[ktab[x]][RootDir] = File("rr", FALSE) BY Zenon DEF IndInv, RootOpen
    <3>2. kern'[ktab'[x]] = kern[ktab[x]] BY Zenon DEF UnsharedIds, UnsharedTables
    <3> QED BY Zenon, <3>1, <3>2
  <2> QED BY Zenon, <2>1, <1>1 DEF RootOpen, File, RootDir
<1>7. ASSUME NEW x \in Live
      PROVE  mon'[rtab'[x]] = mon[rtab[x]] /\ beyond'[rtab'[x]] = beyond[rtab[x]]
  BY Zenon DEF UnsharedIds, UnsharedTables
<1>8. CountAgrees'
  <2>1. ASSUME NEW x \in Live
        PROVE  beyond'[rtab'[x]] =
                 Cardinality({fd \in Monitored(mon'[rtab'[x]]) : fd >= Limit})
    BY Zenon, <1>7 DEF IndInv, CountAgrees
  <2> QED BY Zenon, <2>1, <1>1 DEF CountAgrees, Monitored
<1>9. ArrayCovers'
  <2>1. ASSUME NEW x \in Live, globals[vm[x]], NEW g \in Monitored(mon'[rtab'[x]])
        PROVE  Entry(g) \in disabled[vm[x]]
    BY Zenon, <2>1, <1>7 DEF IndInv, ArrayCovers
  <2> QED BY Zenon, <2>1, <1>1 DEF ArrayCovers, Monitored, Entry, UnsharedModes
<1>10. OpensAgree'
  <2> SUFFICES ASSUME NEW x \in Live, call[x].op = "open"
               PROVE  /\ call[x].fd \in Fds
                      /\ kern'[ktab'[x]][call[x].fd] # NoFile
                      /\ kern'[ktab'[x]][call[x].fd].kind = call[x].kind
                      /\ call[x].kind \in {"plain", "mem"}
                      /\ \A u \in Live : /\ ktab'[u] = ktab'[x] /\ call[u].op = "open"
                                         /\ call[u].fd = call[x].fd
                                         => u = x
    BY <1>1 DEF OpensAgree, UnsharedModes
  <2>1. x # t BY Zenon DEF UnsharedModes
  <2>2. kern'[ktab'[x]] = kern[ktab[x]] BY Zenon DEF UnsharedIds, UnsharedTables
  <2>3. \A u \in Live : ktab'[u] = ktab'[x] => ktab[u] = ktab[x] BY Zenon DEF UnsharedIds
  <2> QED BY Zenon, <2>1, <2>2, <2>3 DEF IndInv, OpensAgree
<1> QED BY Zenon, <1>2, <1>3, <1>4, <1>5, <1>6, <1>8, <1>9, <1>10

-----------------------------------------------------------------------------
(* clone's child c has the kernel's table k and rr's table r: its parent's,   *)
(* or unused ones.                                                            *)
ClonedIds(t, c, k, r, share) ==
  /\ t \in Live /\ c \notin Live /\ Live' = Live \cup {c}
  /\ ktab'[c] = k /\ rtab'[c] = r
  /\ \A u \in Live : ktab'[u] = ktab[u] /\ rtab'[u] = rtab[u]
  /\ share => k = ktab[t] /\ r = rtab[t]
  /\ ~share => \A u \in Live : ktab[u] # k /\ rtab[u] # r

(* They hold what the parent's hold but for the descriptors of shut.          *)
ClonedTables(t, k, r, shut) ==
  /\ \A u \in Live : /\ kern'[ktab[u]] = kern[ktab[u]]
                     /\ mon'[rtab[u]] = mon[rtab[u]]
                     /\ beyond'[rtab[u]] = beyond[rtab[u]]
  /\ \A g \in Fds : kern'[k][g] = IF g \in shut THEN NoFile ELSE kern[ktab[t]][g]
  /\ \A g \in Fds : mon'[r][g] = IF g \in shut THEN "none" ELSE mon[rtab[t]][g]

(* The child runs; nothing is in flight in a table it has copied.             *)
ClonedModes(t, c, k, share) ==
  /\ Running(t) /\ ~InExec(t) /\ Running(c)' /\ ~InExec(c)'
  /\ call[c].op # "open" /\ desched[c] = -1 /\ desched' = desched /\ call' = call
  /\ ModesStay(Live) /\ FlightsStay
  /\ ~share => \A g : ~InFlight(ktab[t], g) /\ ~InFlight(k, g)

(* The child shares its tables with those that share its parent's.            *)
LEMMA ClonedSharing ==
  ASSUME IndInv, NEW t, NEW c, NEW k, NEW r, NEW share \in BOOLEAN,
         ClonedIds(t, c, k, r, share), ClonedModes(t, c, k, share)
  PROVE  SharingAgrees'
<1> SUFFICES ASSUME NEW x \in Live', NEW u \in Live'
             PROVE  /\ ktab'[x] = ktab'[u] => rtab'[x] = rtab'[u]
                    /\ rtab'[x] = rtab'[u] /\ ~InExec(x)' /\ ~InExec(u)' => ktab'[x] = ktab'[u]
                    /\ InExec(x)' /\ ktab'[x] = ktab'[u] => x = u
  BY Zenon DEF SharingAgrees
<1>1. SharingAgrees BY Zenon DEF IndInv
<1>2. ASSUME NEW y \in Live
      PROVE  /\ ktab'[y] = ktab[y] /\ rtab'[y] = rtab[y] /\ (InExec(y)' <=> InExec(y))
             /\ ktab[y] = k => rtab[y] = r /\ ~InExec(y)
             /\ rtab[y] = r /\ ~InExec(y) => ktab[y] = k
  <2>1. ktab'[y] = ktab[y] /\ rtab'[y] = rtab[y] /\ (InExec(y)' <=> InExec(y))
    BY Zenon DEF ClonedIds, ClonedModes, ModesStay
  <2>2. CASE share
    <3>1. k = ktab[t] /\ r = rtab[t] /\ t \in Live /\ ~InExec(t)
      BY Zenon, <2>2 DEF ClonedIds, ClonedModes
    <3> QED BY Zenon, <2>1, <3>1, <1>1 DEF SharingAgrees
  <2>3. CASE ~share BY Zenon, <2>1, <2>3 DEF ClonedIds
  <2> QED BY Zenon, <2>2, <2>3
<1>3. ktab'[c] = k /\ rtab'[c] = r /\ ~InExec(c)' /\ Live' = Live \cup {c}
  BY Zenon DEF ClonedIds, ClonedModes
<1>4. CASE x \in Live /\ u \in Live BY <1>1, <1>2, <1>4 DEF SharingAgrees
<1>5. CASE x = c /\ u = c BY Zenon, <1>3, <1>5
<1>6. CASE x = c /\ u \in Live BY Zenon, <1>2, <1>3, <1>6
<1>7. CASE x \in Live /\ u = c BY Zenon, <1>2, <1>3, <1>7
<1> QED BY Zenon, <1>3, <1>4, <1>5, <1>6, <1>7

(* The monitors of the child are its parent's without those of shut.          *)
LEMMA ClonedMonitors ==
  ASSUME IndInv, NEW t, NEW c, NEW k, NEW r, NEW shut, NEW share \in BOOLEAN,
         ClonedIds(t, c, k, r, share), ClonedTables(t, k, r, shut),
         ClonedModes(t, c, k, share)
  PROVE  MonitorsAgree'
<1> SUFFICES ASSUME NEW x \in Live', Running(x)', NEW g \in Fds
             PROVE  mon'[rtab'[x]][g] = IF kern'[ktab'[x]][g].kind \in Special
                                           /\ ~InFlight(ktab'[x], g)
                                        THEN kern'[ktab'[x]][g].kind ELSE "none"
  BY Zenon DEF MonitorsAgree, ClonedModes, FlightsStay
<1>1. MonitorsAgree BY Zenon DEF IndInv
<1>2. CASE x \in Live
  <2>1. /\ Running(x) /\ ktab'[x] = ktab[x] /\ rtab'[x] = rtab[x]
        /\ kern'[ktab[x]] = kern[ktab[x]] /\ mon'[rtab[x]] = mon[rtab[x]]
    BY Zenon, <1>2 DEF ClonedIds, ClonedTables, ClonedModes, ModesStay
  <2> QED BY Zenon, <2>1, <1>1, <1>2 DEF MonitorsAgree
<1>3. CASE x = c
  <2>1. mon[rtab[t]][g] = IF kern[ktab[t]][g].kind \in Special /\ ~InFlight(ktab[t], g)
                          THEN kern[ktab[t]][g].kind ELSE "none"
    BY Zenon, <1>1 DEF MonitorsAgree, ClonedIds, ClonedModes
  <2>2. NoFile.kind \notin Special BY Zenon DEF NoFile, Special
  <2>3. InFlight(k, g) <=> InFlight(ktab[t], g) BY Zenon DEF ClonedIds, ClonedModes
  <2>4. /\ kern'[ktab'[x]][g] = IF g \in shut THEN NoFile ELSE kern[ktab[t]][g]
        /\ mon'[rtab'[x]][g] = IF g \in shut THEN "none" ELSE mon[rtab[t]][g]
        /\ ktab'[x] = k
    BY Zenon, <1>3 DEF ClonedIds, ClonedTables
  <2> QED BY Zenon, <2>1, <2>2, <2>3, <2>4
<1> QED BY Zenon, <1>2, <1>3 DEF ClonedIds

(* A task in exec that shares rr's table with the child shares it with its    *)
(* parent.                                                                    *)
LEMMA ClonedExec ==
  ASSUME IndInv, NEW t, NEW c, NEW k, NEW r, NEW shut, NEW share \in BOOLEAN,
         ClonedIds(t, c, k, r, share), ClonedTables(t, k, r, shut),
         ClonedModes(t, c, k, share)
  PROVE  ExecAgrees'
<1> SUFFICES ASSUME NEW x \in Live', InExec(x)', NEW g \in Fds, kern'[ktab'[x]][g] # NoFile
             PROVE  /\ mon'[rtab'[x]][g] = IF kern'[ktab'[x]][g].kind \in Special
                                           THEN kern'[ktab'[x]][g].kind ELSE "none"
                    /\ \A u \in Live' : rtab'[u] = rtab'[x] /\ Running(u)' =>
                          kern'[ktab'[u]][g] # NoFile /\ ~InFlight(ktab'[u], g)
                    /\ \A u \in Live' : rtab'[u] = rtab'[x] => desched[u] # g
  BY DEF ExecAgrees, TaskSet, ClonedModes, FlightsStay
<1>1. ASSUME NEW u \in Live
      PROVE  /\ ktab'[u] = ktab[u] /\ rtab'[u] = rtab[u]
             /\ kern'[ktab[u]] = kern[ktab[u]] /\ mon'[rtab[u]] = mon[rtab[u]]
             /\ (InExec(u)' <=> InExec(u)) /\ (Running(u)' <=> Running(u))
  BY Zenon DEF ClonedIds, ClonedTables, ClonedModes, ModesStay
<1>2. Live' = Live \cup {c} /\ rtab'[c] = r /\ ktab'[c] = k /\ ~InExec(c)' /\ desched[c] = -1
  BY Zenon DEF ClonedIds, ClonedModes
<1>3. x \in Live /\ InExec(x) BY Zenon, <1>1, <1>2
<1>4. /\ mon[rtab[x]][g] = IF kern[ktab[x]][g].kind \in Special
                           THEN kern[ktab[x]][g].kind ELSE "none"
      /\ \A u \in Live : rtab[u] = rtab[x] /\ Running(u) =>
            kern[ktab[u]][g] # NoFile /\ ~InFlight(ktab[u], g)
      /\ \A u \in Live : rtab[u] = rtab[x] => desched[u] # g
  <2>1. kern[ktab[x]][g] # NoFile BY Zenon, <1>1, <1>3
  <2> QED BY <2>1, <1>3 DEF IndInv, ExecAgrees, TaskSet
<1>5. ASSUME NEW u \in Live', rtab'[u] = rtab'[x], Running(u)'
      PROVE  kern'[ktab'[u]][g] # NoFile /\ ~InFlight(ktab'[u], g)
  <2>1. CASE u \in Live BY <2>1, <1>1, <1>3, <1>4, <1>5
  <2>2. CASE u = c
    <3>1. r = rtab[x] BY Zenon, <2>2, <1>1, <1>2, <1>3, <1>5
    <3>2. /\ t \in Live /\ Running(t) /\ ktab'[u] = ktab[t] /\ rtab[t] = rtab[x]
      BY Zenon, <2>2, <3>1, <1>3 DEF ClonedIds, ClonedModes
    <3> QED BY <3>2, <1>1, <1>4
  <2> QED BY Zenon, <2>1, <2>2, <1>2
<1>6. ASSUME NEW u \in Live', rtab'[u] = rtab'[x] PROVE desched[u] # g
  <2>1. g # -1 BY FdAssumption DEF Fds
  <2>2. CASE u \in Live BY Zenon, <2>2, <1>1, <1>3, <1>4, <1>6
  <2>3. CASE u = c BY Zenon, <2>1, <2>3, <1>2
  <2> QED BY Zenon, <2>2, <2>3, <1>2
<1>7. mon'[rtab'[x]] = mon[rtab[x]] /\ kern'[ktab'[x]] = kern[ktab[x]] BY Zenon, <1>1, <1>3
<1> QED BY Zenon, <1>4, <1>5, <1>6, <1>7

(* The child has no desched descriptor yet, and those its table keeps are     *)
(* those of its parent's table.                                               *)
LEMMA ClonedDesched ==
  ASSUME IndInv, NEW t, NEW c, NEW k, NEW r, NEW shut, NEW share \in BOOLEAN,
         ClonedIds(t, c, k, r, share), ClonedTables(t, k, r, shut),
         ClonedModes(t, c, k, share)
  PROVE  DeschedOpen'
<1> SUFFICES ASSUME NEW x \in Live', NEW u \in Live', rtab'[u] = rtab'[x]
             PROVE  /\ Running(x)' /\ desched[u] # -1 =>
                          kern'[ktab'[x]][desched[u]] = File("rr", TRUE)
                    /\ desched[u] = desched[x] /\ desched[x] # -1 => u = x
  BY Zenon DEF DeschedOpen, TaskSet, File, ClonedModes
<1>1. DeschedOpen BY Zenon DEF IndInv
<1>2. CASE u = c
  <2>1. desched[u] = -1 BY Zenon, <1>2 DEF ClonedModes
  <2> QED BY Zenon, <2>1
<1>3. CASE x \in Live /\ u \in Live
  <2>1. /\ ktab'[x] = ktab[x] /\ rtab'[x] = rtab[x] /\ rtab'[u] = rtab[u]
        /\ kern'[ktab[x]] = kern[ktab[x]] /\ (Running(x)' <=> Running(x))
    BY Zenon, <1>3 DEF ClonedIds, ClonedTables, ClonedModes, ModesStay
  <2>2. /\ Running(x) /\ desched[u] # -1 => kern[ktab[x]][desched[u]] = File("rr", TRUE)
        /\ desched[u] = desched[x] /\ desched[x] # -1 => u = x
    BY Zenon, <2>1, <1>1, <1>3 DEF DeschedOpen, TaskSet
  <2> QED BY Zenon, <2>1, <2>2
<1>4. CASE x = c /\ u \in Live
  <2>1. /\ t \in Live /\ Running(t) /\ ktab'[x] = ktab[t] /\ rtab[u] = rtab[t]
        /\ kern'[ktab[t]] = kern[ktab[t]] /\ desched[x] = -1
    BY Zenon, <1>4 DEF ClonedIds, ClonedTables, ClonedModes
  <2>2. desched[u] # -1 => kern[ktab[t]][desched[u]] = File("rr", TRUE)
    BY Zenon, <2>1, <1>1, <1>4 DEF DeschedOpen, TaskSet
  <2> QED BY Zenon, <2>1, <2>2
<1>5. Live' = Live \cup {c} BY Zenon DEF ClonedIds
<1> QED BY Zenon, <1>2, <1>3, <1>4, <1>5

(* rr's root directory is not among the descriptors the child's copy shuts.   *)
LEMMA ClonedRoot ==
  ASSUME IndInv, NEW t, NEW c, NEW k, NEW r, NEW shut, NEW share \in BOOLEAN,
         ClonedIds(t, c, k, r, share), ClonedTables(t, k, r, shut), RootDir \notin shut
  PROVE  RootOpen'
<1>1. RootDir \in Fds BY FdAssumption DEF RootDir, Fds
<1>2. ASSUME NEW x \in Live' PROVE kern'[ktab'[x]][RootDir] = File("rr", FALSE)
  <2>1. \A u \in Live : kern[ktab[u]][RootDir] = File("rr", FALSE)
    BY Zenon DEF IndInv, RootOpen
  <2>2. CASE x = c
    <3>1. t \in Live /\ kern'[ktab'[x]][RootDir] = kern[ktab[t]][RootDir]
      BY Zenon, <2>2, <1>1 DEF ClonedIds, ClonedTables
    <3> QED BY Zenon, <2>1, <3>1
  <2>3. CASE x \in Live
    <3>1. kern'[ktab'[x]] = kern[ktab[x]] BY Zenon, <2>3 DEF ClonedIds, ClonedTables
    <3> QED BY Zenon, <2>1, <2>3, <3>1
  <2>4. x \in Live \/ x = c BY Zenon DEF ClonedIds
  <2> QED BY Zenon, <2>2, <2>3, <2>4
<1> QED BY Zenon, <1>2 DEF RootOpen, File, RootDir

(* The child opens nothing yet.                                               *)
LEMMA ClonedOpens ==
  ASSUME IndInv, NEW t, NEW c, NEW k, NEW r, NEW shut, NEW share \in BOOLEAN,
         ClonedIds(t, c, k, r, share), ClonedTables(t, k, r, shut),
         ClonedModes(t, c, k, share)
  PROVE  OpensAgree'
<1> SUFFICES ASSUME NEW x \in Live', call[x].op = "open"
             PROVE  /\ call[x].fd \in Fds
                    /\ kern'[ktab'[x]][call[x].fd] # NoFile
                    /\ kern'[ktab'[x]][call[x].fd].kind = call[x].kind
                    /\ call[x].kind \in {"plain", "mem"}
                    /\ \A u \in Live' : /\ ktab'[u] = ktab'[x] /\ call[u].op = "open"
                                        /\ call[u].fd = call[x].fd
                                        => u = x
  BY Zenon DEF OpensAgree, ClonedModes
<1>1. \A u \in Live' : call[u].op = "open" => u \in Live /\ ktab'[u] = ktab[u]
  BY Zenon DEF ClonedIds, ClonedModes
<1>2. x \in Live /\ ktab'[x] = ktab[x] /\ kern'[ktab[x]] = kern[ktab[x]]
  BY Zenon, <1>1 DEF ClonedTables
<1> QED BY <1>1, <1>2 DEF IndInv, OpensAgree

(* The child's table has the count of its own monitors.                       *)
LEMMA ClonedCount ==
  ASSUME IndInv, NEW t, NEW c, NEW k, NEW r, NEW shut, NEW share \in BOOLEAN,
         ClonedIds(t, c, k, r, share), ClonedTables(t, k, r, shut),
         beyond'[r] = Cardinality(Beyond(mon'[r]))
  PROVE  CountAgrees'
<1>1. ASSUME NEW x \in Live' PROVE beyond'[rtab'[x]] = Cardinality(Beyond(mon'[rtab'[x]]))
  <2>1. CASE x = c BY Zenon, <2>1 DEF ClonedIds
  <2>2. CASE x \in Live
    <3>1. mon'[rtab'[x]] = mon[rtab[x]] /\ beyond'[rtab'[x]] = beyond[rtab[x]]
      BY Zenon, <2>2 DEF ClonedIds, ClonedTables
    <3>2. beyond[rtab[x]] = Cardinality(Beyond(mon[rtab[x]]))
      BY Zenon, <2>2 DEF IndInv, CountAgrees, Beyond
    <3> QED BY Zenon, <3>1, <3>2
  <2> QED BY Zenon, <2>1, <2>2 DEF ClonedIds
<1> QED BY Zenon, <1>1 DEF CountAgrees, Beyond, Monitored

(* The child has the address space v, its parent's or an unused one, whose    *)
(* array keeps the entries that a monitor of one of its tasks still needs.    *)
ClonedSpace(t, c, v, r) ==
  /\ vm'[c] = v /\ globals'[v] = globals[vm[t]]
  /\ \A u \in Live : vm'[u] = vm[u] /\ globals'[vm[u]] = globals[vm[u]]
  /\ \A u \in Live : vm[u] # v => disabled'[vm[u]] = disabled[vm[u]]
  /\ \A u \in Live : vm[u] = v => v = vm[t]
  /\ \A e \in disabled[vm[t]] :
       \/ \E g \in Monitored(mon'[r]) : Entry(g) = e
       \/ \E u \in Live : vm[u] = v /\ \E g \in Monitored(mon[rtab[u]]) : Entry(g) = e
       => e \in disabled'[v]

LEMMA ClonedArray ==
  ASSUME IndInv, NEW t, NEW c, NEW k, NEW r, NEW v, NEW shut, NEW share \in BOOLEAN,
         ClonedIds(t, c, k, r, share), ClonedTables(t, k, r, shut), ClonedSpace(t, c, v, r)
  PROVE  ArrayCovers'
<1>1. ASSUME NEW x \in Live', globals'[vm'[x]], NEW g \in Monitored(mon'[rtab'[x]])
      PROVE  Entry(g) \in disabled'[vm'[x]]
  <2>1. \A u \in Live : globals[vm[u]] =>
          \A h \in Monitored(mon[rtab[u]]) : Entry(h) \in disabled[vm[u]]
    BY Zenon DEF IndInv, ArrayCovers
  <2>2. CASE x = c
    <3>1. t \in Live /\ rtab'[x] = r /\ vm'[x] = v /\ globals[vm[t]]
      BY Zenon, <1>1, <2>2 DEF ClonedIds, ClonedSpace
    <3>2. g \in Monitored(mon'[r]) /\ g \in Monitored(mon[rtab[t]])
      BY Zenon, <3>1 DEF ClonedTables, Monitored
    <3>3. Entry(g) \in disabled[vm[t]] BY Zenon, <2>1, <3>1, <3>2
    <3> QED BY Zenon, <3>1, <3>2, <3>3 DEF ClonedSpace
  <2>3. CASE x \in Live
    <3>1. /\ vm'[x] = vm[x] /\ globals[vm[x]] /\ mon'[rtab'[x]] = mon[rtab[x]]
      BY <1>1, <2>3 DEF ClonedIds, ClonedTables, ClonedSpace
    <3>2. g \in Monitored(mon[rtab[x]]) BY Zenon, <3>1
    <3>3. Entry(g) \in disabled[vm[x]] BY Zenon, <2>1, <2>3, <3>1, <3>2
    <3>4. CASE vm[x] # v BY Zenon, <2>3, <3>1, <3>3, <3>4 DEF ClonedSpace
    <3>5. CASE vm[x] = v BY Zenon, <2>3, <3>1, <3>2, <3>3, <3>5 DEF ClonedSpace
    <3> QED BY Zenon, <3>4, <3>5
  <2> QED BY Zenon, <2>2, <2>3 DEF ClonedIds
<1> QED BY Zenon, <1>1 DEF ArrayCovers, Monitored, Entry

-----------------------------------------------------------------------------
(* execve gives the caller the kernel's table k, its own, without the         *)
(* close-on-exec descriptors of the one it had.                               *)
ExecdTables(t, k) ==
  /\ t \in Live /\ Live' = Live /\ ktab'[t] = k
  /\ \A u \in Live : u # t => /\ ktab'[u] = ktab[u] /\ ktab[u] # k
                              /\ kern'[ktab[u]] = kern[ktab[u]]
  /\ \A g \in Fds : kern'[k][g] = IF kern[ktab[t]][g].cloexec THEN NoFile
                                  ELSE kern[ktab[t]][g]
  /\ UNCHANGED <<rtab, mon, desched>>

(* Until it returns the caller is in exec.                                    *)
ExecdModes(t) ==
  /\ Running(t) /\ ~InExec(t) /\ InExec(t)' /\ ~Running(t)' /\ call'[t].op # "open"
  /\ \A u \in Live : u # t => call'[u] = call[u]
  /\ ModesStay(Live \ {t}) /\ FlightsStay /\ \A g : ~InFlight(ktab[t], g)

(* The other tasks see no difference, and the caller is in exec.              *)
LEMMA ExecdKeeps ==
  ASSUME IndInv, NEW t, NEW k, ExecdTables(t, k), ExecdModes(t)
  PROVE  SharingAgrees' /\ MonitorsAgree' /\ DeschedOpen' /\ RootOpen' /\ OpensAgree'
<1>1. Live' = Live BY Zenon DEF ExecdTables
<1>2. SharingAgrees'
  <2> SUFFICES ASSUME NEW x \in Live, NEW u \in Live
               PROVE  /\ ktab'[x] = ktab'[u] => rtab[x] = rtab[u]
                      /\ rtab[x] = rtab[u] /\ ~InExec(x)' /\ ~InExec(u)' => ktab'[x] = ktab'[u]
                      /\ InExec(x)' /\ ktab'[x] = ktab'[u] => x = u
    BY Zenon, <1>1 DEF SharingAgrees, ExecdTables
  <2>1. CASE x # t /\ u # t
    <3>1. /\ ktab'[x] = ktab[x] /\ ktab'[u] = ktab[u]
          /\ (InExec(x)' <=> InExec(x)) /\ (InExec(u)' <=> InExec(u))
      BY Zenon, <2>1 DEF ExecdTables, ExecdModes, ModesStay
    <3> QED BY Zenon, <3>1 DEF IndInv, SharingAgrees
  <2>2. CASE x = t \/ u = t BY Zenon, <2>2 DEF ExecdTables, ExecdModes
  <2> QED BY Zenon, <2>1, <2>2
<1>3. MonitorsAgree'
  <2> SUFFICES ASSUME NEW x \in Live, Running(x)', NEW g \in Fds
               PROVE  mon[rtab[x]][g] = IF kern'[ktab'[x]][g].kind \in Special
                                           /\ ~InFlight(ktab'[x], g)
                                        THEN kern'[ktab'[x]][g].kind ELSE "none"
    BY Zenon, <1>1 DEF MonitorsAgree, ExecdTables, ExecdModes, FlightsStay
  <2>1. Running(x) /\ ktab'[x] = ktab[x] /\ kern'[ktab[x]] = kern[ktab[x]]
    BY Zenon DEF ExecdTables, ExecdModes, ModesStay
  <2> QED BY Zenon, <2>1 DEF IndInv, MonitorsAgree
<1>4. DeschedOpen'
  <2> SUFFICES ASSUME NEW x \in Live, NEW u \in Live, rtab[u] = rtab[x]
               PROVE  /\ Running(x)' /\ desched[u] # -1 =>
                            kern'[ktab'[x]][desched[u]] = File("rr", TRUE)
                      /\ desched[u] = desched[x] /\ desched[x] # -1 => u = x
    BY Zenon, <1>1 DEF DeschedOpen, TaskSet, File, ExecdTables
  <2>1. /\ Running(x) /\ desched[u] # -1 => kern[ktab[x]][desched[u]] = File("rr", TRUE)
        /\ desched[u] = desched[x] /\ desched[x] # -1 => u = x
    BY Zenon DEF IndInv, DeschedOpen, TaskSet
  <2>2. Running(x)' => Running(x) /\ kern'[ktab'[x]] = kern[ktab[x]]
    BY Zenon DEF ExecdTables, ExecdModes, ModesStay
  <2> QED BY Zenon, <2>1, <2>2
<1>5. RootOpen'
  <2>1. RootDir \in Fds BY FdAssumption DEF RootDir, Fds
  <2>2. ASSUME NEW x \in Live PROVE kern'[ktab'[x]][RootDir] = File("rr", FALSE)
    <3>1. \A u \in Live : kern[ktab[u]][RootDir] = File("rr", FALSE)
      BY Zenon DEF IndInv, RootOpen
    <3>2. ~kern[ktab[x]][RootDir].cloexec BY <3>1 DEF File
    <3>3. kern'[ktab'[x]][RootDir] = kern[ktab[x]][RootDir]
      BY Zenon, <2>1, <3>2 DEF ExecdTables
    <3> QED BY Zenon, <3>1, <3>3
  <2> QED BY Zenon, <2>2, <1>1 DEF RootOpen, File, RootDir
<1>6. OpensAgree'
  <2>1. \A u \in Live : call'[u].op = "open" =>
          call'[u] = call[u] /\ ktab'[u] = ktab[u] /\ kern'[ktab[u]] = kern[ktab[u]]
    BY Zenon DEF ExecdTables, ExecdModes
  <2> SUFFICES ASSUME NEW x \in Live, call'[x].op = "open"
               PROVE  /\ call'[x].fd \in Fds
                      /\ kern'[ktab'[x]][call'[x].fd] # NoFile
                      /\ kern'[ktab'[x]][call'[x].fd].kind = call'[x].kind
                      /\ call'[x].kind \in {"plain", "mem"}
                      /\ \A u \in Live : /\ ktab'[u] = ktab'[x] /\ call'[u].op = "open"
                                         /\ call'[u].fd = call'[x].fd
                                         => u = x
    BY Zenon, <1>1 DEF OpensAgree
  <2> QED BY <2>1 DEF IndInv, OpensAgree
<1> QED BY Zenon, <1>2, <1>3, <1>4, <1>5, <1>6

(* What the caller has kept was open to those that share rr's table with it,  *)
(* and none of it is a desched descriptor: those close on exec.               *)
LEMMA ExecdExec ==
  ASSUME IndInv, NEW t, NEW k, ExecdTables(t, k), ExecdModes(t)
  PROVE  ExecAgrees'
<1> SUFFICES ASSUME NEW x \in Live, InExec(x)', NEW g \in Fds, kern'[ktab'[x]][g] # NoFile
             PROVE  /\ mon[rtab[x]][g] = IF kern'[ktab'[x]][g].kind \in Special
                                         THEN kern'[ktab'[x]][g].kind ELSE "none"
                    /\ \A u \in Live : rtab[u] = rtab[x] /\ Running(u)' =>
                          kern'[ktab'[u]][g] # NoFile /\ ~InFlight(ktab'[u], g)
                    /\ \A u \in Live : rtab[u] = rtab[x] => desched[u] # g
  BY DEF ExecAgrees, TaskSet, ExecdTables, ExecdModes, FlightsStay
<1>1. ASSUME NEW u \in Live, u # t \/ Running(u)'
      PROVE  /\ u # t /\ ktab'[u] = ktab[u] /\ kern'[ktab[u]] = kern[ktab[u]]
             /\ (InExec(u)' <=> InExec(u)) /\ (Running(u)' <=> Running(u))
  BY Zenon, <1>1 DEF ExecdTables, ExecdModes, ModesStay
<1>2. CASE x = t
  <2>1. kern'[ktab'[x]][g] = kern[ktab[t]][g] /\ ~kern[ktab[t]][g].cloexec
    BY Zenon, <1>2 DEF ExecdTables
  <2>2. mon[rtab[t]][g] = IF kern[ktab[t]][g].kind \in Special
                          THEN kern[ktab[t]][g].kind ELSE "none"
    BY Zenon DEF IndInv, MonitorsAgree, ExecdTables, ExecdModes
  <2>3. ASSUME NEW u \in Live, rtab[u] = rtab[t], Running(u)'
        PROVE  kern'[ktab'[u]][g] # NoFile /\ ~InFlight(ktab'[u], g)
    <3>1. /\ t \in Live /\ Running(u) /\ ~InExec(t) /\ kern'[ktab'[u]] = kern[ktab[u]]
          /\ ktab'[u] = ktab[u] /\ ~InFlight(ktab[t], g)
      BY Zenon, <2>3, <1>1 DEF ExecdTables, ExecdModes
    <3>2. ktab[u] = ktab[t] BY Zenon, <2>3, <3>1 DEF IndInv, SharingAgrees, InExec, Running
    <3> QED BY Zenon, <1>2, <2>1, <3>1, <3>2
  <2>4. ASSUME NEW u \in Live, rtab[u] = rtab[t] PROVE desched[u] # g
    <3>1. g # -1 BY FdAssumption DEF Fds
    <3>2. t \in Live /\ Running(t) BY Zenon DEF ExecdTables, ExecdModes
    <3>3. desched[u] # -1 => kern[ktab[t]][desched[u]] = File("rr", TRUE)
      BY Zenon, <2>4, <3>2 DEF IndInv, DeschedOpen, TaskSet
    <3>4. desched[u] # -1 => kern[ktab[t]][desched[u]].cloexec BY <3>3 DEF File
    <3> QED BY Zenon, <2>1, <3>1, <3>4
  <2> QED BY Zenon, <1>2, <2>1, <2>2, <2>3, <2>4
<1>3. CASE x # t
  <2>1. InExec(x) /\ kern'[ktab'[x]][g] = kern[ktab[x]][g] BY Zenon, <1>1, <1>3
  <2>2. /\ mon[rtab[x]][g] = IF kern[ktab[x]][g].kind \in Special
                             THEN kern[ktab[x]][g].kind ELSE "none"
        /\ \A u \in Live : rtab[u] = rtab[x] /\ Running(u) =>
              kern[ktab[u]][g] # NoFile /\ ~InFlight(ktab[u], g)
        /\ \A u \in Live : rtab[u] = rtab[x] => desched[u] # g
    BY <2>1 DEF IndInv, ExecAgrees, TaskSet
  <2>3. ASSUME NEW u \in Live, rtab[u] = rtab[x], Running(u)'
        PROVE  kern'[ktab'[u]][g] # NoFile /\ ~InFlight(ktab'[u], g)
    BY Zenon, <2>2, <2>3, <1>1
  <2> QED BY Zenon, <2>1, <2>2, <2>3
<1> QED BY Zenon, <1>2, <1>3

-----------------------------------------------------------------------------
(* post_exec gives the caller rr's table r, its own, without the monitors of  *)
(* what the kernel has closed,                                                *)
RenewedTable(t, r, gone) ==
  /\ t \in Live /\ Live' = Live /\ rtab'[t] = r
  /\ \A u \in Live : u # t => /\ rtab'[u] = rtab[u] /\ rtab[u] # r
                              /\ mon'[rtab[u]] = mon[rtab[u]]
                              /\ beyond'[rtab[u]] = beyond[rtab[u]]
  /\ \A g \in Fds : mon'[r][g] = IF g \in gone THEN "none" ELSE mon[rtab[t]][g]
  /\ \A g \in Fds : g \in gone <=> mon[rtab[t]][g] # "none" /\ kern[ktab[t]][g] = NoFile
  /\ UNCHANGED <<kern, ktab>>

(* and an address space v, its own, without preload_globals.                  *)
RenewedSpace(t, v) ==
  /\ vm'[t] = v /\ ~globals'[v]
  /\ \A u \in Live : u # t => /\ vm'[u] = vm[u] /\ globals'[vm[u]] = globals[vm[u]]
                              /\ disabled'[vm[u]] = disabled[vm[u]]

(* The caller runs again, without a desched descriptor.                       *)
RenewedModes(t) ==
  /\ InExec(t) /\ Running(t)' /\ ~InExec(t)' /\ call'[t].op # "open" /\ desched'[t] = -1
  /\ \A u \in Live : u # t => call'[u] = call[u] /\ desched'[u] = desched[u]
  /\ ModesStay(Live \ {t}) /\ FlightsStay /\ \A g : ~InFlight(ktab[t], g)
  /\ \A u \in Live : u # t => ktab[u] # ktab[t]

LEMMA RenewedKeeps ==
  ASSUME IndInv, NEW t, NEW r, NEW gone, RenewedTable(t, r, gone), RenewedModes(t)
  PROVE  SharingAgrees' /\ ExecAgrees' /\ DeschedOpen' /\ RootOpen' /\ OpensAgree'
<1>1. Live' = Live /\ ktab' = ktab /\ kern' = kern BY Zenon DEF RenewedTable
<1>2. SharingAgrees'
  <2> SUFFICES ASSUME NEW x \in Live, NEW u \in Live
               PROVE  /\ ktab[x] = ktab[u] => rtab'[x] = rtab'[u]
                      /\ rtab'[x] = rtab'[u] /\ ~InExec(x)' /\ ~InExec(u)' => ktab[x] = ktab[u]
                      /\ InExec(x)' /\ ktab[x] = ktab[u] => x = u
    BY Zenon, <1>1 DEF SharingAgrees
  <2>1. CASE x # t /\ u # t
    <3>1. /\ rtab'[x] = rtab[x] /\ rtab'[u] = rtab[u]
          /\ (InExec(x)' <=> InExec(x)) /\ (InExec(u)' <=> InExec(u))
      BY Zenon, <2>1 DEF RenewedTable, RenewedModes, ModesStay
    <3> QED BY Zenon, <3>1 DEF IndInv, SharingAgrees
  <2>2. CASE x = t \/ u = t BY Zenon, <2>2 DEF RenewedTable, RenewedModes
  <2> QED BY Zenon, <2>1, <2>2
<1>3. ExecAgrees'
  <2> SUFFICES ASSUME NEW x \in Live, InExec(x)', NEW g \in Fds, kern[ktab[x]][g] # NoFile
               PROVE  /\ mon'[rtab'[x]][g] = IF kern[ktab[x]][g].kind \in Special
                                             THEN kern[ktab[x]][g].kind ELSE "none"
                      /\ \A u \in Live : rtab'[u] = rtab'[x] /\ Running(u)' =>
                            kern[ktab[u]][g] # NoFile /\ ~InFlight(ktab[u], g)
                      /\ \A u \in Live : rtab'[u] = rtab'[x] => desched'[u] # g
    BY <1>1 DEF ExecAgrees, TaskSet, RenewedModes, FlightsStay
  <2>1. x # t /\ InExec(x) /\ rtab'[x] = rtab[x] /\ mon'[rtab[x]] = mon[rtab[x]]
    BY Zenon DEF RenewedTable, RenewedModes, ModesStay
  <2>2. /\ mon[rtab[x]][g] = IF kern[ktab[x]][g].kind \in Special
                             THEN kern[ktab[x]][g].kind ELSE "none"
        /\ \A u \in Live : rtab[u] = rtab[x] /\ Running(u) =>
              kern[ktab[u]][g] # NoFile /\ ~InFlight(ktab[u], g)
        /\ \A u \in Live : rtab[u] = rtab[x] => desched[u] # g
    BY <2>1 DEF IndInv, ExecAgrees, TaskSet
  <2>3. \A u \in Live : rtab'[u] = rtab'[x] =>
          rtab[u] = rtab[x] /\ desched'[u] = desched[u] /\ (Running(u)' <=> Running(u))
    BY <2>1 DEF RenewedTable, RenewedModes, ModesStay
  <2> QED BY Zenon, <2>1, <2>2, <2>3
<1>4. DeschedOpen'
  <2> SUFFICES ASSUME NEW x \in Live, NEW u \in Live, rtab'[u] = rtab'[x]
               PROVE  /\ Running(x)' /\ desched'[u] # -1 =>
                            kern[ktab[x]][desched'[u]] = File("rr", TRUE)
                      /\ desched'[u] = desched'[x] /\ desched'[x] # -1 => u = x
    BY Zenon, <1>1 DEF DeschedOpen, TaskSet, File
  <2>1. CASE x = t
    <3>1. u = x /\ desched'[u] = -1 BY Zenon, <2>1 DEF RenewedTable, RenewedModes
    <3> QED BY Zenon, <3>1
  <2>2. CASE x # t
    <3>1. /\ rtab[u] = rtab[x] /\ desched'[u] = desched[u] /\ desched'[x] = desched[x]
          /\ (Running(x)' <=> Running(x))
      BY Zenon, <2>2 DEF RenewedTable, RenewedModes, ModesStay
    <3>2. /\ Running(x) /\ desched[u] # -1 => kern[ktab[x]][desched[u]] = File("rr", TRUE)
          /\ desched[u] = desched[x] /\ desched[x] # -1 => u = x
      BY Zenon, <3>1 DEF IndInv, DeschedOpen, TaskSet
    <3> QED BY Zenon, <3>1, <3>2
  <2> QED BY Zenon, <2>1, <2>2
<1>5. RootOpen' BY Zenon, <1>1 DEF IndInv, RootOpen
<1>6. OpensAgree'
  <2>1. \A u \in Live : call'[u].op = "open" => call'[u] = call[u] BY Zenon DEF RenewedModes
  <2> QED BY <2>1, <1>1 DEF IndInv, OpensAgree
<1> QED BY Zenon, <1>2, <1>3, <1>4, <1>5, <1>6

(* The caller has the monitors of what it has kept.                           *)
LEMMA RenewedMonitors ==
  ASSUME IndInv, NEW t, NEW r, NEW gone, RenewedTable(t, r, gone), RenewedModes(t)
  PROVE  MonitorsAgree'
<1> SUFFICES ASSUME NEW x \in Live, Running(x)', NEW g \in Fds
             PROVE  mon'[rtab'[x]][g] = IF kern[ktab[x]][g].kind \in Special
                                           /\ ~InFlight(ktab[x], g)
                                        THEN kern[ktab[x]][g].kind ELSE "none"
  BY Zenon DEF MonitorsAgree, RenewedTable, RenewedModes, FlightsStay
<1>1. CASE x = t
  <2>1. /\ mon'[rtab'[x]][g] = IF g \in gone THEN "none" ELSE mon[rtab[t]][g]
        /\ g \in gone <=> mon[rtab[t]][g] # "none" /\ kern[ktab[t]][g] = NoFile
        /\ t \in Live /\ InExec(t) /\ ~InFlight(ktab[t], g)
    BY Zenon, <1>1 DEF RenewedTable, RenewedModes
  <2>2. NoFile.kind \notin Special BY Zenon DEF NoFile, Special
  <2>3. CASE kern[ktab[t]][g] = NoFile BY Zenon, <1>1, <2>1, <2>2, <2>3
  <2>4. CASE kern[ktab[t]][g] # NoFile
    <3>1. mon[rtab[t]][g] = IF kern[ktab[t]][g].kind \in Special
                            THEN kern[ktab[t]][g].kind ELSE "none"
      BY Zenon, <2>1, <2>4 DEF IndInv, ExecAgrees
    <3> QED BY Zenon, <1>1, <2>1, <2>4, <3>1
  <2> QED BY Zenon, <2>3, <2>4
<1>2. CASE x # t
  <2>1. Running(x) /\ rtab'[x] = rtab[x] /\ mon'[rtab[x]] = mon[rtab[x]]
    BY Zenon, <1>2 DEF RenewedTable, RenewedModes, ModesStay
  <2> QED BY Zenon, <2>1 DEF IndInv, MonitorsAgree
<1> QED BY Zenon, <1>1, <1>2

(* Its count is that of its own monitors, and the others' arrays are theirs.  *)
LEMMA RenewedArrays ==
  ASSUME IndInv, NEW t, NEW r, NEW v, NEW gone, RenewedTable(t, r, gone),
         RenewedSpace(t, v), beyond'[r] = Cardinality(Beyond(mon'[r]))
  PROVE  CountAgrees' /\ ArrayCovers'
<1>1. Live' = Live BY Zenon DEF RenewedTable
<1>2. ASSUME NEW x \in Live, x # t
      PROVE  mon'[rtab'[x]] = mon[rtab[x]] /\ beyond'[rtab'[x]] = beyond[rtab[x]]
  BY Zenon, <1>2 DEF RenewedTable
<1>3. CountAgrees'
  <2>1. ASSUME NEW x \in Live PROVE beyond'[rtab'[x]] = Cardinality(Beyond(mon'[rtab'[x]]))
    <3>1. CASE x = t BY Zenon, <3>1 DEF RenewedTable
    <3>2. beyond[rtab[x]] = Cardinality(Beyond(mon[rtab[x]]))
      BY Zenon DEF IndInv, CountAgrees, Beyond
    <3> QED BY Zenon, <3>1, <3>2, <1>2
  <2> QED BY Zenon, <2>1, <1>1 DEF CountAgrees, Beyond, Monitored
<1>4. ArrayCovers'
  <2>1. ASSUME NEW x \in Live, globals'[vm'[x]], NEW g \in Monitored(mon'[rtab'[x]])
        PROVE  Entry(g) \in disabled'[vm'[x]]
    <3>1. x # t BY Zenon, <2>1 DEF RenewedSpace
    <3>2. globals[vm[x]] /\ vm'[x] = vm[x] /\ disabled'[vm[x]] = disabled[vm[x]]
      BY Zenon, <2>1, <3>1 DEF RenewedSpace
    <3>3. g \in Monitored(mon[rtab[x]]) BY Zenon, <3>1, <1>2
    <3> QED BY Zenon, <3>2, <3>3 DEF IndInv, ArrayCovers
  <2> QED BY Zenon, <2>1, <1>1 DEF ArrayCovers, Monitored, Entry
<1> QED BY Zenon, <1>3, <1>4

-----------------------------------------------------------------------------
(* An open has put file at the free descriptor fd of the caller's table, and  *)
(* has not returned.                                                          *)
Entered(t, fd, file) ==
  /\ t \in Live /\ Running(t) /\ Live' = Live /\ fd \in Fds
  /\ file # NoFile /\ file.kind \in {"plain", "mem"}
  /\ \A i \in Ids, g \in Fds :
       kern'[i][g] = IF i = ktab[t] /\ g = fd THEN file ELSE kern[i][g]
  /\ UNCHANGED <<ktab, rtab, desched, mon>>
EnteredCall(t, fd, file) ==
  /\ call'[t].op = "open" /\ call'[t].fd = fd /\ call'[t].kind = file.kind
  /\ \A u \in Live : u # t => call'[u] = call[u]
  /\ ModesStay(Live)
  /\ \A i, g : InFlight(i, g)' <=> InFlight(i, g) \/ (i = ktab[t] /\ g = fd)

(* Nobody needed the descriptor, and it has no monitor until the open returns. *)
LEMMA EnteredKeeps ==
  ASSUME IndInv, NEW t, NEW fd, NEW file, Entered(t, fd, file), EnteredCall(t, fd, file),
         Unneeded(t, fd, Live), ClosedInExec(t, fd), mon[rtab[t]][fd] = "none"
  PROVE  /\ SharingAgrees' /\ MonitorsAgree' /\ ExecAgrees'
         /\ DeschedOpen' /\ RootOpen' /\ OpensAgree'
<1>1. /\ Live' = Live /\ ktab' = ktab /\ rtab' = rtab /\ desched' = desched /\ mon' = mon
      /\ t \in Live /\ fd \in Fds
  BY Zenon DEF Entered
<1>2. \A u \in Live : (InExec(u)' <=> InExec(u)) /\ (Running(u)' <=> Running(u))
  BY Zenon DEF EnteredCall, ModesStay
<1>3. ASSUME NEW x \in Live, NEW g \in Fds, ~(ktab[x] = ktab[t] /\ g = fd)
      PROVE  /\ kern'[ktab[x]][g] = kern[ktab[x]][g]
             /\ InFlight(ktab[x], g)' <=> InFlight(ktab[x], g)
  <2>1. ktab[x] \in Ids BY LiveTypes
  <2>2. kern'[ktab[x]][g] = kern[ktab[x]][g] BY Zenon, <2>1, <1>3 DEF Entered
  <2>3. InFlight(ktab[x], g)' <=> InFlight(ktab[x], g) BY Zenon, <1>1, <1>3 DEF EnteredCall
  <2> QED BY Zenon, <2>2, <2>3
<1>4. /\ \A x \in Live : InExec(x) => ktab[x] # ktab[t]
      /\ \A x \in Live : ktab[x] = ktab[t] => rtab[x] = rtab[t]
  BY <1>1 DEF IndInv, SharingAgrees, InExec, Running, Entered
<1>5. fd # RootDir /\ \A u \in Live : rtab[u] = rtab[t] => desched[u] # fd
  BY Zenon DEF Unneeded
<1>6. SharingAgrees' BY <1>1, <1>2 DEF IndInv, SharingAgrees
<1>7. MonitorsAgree'
  <2> SUFFICES ASSUME NEW x \in Live, Running(x), NEW g \in Fds
               PROVE  mon[rtab[x]][g] = IF kern'[ktab[x]][g].kind \in Special
                                           /\ ~InFlight(ktab[x], g)'
                                        THEN kern'[ktab[x]][g].kind ELSE "none"
    BY Zenon, <1>1, <1>2 DEF MonitorsAgree
  <2>1. CASE ktab[x] = ktab[t] /\ g = fd
    <3>1. InFlight(ktab[x], g)' BY Zenon, <2>1, <1>1 DEF EnteredCall
    <3>2. mon[rtab[x]][g] = "none" BY Zenon, <2>1, <1>4
    <3> QED BY Zenon, <3>1, <3>2
  <2>2. CASE ~(ktab[x] = ktab[t] /\ g = fd)
    BY Zenon, <2>2, <1>3 DEF IndInv, MonitorsAgree
  <2> QED BY Zenon, <2>1, <2>2
<1>8. ExecAgrees'
  <2> SUFFICES ASSUME NEW x \in Live, InExec(x), NEW g \in Fds, kern'[ktab[x]][g] # NoFile
               PROVE  /\ mon[rtab[x]][g] = IF kern'[ktab[x]][g].kind \in Special
                                           THEN kern'[ktab[x]][g].kind ELSE "none"
                      /\ \A u \in Live : rtab[u] = rtab[x] /\ Running(u) =>
                            kern'[ktab[u]][g] # NoFile /\ ~InFlight(ktab[u], g)'
                      /\ \A u \in Live : rtab[u] = rtab[x] => desched[u] # g
    BY <1>1, <1>2 DEF ExecAgrees, TaskSet
  <2>1. kern'[ktab[x]][g] = kern[ktab[x]][g] BY Zenon, <1>3, <1>4
  <2>2. /\ mon[rtab[x]][g] = IF kern[ktab[x]][g].kind \in Special
                             THEN kern[ktab[x]][g].kind ELSE "none"
        /\ \A u \in Live : rtab[u] = rtab[x] /\ Running(u) =>
              kern[ktab[u]][g] # NoFile /\ ~InFlight(ktab[u], g)
        /\ \A u \in Live : rtab[u] = rtab[x] => desched[u] # g
    BY <2>1 DEF IndInv, ExecAgrees, TaskSet
  <2>3. ASSUME NEW u \in Live, rtab[u] = rtab[x], Running(u)
        PROVE  kern'[ktab[u]][g] # NoFile /\ ~InFlight(ktab[u], g)'
    <3>1. ~(ktab[u] = ktab[t] /\ g = fd)
      <4> SUFFICES ASSUME ktab[u] = ktab[t], g = fd PROVE FALSE BY Zenon
      <4>1. rtab[x] = rtab[t] BY Zenon, <2>3, <1>4
      <4> QED BY Zenon, <2>1, <4>1 DEF ClosedInExec
    <3> QED BY Zenon, <3>1, <2>2, <2>3, <1>3
  <2> QED BY Zenon, <2>1, <2>2, <2>3
<1>9. DeschedOpen'
  <2> SUFFICES ASSUME NEW x \in Live, NEW u \in Live, rtab[u] = rtab[x]
               PROVE  /\ Running(x) /\ desched[u] # -1 =>
                            kern'[ktab[x]][desched[u]] = File("rr", TRUE)
                      /\ desched[u] = desched[x] /\ desched[x] # -1 => u = x
    BY Zenon, <1>1, <1>2 DEF DeschedOpen, TaskSet, File
  <2>1. /\ Running(x) /\ desched[u] # -1 => kern[ktab[x]][desched[u]] = File("rr", TRUE)
        /\ desched[u] = desched[x] /\ desched[x] # -1 => u = x
    BY Zenon DEF IndInv, DeschedOpen, TaskSet
  <2>2. ~(ktab[x] = ktab[t] /\ desched[u] = fd) BY Zenon, <1>4, <1>5
  <2>3. desched[u] # -1 => desched[u] \in Fds BY LiveTypes DEF IndInv, TypeOK
  <2> QED BY Zenon, <2>1, <2>2, <2>3, <1>3
<1>10. RootOpen'
  <2>1. RootDir \in Fds BY FdAssumption DEF RootDir, Fds
  <2>2. ASSUME NEW x \in Live PROVE kern'[ktab[x]][RootDir] = File("rr", FALSE)
    BY Zenon, <2>1, <1>3, <1>5 DEF IndInv, RootOpen
  <2> QED BY Zenon, <2>2, <1>1 DEF RootOpen, File, RootDir
<1>11. OpensAgree'
  <2> SUFFICES ASSUME NEW x \in Live, call'[x].op = "open"
               PROVE  /\ call'[x].fd \in Fds
                      /\ kern'[ktab[x]][call'[x].fd] # NoFile
                      /\ kern'[ktab[x]][call'[x].fd].kind = call'[x].kind
                      /\ call'[x].kind \in {"plain", "mem"}
                      /\ \A u \in Live : /\ ktab[u] = ktab[x] /\ call'[u].op = "open"
                                         /\ call'[u].fd = call'[x].fd
                                         => u = x
    BY <1>1 DEF OpensAgree
  <2>1. \A u \in Live : /\ ktab[u] = ktab[t] /\ call[u].op = "open" => call[u].fd # fd
    BY Zenon DEF Unneeded, InFlight
  <2>2. \A u \in Live : u # t => call'[u] = call[u] BY Zenon DEF EnteredCall
  <2>3. call'[t].op = "open" /\ call'[t].fd = fd /\ call'[t].kind = file.kind
    BY Zenon DEF EnteredCall
  <2>4. CASE x = t
    <3>1. ktab[t] \in Ids BY LiveTypes, <1>1
    <3>2. /\ kern'[ktab[t]][fd] = file /\ file # NoFile /\ file.kind \in {"plain", "mem"}
      BY Zenon, <3>1, <1>1 DEF Entered
    <3>3. \A u \in Live : /\ ktab[u] = ktab[t] /\ call'[u].op = "open" /\ call'[u].fd = fd
                          => u = t
      BY Zenon, <2>1, <2>2
    <3> QED BY Zenon, <2>3, <2>4, <3>2, <3>3, <1>1
  <2>5. CASE x # t
    <3>1. call'[x] = call[x] BY Zenon, <2>2, <2>5
    <3>2. ~(ktab[x] = ktab[t] /\ call[x].fd = fd) BY Zenon, <3>1, <2>1
    <3>3. /\ call[x].fd \in Fds
          /\ kern[ktab[x]][call[x].fd] # NoFile
          /\ kern[ktab[x]][call[x].fd].kind = call[x].kind
          /\ call[x].kind \in {"plain", "mem"}
          /\ \A u \in Live : /\ ktab[u] = ktab[x] /\ call[u].op = "open"
                             /\ call[u].fd = call[x].fd
                             => u = x
      BY Zenon, <3>1 DEF IndInv, OpensAgree
    <3>4. kern'[ktab[x]][call[x].fd] = kern[ktab[x]][call[x].fd] BY Zenon, <3>2, <3>3, <1>3
    <3>5. \A u \in Live : /\ ktab[u] = ktab[x] /\ call'[u].op = "open"
                          /\ call'[u].fd = call[x].fd
                          => u = x
      BY Zenon, <3>2, <3>3, <2>2, <2>3
    <3> QED BY Zenon, <3>1, <3>3, <3>4, <3>5
  <2> QED BY Zenon, <2>4, <2>5
<1> QED BY Zenon, <1>6, <1>7, <1>8, <1>9, <1>10, <1>11

(* The open has returned: rr has the monitor for what the descriptor refers   *)
(* to, and the open is no longer under way.                                   *)
Returned(t, fd) ==
  /\ Live' = Live /\ UNCHANGED <<ktab, rtab, desched, kern>>
  /\ \A i \in Ids, g \in Fds :
       mon'[i][g] = IF i = rtab[t] /\ g = fd THEN MonitorFor(kern[ktab[t]][fd]) ELSE mon[i][g]
ReturnedCall(t, fd) ==
  /\ \A u \in Live : call'[u].op = "open" => u # t /\ call'[u] = call[u]
  /\ ModesStay(Live)
  /\ \A i, g : InFlight(i, g)' <=> InFlight(i, g) /\ ~(i = ktab[t] /\ g = fd)

LEMMA ReturnedKeeps ==
  ASSUME IndInv, NEW t \in Live, Running(t), NEW fd \in Fds, InFlight(ktab[t], fd),
         Returned(t, fd), ReturnedCall(t, fd)
  PROVE  /\ SharingAgrees' /\ MonitorsAgree' /\ ExecAgrees'
         /\ DeschedOpen' /\ RootOpen' /\ OpensAgree'
<1>1. /\ Live' = Live /\ ktab' = ktab /\ rtab' = rtab /\ desched' = desched /\ kern' = kern
  BY Zenon DEF Returned
<1>2. \A u \in Live : (InExec(u)' <=> InExec(u)) /\ (Running(u)' <=> Running(u))
  BY Zenon DEF ReturnedCall, ModesStay
<1>3. \A i, g : InFlight(i, g)' <=> InFlight(i, g) /\ ~(i = ktab[t] /\ g = fd)
  BY Zenon DEF ReturnedCall
<1>4. ASSUME NEW x \in Live, NEW g \in Fds, ~(rtab[x] = rtab[t] /\ g = fd)
      PROVE  mon'[rtab[x]][g] = mon[rtab[x]][g]
  <2>1. rtab[x] \in Ids BY LiveTypes
  <2> QED BY Zenon, <2>1, <1>4 DEF Returned
<1>5. SharingAgrees' BY <1>1, <1>2 DEF IndInv, SharingAgrees
<1>6. MonitorsAgree'
  <2> SUFFICES ASSUME NEW x \in Live, Running(x), NEW g \in Fds
               PROVE  mon'[rtab[x]][g] = IF kern[ktab[x]][g].kind \in Special
                                            /\ ~InFlight(ktab[x], g)'
                                         THEN kern[ktab[x]][g].kind ELSE "none"
    BY <1>1, <1>2 DEF MonitorsAgree
  <2>1. mon[rtab[x]][g] = IF kern[ktab[x]][g].kind \in Special /\ ~InFlight(ktab[x], g)
                          THEN kern[ktab[x]][g].kind ELSE "none"
    BY Zenon DEF IndInv, MonitorsAgree
  <2>2. rtab[x] = rtab[t] <=> ktab[x] = ktab[t]
    BY DEF IndInv, SharingAgrees, InExec, Running
  <2>3. InFlight(ktab[x], g)' <=> InFlight(ktab[x], g) /\ ~(ktab[x] = ktab[t] /\ g = fd)
    BY Zenon, <1>1, <1>3
  <2>4. CASE ktab[x] = ktab[t] /\ g = fd
    <3>1. rtab[t] \in Ids BY LiveTypes
    <3>2. mon'[rtab[t]][fd] = MonitorFor(kern[ktab[t]][fd]) BY Zenon, <3>1 DEF Returned
    <3>3. ~InFlight(ktab[x], g)' BY Zenon, <2>3, <2>4
    <3>4. rtab[x] = rtab[t] BY Zenon, <2>2, <2>4
    <3> QED BY Zenon, <3>2, <3>3, <3>4, <2>4 DEF MonitorFor
  <2>5. CASE ~(ktab[x] = ktab[t] /\ g = fd)
    <3>1. mon'[rtab[x]][g] = mon[rtab[x]][g] BY Zenon, <2>2, <2>5, <1>4
    <3>2. InFlight(ktab[x], g)' <=> InFlight(ktab[x], g) BY Zenon, <2>3, <2>5
    <3> QED BY Zenon, <3>1, <3>2, <2>1
  <2> QED BY Zenon, <2>4, <2>5
<1>7. ExecAgrees'
  <2> SUFFICES ASSUME NEW x \in Live, InExec(x), NEW g \in Fds, kern[ktab[x]][g] # NoFile
               PROVE  /\ mon'[rtab[x]][g] = IF kern[ktab[x]][g].kind \in Special
                                            THEN kern[ktab[x]][g].kind ELSE "none"
                      /\ \A u \in Live : rtab[u] = rtab[x] /\ Running(u) =>
                            kern[ktab[u]][g] # NoFile /\ ~InFlight(ktab[u], g)'
                      /\ \A u \in Live : rtab[u] = rtab[x] => desched[u] # g
    BY <1>1, <1>2 DEF ExecAgrees, TaskSet
  <2>1. /\ mon[rtab[x]][g] = IF kern[ktab[x]][g].kind \in Special
                             THEN kern[ktab[x]][g].kind ELSE "none"
        /\ \A u \in Live : rtab[u] = rtab[x] /\ Running(u) =>
              kern[ktab[u]][g] # NoFile /\ ~InFlight(ktab[u], g)
        /\ \A u \in Live : rtab[u] = rtab[x] => desched[u] # g
    BY DEF IndInv, ExecAgrees, TaskSet
  <2>2. ~(rtab[x] = rtab[t] /\ g = fd) BY Zenon, <2>1
  <2>3. mon'[rtab[x]][g] = mon[rtab[x]][g] BY Zenon, <2>2, <1>4
  <2>4. \A u \in Live : InFlight(ktab[u], g)' => InFlight(ktab[u], g) BY Zenon, <1>1, <1>3
  <2> QED BY Zenon, <2>1, <2>3, <2>4
<1>8. DeschedOpen'
  <2> SUFFICES ASSUME NEW x \in Live, NEW u \in Live, rtab[u] = rtab[x]
               PROVE  /\ Running(x) /\ desched[u] # -1 =>
                            kern[ktab[x]][desched[u]] = File("rr", TRUE)
                      /\ desched[u] = desched[x] /\ desched[x] # -1 => u = x
    BY <1>1, <1>2 DEF DeschedOpen, TaskSet, File
  <2> QED BY Zenon DEF IndInv, DeschedOpen, TaskSet
<1>9. RootOpen' BY Zenon, <1>1 DEF IndInv, RootOpen, File, RootDir
<1>10. OpensAgree'
  <2> SUFFICES ASSUME NEW x \in Live, call'[x].op = "open"
               PROVE  /\ call'[x].fd \in Fds
                      /\ kern[ktab[x]][call'[x].fd] # NoFile
                      /\ kern[ktab[x]][call'[x].fd].kind = call'[x].kind
                      /\ call'[x].kind \in {"plain", "mem"}
                      /\ \A u \in Live : /\ ktab[u] = ktab[x] /\ call'[u].op = "open"
                                         /\ call'[u].fd = call'[x].fd
                                         => u = x
    BY <1>1 DEF OpensAgree
  <2>1. \A u \in Live : call'[u].op = "open" => call'[u] = call[u] BY Zenon DEF ReturnedCall
  <2>2. /\ call[x].fd \in Fds
        /\ kern[ktab[x]][call[x].fd] # NoFile
        /\ kern[ktab[x]][call[x].fd].kind = call[x].kind
        /\ call[x].kind \in {"plain", "mem"}
        /\ \A u \in Live : /\ ktab[u] = ktab[x] /\ call[u].op = "open"
                           /\ call[u].fd = call[x].fd
                           => u = x
    BY Zenon, <2>1 DEF IndInv, OpensAgree
  <2>3. call'[x] = call[x] BY Zenon, <2>1
  <2> QED BY Zenon, <2>1, <2>2, <2>3
<1> QED BY Zenon, <1>5, <1>6, <1>7, <1>8, <1>9, <1>10

-----------------------------------------------------------------------------
(* LowestFree and NewId pick one of the descriptors and identifiers that are  *)
(* left.                                                                      *)
FreeIsFound == \A tb : Free(tb) # {} => LowestFree(tb) \in Free(tb)
IdsAreNew ==
  \A S \in SUBSET Tasks : S # Tasks =>
     /\ NewId({ktab[u] : u \in S}) \in Ids \ {ktab[u] : u \in S}
     /\ NewId({rtab[u] : u \in S}) \in Ids \ {rtab[u] : u \in S}

(* The kernel gives an open its descriptor: until the exit nobody watches it. *)
LEMMA EnterSafe ==
  ASSUME IndInv, FreeIsFound, NEW t \in Tasks, NEW kind \in {"plain", "mem"}, NEW cloexec \in BOOLEAN,
         Enter(t, kind, cloexec)
  PROVE  IndInv'
<1> DEFINE fd == LowestFree(ktab[t])
           file == File(kind, cloexec)
           entry == [op |-> "open", fd |-> fd, kind |-> kind]
           CallType == [op : CallOps, fd : Fds \cup {-1}, kind : Kinds \cup {"none"}]
<1>1. t \in Live /\ Running(t) /\ call[t] = Idle BY Zenon, ReadyRuns DEF Enter, Ready
<1>2. fd \in Free(ktab[t]) BY Zenon DEF Enter, FreeIsFound
<1>3. /\ kern' = [kern EXCEPT ![ktab[t]][fd] = file]
      /\ call' = [call EXCEPT ![t] = entry]
      /\ Calls /\ SameTasks /\ NoMonitorChange /\ UNCHANGED unseen
  BY Zenon DEF Enter
<1>4. /\ fd \in Fds /\ fd # RootDir /\ ~InFlight(ktab[t], fd) /\ mon[rtab[t]][fd] = "none"
      /\ \A u \in Live : rtab[u] = rtab[t] => desched[u] # fd
      /\ \A u \in Live : InExec(u) /\ rtab[u] = rtab[t] => kern[ktab[u]][fd] = NoFile
  BY Zenon, <1>1, <1>2, FreeIsUnneeded DEF Unneeded, ClosedInExec
<1>5. /\ file \in Files /\ file # NoFile /\ file.kind = kind
      /\ entry \in CallType /\ entry.op = "open" /\ entry.fd = fd /\ entry.kind = kind
  BY Zenon, <1>4 DEF File, Files, NoFile, Kinds, CallOps
<1> HIDE DEF fd, file, entry
<1>6. /\ \A u \in Live : u \in Tasks /\ ktab[u] \in Ids /\ rtab[u] \in Ids
      /\ kern \in [Ids -> [Fds -> Files]] /\ call \in [Tasks -> CallType]
      /\ desched \in [Tasks -> Fds \cup {-1}] /\ n' \in Nat
  BY <1>3, LiveTypes DEF IndInv, TypeOK, Calls
<1>7. kern' \in [Ids -> [Fds -> Files]] /\ call' \in [Tasks -> CallType]
  BY Zenon, <1>3, <1>5, <1>6
<1>8. TypeOK'
  BY Zenon, <1>3, <1>6, <1>7 DEF IndInv, TypeOK, SameTasks, NoMonitorChange, Entries, CallOps
<1>9. Live' = Live /\ \A tb : TaskSet(tb)' = TaskSet(tb)
  BY Zenon, <1>3 DEF SameTasks, Live, TaskSet
<1>10. \A u \in Live : call'[u] = IF u = t THEN entry ELSE call[u] BY Zenon, <1>3, <1>6
<1>11. \A u \in Live : (InExec(u)' <=> InExec(u)) /\ (Running(u)' <=> Running(u))
  BY Zenon, <1>1, <1>5, <1>9, <1>10 DEF InExec, Running, Idle
<1>12. \A i, g : InFlight(i, g)' <=> InFlight(i, g) \/ (i = ktab[t] /\ g = fd)
  <2> TAKE i, g
  <2>1. ktab' = ktab BY Zenon, <1>3 DEF SameTasks
  <2>2. ASSUME InFlight(i, g)' PROVE InFlight(i, g) \/ (i = ktab[t] /\ g = fd)
    BY Zenon, <2>1, <2>2, <1>5, <1>9, <1>10 DEF InFlight
  <2>3. ASSUME i = ktab[t] /\ g = fd PROVE InFlight(i, g)'
    BY Zenon, <2>1, <2>3, <1>1, <1>5, <1>9, <1>10 DEF InFlight
  <2>4. ASSUME InFlight(i, g) PROVE InFlight(i, g)'
    <3>1. PICK u \in Live : ktab[u] = i /\ call[u].op = "open" /\ call[u].fd = g
      BY Zenon, <2>4 DEF InFlight
    <3>2. u # t BY <3>1, <1>1 DEF Idle
    <3> QED BY Zenon, <3>1, <3>2, <2>1, <1>9, <1>10 DEF InFlight
  <2> QED BY Zenon, <2>2, <2>3, <2>4
<1>13. \A i \in Ids, g \in Fds :
         kern'[i][g] = IF i = ktab[t] /\ g = fd THEN file ELSE kern[i][g]
  BY Zenon, <1>3, <1>4, <1>6
<1>14. UNCHANGED <<ktab, rtab, vm, globals, desched, mon, beyond, disabled, failed>>
  BY Zenon, <1>3 DEF SameTasks, NoMonitorChange
<1>15. TasksAgree' BY Zenon, <1>1, <1>3, <1>6, <1>14 DEF IndInv, TasksAgree, Live
<1>16. CountAgrees' /\ ArrayCovers'
  BY Zenon, <1>9, <1>14 DEF IndInv, CountAgrees, ArrayCovers
<1>17. Entered(t, fd, file)
  BY Zenon, <1>1, <1>4, <1>5, <1>9, <1>13, <1>14 DEF Entered
<1>18. EnteredCall(t, fd, file)
  BY Zenon, <1>1, <1>5, <1>10, <1>11, <1>12 DEF EnteredCall, ModesStay
<1>19. Unneeded(t, fd, Live) /\ ClosedInExec(t, fd) BY Zenon, <1>4 DEF Unneeded, ClosedInExec
<1>20. /\ SharingAgrees' /\ MonitorsAgree' /\ ExecAgrees'
       /\ DeschedOpen' /\ RootOpen' /\ OpensAgree'
  BY Zenon, <1>4, <1>17, <1>18, <1>19, EnteredKeeps
<1>21. ~failed' BY Zenon, <1>14 DEF IndInv
<1> QED BY Zenon, <1>8, <1>15, <1>16, <1>20, <1>21 DEF IndInv

(* unshare copies the caller's table in the kernel and in rr alike.           *)
LEMMA UnshareSafe ==
  ASSUME IndInv, IdsAreNew, Odd \subseteq {"late"}, NEW t \in Tasks, Unshare(t)
  PROVE  IndInv'
<1> DEFINE k == NewId({ktab[u] : u \in Live})
           r == NewId({rtab[u] : u \in Live})
<1>1. t \in Live /\ Running(t) /\ call[t] = Idle /\ MayCopy(t)
  BY Zenon, ReadyRuns DEF Unshare, Ready
<1>2. PICK s \in Live \ {t} : ktab[s] = ktab[t] BY Zenon DEF Unshare
<1>3. /\ ktab' = [ktab EXCEPT ![t] = k]
      /\ kern' = [kern EXCEPT ![k] = kern[ktab[t]]]
      /\ rtab' = [rtab EXCEPT ![t] = r]
      /\ mon' = [mon EXCEPT ![r] = mon[rtab[t]]]
      /\ beyond' = [beyond EXCEPT ![r] = beyond[rtab[t]]]
      /\ n' = n + 1
      /\ UNCHANGED <<vm, globals, disabled, desched, call, unseen, failed>>
  BY Zenon DEF Unshare, Calls
<1>4. rtab[s] = rtab[t] BY Zenon, <1>1, <1>2 DEF IndInv, SharingAgrees
<1>5. Live \ {t} \subseteq Tasks /\ Live \ {t} # Tasks BY Zenon DEF Live
<1>6. k \in Ids \ {ktab[u] : u \in Live}
  <2>1. {ktab[u] : u \in Live} = {ktab[u] : u \in Live \ {t}} BY Zenon, <1>1, <1>2
  <2> QED BY Zenon, <2>1, <1>5 DEF IdsAreNew
<1>7. r \in Ids \ {rtab[u] : u \in Live}
  <2>1. {rtab[u] : u \in Live} = {rtab[u] : u \in Live \ {t}} BY Zenon, <1>1, <1>2, <1>4
  <2> QED BY Zenon, <2>1, <1>5 DEF IdsAreNew
<1> HIDE DEF k, r
<1>8. /\ \A u \in Live : u \in Tasks /\ ktab[u] \in Ids /\ rtab[u] \in Ids
      /\ kern \in [Ids -> [Fds -> Files]]
      /\ mon \in [Ids -> [Fds -> Special \cup {"none"}]]
      /\ beyond \in [Ids -> Int]
      /\ ktab \in [Tasks -> Ids \cup {0}] /\ rtab \in [Tasks -> Ids \cup {0}]
      /\ desched \in [Tasks -> Fds \cup {-1}] /\ n \in Nat
  BY Zenon, LiveTypes DEF IndInv, TypeOK
<1>9. k # 0 /\ r # 0 BY Zenon, <1>6, <1>7, FdAssumption DEF Ids
<1>10. /\ ktab' \in [Tasks -> Ids \cup {0}] /\ rtab' \in [Tasks -> Ids \cup {0}]
       /\ kern' \in [Ids -> [Fds -> Files]]
       /\ mon' \in [Ids -> [Fds -> Special \cup {"none"}]]
       /\ beyond' \in [Ids -> Int] /\ n' \in Nat
  BY <1>1, <1>3, <1>6, <1>7, <1>8
<1>11. TypeOK' BY Zenon, <1>3, <1>10 DEF IndInv, TypeOK, Entries, CallOps
<1>12. Live' = Live BY Zenon, <1>1, <1>3, <1>8, <1>9 DEF Live
<1>13. /\ ktab'[t] = k /\ rtab'[t] = r
       /\ \A u \in Live : u # t => ktab'[u] = ktab[u] /\ rtab'[u] = rtab[u]
  BY Zenon, <1>1, <1>3, <1>8
<1>14. /\ \A u \in Live : ktab[u] # k /\ kern'[ktab[u]] = kern[ktab[u]]
       /\ \A u \in Live : /\ rtab[u] # r /\ mon'[rtab[u]] = mon[rtab[u]]
                          /\ beyond'[rtab[u]] = beyond[rtab[u]]
       /\ kern'[k] = kern[ktab[t]] /\ mon'[r] = mon[rtab[t]] /\ beyond'[r] = beyond[rtab[t]]
  BY Zenon, <1>3, <1>6, <1>7, <1>8
<1>15. \A u \in Live : (InExec(u)' <=> InExec(u)) /\ (Running(u)' <=> Running(u))
  BY Zenon, <1>3, <1>12 DEF InExec, Running
<1>16. ~InExec(t) BY Zenon, <1>1 DEF InExec, Running
<1>17. \A u \in Live : call[u].op = "open" => u # t BY SMTT(30), <1>1 DEF Idle
<1>18. /\ \A i, g : InFlight(i, g)' <=> InFlight(i, g)
       /\ \A g : ~InFlight(ktab[t], g) /\ ~InFlight(k, g)
  <2>1. \A i, g : InFlight(i, g)' <=> InFlight(i, g)
    BY Zenon, <1>3, <1>12, <1>13, <1>17 DEF InFlight
  <2>2. \A g : ~InFlight(k, g) BY Zenon, <1>14 DEF InFlight
  <2> QED BY Zenon, <2>1, <2>2, <1>1, CopyIsQuiet
<1>19. TasksAgree'
  BY Zenon, <1>1, <1>3, <1>8, <1>9 DEF IndInv, TasksAgree, Live
<1>20. UnsharedIds(t, k, r) BY Zenon, <1>1, <1>12, <1>13, <1>14 DEF UnsharedIds
<1>21. UnsharedTables(t, k, r) BY Zenon, <1>14 DEF UnsharedTables
<1>22. UnsharedModes(t, k)
  <2>1. call[t].op # "open" BY Zenon, <1>1, <1>17
  <2> QED BY Zenon, <2>1, <1>3, <1>15, <1>16, <1>18 DEF UnsharedModes, ModesStay, FlightsStay
<1>23. /\ SharingAgrees' /\ MonitorsAgree' /\ ExecAgrees' /\ DeschedOpen'
       /\ RootOpen' /\ CountAgrees' /\ ArrayCovers' /\ OpensAgree'
  BY Zenon, <1>20, <1>21, <1>22, UnsharedKeeps
<1>24. ~failed' BY Zenon, <1>3 DEF IndInv
<1> QED BY Zenon, <1>11, <1>19, <1>23, <1>24 DEF IndInv

(* execve: the kernel's table of the caller is its own, and without the       *)
(* close-on-exec descriptors, before rr's is.                                 *)
LEMMA ExecEnterSafe ==
  ASSUME IndInv, IdsAreNew, Odd \subseteq {"late"}, NEW t \in Tasks, ExecEnter(t)
  PROVE  IndInv'
<1> DEFINE k == IF \E u \in Live \ {t} : ktab[u] = ktab[t]
                THEN NewId({ktab[u] : u \in Live}) ELSE ktab[t]
           kept == [fd \in Fds |-> IF kern[ktab[t]][fd].cloexec THEN NoFile
                                   ELSE kern[ktab[t]][fd]]
           exec == [op |-> "exec", fd |-> -1, kind |-> "none"]
           CallType == [op : CallOps, fd : Fds \cup {-1}, kind : Kinds \cup {"none"}]
<1>1. t \in Live /\ Running(t) /\ call[t] = Idle /\ MayCopy(t)
  BY Zenon, ReadyRuns DEF ExecEnter, Ready
<1>2. /\ ktab' = [ktab EXCEPT ![t] = k]
      /\ kern' = [kern EXCEPT ![k] = kept]
      /\ call' = [call EXCEPT ![t] = exec]
      /\ n' = n + 1
      /\ UNCHANGED <<rtab, vm, globals, desched, unseen, mon, beyond, disabled, failed>>
  BY Zenon DEF ExecEnter, Calls, NoMonitorChange
<1>3. /\ \A u \in Live : u \in Tasks /\ ktab[u] \in Ids /\ rtab[u] \in Ids
      /\ kern \in [Ids -> [Fds -> Files]]
      /\ ktab \in [Tasks -> Ids \cup {0}] /\ call \in [Tasks -> CallType]
      /\ desched \in [Tasks -> Fds \cup {-1}] /\ n \in Nat
  BY Zenon, LiveTypes DEF IndInv, TypeOK
<1>4. k \in Ids /\ \A u \in Live : u # t => ktab[u] # k
  <2>1. CASE \E u \in Live \ {t} : ktab[u] = ktab[t]
    <3>1. {ktab[u] : u \in Live} = {ktab[u] : u \in Live \ {t}} BY Zenon, <1>1, <2>1
    <3>2. Live \ {t} \subseteq Tasks /\ Live \ {t} # Tasks BY Zenon DEF Live
    <3>3. NewId({ktab[u] : u \in Live}) \in Ids \ {ktab[u] : u \in Live}
      BY Zenon, <3>1, <3>2 DEF IdsAreNew
    <3> QED BY Zenon, <2>1, <3>3
  <2>2. CASE ~ \E u \in Live \ {t} : ktab[u] = ktab[t] BY Zenon, <1>1, <1>3, <2>2
  <2> QED BY Zenon, <2>1, <2>2
<1>5. /\ kept \in [Fds -> Files]
      /\ \A g \in Fds : kept[g] = IF kern[ktab[t]][g].cloexec THEN NoFile ELSE kern[ktab[t]][g]
  <2>1. NoFile \in Files BY Zenon DEF Files
  <2>2. kern[ktab[t]] \in [Fds -> Files] BY Zenon, <1>1, <1>3
  <2> QED BY Zenon, <2>1, <2>2
<1>6. exec \in CallType /\ exec.op = "exec" BY Zenon DEF CallOps
<1> HIDE DEF k, kept, exec
<1>7. k # 0 BY Zenon, <1>4, FdAssumption DEF Ids
<1>8. /\ ktab' \in [Tasks -> Ids \cup {0}] /\ kern' \in [Ids -> [Fds -> Files]]
      /\ call' \in [Tasks -> CallType] /\ n' \in Nat
  BY <1>1, <1>2, <1>3, <1>4, <1>5, <1>6
<1>9. TypeOK' BY Zenon, <1>2, <1>8 DEF IndInv, TypeOK, Entries, CallOps
<1>10. Live' = Live BY Zenon, <1>1, <1>2, <1>3, <1>7 DEF Live
<1>11. /\ ktab'[t] = k /\ call'[t] = exec
       /\ \A u \in Live : u # t => ktab'[u] = ktab[u] /\ call'[u] = call[u]
  BY Zenon, <1>1, <1>2, <1>3
<1>12. /\ \A u \in Live : u # t => kern'[ktab[u]] = kern[ktab[u]]
       /\ kern'[k] = kept
  BY Zenon, <1>2, <1>3, <1>4
<1>13. /\ InExec(t)' /\ ~Running(t)' /\ ~InExec(t)
       /\ \A u \in Live : u # t => (InExec(u)' <=> InExec(u)) /\ (Running(u)' <=> Running(u))
  BY Zenon, <1>1, <1>6, <1>10, <1>11 DEF InExec, Running
<1>14. \A u \in Live : call[u].op = "open" <=> u # t /\ call'[u].op = "open"
  BY <1>1, <1>6, <1>11 DEF Idle
<1>15. /\ \A i, g : InFlight(i, g)' <=> InFlight(i, g)
       /\ \A g : ~InFlight(ktab[t], g)
  <2>1. \A i, g : InFlight(i, g)' => InFlight(i, g)
    BY Zenon, <1>6, <1>10, <1>11, <1>14 DEF InFlight
  <2>2. \A i, g : InFlight(i, g) => InFlight(i, g)'
    BY Zenon, <1>10, <1>11, <1>14 DEF InFlight
  <2> QED BY Zenon, <2>1, <2>2, <1>1, CopyIsQuiet
<1>16. TasksAgree'
  BY Zenon, <1>1, <1>2, <1>3, <1>7 DEF IndInv, TasksAgree, Live
<1>17. ExecdTables(t, k)
  BY Zenon, <1>1, <1>2, <1>4, <1>5, <1>10, <1>11, <1>12 DEF ExecdTables
<1>18. ExecdModes(t)
  <2>1. call'[t].op # "open" BY Zenon, <1>6, <1>11
  <2> QED BY Zenon, <2>1, <1>1, <1>11, <1>13, <1>15 DEF ExecdModes, ModesStay, FlightsStay
<1>19. SharingAgrees' /\ MonitorsAgree' /\ DeschedOpen' /\ RootOpen' /\ OpensAgree'
  BY Zenon, <1>17, <1>18, ExecdKeeps
<1>20. ExecAgrees' BY Zenon, <1>17, <1>18, ExecdExec
<1>21. CountAgrees' /\ ArrayCovers'
  BY Zenon, <1>2, <1>10 DEF IndInv, CountAgrees, ArrayCovers
<1>22. ~failed' BY Zenon, <1>2 DEF IndInv
<1> QED BY Zenon, <1>9, <1>16, <1>19, <1>20, <1>21, <1>22 DEF IndInv
=============================================================================
