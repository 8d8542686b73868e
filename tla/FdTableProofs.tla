---------------------------- MODULE FdTableProofs ----------------------------
(***************************************************************************)
(* FdTable's invariants hold for any number of tasks and descriptors and   *)
(* any size of syscallbuf_fds_disabled, when nothing odd happens but late  *)
(* closes: lemmas on the operations of a table, one lemma for each action  *)
(* that changes one, and the theorems.                                     *)
(***************************************************************************)
EXTENDS FdTableSteps, FiniteSetTheorems

(* A set of naturals that is not empty has a least element.                   *)
LEMMA Smallest ==
  ASSUME NEW S, S \subseteq Nat, S # {}
  PROVE  \E x \in S : \A y \in S : x <= y
<1>1. PICK m \in S : TRUE BY Zenon
<1> DEFINE U == {i \in 0 .. m : \E x \in S : x <= i}
           f == [i \in U |-> i - 1]
<1>2. m \in Nat /\ m \in U BY <1>1
<1>3. IsFiniteSet(U)
  <2>1. IsFiniteSet(0 .. m) BY <1>2, FS_Interval
  <2>2. U \subseteq 0 .. m BY Zenon
  <2> QED BY Zenon, <2>1, <2>2, FS_Subset
<1>4. SUFFICES ASSUME \A x \in S : \E y \in S : y < x
               PROVE  FALSE
  BY <1>2
<1>5. \A i \in U : i - 1 \in U
  <2> TAKE i \in U
  <2>1. PICK x \in S : x <= i BY Zenon
  <2>2. PICK y \in S : y < x BY Zenon, <1>4
  <2> QED BY <2>1, <2>2, <1>2
<1>6. f \in Injection(U, U)
  <2> HIDE DEF U
  <2>0. U \subseteq Nat BY <1>2 DEF U
  <2>1. f \in [U -> U] BY Zenon, <1>5
  <2>2. \A a, b \in U : f[a] = f[b] => a = b BY <2>0
  <2> HIDE DEF f
  <2> QED BY Zenon, <2>1, <2>2 DEF Injection, IsInjective
<1>7. f \in Surjection(U, U) BY Zenon, <1>3, <1>6, FS_Injection
<1>8. PICK i \in U : f[i] = m BY Zenon, <1>2, <1>7 DEF Surjection
<1> QED BY <1>2, <1>8

(* A set of naturals that is bounded and not empty has a greatest element.    *)
LEMMA Largest ==
  ASSUME NEW m \in Nat, NEW S, S \subseteq 0 .. m, S # {}
  PROVE  \E x \in S : \A y \in S : x >= y
<1> DEFINE D == {i \in 0 .. m : m - i \in S}
<1>1. D \subseteq Nat /\ D # {} 
  <2>1. PICK x \in S : TRUE BY Zenon
  <2>2. m - x \in D BY <2>1
  <2>3. D # {} BY Zenon, <2>2
  <2>4. D \subseteq Nat OBVIOUS
  <2> QED BY Zenon, <2>3, <2>4
<1>2. PICK d \in D : \A e \in D : d <= e 
  <2> HIDE DEF D
  <2> QED BY Zenon, <1>1, Smallest
<1>4. \A y \in S : m - d >= y
  <2> TAKE y \in S
  <2>1. m - y \in D OBVIOUS
  <2>2. d \in 0 .. m /\ y \in 0 .. m BY Zenon
  <2>3. d <= m - y BY Zenon, <2>1, <1>2
  <2> HIDE DEF D
  <2> QED BY <2>2, <2>3
<1>5. m - d \in S BY Zenon
<1> QED BY Zenon, <1>4, <1>5

-----------------------------------------------------------------------------
(* The kernel opens the lowest descriptor that is free.                       *)
LEMMA LowestFreeIsFree ==
  ASSUME NEW tb, Free(tb) # {}
  PROVE  LowestFree(tb) \in Free(tb)
<1>1. Free(tb) \subseteq Nat BY FdAssumption DEF Free, Fds
<1> QED BY Zenon, <1>1, Smallest DEF LowestFree

(* The desched descriptor is the highest one that is free.                    *)
LEMMA HighestFreeIsFree ==
  ASSUME NEW tb, Free(tb) # {}
  PROVE  HighestFree(tb) \in Free(tb)
<1>1. Free(tb) \subseteq 0 .. MaxFd BY Zenon DEF Free, Fds
<1> QED BY Zenon, <1>1, Largest, FdAssumption DEF HighestFree

(* NewId picks an identifier that is not in use.                              *)
LEMMA NewIdIsNew ==
  ASSUME NEW used, Ids \ used # {}
  PROVE  NewId(used) \in Ids \ used
<1>1. Ids \ used \subseteq Nat BY Zenon, FdAssumption DEF Ids
<1> QED BY Zenon, <1>1, Smallest DEF NewId

\* A map from fewer tasks than there are leaves an identifier unused.
LEMMA IdLeft ==
  ASSUME NEW S, S \subseteq Tasks, S # Tasks, NEW f
  PROVE  NewId({f[u] : u \in S}) \in Ids \ {f[u] : u \in S}
<1> DEFINE T == {f[u] : u \in S}
<1>1. IsFiniteSet(S) /\ Cardinality(S) < Cardinality(Tasks)
      /\ Cardinality(S) \in Nat /\ Cardinality(Tasks) \in Nat
  <2>1. IsFiniteSet(Tasks) BY Zenon, FdAssumption
  <2>2. IsFiniteSet(S) /\ Cardinality(S) <= Cardinality(Tasks)
        /\ (Cardinality(S) = Cardinality(Tasks) => S = Tasks)
    BY Zenon, <2>1, FS_Subset
  <2>3. Cardinality(S) \in Nat /\ Cardinality(Tasks) \in Nat
    BY Zenon, <2>1, <2>2, FS_CardinalityType
  <2> QED BY <2>2, <2>3
<1>2. IsFiniteSet(T) /\ Cardinality(T) <= Cardinality(S)
  <2> DEFINE g == [u \in S |-> f[u]]
  <2>1. g \in Surjection(S, T) BY Zenon DEF Surjection
  <2> QED BY Zenon, <2>1, <1>1, FS_Surjection
<1>3. ~(Tasks \subseteq T)
  <2> SUFFICES ASSUME Tasks \subseteq T PROVE FALSE BY Zenon
  <2> HIDE DEF T
  <2>1. Cardinality(Tasks) <= Cardinality(T) /\ Cardinality(T) \in Nat
    BY Zenon, <1>2, FS_Subset, FS_CardinalityType
  <2> QED BY <2>1, <1>1, <1>2
<1> QED BY Zenon, <1>3, NewIdIsNew DEF Ids

(* What the steps of FdTableSteps need of them.                               *)
LEMMA FreeFound == FreeIsFound BY Zenon, LowestFreeIsFree DEF FreeIsFound
LEMMA NewIds == IdsAreNew BY Zenon, IdLeft DEF IdsAreNew

-----------------------------------------------------------------------------
(* What FdTable's operations do to a table.                                  *)

TableType == [m : [Fds -> Special \cup {"none"}], count : Int]
CountRight(table) == table.count = Cardinality(Beyond(table.m))

(* There are finitely many descriptors beyond the array.                      *)
LEMMA BeyondFinite ==
  ASSUME NEW m
  PROVE  IsFiniteSet(Beyond(m)) /\ Cardinality(Beyond(m)) \in Nat
<1>1. Beyond(m) \subseteq 0 .. MaxFd BY Zenon DEF Beyond, Monitored, Fds
<1>2. IsFiniteSet(0 .. MaxFd) BY FdAssumption, FS_Interval
<1>3. IsFiniteSet(Beyond(m)) BY Zenon, <1>1, <1>2, FS_Subset
<1> QED BY Zenon, <1>3, FS_CardinalityType

(* add_monitor, and did_dup of a watched descriptor, keep fd_count_beyond_limit *)
(* equal to the number of monitors beyond the array.                          *)
LEMMA WatchedRight ==
  ASSUME NEW table \in TableType, CountRight(table), NEW fd \in Fds, NEW kind \in Special
  PROVE  /\ Watched(table, fd, kind) \in TableType
         /\ Watched(table, fd, kind).m = [table.m EXCEPT ![fd] = kind]
         /\ CountRight(Watched(table, fd, kind))
<1> DEFINE new == [table.m EXCEPT ![fd] = kind]
<1>0. table.m \in [Fds -> Special \cup {"none"}] /\ table.count \in Int
      /\ fd \in Int /\ Limit \in Int /\ kind # "none"
  BY FdAssumption DEF TableType, Fds, Special
<1>1. new \in [Fds -> Special \cup {"none"}] BY Zenon, <1>0
<1>2. CASE fd >= Limit
  <2>1. Beyond(new) = Beyond(table.m) \cup {fd} BY Zenon, <1>0, <1>1, <1>2 DEF Beyond, Monitored
  <2>2. fd \in Beyond(table.m) <=> table.m[fd] # "none" BY Zenon, <1>0, <1>2 DEF Beyond, Monitored
  <2>3. Cardinality(Beyond(new)) = IF fd \in Beyond(table.m) THEN Cardinality(Beyond(table.m))
                                   ELSE Cardinality(Beyond(table.m)) + 1
    BY Zenon, <2>1, BeyondFinite, FS_AddElement
  <2> QED BY <2>2, <2>3, <1>0, <1>1, <1>2, BeyondFinite DEF Watched, TableType, CountRight
<1>3. CASE ~(fd >= Limit)
  <2>1. Beyond(new) = Beyond(table.m) BY Zenon, <1>0, <1>1, <1>3 DEF Beyond, Monitored
  <2> QED BY <2>1, <1>0, <1>1, <1>3 DEF Watched, TableType, CountRight
<1> QED BY Zenon, <1>2, <1>3

(* did_close, and did_dup of a descriptor without a monitor, keep it so.      *)
LEMMA UnwatchedRight ==
  ASSUME NEW table \in TableType, CountRight(table), NEW fd \in Fds
  PROVE  /\ Unwatched(table, fd) \in TableType
         /\ Unwatched(table, fd).m = [table.m EXCEPT ![fd] = "none"]
         /\ CountRight(Unwatched(table, fd))
<1> DEFINE new == [table.m EXCEPT ![fd] = "none"]
<1>0. table.m \in [Fds -> Special \cup {"none"}] /\ table.count \in Int
      /\ fd \in Int /\ Limit \in Int
  BY FdAssumption DEF TableType, Fds
<1>1. new \in [Fds -> Special \cup {"none"}] BY Zenon, <1>0
<1>2. CASE fd >= Limit
  <2>1. Beyond(new) = Beyond(table.m) \ {fd} BY Zenon, <1>0, <1>1, <1>2 DEF Beyond, Monitored
  <2>2. fd \in Beyond(table.m) <=> table.m[fd] # "none" BY Zenon, <1>0, <1>2 DEF Beyond, Monitored
  <2>3. Cardinality(Beyond(new)) = IF fd \in Beyond(table.m) THEN Cardinality(Beyond(table.m)) - 1
                                   ELSE Cardinality(Beyond(table.m))
    BY Zenon, <2>1, BeyondFinite, FS_RemoveElement
  <2> QED BY <2>2, <2>3, <1>0, <1>1, <1>2, BeyondFinite DEF Unwatched, TableType, CountRight
<1>3. CASE ~(fd >= Limit)
  <2>1. Beyond(new) = Beyond(table.m) BY Zenon, <1>0, <1>1, <1>3 DEF Beyond, Monitored
  <2> QED BY <2>1, <1>0, <1>1, <1>3 DEF Unwatched, TableType, CountRight
<1> QED BY Zenon, <1>2, <1>3

(* So do the closes of close_buffers_for and of post_exec, made one by one.   *)
LEMMA ClosedInRight ==
  ASSUME NEW table \in TableType, CountRight(table), NEW fds, fds \subseteq Fds
  PROVE  /\ ClosedIn(table, fds) \in TableType
         /\ ClosedIn(table, fds).m =
              [fd \in Fds |-> IF fd \in fds THEN "none" ELSE table.m[fd]]
         /\ CountRight(ClosedIn(table, fds))
<1> DEFINE new == [fd \in Fds |-> IF fd \in fds THEN "none" ELSE table.m[fd]]
           gone == {fd \in fds : fd >= Limit /\ table.m[fd] # "none"}
<1>0. table.m \in [Fds -> Special \cup {"none"}] /\ table.count \in Int
  BY Zenon DEF TableType
<1>1. new \in [Fds -> Special \cup {"none"}] BY Zenon, <1>0
<1>2. Beyond(new) = Beyond(table.m) \ fds BY Zenon, <1>0 DEF Beyond, Monitored
<1>3. gone = Beyond(table.m) \cap fds BY Zenon, <1>0 DEF Beyond, Monitored
<1>4. Cardinality(Beyond(new)) = Cardinality(Beyond(table.m)) - Cardinality(gone)
  BY Zenon, <1>2, <1>3, BeyondFinite, FS_Difference
<1>5. Cardinality(gone) \in Nat
  <2>1. IsFiniteSet(gone) BY Zenon, <1>3, BeyondFinite, FS_Subset
  <2> QED BY Zenon, <2>1, FS_CardinalityType
<1>6. ClosedIn(table, fds) = [m |-> new, count |-> table.count - Cardinality(gone)]
  BY Zenon DEF ClosedIn
<1> HIDE DEF new, gone
<1> QED BY <1>0, <1>1, <1>4, <1>5, <1>6, BeyondFinite DEF TableType, CountRight, new

\* The count of a table is what lets is_fd_monitored_in_any_task find the
\* descriptors that share the last entry.
LEMMA Noticed ==
  ASSUME NEW table \in TableType, CountRight(table), NEW fd \in Monitored(table.m),
         NEW tables, table \in tables, NEW own
  PROVE  is_fd_monitored_in_any_task(tables, own, Entry(fd))
<1>0. fd \in Int /\ Limit \in Int BY FdAssumption DEF Monitored, Fds
<1>1. CASE fd >= Limit
  <2>1. fd \in Beyond(table.m) BY Zenon, <1>1 DEF Beyond
  <2>2. Cardinality(Beyond(table.m)) # 0 BY Zenon, <2>1, BeyondFinite, FS_EmptySet
  <2>3. table.count > 0 BY <2>2, BeyondFinite DEF CountRight
  <2> QED BY <1>0, <1>1, <2>3 DEF is_fd_monitored_in_any_task, Entry
<1>2. CASE ~(fd >= Limit)
  BY Zenon, <1>2 DEF is_fd_monitored_in_any_task, Entry
<1> QED BY Zenon, <1>1, <1>2

-----------------------------------------------------------------------------
(* The conjuncts of the inductive invariant that several actions disturb in   *)
(* the same way.                                                              *)

(* The table of a task is a table, and its count is right.                    *)
LEMMA TableRight ==
  ASSUME IndInv, NEW t \in Live
  PROVE  /\ Table(rtab[t]) \in TableType
         /\ CountRight(Table(rtab[t]))
         /\ Table(rtab[t]).m = mon[rtab[t]]
<1>1. rtab[t] \in Ids BY Zenon, LiveTypes
<1>2. Table(rtab[t]) \in TableType /\ Table(rtab[t]).m = mon[rtab[t]]
  BY Zenon, <1>1 DEF Table, TableType, IndInv, TypeOK
<1>3. CountRight(Table(rtab[t]))
  BY Zenon DEF CountRight, Table, Beyond, IndInv, CountAgrees
<1> QED BY Zenon, <1>2, <1>3

(* Every descriptor has an entry in the array.                                *)
LEMMA EntryIn ==
  ASSUME NEW fd \in Fds
  PROVE  Entry(fd) \in Entries
BY Zenon DEF Entries

(* The table new is t's with the monitor of file at fd. *)
WithMonitor(new, t, fd, file) ==
  /\ new \in TableType /\ CountRight(new)
  /\ new.m = [mon[rtab[t]] EXCEPT ![fd] = MonitorFor(file)]

(* The caller's table is changed at one descriptor and the arrays of the      *)
(* address spaces that use it are updated: the count and the arrays are right *)
(* afterwards, for the tasks that are left.                                   *)
LEMMA InstallSafe ==
  ASSUME IndInv, NEW t \in Live, NEW new \in TableType, CountRight(new), NEW fd \in Fds,
         \A g \in Fds : g # fd => new.m[g] = mon[rtab[t]][g],
         Install(t, new, fd), SharingStays
  PROVE  /\ mon' \in [Ids -> [Fds -> Special \cup {"none"}]]
         /\ beyond' \in [Ids -> Int]
         /\ disabled' \in [Ids -> SUBSET Entries]
         /\ CountAgrees' /\ ArrayCovers'
<1> USE DEF SharingStays
<1>0. /\ rtab[t] \in Ids
      /\ mon \in [Ids -> [Fds -> Special \cup {"none"}]]
      /\ beyond \in [Ids -> Int]
      /\ disabled \in [Ids -> SUBSET Entries]
      /\ globals \in [Ids -> BOOLEAN]
      /\ new.m \in [Fds -> Special \cup {"none"}] /\ new.count \in Int
  BY Zenon, LiveTypes DEF IndInv, TypeOK, TableType
<1>1. mon' = [mon EXCEPT ![rtab[t]] = new.m] /\ beyond' = [beyond EXCEPT ![rtab[t]] = new.count]
  BY Zenon DEF Install
<1>2. mon' \in [Ids -> [Fds -> Special \cup {"none"}]] /\ beyond' \in [Ids -> Int]
  BY Zenon, <1>0, <1>1
<1> DEFINE Recomputed(v) == globals[v] /\ \E u \in TaskSet(rtab[t]) : vm[u] = v
           Found(v) == is_fd_monitored_in_any_task({TableOf(u, rtab[t], new) : u \in VmTasks(v)},
                                                   new, Entry(fd))
<1>3. disabled' = [v \in Ids |-> IF Recomputed(v)
                                 THEN IF Found(v) THEN disabled[v] \cup {Entry(fd)}
                                      ELSE disabled[v] \ {Entry(fd)}
                                 ELSE disabled[v]]
  BY Zenon DEF Install, update_syscallbuf_fds_disabled
<1> HIDE DEF Recomputed, Found
<1>4. disabled' \in [Ids -> SUBSET Entries]
  BY Zenon, <1>0, <1>3, EntryIn
<1>5. CountAgrees'
  <2> SUFFICES ASSUME NEW u \in Live'
               PROVE  beyond'[rtab'[u]] = Cardinality(Beyond(mon'[rtab'[u]]))
    BY Zenon DEF CountAgrees, Beyond, Monitored
  <2>1. u \in Live /\ rtab'[u] = rtab[u] /\ rtab[u] \in Ids BY Zenon, LiveTypes
  <2>2. CASE rtab[u] = rtab[t] BY Zenon, <2>1, <2>2, <1>0, <1>1 DEF CountRight
  <2>3. CASE rtab[u] # rtab[t]
    BY Zenon, <2>1, <2>3, <1>0, <1>1 DEF IndInv, CountAgrees, Beyond
  <2> QED BY Zenon, <2>2, <2>3
<1>6. ArrayCovers'
  <2> SUFFICES ASSUME NEW u \in Live', globals[vm[u]], NEW g \in Fds,
                      mon'[rtab[u]][g] # "none"
               PROVE  Entry(g) \in disabled'[vm[u]]
    BY Zenon DEF ArrayCovers, Monitored, Entry
  <2>1. u \in Live /\ rtab[u] \in Ids /\ vm[u] \in Ids BY Zenon, LiveTypes
  <2>2. u \in VmTasks(vm[u]) BY Zenon, <2>1 DEF VmTasks
  <2> DEFINE mine == TableOf(u, rtab[t], new)
  <2>3. mine \in TableType /\ CountRight(mine) /\ mine.m = mon'[rtab[u]]
    <3>1. CASE rtab[u] = rtab[t] BY Zenon, <3>1, <1>0, <1>1 DEF TableOf
    <3>2. CASE rtab[u] # rtab[t]
      BY Zenon, <3>2, <2>1, TableRight, <1>0, <1>1 DEF TableOf
    <3> QED BY Zenon, <3>1, <3>2
  <2>4. g \in Monitored(mine.m) BY Zenon, <2>3 DEF Monitored
  <2>5. CASE Entry(g) = Entry(fd)
    <3>1. mine \in {TableOf(x, rtab[t], new) : x \in VmTasks(vm[u])} BY Zenon, <2>2
    <3> HIDE DEF mine
    <3>2. is_fd_monitored_in_any_task({TableOf(x, rtab[t], new) : x \in VmTasks(vm[u])},
                                      new, Entry(g))
      BY Zenon, <3>1, <2>3, <2>4, Noticed
    <3>3. Found(vm[u]) BY Zenon, <3>2, <2>5 DEF Found
    <3>4. CASE Recomputed(vm[u]) BY Zenon, <3>3, <3>4, <2>1, <2>5, <1>3
    <3>5. CASE ~Recomputed(vm[u])
      <4>1. rtab[u] # rtab[t] BY Zenon, <3>5, <2>1 DEF Recomputed, TaskSet
      <4>2. g \in Monitored(mon[rtab[u]]) BY Zenon, <4>1, <2>1, <1>0, <1>1 DEF Monitored
      <4>3. Entry(g) \in disabled[vm[u]] BY Zenon, <4>2, <2>1 DEF IndInv, ArrayCovers
      <4> QED BY Zenon, <4>3, <3>5, <2>1, <1>3
    <3> QED BY Zenon, <3>4, <3>5
  <2>6. CASE Entry(g) # Entry(fd)
    <3>1. g # fd BY Zenon, <2>6
    <3>2. mon'[rtab[u]][g] = mon[rtab[u]][g] BY <3>1, <2>1, <1>0, <1>1
    <3>3. Entry(g) \in disabled[vm[u]]
      BY Zenon, <3>2, <2>1 DEF IndInv, ArrayCovers, Monitored
    <3> QED BY Zenon, <3>3, <2>1, <2>6, <1>3
  <2> QED BY Zenon, <2>5, <2>6
<1> QED BY Zenon, <1>2, <1>4, <1>5, <1>6

(* A change of one descriptor, in the kernel and in rr, keeps the invariant.  *)
LEMMA ChangeSafe ==
  ASSUME IndInv, NEW t \in Live, Running(t), NEW fd \in Fds, NEW file \in Files,
         NEW new, WithMonitor(new, t, fd, file), Puts(t, fd, file), Install(t, new, fd),
         TasksStay, Unneeded(t, fd, Live'), DeschedStays(t, fd, file), ClosedInExec(t, fd),
         TasksAgree', TaskTypes', failed' = FALSE
  PROVE  IndInv'
<1>0. /\ ktab[t] \in Ids /\ rtab[t] \in Ids
      /\ kern \in [Ids -> [Fds -> Files]]
      /\ mon \in [Ids -> [Fds -> Special \cup {"none"}]]
      /\ globals \in [Ids -> BOOLEAN]
  BY Zenon, LiveTypes DEF IndInv, TypeOK
<1>1. /\ new \in TableType /\ CountRight(new)
      /\ \A g \in Fds : new.m[g] = IF g = fd THEN MonitorFor(file) ELSE mon[rtab[t]][g]
  BY Zenon, <1>0 DEF WithMonitor
<1>2. /\ mon' \in [Ids -> [Fds -> Special \cup {"none"}]]
      /\ beyond' \in [Ids -> Int]
      /\ disabled' \in [Ids -> SUBSET Entries]
      /\ CountAgrees' /\ ArrayCovers'
  <2>1. \A g \in Fds : g # fd => new.m[g] = mon[rtab[t]][g] BY Zenon, <1>1
  <2>2. SharingStays BY Zenon DEF TasksStay
  <2> QED BY <1>1, <2>1, <2>2, InstallSafe
<1>3. Watches(t, fd, file)
  <2>1. mon' = [mon EXCEPT ![rtab[t]] = new.m] BY Zenon DEF Install
  <2> QED BY Zenon, <2>1, <1>0, <1>1 DEF Watches
<1>4. /\ SharingAgrees' /\ MonitorsAgree' /\ ExecAgrees'
      /\ DeschedOpen' /\ RootOpen' /\ OpensAgree'
  BY Zenon, <1>3, LocalSafe
<1>5. kern' \in [Ids -> [Fds -> Files]] BY Zenon, <1>0 DEF Puts
<1>6. globals' \in [Ids -> BOOLEAN] BY Zenon, <1>0 DEF TasksStay, SharingStays
<1>7. failed' \in BOOLEAN BY Zenon
<1>8. TypeOK' BY Zenon, <1>2, <1>5, <1>6, <1>7 DEF TypeOK, TaskTypes, Entries, CallOps
<1> QED BY Zenon, <1>2, <1>4, <1>8 DEF IndInv

(* did_close leaves a table without a monitor at fd, as befits a free one. *)
LEMMA ClosedRight ==
  ASSUME IndInv, NEW t \in Live, NEW fd \in Fds
  PROVE  WithMonitor(Unwatched(Table(rtab[t]), fd), t, fd, NoFile)
<1> DEFINE table == Table(rtab[t])
<1>1. table \in TableType /\ CountRight(table) /\ table.m = mon[rtab[t]] BY Zenon, TableRight
<1>2. MonitorFor(NoFile) = "none" BY Zenon DEF NoFile, Special, MonitorFor
<1> HIDE DEF table
<1>3. /\ Unwatched(table, fd) \in TableType /\ CountRight(Unwatched(table, fd))
      /\ Unwatched(table, fd).m = [table.m EXCEPT ![fd] = "none"]
  BY Zenon, <1>1, UnwatchedRight
<1> QED BY Zenon, <1>1, <1>2, <1>3 DEF WithMonitor, table

-----------------------------------------------------------------------------
(* The actions.                                                               *)

(* The change of one descriptor by a call that no other task sees under way.  *)
LEMMA SameTasksSafe ==
  ASSUME IndInv, NEW t \in Live, Running(t), NEW fd \in Fds, NEW file \in Files,
         NEW new, WithMonitor(new, t, fd, file), Puts(t, fd, file), Install(t, new, fd),
         SameTasks, UNCHANGED <<call, unseen>>, failed' = FALSE, Calls,
         Unneeded(t, fd, Live), ClosedInExec(t, fd)
  PROVE  IndInv'
<1>1. Live' = Live BY Zenon DEF SameTasks, Live
<1>2. TaskTypes' BY DEF SameTasks, Calls, IndInv, TypeOK, TaskTypes, CallOps
<1>3. TasksAgree' BY Zenon DEF SameTasks, IndInv, TasksAgree
<1>4. TasksStay BY Zenon, <1>1 DEF SameTasks, TasksStay, SharingStays
<1>5. DeschedStays(t, fd, file) BY Zenon DEF SameTasks, DeschedStays
<1>6. Unneeded(t, fd, Live') BY Zenon, <1>1
<1> QED BY Zenon, <1>2, <1>3, <1>4, <1>5, <1>6, ChangeSafe

(* perf_event_open of the ticks counter watches the descriptor it returns.    *)
LEMMA PerfEventOpenSafe ==
  ASSUME IndInv, NEW t \in Tasks, PerfEventOpen(t)
  PROVE  IndInv'
<1> DEFINE fd == LowestFree(ktab[t])
           file == File("perf", FALSE)
           new == Watched(Table(rtab[t]), fd, "perf")
<1>1. t \in Live /\ Running(t) BY Zenon, ReadyRuns DEF PerfEventOpen
<1>2. fd \in Free(ktab[t]) BY Zenon, LowestFreeIsFree DEF PerfEventOpen
<1>3. Puts(t, fd, file) /\ add_monitor(t, fd, "perf")
      /\ Calls /\ SameTasks /\ UNCHANGED <<call, unseen>>
  BY Zenon DEF PerfEventOpen, Puts
<1> HIDE DEF fd
<1>4. /\ fd \in Fds /\ Unneeded(t, fd, Live) /\ ClosedInExec(t, fd)
      /\ mon[rtab[t]][fd] = "none"
  BY Zenon, <1>1, <1>2, FreeIsUnneeded
<1>5. failed' = FALSE /\ Install(t, new, fd)
  BY Zenon, <1>3, <1>4 DEF add_monitor, IndInv
<1>6. file \in Files /\ MonitorFor(file) = "perf" /\ "perf" \in Special
  BY Zenon DEF File, Files, Kinds, Special, MonitorFor
<1>7. WithMonitor(new, t, fd, file)
  <2> DEFINE table == Table(rtab[t])
  <2>1. table \in TableType /\ CountRight(table) /\ table.m = mon[rtab[t]] BY Zenon, <1>1, TableRight
  <2> HIDE DEF table
  <2>2. /\ Watched(table, fd, "perf") \in TableType /\ CountRight(Watched(table, fd, "perf"))
        /\ Watched(table, fd, "perf").m = [table.m EXCEPT ![fd] = "perf"]
    BY Zenon, <2>1, <1>4, <1>6, WatchedRight
  <2> QED BY Zenon, <2>1, <2>2, <1>6 DEF WithMonitor, table
<1> HIDE DEF new, file
<1> QED BY Zenon, <1>1, <1>3, <1>4, <1>5, <1>6, <1>7, SameTasksSafe

(* did_dup gives the copy the monitor of what it now refers to. *)
LEMMA DupRight ==
  ASSUME IndInv, NEW t \in Live, Running(t), NEW from \in Fds, NEW to \in Fds, Has(t, from)
  PROVE  /\ File(kern[ktab[t]][from].kind, FALSE) \in Files
         /\ WithMonitor(did_dup(Table(rtab[t]), from, to), t, to,
                        File(kern[ktab[t]][from].kind, FALSE))
<1> DEFINE table == Table(rtab[t])
           k == kern[ktab[t]][from].kind
           new == did_dup(table, from, to)
<1>0. ktab[t] \in Ids /\ rtab[t] \in Ids BY Zenon, LiveTypes
<1>1. kern[ktab[t]][from] \in Files /\ kern[ktab[t]][from] # NoFile /\ ~InFlight(ktab[t], from)
  BY <1>0 DEF Has, IndInv, TypeOK
<1>2. k \in Kinds BY Zenon, <1>1 DEF Files
<1>3. File(k, FALSE) \in Files /\ MonitorFor(File(k, FALSE)) = IF k \in Special THEN k ELSE "none"
  BY Zenon, <1>2 DEF File, Files, MonitorFor
<1>4. table \in TableType /\ CountRight(table) /\ table.m = mon[rtab[t]] BY Zenon, TableRight
<1>5. table.m[from] = IF k \in Special THEN k ELSE "none"
  BY Zenon, <1>1, <1>4 DEF IndInv, MonitorsAgree
<1>6. new = IF k \in Special THEN Watched(table, to, k) ELSE Unwatched(table, to)
  BY Zenon, <1>5 DEF did_dup, Special
<1> HIDE DEF table, k, new
<1>7. new \in TableType /\ CountRight(new)
      /\ new.m = [table.m EXCEPT ![to] = IF k \in Special THEN k ELSE "none"]
  <2>1. CASE k \in Special BY Zenon, <2>1, <1>4, <1>6, WatchedRight
  <2>2. CASE k \notin Special BY Zenon, <2>2, <1>4, <1>6, UnwatchedRight
  <2> QED BY Zenon, <2>1, <2>2
<1>8. WithMonitor(new, t, to, File(k, FALSE)) BY Zenon, <1>3, <1>4, <1>7 DEF WithMonitor
<1> QED BY Zenon, <1>3, <1>8 DEF table, k, new

(* dup to a free descriptor keeps the tables in agreement.                    *)
LEMMA DupSafe ==
  ASSUME IndInv, NEW t \in Tasks, Dup(t)
  PROVE  IndInv'
<1>1. t \in Live /\ Running(t) BY Zenon, ReadyRuns DEF Dup
<1> DEFINE to == LowestFree(ktab[t])
<1>2. to \in Free(ktab[t]) BY Zenon, LowestFreeIsFree DEF Dup
<1>3. PICK from \in Fds :
        /\ Has(t, from)
        /\ kern' = [kern EXCEPT ![ktab[t]][to] = File(kern[ktab[t]][from].kind, FALSE)]
        /\ Install(t, did_dup(Table(rtab[t]), from, to), to)
  BY Zenon DEF Dup
<1>4. Calls /\ SameTasks /\ UNCHANGED <<call, unseen>> /\ failed' = FALSE
  BY DEF Dup, IndInv
<1> HIDE DEF to
<1>5. to \in Fds /\ Unneeded(t, to, Live) /\ ClosedInExec(t, to)
  BY Zenon, <1>1, <1>2, FreeIsUnneeded
<1> DEFINE file == File(kern[ktab[t]][from].kind, FALSE)
           new == did_dup(Table(rtab[t]), from, to)
<1>6. Puts(t, to, file) /\ Install(t, new, to) BY Zenon, <1>3 DEF Puts
<1>7. file \in Files /\ WithMonitor(new, t, to, file)
  BY Zenon, <1>1, <1>3, <1>5, DupRight
<1> HIDE DEF file, new
<1> QED BY Zenon, <1>1, <1>4, <1>5, <1>6, <1>7, SameTasksSafe

(* dup2 and dup3 do, whether rr refuses them for its own descriptor or not.   *)
LEMMA Dup2Safe ==
  ASSUME IndInv, Odd \subseteq {"late"}, NEW t \in Tasks, Dup2(t)
  PROVE  IndInv'
<1>1. t \in Live /\ Running(t) BY Zenon, ReadyRuns DEF Dup2
<1>2. Calls /\ SameTasks /\ UNCHANGED <<call, unseen>> /\ failed' = failed /\ failed' = FALSE
  BY DEF Dup2, IndInv
<1>3. PICK from \in Fds, to \in Fds :
        /\ Has(t, from) /\ MayDrop(t, to)
        /\ IF Dup2Refused(t, from, to)
           THEN UNCHANGED <<kern, mon, beyond, disabled>>
           ELSE /\ kern' = [kern EXCEPT ![ktab[t]][to] = File(kern[ktab[t]][from].kind, FALSE)]
                /\ Install(t, did_dup(Table(rtab[t]), from, to), to)
  BY Zenon DEF Dup2
<1>4. CASE Dup2Refused(t, from, to)
  <2>1. /\ n' \in Nat /\ unseen' \in BOOLEAN
        /\ call' \in [Tasks -> [op : CallOps, fd : Fds \cup {-1}, kind : Kinds \cup {"none"}]]
    BY <1>2 DEF IndInv, TypeOK, Calls
  <2> QED BY Zenon, <2>1, <1>2, <1>3, <1>4, CallSafe
<1>5. CASE ~Dup2Refused(t, from, to)
  <2> DEFINE file == File(kern[ktab[t]][from].kind, FALSE)
             new == did_dup(Table(rtab[t]), from, to)
  <2>1. Puts(t, to, file) /\ Install(t, new, to) BY Zenon, <1>3, <1>5 DEF Puts
  <2>2. ~InFlight(ktab[t], to) /\ \A u \in TaskSet(rtab[t]) : call[u].op # "exec"
    BY Zenon, <1>3 DEF MayDrop
  <2>3. ClosedInExec(t, to) BY Zenon, <2>2 DEF ClosedInExec, InExec, TaskSet
  <2>4. Unneeded(t, to, Live) BY Zenon, <1>1, <1>5, <2>2, OwnIsProtected DEF Dup2Refused
  <2>5. file \in Files /\ WithMonitor(new, t, to, file)
    BY Zenon, <1>1, <1>3, DupRight
  <2> HIDE DEF file, new
  <2> QED BY Zenon, <1>1, <1>2, <2>1, <2>2, <2>3, <2>4, <2>5, SameTasksSafe
<1> QED BY Zenon, <1>4, <1>5

(* close does, whether rr refuses it for its own descriptor or not.           *)
LEMMA CloseSafe ==
  ASSUME IndInv, Odd \subseteq {"late"}, NEW t \in Tasks, Close(t)
  PROVE  IndInv'
<1>1. t \in Live /\ Running(t) BY Zenon, ReadyRuns DEF Close
<1>2. Calls /\ SameTasks /\ UNCHANGED <<call, unseen>> /\ failed' = failed /\ failed' = FALSE
  BY DEF Close, IndInv
<1>3. PICK fd \in Fds :
        /\ MayDrop(t, fd)
        /\ IF is_rr_fd(rtab[t], fd)
           THEN UNCHANGED <<kern, mon, beyond, disabled>>
           ELSE /\ kern' = [kern EXCEPT ![ktab[t]][fd] = NoFile]
                /\ Install(t, did_close(Table(rtab[t]), fd), fd)
  BY Zenon DEF Close
<1>4. CASE is_rr_fd(rtab[t], fd)
  <2>1. /\ n' \in Nat /\ unseen' \in BOOLEAN
        /\ call' \in [Tasks -> [op : CallOps, fd : Fds \cup {-1}, kind : Kinds \cup {"none"}]]
    BY <1>2 DEF IndInv, TypeOK, Calls
  <2> QED BY Zenon, <2>1, <1>2, <1>3, <1>4, CallSafe
<1>5. CASE ~is_rr_fd(rtab[t], fd)
  <2> DEFINE new == Unwatched(Table(rtab[t]), fd)
  <2>1. Puts(t, fd, NoFile) /\ Install(t, new, fd)
    BY Zenon, <1>3, <1>5 DEF did_close, Puts
  <2>2. ~InFlight(ktab[t], fd) /\ \A u \in TaskSet(rtab[t]) : call[u].op # "exec"
    BY Zenon, <1>3 DEF MayDrop
  <2>3. ClosedInExec(t, fd) BY Zenon, <2>2 DEF ClosedInExec, InExec, TaskSet
  <2>4. Unneeded(t, fd, Live) BY Zenon, <1>1, <1>5, <2>2, OwnIsProtected
  <2>5. NoFile \in Files BY Zenon DEF Files
  <2>6. WithMonitor(new, t, fd, NoFile) BY Zenon, <1>1, ClosedRight
  <2> HIDE DEF new
  <2> QED BY Zenon, <1>1, <1>2, <2>1, <2>2, <2>3, <2>4, <2>5, <2>6, SameTasksSafe
<1> QED BY Zenon, <1>4, <1>5

(* rrcall_init_buffers: the task's desched descriptor is rr's own and new.    *)
LEMMA init_buffersSafe ==
  ASSUME IndInv, NEW t \in Tasks, init_buffers(t)
  PROVE  IndInv'
<1> DEFINE fd == HighestFree(ktab[t])
           file == File("rr", TRUE)
           new == Watched(Table(rtab[t]), fd, "rr")
<1>1. t \in Live /\ Running(t) BY Zenon, ReadyRuns DEF init_buffers
<1>2. fd \in Free(ktab[t]) BY Zenon, HighestFreeIsFree DEF init_buffers
<1>3. /\ Puts(t, fd, file)
      /\ desched' = [desched EXCEPT ![t] = fd]
      /\ add_monitor(t, fd, "rr")
      /\ UNCHANGED <<ktab, rtab, vm, globals, call, unseen, n>>
  BY Zenon DEF init_buffers, Puts
<1> HIDE DEF fd
<1>4. /\ fd \in Fds /\ Unneeded(t, fd, Live) /\ ClosedInExec(t, fd)
      /\ kern[ktab[t]][fd] = NoFile /\ mon[rtab[t]][fd] = "none"
  BY Zenon, <1>1, <1>2, FreeIsUnneeded
<1>5. failed' = FALSE /\ Install(t, new, fd)
  BY Zenon, <1>3, <1>4 DEF add_monitor, IndInv
<1>6. file \in Files /\ MonitorFor(file) = "rr" /\ "rr" \in Special
  BY Zenon DEF File, Files, Kinds, Special, MonitorFor
<1>7. WithMonitor(new, t, fd, file)
  <2> DEFINE table == Table(rtab[t])
  <2>1. table \in TableType /\ CountRight(table) /\ table.m = mon[rtab[t]] BY Zenon, <1>1, TableRight
  <2> HIDE DEF table
  <2>2. /\ Watched(table, fd, "rr") \in TableType /\ CountRight(Watched(table, fd, "rr"))
        /\ Watched(table, fd, "rr").m = [table.m EXCEPT ![fd] = "rr"]
    BY Zenon, <2>1, <1>4, <1>6, WatchedRight
  <2> QED BY Zenon, <2>1, <2>2, <1>6 DEF WithMonitor, table
<1>8. desched \in [Tasks -> Fds \cup {-1}] BY Zenon DEF IndInv, TypeOK
<1>9. Live' = Live BY Zenon, <1>3 DEF Live
<1>10. Unneeded(t, fd, Live') BY Zenon, <1>4, <1>9
<1>11. TaskTypes' BY Zenon, <1>3, <1>4, <1>8 DEF IndInv, TypeOK, TaskTypes, CallOps
<1>12. TasksAgree'
  BY Zenon, <1>1, <1>3, <1>8 DEF IndInv, TasksAgree, Live
<1>13. TasksStay BY Zenon, <1>3, <1>9 DEF TasksStay, SharingStays
<1>14. DeschedStays(t, fd, file)
  BY Zenon, <1>3, <1>4, <1>8, <1>9 DEF DeschedStays, Live
<1> HIDE DEF new, file
<1> QED BY Zenon, <1>1, <1>3, <1>4, <1>5, <1>6, <1>7, <1>10, <1>11, <1>12, <1>13, <1>14, ChangeSafe

(* A task that exits has its desched descriptor closed, which is no other's.  *)
LEMMA ExitSafe ==
  ASSUME IndInv, NEW t \in Tasks, Exit(t)
  PROVE  IndInv'
<1>1. t \in Live /\ Running(t) /\ call[t].op # "open" BY DEF Exit, Running, Idle
<1>2. destroy_buffers(t) /\ Gone(t) /\ unseen' = unseen BY Zenon DEF Exit
<1>3. unseen' \in BOOLEAN BY Zenon, <1>2 DEF IndInv, TypeOK
<1>4. CASE desched[t] = -1
  BY Zenon, <1>1, <1>2, <1>3, <1>4, LeaveSafe DEF destroy_buffers
<1>5. CASE desched[t] # -1
  <2> DEFINE fd == desched[t]
             new == Unwatched(Table(rtab[t]), fd)
  <2>1. fd \in Fds BY Zenon, <1>5 DEF IndInv, TypeOK
  <2>2. kern[ktab[t]][fd] = File("rr", TRUE)
    BY Zenon, <1>1, <1>5 DEF IndInv, DeschedOpen, TaskSet
  <2>3. failed' = FALSE /\ Puts(t, fd, NoFile) /\ Install(t, new, fd)
    <3>1. ~failed /\ kern[ktab[t]][fd] # NoFile BY <2>2 DEF IndInv, File, NoFile
    <3> QED BY Zenon, <1>2, <1>5, <3>1 DEF destroy_buffers, did_close, Puts
  <2>4. fd # RootDir
    <3>1. kern[ktab[t]][RootDir] = File("rr", FALSE) BY Zenon, <1>1 DEF IndInv, RootOpen
    <3>2. File("rr", FALSE) # File("rr", TRUE) BY Zenon DEF File
    <3> QED BY Zenon, <3>1, <3>2, <2>2
  <2>5. ~InFlight(ktab[t], fd)
    <3> SUFFICES ASSUME NEW u \in Live, ktab[u] = ktab[t], call[u].op = "open", call[u].fd = fd
                 PROVE  FALSE
      BY Zenon DEF InFlight
    <3> QED BY <2>2 DEF IndInv, OpensAgree, File
  <2>6. ClosedInExec(t, fd)
    BY Zenon, <1>1, <2>1 DEF IndInv, ExecAgrees, TaskSet, ClosedInExec
  <2>7. \A u \in Live : rtab[u] = rtab[t] /\ desched[u] = fd => u = t
    BY Zenon, <1>1, <1>5 DEF IndInv, DeschedOpen, TaskSet
  <2>8. NoFile \in Files BY Zenon DEF Files
  <2>9. WithMonitor(new, t, fd, NoFile) BY Zenon, <1>1, <2>1, ClosedRight
  <2> HIDE DEF fd, new
  <2>10. /\ Live' = Live \ {t} /\ \A u \in Live' : desched'[u] = desched[u]
         /\ TasksStay /\ TasksAgree' /\ TaskTypes'
    BY Zenon, <1>1, <1>2, <1>3, GoneFacts
  <2>11. Unneeded(t, fd, Live') BY Zenon, <2>4, <2>5, <2>7, <2>10 DEF Unneeded
  <2>12. DeschedStays(t, fd, NoFile) BY Zenon, <2>10 DEF DeschedStays
  <2> QED BY Zenon, <1>1, <2>1, <2>3, <2>6, <2>8, <2>9, <2>10, <2>11, <2>12, ChangeSafe
<1> QED BY Zenon, <1>4, <1>5

(* open and openat enter the kernel.                                          *)
LEMMA OpenSafe ==
  ASSUME IndInv, NEW t \in Tasks, Open(t)
  PROVE  IndInv'
BY Zenon, EnterSafe, FreeFound DEF Open

(* recvmsg enters the kernel, for a descriptor rr will know by its path.      *)
LEMMA ReceiveSafe ==
  ASSUME IndInv, Odd \subseteq {"late"}, NEW t \in Tasks, Receive(t)
  PROVE  IndInv'
<1>1. PICK kind \in {"mem"} : Enter(t, kind, FALSE) BY Zenon DEF Receive
<1> QED BY Zenon, <1>1, EnterSafe, FreeFound

(* handle_opened_file watches what the descriptor refers to when the open exits. *)
LEMMA OpenExitSafe ==
  ASSUME IndInv, NEW t \in Tasks, OpenExit(t)
  PROVE  IndInv'
<1> DEFINE fd == call[t].fd
           kind == kern[ktab[t]][fd].kind
           CallType == [op : CallOps, fd : Fds \cup {-1}, kind : Kinds \cup {"none"}]
<1>1. t \in Live /\ Running(t) /\ call[t].op = "open" BY Zenon DEF OpenExit, Running
<1>2. /\ handle_opened_file(t, fd)
      /\ call' = [call EXCEPT ![t] = Idle]
      /\ UNCHANGED <<ktab, rtab, vm, globals, desched, kern, unseen, n>>
  BY Zenon DEF OpenExit, SameTasks
<1>3. /\ fd \in Fds /\ kind \in {"plain", "mem"}
      /\ \A u \in Live : ktab[u] = ktab[t] /\ call[u].op = "open" /\ call[u].fd = fd => u = t
  BY Zenon, <1>1 DEF IndInv, OpensAgree
<1>4. InFlight(ktab[t], fd) BY Zenon, <1>1 DEF InFlight
<1>5. mon[rtab[t]][fd] = "none" BY Zenon, <1>1, <1>3, <1>4 DEF IndInv, MonitorsAgree
<1> DEFINE new == IF kind = "mem" THEN "mem" ELSE "none"
<1>6. /\ \A u \in Live : u \in Tasks /\ ktab[u] \in Ids /\ rtab[u] \in Ids
      /\ call \in [Tasks -> CallType] /\ Idle \in CallType /\ Idle.op = "none"
      /\ mon \in [Ids -> [Fds -> Special \cup {"none"}]]
  BY Zenon, LiveTypes DEF IndInv, TypeOK, Idle, CallOps
<1>7. Live' = Live /\ \A tb : TaskSet(tb)' = TaskSet(tb)
  BY Zenon, <1>2 DEF Live, TaskSet
<1>8. /\ mon' \in [Ids -> [Fds -> Special \cup {"none"}]]
      /\ beyond' \in [Ids -> Int]
      /\ disabled' \in [Ids -> SUBSET Entries]
      /\ CountAgrees' /\ ArrayCovers' /\ failed' = FALSE
      /\ \A i \in Ids, g \in Fds :
           mon'[i][g] = IF i = rtab[t] /\ g = fd THEN new ELSE mon[i][g]
  <2>1. CASE kind = "mem"
    <3> DEFINE table == Watched(Table(rtab[t]), fd, "mem")
    <3>1. failed' = FALSE /\ Install(t, table, fd)
      BY Zenon, <2>1, <1>2, <1>5 DEF handle_opened_file, add_monitor, IndInv
    <3>2. /\ table \in TableType /\ CountRight(table)
          /\ table.m = [mon[rtab[t]] EXCEPT ![fd] = "mem"]
      <4>1. "mem" \in Special BY Zenon DEF Special
      <4> QED BY SMTT(30), <1>1, <1>3, <4>1, TableRight, WatchedRight
    <3> HIDE DEF table, fd, kind
    <3>3. \A g \in Fds : g # fd => table.m[g] = mon[rtab[t]][g]
      BY SMTT(30), <3>2, <1>1, <1>6
    <3>4. /\ mon' \in [Ids -> [Fds -> Special \cup {"none"}]]
          /\ beyond' \in [Ids -> Int]
          /\ disabled' \in [Ids -> SUBSET Entries]
          /\ CountAgrees' /\ ArrayCovers'
      <4>1. SharingStays BY Zenon, <1>2, <1>7 DEF SharingStays
      <4> QED BY ZenonT(30), <4>1, <3>1, <3>2, <3>3, <1>1, <1>3, <1>7, InstallSafe
    <3>5. mon' = [mon EXCEPT ![rtab[t]] = table.m] BY Zenon, <3>1 DEF Install
    <3>6. \A i \in Ids, g \in Fds : mon'[i][g] = IF i = rtab[t] THEN table.m[g] ELSE mon[i][g]
      BY Zenon, <3>5, <1>6
    <3>7. table.m[fd] = new
      <4>1. rtab[t] \in Ids /\ mon[rtab[t]] \in [Fds -> Special \cup {"none"}]
        BY Zenon, <1>1, <1>6
      <4>2. table.m[fd] = "mem" BY Zenon, <4>1, <3>2, <1>3 DEF fd
      <4> QED BY Zenon, <4>2, <2>1
    <3> QED BY Zenon, <3>1, <3>3, <3>4, <3>6, <3>7
  <2>2. CASE kind # "mem"
    <3>1. UNCHANGED <<mon, beyond, disabled, failed>>
      BY Zenon, <2>2, <1>2 DEF handle_opened_file, NoMonitorChange
    <3>2. CountAgrees' /\ ArrayCovers'
      BY Zenon, <3>1, <1>2, <1>7 DEF IndInv, CountAgrees, ArrayCovers
    <3>3. /\ mon' \in [Ids -> [Fds -> Special \cup {"none"}]]
          /\ beyond' \in [Ids -> Int]
          /\ disabled' \in [Ids -> SUBSET Entries] /\ failed' = FALSE
      BY Zenon, <3>1 DEF IndInv, TypeOK
    <3> QED BY Zenon, <3>1, <3>2, <3>3, <2>2, <1>5
  <2> QED BY Zenon, <2>1, <2>2
<1>9. new = IF kind \in Special THEN kind ELSE "none" BY Zenon, <1>3 DEF Special
<1> HIDE DEF fd, kind, new
<1>10. call' \in [Tasks -> CallType] BY Zenon, <1>2, <1>6
<1>11. TypeOK' BY Zenon, <1>2, <1>8, <1>10 DEF IndInv, TypeOK, Entries, CallOps
<1>12. \A u \in Live : call'[u] = IF u = t THEN Idle ELSE call[u] BY Zenon, <1>2, <1>6
<1>13. \A u \in Live : (InExec(u)' <=> InExec(u)) /\ (Running(u)' <=> Running(u))
  BY Zenon, <1>1, <1>6, <1>7, <1>12 DEF InExec, Running
<1>14. \A i, g : InFlight(i, g)' <=> InFlight(i, g) /\ ~(i = ktab[t] /\ g = fd)
  <2> TAKE i, g
  <2>1. ASSUME InFlight(i, g)' PROVE InFlight(i, g) /\ ~(i = ktab[t] /\ g = fd)
    BY Zenon, <2>1, <1>2, <1>3, <1>6, <1>7, <1>12 DEF InFlight
  <2>2. ASSUME InFlight(i, g), ~(i = ktab[t] /\ g = fd) PROVE InFlight(i, g)'
    <3>1. PICK u \in Live : ktab[u] = i /\ call[u].op = "open" /\ call[u].fd = g
      BY Zenon, <2>2 DEF InFlight
    <3>2. u # t BY Zenon, <3>1, <2>2 DEF fd
    <3> QED BY Zenon, <3>1, <3>2, <1>2, <1>7, <1>12 DEF InFlight
  <2> QED BY Zenon, <2>1, <2>2
<1>15. TasksAgree' BY Zenon, <1>1, <1>2, <1>6 DEF IndInv, TasksAgree, Live
<1>16. Returned(t, fd)
  <2>1. MonitorFor(kern[ktab[t]][fd]) = new BY Zenon, <1>9 DEF MonitorFor, kind
  <2> QED BY Zenon, <2>1, <1>2, <1>7, <1>8 DEF Returned
<1>17. ReturnedCall(t, fd)
  <2>1. \A u \in Live : call'[u].op = "open" => u # t /\ call'[u] = call[u]
    BY Zenon, <1>6, <1>12
  <2> QED BY Zenon, <2>1, <1>13, <1>14 DEF ReturnedCall, ModesStay
<1>18. /\ SharingAgrees' /\ MonitorsAgree' /\ ExecAgrees'
       /\ DeschedOpen' /\ RootOpen' /\ OpensAgree'
  <2>1. fd \in Fds /\ InFlight(ktab[t], fd) BY Zenon, <1>3, <1>4 DEF fd
  <2> QED BY Zenon, <2>1, <1>1, <1>16, <1>17, ReturnedKeeps
<1> QED BY Zenon, <1>8, <1>11, <1>15, <1>18 DEF IndInv

(* post_exec gives the caller a table without the monitors of what the kernel *)
(* has closed, and an address space without preload_globals.                  *)
LEMMA ExecExitSafe ==
  ASSUME IndInv, NEW t \in Tasks, ExecExit(t)
  PROVE  IndInv'
<1> DEFINE r == NewId({rtab[u] : u \in Live \ {t}})
           v == NewId({vm[u] : u \in Live \ {t}})
           gone == fds_to_close_after_exec(t)
           table == ClosedIn(Table(rtab[t]), gone)
           CallType == [op : CallOps, fd : Fds \cup {-1}, kind : Kinds \cup {"none"}]
<1>1. t \in Live /\ InExec(t) /\ call[t].op = "exec" BY Zenon DEF ExecExit, InExec
<1>2. /\ rtab' = [rtab EXCEPT ![t] = r]
      /\ vm' = [vm EXCEPT ![t] = v]
      /\ mon' = [mon EXCEPT ![r] = table.m]
      /\ beyond' = [beyond EXCEPT ![r] = table.count]
      /\ globals' = [globals EXCEPT ![v] = FALSE]
      /\ disabled' = [disabled EXCEPT ![v] = {}]
      /\ desched' = [desched EXCEPT ![t] = -1]
      /\ call' = [call EXCEPT ![t] = Idle]
      /\ UNCHANGED <<kern, ktab, unseen, failed, n>>
  BY Zenon DEF ExecExit
<1>3. Live \ {t} \subseteq Tasks /\ Live \ {t} # Tasks BY Zenon DEF Live
<1>4. r \in Ids \ {rtab[u] : u \in Live \ {t}} BY Zenon, <1>3, IdLeft
<1>5. v \in Ids \ {vm[u] : u \in Live \ {t}} BY Zenon, <1>3, IdLeft
<1>6. /\ table \in TableType /\ CountRight(table)
      /\ table.m = [fd \in Fds |-> IF fd \in gone THEN "none" ELSE mon[rtab[t]][fd]]
  <2>1. gone \subseteq Fds BY Zenon DEF fds_to_close_after_exec, Monitored
  <2> HIDE DEF gone
  <2>2. /\ Table(rtab[t]) \in TableType /\ CountRight(Table(rtab[t]))
        /\ Table(rtab[t]).m = mon[rtab[t]]
    BY Zenon, <1>1, TableRight
  <2> QED BY SMTT(30), <2>1, <2>2, ClosedInRight
<1>7. \A g \in Fds : g \in gone <=> mon[rtab[t]][g] # "none" /\ kern[ktab[t]][g] = NoFile
  BY Zenon DEF fds_to_close_after_exec, Monitored
<1> HIDE DEF r, v, gone, table
<1>8. /\ \A u \in Live : u \in Tasks /\ ktab[u] \in Ids /\ rtab[u] \in Ids /\ vm[u] \in Ids
      /\ mon \in [Ids -> [Fds -> Special \cup {"none"}]]
      /\ beyond \in [Ids -> Int]
      /\ ktab \in [Tasks -> Ids \cup {0}] /\ rtab \in [Tasks -> Ids \cup {0}]
      /\ vm \in [Tasks -> Ids \cup {0}] /\ call \in [Tasks -> CallType]
      /\ globals \in [Ids -> BOOLEAN] /\ disabled \in [Ids -> SUBSET Entries]
      /\ desched \in [Tasks -> Fds \cup {-1}]
  BY Zenon, LiveTypes DEF IndInv, TypeOK
<1>9. r # 0 /\ v # 0 BY Zenon, <1>4, <1>5, FdAssumption DEF Ids
<1>10. table.m \in [Fds -> Special \cup {"none"}] /\ table.count \in Int BY Zenon, <1>6 DEF TableType
<1>11. Idle \in CallType /\ Idle.op = "none" BY Zenon DEF Idle, CallOps
<1>12. /\ rtab' \in [Tasks -> Ids \cup {0}] /\ vm' \in [Tasks -> Ids \cup {0}]
       /\ mon' \in [Ids -> [Fds -> Special \cup {"none"}]] /\ beyond' \in [Ids -> Int]
       /\ globals' \in [Ids -> BOOLEAN] /\ disabled' \in [Ids -> SUBSET Entries]
       /\ desched' \in [Tasks -> Fds \cup {-1}] /\ call' \in [Tasks -> CallType]
  BY Zenon, <1>1, <1>2, <1>4, <1>5, <1>8, <1>10, <1>11
<1>13. TypeOK' BY Zenon, <1>2, <1>12 DEF IndInv, TypeOK, Entries, CallOps
<1>14. Live' = Live BY Zenon, <1>2 DEF Live
<1>15. /\ rtab'[t] = r /\ vm'[t] = v /\ call'[t] = Idle /\ desched'[t] = -1
       /\ \A u \in Live : u # t => /\ rtab'[u] = rtab[u] /\ vm'[u] = vm[u]
                                   /\ call'[u] = call[u] /\ desched'[u] = desched[u]
  BY Zenon, <1>1, <1>2, <1>8
<1>16. /\ \A u \in Live : u # t => /\ rtab[u] # r /\ mon'[rtab[u]] = mon[rtab[u]]
                                   /\ beyond'[rtab[u]] = beyond[rtab[u]]
       /\ mon'[r] = table.m /\ beyond'[r] = table.count
  BY Zenon, <1>2, <1>4, <1>8
<1>17. /\ \A u \in Live : u # t => /\ vm[u] # v /\ globals'[vm[u]] = globals[vm[u]]
                                   /\ disabled'[vm[u]] = disabled[vm[u]]
       /\ globals'[v] = FALSE
  BY Zenon, <1>2, <1>5, <1>8
<1>18. /\ Running(t)' /\ ~InExec(t)' /\ ~Running(t)
       /\ \A u \in Live : u # t => (InExec(u)' <=> InExec(u)) /\ (Running(u)' <=> Running(u))
  BY Zenon, <1>1, <1>11, <1>14, <1>15 DEF InExec, Running
<1>19. \A u \in Live : u # t => ktab[u] # ktab[t]
  BY Zenon, <1>1 DEF IndInv, SharingAgrees
<1>20. /\ \A i, g : InFlight(i, g)' <=> InFlight(i, g)
       /\ \A g : ~InFlight(ktab[t], g)
  <2>1. \A u \in Live : call'[u].op = "open" <=> call[u].op = "open"
    BY Zenon, <1>1, <1>11, <1>15
  <2>2. \A u \in Live : call[u].op = "open" => u # t /\ call'[u] = call[u]
    BY Zenon, <1>1, <1>15
  <2>3. \A i, g : InFlight(i, g)' <=> InFlight(i, g)
    BY Zenon, <2>1, <2>2, <1>2, <1>14 DEF InFlight
  <2>4. \A g : ~InFlight(ktab[t], g) BY Zenon, <2>2, <1>19 DEF InFlight
  <2> QED BY Zenon, <2>3, <2>4
<1>21. TasksAgree'
  BY Zenon, <1>1, <1>2, <1>8, <1>9 DEF IndInv, TasksAgree, Live
<1>22. RenewedTable(t, r, gone)
  <2>1. \A g \in Fds : mon'[r][g] = IF g \in gone THEN "none" ELSE mon[rtab[t]][g]
    BY <1>6, <1>16
  <2> QED BY Zenon, <2>1, <1>1, <1>2, <1>7, <1>14, <1>15, <1>16 DEF RenewedTable
<1>23. RenewedSpace(t, v) BY Zenon, <1>15, <1>17 DEF RenewedSpace
<1>24. RenewedModes(t)
  <2>1. call'[t].op # "open" BY Zenon, <1>11, <1>15
  <2> QED BY Zenon, <2>1, <1>1, <1>15, <1>18, <1>19, <1>20 DEF RenewedModes, ModesStay, FlightsStay
<1>25. SharingAgrees' /\ ExecAgrees' /\ DeschedOpen' /\ RootOpen' /\ OpensAgree'
  BY Zenon, <1>22, <1>24, RenewedKeeps
<1>26. MonitorsAgree' BY Zenon, <1>22, <1>24, RenewedMonitors
<1>27. CountAgrees' /\ ArrayCovers'
  <2>1. beyond'[r] = Cardinality(Beyond(mon'[r])) BY Zenon, <1>6, <1>16 DEF CountRight
  <2> QED BY Zenon, <2>1, <1>22, <1>23, RenewedArrays
<1>28. ~failed' BY Zenon, <1>2 DEF IndInv
<1> QED BY Zenon, <1>13, <1>21, <1>25, <1>26, <1>27, <1>28 DEF IndInv

(* clone, for every choice of CLONE_VM and CLONE_FILES: the child's table is  *)
(* its parent's, or a copy without the desched descriptors of the tasks that  *)
(* use its parent's, and its address space covers what is left.               *)
LEMMA CloneSafe ==
  ASSUME IndInv, Odd \subseteq {"late"}, NEW t \in Tasks, Clone(t)
  PROVE  IndInv'
<1>1. t \in Live /\ Running(t) /\ call[t] = Idle BY Zenon, ReadyRuns DEF Clone, Ready
<1>0. PICK c : c = NewId(Live) BY Zenon
<1> DEFINE K(s) == IF s THEN ktab[t] ELSE NewId({ktab[u] : u \in Live})
           R(s) == IF s THEN rtab[t] ELSE NewId({rtab[u] : u \in Live})
           V(s) == IF s THEN vm[t] ELSE NewId({vm[u] : u \in Live})
           Shut(s) == IF s THEN {} ELSE BuffersToClose(t)
           T(s) == ClosedIn(Table(rtab[t]), Shut(s))
           Kern(s) == [fd \in Fds |-> IF fd \in Shut(s) THEN NoFile ELSE kern[ktab[t]][fd]]
           Others(s) == {Table(rtab[u]) : u \in IF s THEN VmTasks(vm[t]) ELSE {}}
           Still(sv, s, e) == is_fd_monitored_in_any_task(Others(sv) \cup {T(s)}, T(s), e)
<1>2. PICK shareVm \in BOOLEAN, shareFiles \in BOOLEAN :
        /\ shareFiles \/ MayCopy(t)
        /\ ktab' = [ktab EXCEPT ![c] = K(shareFiles)]
        /\ rtab' = [rtab EXCEPT ![c] = R(shareFiles)]
        /\ vm' = [vm EXCEPT ![c] = V(shareVm)]
        /\ kern' = [kern EXCEPT ![K(shareFiles)] = Kern(shareFiles)]
        /\ mon' = [mon EXCEPT ![R(shareFiles)] = T(shareFiles).m]
        /\ beyond' = [beyond EXCEPT ![R(shareFiles)] = T(shareFiles).count]
        /\ globals' = [globals EXCEPT ![V(shareVm)] = globals[vm[t]]]
        /\ disabled' = [disabled EXCEPT ![V(shareVm)] =
                          {e \in disabled[vm[t]] :
                             e \in {Entry(fd) : fd \in Shut(shareFiles)}
                               => Still(shareVm, shareFiles, e)}]
        /\ failed' = (failed \/ \E fd \in Shut(shareFiles) : kern[ktab[t]][fd] = NoFile)
  BY ZenonT(30), <1>0 DEF Clone
<1>3. n' = n + 1 /\ UNCHANGED <<desched, call, unseen>> BY Zenon DEF Clone, Calls
<1> DEFINE k == K(shareFiles)
           r == R(shareFiles)
           v == V(shareVm)
           closed == Shut(shareFiles)
           table == T(shareFiles)
           kept == Kern(shareFiles)
           others == Others(shareVm)
           left == {e \in disabled[vm[t]] :
                      e \in {Entry(fd) : fd \in closed}
                        => is_fd_monitored_in_any_task(others \cup {table}, table, e)}
<1>4. /\ ktab' = [ktab EXCEPT ![c] = k] /\ rtab' = [rtab EXCEPT ![c] = r]
      /\ vm' = [vm EXCEPT ![c] = v]
      /\ kern' = [kern EXCEPT ![k] = kept]
      /\ mon' = [mon EXCEPT ![r] = table.m] /\ beyond' = [beyond EXCEPT ![r] = table.count]
      /\ globals' = [globals EXCEPT ![v] = globals[vm[t]]]
      /\ disabled' = [disabled EXCEPT ![v] = left]
      /\ failed' = (failed \/ \E fd \in closed : kern[ktab[t]][fd] = NoFile)
  BY Zenon, <1>2
<1>5. Live \subseteq Tasks /\ Live # Tasks /\ Ids \ Live # {} BY Zenon DEF Clone, Live, Ids
<1>6. c \in Tasks /\ c \notin Live BY Zenon, <1>0, <1>5, NewIdIsNew DEF Ids
<1>7. /\ \A u \in Live : u \in Tasks /\ ktab[u] \in Ids /\ rtab[u] \in Ids /\ vm[u] \in Ids
      /\ kern \in [Ids -> [Fds -> Files]]
      /\ mon \in [Ids -> [Fds -> Special \cup {"none"}]]
      /\ beyond \in [Ids -> Int]
      /\ ktab \in [Tasks -> Ids \cup {0}] /\ rtab \in [Tasks -> Ids \cup {0}]
      /\ vm \in [Tasks -> Ids \cup {0}] /\ n \in Nat
      /\ globals \in [Ids -> BOOLEAN] /\ disabled \in [Ids -> SUBSET Entries]
      /\ desched \in [Tasks -> Fds \cup {-1}]
  BY Zenon, LiveTypes DEF IndInv, TypeOK
<1>8. /\ k \in Ids
      /\ shareFiles => k = ktab[t]
      /\ ~shareFiles => \A u \in Live : ktab[u] # k
  <2>1. NewId({ktab[u] : u \in Live}) \in Ids \ {ktab[u] : u \in Live} BY Zenon, <1>5, IdLeft
  <2> QED BY Zenon, <2>1, <1>1, <1>7
<1>9. /\ r \in Ids
      /\ shareFiles => r = rtab[t]
      /\ ~shareFiles => \A u \in Live : rtab[u] # r
  <2>1. NewId({rtab[u] : u \in Live}) \in Ids \ {rtab[u] : u \in Live} BY Zenon, <1>5, IdLeft
  <2> QED BY Zenon, <2>1, <1>1, <1>7
<1>10. /\ v \in Ids
       /\ shareVm => v = vm[t]
       /\ ~shareVm => \A u \in Live : vm[u] # v
  <2>1. NewId({vm[u] : u \in Live}) \in Ids \ {vm[u] : u \in Live} BY Zenon, <1>5, IdLeft
  <2> QED BY Zenon, <2>1, <1>1, <1>7
<1>11. /\ closed \subseteq Fds
       /\ \A fd \in closed : kern[ktab[t]][fd] = File("rr", TRUE)
       /\ shareFiles => closed = {}
  <2>1. ASSUME NEW fd \in BuffersToClose(t)
        PROVE  fd \in Fds /\ kern[ktab[t]][fd] = File("rr", TRUE)
    <3>1. PICK u \in TaskSet(rtab[t]) : fd = desched[u] /\ desched[u] # -1
      BY Zenon DEF BuffersToClose
    <3>2. u \in Live BY Zenon DEF TaskSet
    <3> QED BY Zenon, <3>1, <3>2, <1>1, <1>7 DEF IndInv, DeschedOpen
  <2> QED BY Zenon, <2>1
<1>12. /\ table \in TableType /\ CountRight(table)
       /\ table.m = [fd \in Fds |-> IF fd \in closed THEN "none" ELSE mon[rtab[t]][fd]]
  <2> HIDE DEF closed
  <2>1. /\ Table(rtab[t]) \in TableType /\ CountRight(Table(rtab[t]))
        /\ Table(rtab[t]).m = mon[rtab[t]]
    BY Zenon, <1>1, TableRight
  <2>2. table = ClosedIn(Table(rtab[t]), closed) BY Zenon DEF closed
  <2> QED BY SMTT(30), <2>1, <2>2, <1>11, ClosedInRight
<1>13. kept = [fd \in Fds |-> IF fd \in closed THEN NoFile ELSE kern[ktab[t]][fd]] BY Zenon
<1>14. /\ \A u \in Live : shareVm /\ vm[u] = vm[t] => Table(rtab[u]) \in others
       /\ left \subseteq disabled[vm[t]]
       /\ \A e \in disabled[vm[t]] :
            is_fd_monitored_in_any_task(others \cup {table}, table, e) => e \in left
  BY Zenon DEF VmTasks
<1>15. shareFiles \/ MayCopy(t) BY Zenon, <1>2
<1> HIDE DEF k, r, v, closed, table, kept, others, left
<1>16. k # 0 /\ r # 0 /\ v # 0 BY Zenon, <1>8, <1>9, <1>10, FdAssumption DEF Ids
<1>17. table.m \in [Fds -> Special \cup {"none"}] /\ table.count \in Int BY Zenon, <1>12 DEF TableType
<1>18. kept \in [Fds -> Files]
  <2>1. NoFile \in Files BY Zenon DEF Files
  <2>2. kern[ktab[t]] \in [Fds -> Files] BY Zenon, <1>1, <1>7
  <2> QED BY Zenon, <2>1, <2>2, <1>13
<1>19. /\ ktab' \in [Tasks -> Ids \cup {0}] /\ rtab' \in [Tasks -> Ids \cup {0}]
       /\ vm' \in [Tasks -> Ids \cup {0}] /\ kern' \in [Ids -> [Fds -> Files]]
       /\ mon' \in [Ids -> [Fds -> Special \cup {"none"}]] /\ beyond' \in [Ids -> Int]
       /\ globals' \in [Ids -> BOOLEAN] /\ n' \in Nat
  <2>1. /\ ktab' \in [Tasks -> Ids \cup {0}] /\ rtab' \in [Tasks -> Ids \cup {0}]
        /\ vm' \in [Tasks -> Ids \cup {0}]
    BY Zenon, <1>4, <1>6, <1>7, <1>8, <1>9, <1>10
  <2>2. kern' \in [Ids -> [Fds -> Files]] BY Zenon, <1>4, <1>7, <1>8, <1>18
  <2>3. mon' \in [Ids -> [Fds -> Special \cup {"none"}]] /\ beyond' \in [Ids -> Int]
    BY Zenon, <1>4, <1>7, <1>9, <1>17
  <2>4. globals' \in [Ids -> BOOLEAN]
    <3>1. globals[vm[t]] \in BOOLEAN BY Zenon, <1>1, <1>7
    <3> QED BY Zenon, <3>1, <1>4, <1>7, <1>10
  <2>5. n' \in Nat BY <1>3, <1>7
  <2> QED BY Zenon, <2>1, <2>2, <2>3, <2>4, <2>5
<1>20. disabled' \in [Ids -> SUBSET Entries]
  <2>1. left \in SUBSET Entries BY Zenon, <1>1, <1>7, <1>14
  <2> QED BY Zenon, <2>1, <1>4, <1>7, <1>10
<1>21. ~failed' /\ failed' \in BOOLEAN
  <2>1. \A fd \in closed : kern[ktab[t]][fd] # NoFile BY SMTT(30), <1>11 DEF File, NoFile
  <2> QED BY Zenon, <2>1, <1>4 DEF IndInv
<1>22. TypeOK'
  <2>1. /\ desched \in [Tasks -> Fds \cup {-1}] /\ unseen \in BOOLEAN
        /\ call \in [Tasks -> [op : CallOps, fd : Fds \cup {-1}, kind : Kinds \cup {"none"}]]
    BY Zenon DEF IndInv, TypeOK
  <2> QED BY Zenon, <2>1, <1>3, <1>19, <1>20, <1>21 DEF TypeOK, Entries, CallOps
<1>23. Live' = Live \cup {c} BY Zenon, <1>4, <1>6, <1>7, <1>16 DEF Live
<1>24. /\ ktab'[c] = k /\ rtab'[c] = r /\ vm'[c] = v
       /\ call[c] = Idle /\ desched[c] = -1
       /\ \A u \in Live : u # c /\ ktab'[u] = ktab[u] /\ rtab'[u] = rtab[u] /\ vm'[u] = vm[u]
  <2>1. ktab[c] = 0 BY Zenon, <1>6 DEF Live
  <2>2. call[c] = Idle /\ desched[c] = -1 BY Zenon, <2>1, <1>6 DEF IndInv, TasksAgree
  <2> QED BY Zenon, <2>2, <1>4, <1>6, <1>7
<1>25. /\ \A u \in Live : kern'[ktab[u]] = kern[ktab[u]]
       /\ \A g \in Fds : kern'[k][g] = IF g \in closed THEN NoFile ELSE kern[ktab[t]][g]
  <2>1. shareFiles => kept = kern[ktab[t]] BY Zenon, <1>1, <1>7, <1>11, <1>13
  <2> QED BY Zenon, <2>1, <1>4, <1>7, <1>8, <1>13
<1>26. /\ \A u \in Live : mon'[rtab[u]] = mon[rtab[u]]
       /\ \A g \in Fds : mon'[r][g] = IF g \in closed THEN "none" ELSE mon[rtab[t]][g]
       /\ mon'[r] = table.m /\ beyond'[r] = table.count
  <2>1. shareFiles => table.m = mon[rtab[t]] BY SMTT(30), <1>1, <1>7, <1>11, <1>12
  <2> QED BY Zenon, <2>1, <1>4, <1>7, <1>9, <1>12
<1>27. \A u \in Live : beyond'[rtab[u]] = beyond[rtab[u]]
  <2>1. shareFiles => table.count = beyond[rtab[t]]
    <3>1. shareFiles => table.m = mon[rtab[t]] BY SMTT(30), <1>1, <1>7, <1>11, <1>12
    <3> QED BY Zenon, <3>1, <1>1, <1>12 DEF CountRight, Beyond, IndInv, CountAgrees
  <2> QED BY Zenon, <2>1, <1>4, <1>7, <1>9
<1>28. /\ \A u \in Live : globals'[vm[u]] = globals[vm[u]]
       /\ globals'[v] = globals[vm[t]] /\ disabled'[v] = left
       /\ \A u \in Live : vm[u] # v => disabled'[vm[u]] = disabled[vm[u]]
  BY Zenon, <1>4, <1>7, <1>10
<1>29. /\ ~InExec(t) /\ ~InExec(c)' /\ Running(c)'
       /\ \A u \in Live : (InExec(u)' <=> InExec(u)) /\ (Running(u)' <=> Running(u))
  <2>1. ~InExec(t) BY Zenon, <1>1 DEF InExec, Running
  <2>2. call' = call /\ call'[c].op = "none" BY SMTT(30), <1>3, <1>24 DEF Idle
  <2>3. ~InExec(c)' /\ Running(c)' BY Zenon, <2>2, <1>23 DEF InExec, Running
  <2>4. ASSUME NEW u \in Live
        PROVE  (InExec(u)' <=> InExec(u)) /\ (Running(u)' <=> Running(u))
    BY Zenon, <2>2, <1>23 DEF InExec, Running
  <2> QED BY Zenon, <2>1, <2>3, <2>4
<1>30. /\ \A i, g : InFlight(i, g)' <=> InFlight(i, g)
       /\ ~shareFiles => \A g : ~InFlight(ktab[t], g) /\ ~InFlight(k, g)
  <2>1. \A i, g : InFlight(i, g)' => InFlight(i, g)
    BY SMTT(30), <1>3, <1>23, <1>24 DEF InFlight, Idle
  <2>2. \A i, g : InFlight(i, g) => InFlight(i, g)'
    BY Zenon, <1>3, <1>23, <1>24 DEF InFlight
  <2>3. ~shareFiles => \A g : ~InFlight(k, g) BY Zenon, <1>8 DEF InFlight
  <2> QED BY Zenon, <2>1, <2>2, <2>3, <1>15, CopyIsQuiet
<1>31. TasksAgree'
  BY Zenon, <1>3, <1>4, <1>6, <1>7, <1>16, <1>24 DEF IndInv, TasksAgree
<1>32. ClonedIds(t, c, k, r, shareFiles)
  BY Zenon, <1>1, <1>6, <1>8, <1>9, <1>23, <1>24 DEF ClonedIds
<1>33. ClonedTables(t, k, r, closed) BY Zenon, <1>25, <1>26, <1>27 DEF ClonedTables
<1>34. ClonedModes(t, c, k, shareFiles)
  <2>1. call[c].op # "open" BY <1>24 DEF Idle
  <2> QED BY Zenon, <2>1, <1>1, <1>3, <1>24, <1>29, <1>30 DEF ClonedModes, ModesStay, FlightsStay
<1>35. ClonedSpace(t, c, v, r)
  <2>1. \A u \in Live : vm[u] = v => shareVm /\ v = vm[t] BY Zenon, <1>10
  <2>2. ASSUME NEW e \in disabled[vm[t]], NEW g \in Monitored(mon'[r]), Entry(g) = e
        PROVE  e \in disabled'[v]
    <3>1. is_fd_monitored_in_any_task(others \cup {table}, table, Entry(g))
      BY Zenon, <1>12, <1>26, Noticed
    <3> QED BY Zenon, <2>2, <3>1, <1>14, <1>28
  <2>3. ASSUME NEW e \in disabled[vm[t]], NEW u \in Live, vm[u] = v,
               NEW g \in Monitored(mon[rtab[u]]), Entry(g) = e
        PROVE  e \in disabled'[v]
    <3>1. Table(rtab[u]) \in others \cup {table} BY Zenon, <2>1, <2>3, <1>14
    <3>2. /\ Table(rtab[u]) \in TableType /\ CountRight(Table(rtab[u]))
          /\ Table(rtab[u]).m = mon[rtab[u]]
      BY Zenon, TableRight
    <3>3. is_fd_monitored_in_any_task(others \cup {table}, table, Entry(g))
      BY Zenon, <3>1, <3>2, <1>12, Noticed
    <3> QED BY Zenon, <2>3, <3>3, <1>14, <1>28
  <2>4. /\ vm'[c] = v /\ globals'[v] = globals[vm[t]]
        /\ \A u \in Live : vm'[u] = vm[u] /\ globals'[vm[u]] = globals[vm[u]]
        /\ \A u \in Live : vm[u] # v => disabled'[vm[u]] = disabled[vm[u]]
        /\ \A u \in Live : vm[u] = v => v = vm[t]
    BY Zenon, <2>1, <1>24, <1>28
  <2> QED BY Zenon, <2>2, <2>3, <2>4 DEF ClonedSpace
<1>36. SharingAgrees' BY Zenon, <1>32, <1>34, ClonedSharing
<1>37. MonitorsAgree' BY Zenon, <1>32, <1>33, <1>34, ClonedMonitors
<1>38. ExecAgrees' BY Zenon, <1>32, <1>33, <1>34, ClonedExec
<1>39. DeschedOpen' BY Zenon, <1>32, <1>33, <1>34, ClonedDesched
<1>40. RootOpen'
  <2>1. RootDir \notin closed
    <3>1. kern[ktab[t]][RootDir] = File("rr", FALSE) BY Zenon, <1>1 DEF IndInv, RootOpen
    <3> QED BY <3>1, <1>11 DEF File
  <2> QED BY Zenon, <2>1, <1>32, <1>33, ClonedRoot
<1>41. OpensAgree' BY Zenon, <1>32, <1>33, <1>34, ClonedOpens
<1>42. CountAgrees'
  <2>1. beyond'[r] = Cardinality(Beyond(mon'[r])) BY Zenon, <1>12, <1>26 DEF CountRight
  <2> QED BY Zenon, <2>1, <1>32, <1>33, ClonedCount
<1>43. ArrayCovers' BY Zenon, <1>32, <1>33, <1>35, ClonedArray
<1> QED BY Zenon, <1>21, <1>22, <1>31, <1>36, <1>37, <1>38, <1>39, <1>40, <1>41, <1>42, <1>43
        DEF IndInv

(* The invariant holds when rr has started its first tracee.                  *)
LEMMA Initially == Init => IndInv
<1> SUFFICES ASSUME Init PROVE IndInv BY Zenon
<1>0. 1 \in Tasks /\ \A i \in Ids : i # 0 BY Zenon, FdAssumption DEF Ids
<1>1. Live = {1} BY <1>0 DEF Init, Live
<1>2. /\ First \in [Fds -> Files] /\ setup_fd_table \in [Fds -> Special \cup {"none"}]
      /\ \A g \in Fds : setup_fd_table[g] = IF First[g].kind \in Special
                                            THEN First[g].kind ELSE "none"
      /\ RootDir \in Fds /\ First[RootDir] = File("rr", FALSE)
  BY FdAssumption
     DEF First, setup_fd_table, Files, File, NoFile, Kinds, Special, Fds, RootDir, Stdout
<1>3. Idle \in [op : CallOps, fd : Fds \cup {-1}, kind : Kinds \cup {"none"}]
      /\ Idle.op = "none"
  BY Zenon DEF Idle, CallOps
<1>4. TypeOK
  <2>1. /\ kern \in [Ids -> [Fds -> Files]] /\ beyond \in [Ids -> Int]
        /\ mon \in [Ids -> [Fds -> Special \cup {"none"}]]
        /\ globals \in [Ids -> BOOLEAN] /\ disabled \in [Ids -> SUBSET Entries]
    <3> HIDE DEF Ids
    <3> QED BY <1>2 DEF Init
  <2>2. ktab \in [Tasks -> Ids \cup {0}] BY Zenon, <1>0 DEF Init, Ids
  <2>3. rtab \in [Tasks -> Ids \cup {0}] /\ vm \in [Tasks -> Ids \cup {0}] BY Zenon, <2>2 DEF Init
  <2>4. /\ desched \in [Tasks -> Fds \cup {-1}]
        /\ call \in [Tasks -> [op : CallOps, fd : Fds \cup {-1}, kind : Kinds \cup {"none"}]]
        /\ unseen \in BOOLEAN /\ failed \in BOOLEAN /\ n \in Nat
    BY Zenon, <1>3 DEF Init
  <2> QED BY Zenon, <2>1, <2>2, <2>3, <2>4 DEF TypeOK
<1>5. TasksAgree BY Zenon, <1>0 DEF Init, TasksAgree
<1>6. /\ kern[ktab[1]] = First /\ mon[rtab[1]] = setup_fd_table /\ beyond[rtab[1]] = 0
      /\ globals[vm[1]] = FALSE /\ call[1] = Idle /\ desched[1] = -1
  BY Zenon, <1>0 DEF Init, Ids
<1>7. Running(1) /\ ~InExec(1) /\ \A i, g : ~InFlight(i, g)
  BY Zenon, <1>1, <1>3, <1>6 DEF Running, InExec, InFlight
<1>8. SharingAgrees /\ ExecAgrees /\ OpensAgree /\ ArrayCovers
  BY Zenon, <1>1, <1>3, <1>6, <1>7 DEF SharingAgrees, ExecAgrees, OpensAgree, ArrayCovers
<1>9. MonitorsAgree BY Zenon, <1>1, <1>2, <1>6, <1>7 DEF MonitorsAgree
<1>10. DeschedOpen BY Zenon, <1>1, <1>6 DEF DeschedOpen, TaskSet
<1>11. RootOpen BY Zenon, <1>1, <1>2, <1>6 DEF RootOpen
<1>12. CountAgrees
  <2>1. {fd \in Monitored(setup_fd_table) : fd >= Limit} = {}
    BY FdAssumption DEF Monitored, setup_fd_table, First, NoFile, File, Fds, RootDir, Stdout
  <2> QED BY Zenon, <2>1, <1>1, <1>6, FS_EmptySet DEF CountAgrees
<1> QED BY Zenon, <1>4, <1>5, <1>8, <1>9, <1>10, <1>11, <1>12 DEF IndInv, Init

(* Every step keeps the invariant.                                            *)
LEMMA Inductive ==
  ASSUME Odd \subseteq {"late"}, IndInv, [Next]_vars
  PROVE  IndInv'
<1>1. ASSUME NEW t \in Tasks, Open(t) PROVE IndInv' BY Zenon, <1>1, OpenSafe
<1>2. ASSUME NEW t \in Tasks, Receive(t) PROVE IndInv' BY Zenon, <1>2, ReceiveSafe
<1>3. ASSUME NEW t \in Tasks, OpenExit(t) PROVE IndInv' BY Zenon, <1>3, OpenExitSafe
<1>4. ASSUME NEW t \in Tasks, PerfEventOpen(t) PROVE IndInv' BY Zenon, <1>4, PerfEventOpenSafe
<1>5. ASSUME NEW t \in Tasks, Dup(t) PROVE IndInv' BY Zenon, <1>5, DupSafe
<1>6. ASSUME NEW t \in Tasks, Dup2(t) PROVE IndInv' BY Zenon, <1>6, Dup2Safe
<1>7. ASSUME NEW t \in Tasks, Close(t) PROVE IndInv' BY Zenon, <1>7, CloseSafe
<1>8. ASSUME NEW t \in Tasks, SetCloexec(t) PROVE IndInv' BY Zenon, <1>8, SetCloexecSafe
<1>9. ASSUME NEW t \in Tasks, Write(t) PROVE IndInv' BY Zenon, <1>9, WriteSafe
<1>10. ASSUME NEW t \in Tasks, did_write(t) PROVE IndInv' BY Zenon, <1>10, did_writeSafe
<1>11. ASSUME NEW t \in Tasks, at_preload_init(t) PROVE IndInv' BY Zenon, <1>11, at_preload_initSafe
<1>12. ASSUME NEW t \in Tasks, init_buffers(t) PROVE IndInv' BY Zenon, <1>12, init_buffersSafe
<1>13. ASSUME NEW t \in Tasks, Clone(t) PROVE IndInv' BY Zenon, <1>13, CloneSafe
<1>14. ASSUME NEW t \in Tasks, Unshare(t) PROVE IndInv' BY Zenon, <1>14, UnshareSafe, NewIds
<1>15. ASSUME NEW t \in Tasks, ExecEnter(t) PROVE IndInv' BY Zenon, <1>15, ExecEnterSafe, NewIds
<1>16. ASSUME NEW t \in Tasks, ExecExit(t) PROVE IndInv' BY Zenon, <1>16, ExecExitSafe
<1>17. ASSUME NEW t \in Tasks, Exit(t) PROVE IndInv' BY Zenon, <1>17, ExitSafe
<1>18. ASSUME NEW t \in Tasks, Killed(t) PROVE IndInv' BY Zenon, <1>18, KilledSafe
<1>19. CASE UNCHANGED vars
  <2>1. /\ SameTasks /\ UNCHANGED <<kern, mon, beyond, disabled, failed>> /\ call' = call
        /\ unseen' = unseen /\ n' = n
    BY Zenon, <1>19 DEF vars, SameTasks
  <2>2. /\ call \in [Tasks -> [op : CallOps, fd : Fds \cup {-1}, kind : Kinds \cup {"none"}]]
        /\ unseen \in BOOLEAN /\ n \in Nat
    BY Zenon DEF IndInv, TypeOK
  <2> QED BY Zenon, <2>1, <2>2, CallSafe
<1> QED
  BY Zenon, <1>1, <1>2, <1>3, <1>4, <1>5, <1>6, <1>7, <1>8, <1>9, <1>10, <1>11, <1>12, <1>13,
     <1>14, <1>15, <1>16, <1>17, <1>18, <1>19 DEF Next

-----------------------------------------------------------------------------
(* The inductive invariant holds in every run in which nothing odd happens    *)
(* but late closes: rr's tables and arrays agree with the kernel's.           *)
THEOREM TablesAgree == Odd \subseteq {"late"} => (Spec => []IndInv)
<1> SUFFICES ASSUME Odd \subseteq {"late"} PROVE Spec => []IndInv BY Zenon
<1>1. Init => IndInv BY Zenon, Initially
<1>2. IndInv /\ [Next]_vars => IndInv' BY Zenon, Inductive
<1> QED BY <1>1, <1>2, PTL DEF Spec

(* However tasks share address spaces and descriptor tables, a running task's *)
(* calls on a special file are traced: the monitor is in its table and the    *)
(* array of its address space keeps the call out of the syscall buffer.       *)
THEOREM CallsAreTraced == Odd \subseteq {"late"} => (Spec => []SpecialIsTraced)
<1> SUFFICES ASSUME Odd \subseteq {"late"} PROVE Spec => []SpecialIsTraced BY Zenon
<1>1. IndInv => SpecialIsTraced
  <2> SUFFICES ASSUME IndInv, NEW t \in Live, Running(t), NEW fd \in Fds,
                      kern[ktab[t]][fd].kind \in Special, ~InFlight(ktab[t], fd)
               PROVE  /\ mon[rtab[t]][fd] = kern[ktab[t]][fd].kind
                      /\ globals[vm[t]] => Entry(fd) \in disabled[vm[t]]
    BY Zenon DEF SpecialIsTraced
  <2>1. mon[rtab[t]][fd] = kern[ktab[t]][fd].kind BY Zenon DEF IndInv, MonitorsAgree
  <2>2. fd \in Monitored(mon[rtab[t]]) BY Zenon, <2>1 DEF Monitored, Special
  <2> QED BY Zenon, <2>1, <2>2 DEF IndInv, ArrayCovers
<1> QED BY <1>1, TablesAgree, PTL

(* No monitor is left on a descriptor that was closed or reused, and          *)
(* fd_count_beyond_limit counts the monitors behind the last entry.           *)
THEOREM NoStaleMonitor == Odd \subseteq {"late"} => (Spec => []MonitorsAreReal)
<1> SUFFICES ASSUME Odd \subseteq {"late"} PROVE Spec => []MonitorsAreReal BY Zenon
<1>1. IndInv => MonitorsAreReal
  <2> SUFFICES ASSUME IndInv, NEW t \in Live, Running(t)
               PROVE  /\ \A fd \in Monitored(mon[rtab[t]]) :
                            kern[ktab[t]][fd].kind = mon[rtab[t]][fd]
                      /\ beyond[rtab[t]] =
                           Cardinality({fd \in Monitored(mon[rtab[t]]) : fd >= Limit})
    BY Zenon DEF MonitorsAreReal
  <2>1. \A fd \in Monitored(mon[rtab[t]]) : kern[ktab[t]][fd].kind = mon[rtab[t]][fd]
    BY Zenon DEF IndInv, MonitorsAgree, Monitored
  <2> QED BY Zenon, <2>1 DEF IndInv, CountAgrees
<1> QED BY <1>1, TablesAgree, PTL

(* The tracees never take away rr's root directory or the desched descriptor  *)
(* a running task's buffers use: is_rr_fd protects them from close and dup2,  *)
(* and exec keeps the one and replaces the other.                             *)
THEOREM OwnFdsAreKept == Odd \subseteq {"late"} => (Spec => []OwnFdsKept)
<1> SUFFICES ASSUME Odd \subseteq {"late"} PROVE Spec => []OwnFdsKept BY Zenon
<1>1. IndInv => OwnFdsKept
  BY SMTT(30) DEF IndInv, OwnFdsKept, RootOpen, DeschedOpen, TaskSet, File
<1> QED BY <1>1, TablesAgree, PTL

(* add_monitor finds no monitor in its place, and the closes rr makes for     *)
(* itself in close_buffers_for and destroy_buffers find the descriptor open.  *)
THEOREM AssertsHold == Odd \subseteq {"late"} => (Spec => []NoAssertFails)
<1> SUFFICES ASSUME Odd \subseteq {"late"} PROVE Spec => []NoAssertFails BY Zenon
<1>1. IndInv => NoAssertFails BY Zenon DEF IndInv, NoAssertFails
<1> QED BY <1>1, TablesAgree, PTL
=============================================================================
