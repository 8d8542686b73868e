---------------------- MODULE CompressedWriterProofs ----------------------
(* Proofs about CompressedWriter, for any number of threads and any block  *)
(* size.                                                                    *)
EXTENDS CompressedWriter, SequenceTheorems, TLAPS

-----------------------------------------------------------------------------
(* Arithmetic of the ring. *)

(* The ring buffer allocated by the constructor is not empty. *)
LEMMA BufferSizePositive == BufferSize \in Nat \ {0}
BY WriterAssumption, SMTT(30) DEF BufferSize

(* A slot is an index of the buffer: buffer[pos % buffer.size()]. *)
LEMMA SlotInRange == ASSUME NEW p \in Nat PROVE Slot(p) \in 0 .. BufferSize - 1
BY BufferSizePositive, SMTT(30) DEF Slot

(* Positions in the same lap of the ring have consecutive slots. *)
LEMMA SlotAdd ==
  ASSUME NEW p \in Nat, NEW j \in Nat, Slot(p) + j < BufferSize
  PROVE  Slot(p + j) = Slot(p) + j
<1> DEFINE B == BufferSize
           q == p \div B
<1>1. B \in Nat /\ B > 0
  BY BufferSizePositive, SMT
<1> HIDE DEF B
<1>2. q \in Int /\ p = B * q + (p % B) /\ p % B \in 0 .. B - 1
  BY <1>1, SMTT(30)
<1> HIDE DEF q
<1>3. (p % B) + j < B
  BY DEF Slot, B
<1>4. p + j = B * q + ((p % B) + j)
  BY <1>2, <1>1, SMT
<1> DEFINE x == p + j
           d == x \div B
<1>5. d \in Int /\ x = B * d + (x % B) /\ x % B \in 0 .. B - 1
  BY <1>1, SMTT(30)
<1> HIDE DEF d
<1>6. (p + j) % B = (p % B) + j
  <2>1. B * (q - d) = (x % B) - ((p % B) + j)
    BY <1>1, <1>2, <1>4, <1>5, SMTT(30)
  <2>2. CASE q - d >= 1
    <3>1. B * (q - d) >= B
      BY <1>1, <1>2, <1>5, <2>2, SMTT(30)
    <3> QED BY <3>1, <2>1, <1>1, <1>2, <1>5, SMT
  <2>3. CASE q - d <= -1
    <3>1. B * (q - d) <= -B
      BY <1>1, <1>2, <1>5, <2>3, SMTT(30)
    <3> QED BY <3>1, <2>1, <1>1, <1>2, <1>3, <1>5, SMT
  <2>4. CASE q - d = 0
    BY <2>1, <2>4, <1>1, <1>2, <1>5, SMTT(30)
  <2> QED BY <2>2, <2>3, <2>4, <1>2, <1>5, SMT
<1> QED
  BY <1>6 DEF Slot, B

(* Two positions less than a lap apart have different slots. *)
LEMMA SlotDistinct ==
  ASSUME NEW p \in Nat, NEW q \in Nat, p < q, q < p + BufferSize
  PROVE  Slot(p) # Slot(q)
<1> DEFINE B == BufferSize
           a == p \div B
           b == q \div B
<1>1. B \in Nat /\ B > 0
  BY BufferSizePositive, SMT
<1> HIDE DEF B
<1>2. /\ a \in Int /\ p = B * a + (p % B) /\ p % B \in 0 .. B - 1
      /\ b \in Int /\ q = B * b + (q % B) /\ q % B \in 0 .. B - 1
  BY <1>1, SMTT(30)
<1> HIDE DEF a, b
<1>3. SUFFICES ASSUME p % B = q % B PROVE FALSE
  BY DEF Slot, B
<1>4. B * (b - a) = q - p
  BY <1>1, <1>2, <1>3, SMTT(30)
<1>5. q - p \in 1 .. B - 1
  BY <1>1, SMT DEF B
<1>6. CASE b - a <= 0
  BY <1>1, <1>2, <1>4, <1>5, <1>6, SMTT(30)
<1>7. CASE b - a >= 1
  <2>1. B * (b - a) >= B
    BY <1>1, <1>2, <1>7, SMTT(30)
  <2> QED BY <2>1, <1>4, <1>5, <1>1, SMT
<1> QED
  BY <1>6, <1>7, <1>2, SMT

-----------------------------------------------------------------------------
(* The positions and lengths are numbers. *)

(* Every position and length of the writer is a natural number, and those   *)
(* that count bytes given to write() are at most MaxBytes.                  *)
LEMMA Numbers ==
  ASSUME IndInv
  PROVE  /\ \A u \in Threads : thread_pos[u] \in Nat /\ length[u] \in Nat
         /\ next_thread_pos \in Nat /\ next_thread_pos <= MaxBytes
         /\ next_thread_end_pos \in Nat /\ next_thread_end_pos <= MaxBytes
         /\ producer_reserved_write_pos \in Nat
         /\ producer_reserved_write_pos <= MaxBytes
         /\ producer_reserved_upto_pos \in Nat /\ size \in Nat
<1>1. TypeOK
  BY DEF IndInv
<1>2. MaxBytes \in Nat /\ BlockSize \in Nat /\ BufferSize \in Nat
  BY WriterAssumption, BufferSizePositive
<1>3. \A u \in Threads : thread_pos[u] \in Nat
  BY <1>1 DEF TypeOK
<1>4. \A u \in Threads : length[u] \in Nat
  <2>1. length \in [Threads -> 0 .. BlockSize]
    BY <1>1 DEF TypeOK
  <2> QED
    BY <2>1, <1>2
<1>5. /\ next_thread_pos \in 0 .. MaxBytes /\ next_thread_end_pos \in 0 .. MaxBytes
      /\ producer_reserved_write_pos \in 0 .. MaxBytes
      /\ producer_reserved_upto_pos \in 0 .. MaxBytes + BufferSize
      /\ size \in Nat
  BY <1>1 DEF TypeOK
<1> QED
  BY <1>2, <1>3, <1>4, <1>5

(* A block in progress is not empty and was dispatched. *)
LEMMA ActiveBlock ==
  ASSUME IndInv, NEW t \in Threads, Active(t)
  PROVE  length[t] > 0 /\ thread_pos[t] + length[t] <= next_thread_pos
BY DEF IndInv, BlocksDisjoint

(* What WriterIsFirst says of one thread. *)
LEMMA FirstOf ==
  ASSUME IndInv, NEW u \in Threads
  PROVE  /\ tpc[u] \in {"write_all", "written"} =>
              Active(u) /\ \A v \in Threads : thread_pos[u] <= thread_pos[v]
         /\ tpc[u] = "write_all" => thread_pos[u] = FileEnd
         /\ tpc[u] = "written" => thread_pos[u] + length[u] = FileEnd
         /\ tpc[u] \in Busy \ {"written"} => FileEnd <= thread_pos[u]
BY DEF IndInv, WriterIsFirst, ActiveWhenBusy, Busy

-----------------------------------------------------------------------------
(* Control. *)

ThreadControl == {"loop", "wait_work", "compress", "turn", "wait_turn",
                  "write_all", "written", "exited"}
ProducerControl == {"idle", "write", "wait_space", "reserve", "close", "join",
                    "closed"}

(* b is a, or what a becomes when cond is signalled. *)
MaybeWoken(a, b) == b = a \/ b = WokenThread(a)
MaybeWokenProducer(a, b) == b = a \/ b = WokenProducer(a)

(* A broadcast changes only the control of a thread that waits, and a woken *)
(* thread owns the block it owned while waiting.                            *)
LEMMA MaybeWokenControl ==
  ASSUME NEW a \in ThreadControl, NEW b, MaybeWoken(a, b)
  PROVE  /\ b \in ThreadControl
         /\ b \in Busy <=> a \in Busy
         /\ b \in Busy \ {"compress"} <=> a \in Busy \ {"compress"}
         /\ b \in Busy \ {"written"} <=> a \in Busy \ {"written"}
         /\ b = "compress" <=> a = "compress"
         /\ b = "write_all" <=> a = "write_all"
         /\ b = "written" <=> a = "written"
         /\ b = "exited" <=> a = "exited"
         /\ b \in {"turn", "wait_turn"} <=> a \in {"turn", "wait_turn"}
         /\ b # "turn" => a # "turn"
BY DEF MaybeWoken, WokenThread, ThreadControl, Busy

(* A broadcast changes the producer's control only inside write(). *)
LEMMA MaybeWokenProducerControl ==
  ASSUME NEW a \in ProducerControl, NEW b, MaybeWokenProducer(a, b)
  PROVE  /\ b \in ProducerControl
         /\ b \in Writing <=> a \in Writing
         /\ a \notin Writing => b = a
BY DEF MaybeWokenProducer, WokenProducer, ProducerControl, Writing

-----------------------------------------------------------------------------
(* The top of the loop of compression_thread. *)

(* A thread at the top of its loop, having given up the block it had if    *)
(* any, leaves the invariant intact: by taking a block, leaving or waiting. *)
LEMMA LoopTopPreserves ==
  ASSUME IndInv, NEW t \in Threads,
         NEW pos \in [Threads -> Nat], NEW failed \in BOOLEAN,
         NEW pcs \in [Threads -> ThreadControl],
         pos[t] = UINT64_MAX,
         \A u \in Threads \ {t} : pos[u] = thread_pos[u],
         \A u \in Threads \ {t} : MaybeWoken(tpc[u], pcs[u]),
         tpc[t] \in {"loop", "turn", "written"},
         write_error => failed, tpc[t] = "turn" => failed,
         LoopTop(t, pos, failed, pcs),
         MaybeWokenProducer(ppc, ppc'),
         UNCHANGED <<buffer, next_thread_end_pos, closing,
                     producer_reserved_pos, producer_reserved_write_pos,
                     producer_reserved_upto_pos, error, size, outputbuf,
                     file, fd_open>>
  PROVE  IndInv'
<1> USE WriterAssumption, BufferSizePositive
<1>1. \A u \in Threads \ {t} :
        /\ pcs[u] \in Busy <=> tpc[u] \in Busy
        /\ pcs[u] \in Busy \ {"compress"} <=> tpc[u] \in Busy \ {"compress"}
        /\ pcs[u] \in Busy \ {"written"} <=> tpc[u] \in Busy \ {"written"}
        /\ pcs[u] = "write_all" <=> tpc[u] = "write_all"
        /\ pcs[u] = "written" <=> tpc[u] = "written"
        /\ pcs[u] = "exited" <=> tpc[u] = "exited"
        /\ pcs[u] # "turn" => tpc[u] # "turn"
  <2> TAKE u \in Threads \ {t}
  <2>1. tpc[u] \in ThreadControl /\ MaybeWoken(tpc[u], pcs[u])
    BY DEF IndInv, TypeOK, ThreadControl
  <2> QED
    BY <2>1, MaybeWokenControl
<1>2. /\ ppc' \in ProducerControl
      /\ ppc' \in Writing <=> ppc \in Writing
      /\ ppc \notin Writing => ppc' = ppc
  BY MaybeWokenProducerControl DEF IndInv, TypeOK, ProducerControl
<1>3. ASSUME WorkReady(failed),
             thread_pos' = [pos EXCEPT ![t] = next_thread_pos],
             next_thread_pos' = NextBlockEnd,
             length' = [length EXCEPT ![t] = NextBlockEnd - next_thread_pos],
             tpc' = [pcs EXCEPT ![t] = "compress"],
             write_error' = failed
      PROVE  IndInv'
  <2>1. /\ NextBlockEnd \in 0 .. MaxBytes
        /\ next_thread_pos < NextBlockEnd
        /\ NextBlockEnd <= next_thread_end_pos
        /\ NextBlockEnd - next_thread_pos \in 1 .. BlockSize
    BY <1>3 DEF WorkReady, NextBlockEnd, Min, IndInv, TypeOK
  <2>2. TypeOK'
    BY <1>3, <2>1, <1>2 DEF IndInv, TypeOK, ThreadControl, ProducerControl
  <2>3. ActiveWhenBusy'
    BY <1>3, <1>1 DEF IndInv, TypeOK, ActiveWhenBusy, Active, Busy
  <2>4. PositionsOrdered'
    BY <1>3, <2>1, <1>2 DEF IndInv, TypeOK, PositionsOrdered
  <2>5. ReservationSafe'
    BY <1>3, <2>1 DEF IndInv, TypeOK, ReservationSafe, Active
  <2>20. \A u \in Threads \ {t} : /\ thread_pos'[u] = thread_pos[u]
                                 /\ length'[u] = length[u]
                                 /\ tpc'[u] = pcs[u]
    BY <1>3 DEF IndInv, TypeOK
  <2>21. /\ thread_pos'[t] = next_thread_pos
         /\ length'[t] = NextBlockEnd - next_thread_pos
         /\ tpc'[t] = "compress"
    BY <1>3 DEF IndInv, TypeOK
  <2>6. BlocksDisjoint'
    <3>1. ASSUME NEW u \in Threads, Active(u)'
          PROVE  length'[u] > 0 /\ thread_pos'[u] + length'[u] <= next_thread_pos'
      BY <1>3, <2>1, <2>20, <2>21, <3>1 DEF IndInv, TypeOK, BlocksDisjoint, Active
    <3>2. ASSUME NEW u \in Threads, NEW v \in Threads, Active(u)', Active(v)',
                 u # v
          PROVE  \/ thread_pos'[u] + length'[u] <= thread_pos'[v]
                 \/ thread_pos'[v] + length'[v] <= thread_pos'[u]
      BY <1>3, <2>1, <2>20, <2>21, <3>2 DEF IndInv, TypeOK, BlocksDisjoint, Active
    <3> QED
      BY <3>1, <3>2 DEF BlocksDisjoint
  <2>7. RingHolds'
    BY DEF IndInv, RingHolds, Slot
  <2>8. OutputsRight'
    BY <1>3, <1>1 DEF IndInv, TypeOK, OutputsRight, Busy
  <2>9. FileOrdered' /\ FileEnd' = FileEnd
    BY DEF IndInv, FileOrdered, FileEnd
  <2>30. \A u \in Threads : thread_pos[u] <= next_thread_pos \/ ~Active(u)
    BY DEF IndInv, TypeOK, BlocksDisjoint, Active
  <2>31. FileEnd <= next_thread_pos /\ FileEnd \in Nat
    <3>1. ~write_error
      BY <1>3 DEF WorkReady
    <3>2. CASE FileEnd = next_thread_pos
      BY <3>2 DEF IndInv, TypeOK
    <3>3. ASSUME NEW u \in Threads, tpc[u] \in Busy, thread_pos[u] = FileEnd
          PROVE  FileEnd <= next_thread_pos /\ FileEnd \in Nat
      BY <2>30, <3>3 DEF IndInv, TypeOK, ActiveWhenBusy
    <3> QED
      BY <3>1, <3>2, <3>3 DEF IndInv, BlocksTile
  <2>10. WriterIsFirst'
    <3> SUFFICES ASSUME NEW u \in Threads
                 PROVE  /\ tpc'[u] \in {"write_all", "written"} =>
                             \A v \in Threads : thread_pos'[u] <= thread_pos'[v]
                        /\ tpc'[u] = "write_all" => thread_pos'[u] = FileEnd
                        /\ tpc'[u] = "written" =>
                             thread_pos'[u] + length'[u] = FileEnd
                        /\ tpc'[u] \in Busy \ {"written"} =>
                             FileEnd <= thread_pos'[u]
      BY <2>9 DEF WriterIsFirst
    <3>1. CASE u = t
      BY <3>1, <2>21, <2>31
    <3>2. CASE u # t
      <4>1. /\ thread_pos'[u] = thread_pos[u] /\ length'[u] = length[u]
            /\ tpc'[u] = pcs[u]
        BY <3>2, <2>20
      <4>2. ASSUME tpc[u] \in {"write_all", "written"}, NEW v \in Threads
            PROVE  thread_pos[u] <= thread_pos'[v]
        <5>1. /\ thread_pos[u] <= thread_pos[v]
              /\ thread_pos[u] <= next_thread_pos
          BY <4>2, <2>30, FirstOf
        <5> QED
          BY <5>1, <2>20, <2>21
      <4> QED
        BY <4>1, <4>2, <3>2, <1>1, FirstOf
    <3> QED
      BY <3>1, <3>2
  <2>11. BlocksTile'
    <3> SUFFICES ASSUME ~failed
                 PROVE  /\ \/ FileEnd = next_thread_pos'
                           \/ \E u \in Threads : /\ tpc'[u] \in Busy \ {"written"}
                                                /\ thread_pos'[u] = FileEnd
                        /\ \A u \in Threads : Active(u)' =>
                             \/ thread_pos'[u] + length'[u] = next_thread_pos'
                             \/ \E v \in Threads :
                                  thread_pos'[v] = thread_pos'[u] + length'[u]
      BY <1>3, <2>9 DEF BlocksTile
    <3>1. ~write_error /\ tpc[t] \in {"loop", "written"}
      OBVIOUS
    <3>2. \/ FileEnd = next_thread_pos'
          \/ \E u \in Threads : /\ tpc'[u] \in Busy \ {"written"}
                               /\ thread_pos'[u] = FileEnd
      <4>1. CASE FileEnd = next_thread_pos
        BY <4>1, <2>21 DEF Busy
      <4>2. ASSUME NEW u \in Threads, tpc[u] \in Busy \ {"written"},
                   thread_pos[u] = FileEnd
            PROVE  tpc'[u] \in Busy \ {"written"} /\ thread_pos'[u] = FileEnd
        BY <4>2, <3>1, <1>1, <2>20 DEF Busy
      <4> QED
        BY <4>1, <4>2, <3>1 DEF IndInv, BlocksTile
    <3>3. ASSUME NEW u \in Threads, Active(u)'
          PROVE  \/ thread_pos'[u] + length'[u] = next_thread_pos'
                 \/ \E v \in Threads :
                      thread_pos'[v] = thread_pos'[u] + length'[u]
      <4>1. CASE u = t
        BY <4>1, <1>3, <2>1, <2>21 DEF IndInv, TypeOK
      <4>2. CASE u # t
        <5>1. thread_pos[u] = thread_pos'[u] /\ length[u] = length'[u] /\ Active(u)
          BY <4>2, <3>3, <2>20 DEF Active
        <5>2. CASE thread_pos[u] + length[u] = next_thread_pos
          BY <5>1, <5>2, <2>21
        <5>3. ASSUME NEW v \in Threads, thread_pos[v] = thread_pos[u] + length[u],
                     thread_pos[u] + length[u] # next_thread_pos
              PROVE  thread_pos'[v] = thread_pos'[u] + length'[u]
          <6>1. Active(v) /\ thread_pos[u] < thread_pos[v]
            <7>1. length[u] > 0 /\ thread_pos[u] + length[u] <= next_thread_pos
              BY <5>1, ActiveBlock
            <7>2. /\ thread_pos[u] \in Nat /\ length[u] \in Nat
                  /\ next_thread_pos \in Nat /\ next_thread_pos <= MaxBytes
              BY Numbers
            <7> QED
              <8>1. thread_pos[u] < thread_pos[v] /\ thread_pos[v] <= MaxBytes
                BY <5>3, <7>1, <7>2
              <8>2. thread_pos[v] # UINT64_MAX
                BY <8>1, <7>2, Numbers, WriterAssumption
              <8> QED
                BY <8>1, <8>2 DEF Active
          <6>2. v # t
            <7>1. ASSUME v = t PROVE FALSE
              <8>1. tpc[v] = "written"
                BY <7>1, <6>1, <3>1 DEF IndInv, ActiveWhenBusy, Busy
              <8>2. thread_pos[v] <= thread_pos[u]
                BY <8>1 DEF IndInv, WriterIsFirst
              <8> QED
                BY <8>2, <6>1, Numbers
            <7> QED
              BY <7>1
          <6> QED
            BY <6>2, <5>1, <5>3, <2>20
        <5> QED
          BY <5>1, <5>2, <5>3, <3>1 DEF IndInv, BlocksTile
      <4> QED
        BY <4>1, <4>2
    <3> QED
      BY <3>2, <3>3
  <2>12. ExitsAfterClose'
    <3>1. \A u \in Threads : tpc'[u] = "exited" => tpc[u] = "exited"
      BY <1>1, <2>20, <2>21
    <3>2. next_thread_pos # next_thread_end_pos /\ ~write_error
      BY <1>3 DEF WorkReady, IndInv, TypeOK
    <3> QED
      BY <1>2, <1>3, <3>1, <3>2 DEF IndInv, ExitsAfterClose, Writing
  <2>13. CloseComplete'
    BY <2>9, <1>2 DEF IndInv, CloseComplete, Writing
  <2> QED
    BY <2>2, <2>3, <2>4, <2>5, <2>6, <2>7, <2>8, <2>9, <2>10, <2>11, <2>12,
       <2>13 DEF IndInv
<1>4. ASSUME ~WorkReady(failed),
             tpc' = [pcs EXCEPT ![t] =
               IF closing /\ (failed \/ next_thread_pos = next_thread_end_pos)
               THEN "exited" ELSE "wait_work"],
             thread_pos' = pos,
             UNCHANGED <<next_thread_pos, length>>,
             write_error' = failed
      PROVE  IndInv'
  <2>1. /\ \A u \in Threads \ {t} : /\ thread_pos'[u] = thread_pos[u]
                                  /\ tpc'[u] = pcs[u]
        /\ ~Active(t)'
        /\ tpc'[t] \in {"exited", "wait_work"}
        /\ tpc'[t] = "exited" =>
             closing /\ (failed \/ next_thread_pos = next_thread_end_pos)
    BY <1>4 DEF IndInv, TypeOK, Active
  <2>2. TypeOK'
    BY <1>4, <1>2 DEF IndInv, TypeOK, ThreadControl, ProducerControl
  <2>3. ActiveWhenBusy'
    BY <1>1, <2>1 DEF IndInv, TypeOK, ActiveWhenBusy, Active, Busy
  <2>4. PositionsOrdered'
    BY <1>4, <1>2 DEF IndInv, TypeOK, PositionsOrdered
  <2>5. ReservationSafe'
    BY <1>4, <2>1 DEF IndInv, TypeOK, ReservationSafe, Active
  <2>6. BlocksDisjoint'
    BY <1>4, <2>1 DEF IndInv, TypeOK, BlocksDisjoint, Active
  <2>7. RingHolds'
    BY DEF IndInv, RingHolds, Slot
  <2>8. OutputsRight'
    BY <1>1, <1>4, <2>1 DEF IndInv, TypeOK, OutputsRight, Busy
  <2>9. FileOrdered' /\ FileEnd' = FileEnd
    BY DEF IndInv, FileOrdered, FileEnd
  <2>10. WriterIsFirst'
    <3> SUFFICES ASSUME NEW u \in Threads
                 PROVE  /\ tpc'[u] \in {"write_all", "written"} =>
                             \A v \in Threads : thread_pos'[u] <= thread_pos'[v]
                        /\ tpc'[u] = "write_all" => thread_pos'[u] = FileEnd
                        /\ tpc'[u] = "written" =>
                             thread_pos'[u] + length'[u] = FileEnd
                        /\ tpc'[u] \in Busy \ {"written"} =>
                             FileEnd <= thread_pos'[u]
      BY <2>9 DEF WriterIsFirst
    <3>1. CASE u = t
      BY <3>1, <2>1 DEF Busy
    <3>2. CASE u # t
      <4>1. thread_pos'[u] = thread_pos[u] /\ length' = length /\ tpc'[u] = pcs[u]
        BY <3>2, <1>4, <2>1
      <4>2. ASSUME tpc[u] \in {"write_all", "written"}, NEW v \in Threads
            PROVE  thread_pos[u] <= thread_pos'[v]
        <5>1. thread_pos[u] <= thread_pos[v] /\ Active(u)
          BY <4>2, FirstOf
        <5>2. /\ length[u] > 0 /\ thread_pos[u] + length[u] <= next_thread_pos
              /\ thread_pos[u] \in Nat /\ length[u] \in Nat
              /\ next_thread_pos \in Nat /\ next_thread_pos <= MaxBytes
          BY <5>1, ActiveBlock, Numbers
        <5>3. thread_pos[u] <= UINT64_MAX
          BY <5>2, WriterAssumption
        <5>4. thread_pos'[t] = UINT64_MAX
          BY <2>1 DEF Active
        <5> QED
          BY <5>1, <5>3, <5>4, <2>1
      <4> QED
        BY <4>1, <4>2, <3>2, <1>1, FirstOf
    <3> QED
      BY <3>1, <3>2
  <2>11. BlocksTile'
    <3> SUFFICES ASSUME ~failed
                 PROVE  /\ \/ FileEnd = next_thread_pos
                           \/ \E u \in Threads : /\ tpc'[u] \in Busy \ {"written"}
                                                /\ thread_pos'[u] = FileEnd
                        /\ \A u \in Threads : Active(u)' =>
                             \/ thread_pos'[u] + length[u] = next_thread_pos
                             \/ \E v \in Threads :
                                  thread_pos'[v] = thread_pos'[u] + length[u]
      BY <1>4, <2>9 DEF BlocksTile
    <3>1. ~write_error /\ tpc[t] \in {"loop", "written"}
      OBVIOUS
    <3>2. ASSUME NEW u \in Threads, tpc[u] \in Busy \ {"written"},
                 thread_pos[u] = FileEnd
          PROVE  tpc'[u] \in Busy \ {"written"} /\ thread_pos'[u] = FileEnd
      BY <3>2, <3>1, <1>1, <2>1 DEF Busy
    <3>3. ASSUME NEW u \in Threads, Active(u)'
          PROVE  \/ thread_pos'[u] + length[u] = next_thread_pos
                 \/ \E v \in Threads : thread_pos'[v] = thread_pos'[u] + length[u]
      <4>1. u # t /\ thread_pos[u] = thread_pos'[u] /\ Active(u)
        BY <3>3, <2>1 DEF Active
      <4>2. ASSUME NEW v \in Threads, thread_pos[v] = thread_pos[u] + length[u],
                   thread_pos[u] + length[u] # next_thread_pos
            PROVE  thread_pos'[v] = thread_pos'[u] + length[u]
        <5>1. Active(v) /\ thread_pos[u] < thread_pos[v]
          <6>1. length[u] > 0 /\ thread_pos[u] + length[u] <= next_thread_pos
            BY <4>1, ActiveBlock
          <6>2. /\ thread_pos[u] \in Nat /\ length[u] \in Nat
                /\ next_thread_pos \in Nat /\ next_thread_pos <= MaxBytes
            BY Numbers
          <6>3. thread_pos[u] < thread_pos[v] /\ thread_pos[v] <= MaxBytes
            BY <4>2, <6>1, <6>2
          <6>4. thread_pos[v] # UINT64_MAX
            BY <6>3, <6>2, Numbers, WriterAssumption
          <6> QED
            BY <6>3, <6>4 DEF Active
        <5>2. ASSUME v = t PROVE FALSE
          <6>1. tpc[v] = "written"
            BY <5>2, <5>1, <3>1 DEF IndInv, ActiveWhenBusy, Busy
          <6>2. thread_pos[v] <= thread_pos[u]
            BY <6>1 DEF IndInv, WriterIsFirst
          <6> QED
            BY <6>2, <5>1, Numbers
        <5> QED
          BY <5>2, <4>1, <4>2, <2>1
      <4> QED
        BY <4>1, <4>2, <3>1 DEF IndInv, BlocksTile
    <3> QED
      BY <3>1, <3>2, <3>3 DEF IndInv, BlocksTile
  <2>12. ExitsAfterClose'
    BY <1>1, <1>2, <1>4, <2>1 DEF IndInv, TypeOK, ExitsAfterClose, Writing
  <2>13. CloseComplete'
    BY <2>9, <1>2 DEF IndInv, CloseComplete, Writing
  <2> QED
    BY <2>2, <2>3, <2>4, <2>5, <2>6, <2>7, <2>8, <2>9, <2>10, <2>11, <2>12,
       <2>13 DEF IndInv
<1> QED
  BY <1>3, <1>4 DEF LoopTop

-----------------------------------------------------------------------------
(* The producer. *)

(* The loop of update_reservation only ever extends the reservation, and    *)
(* never over a byte that some thread has yet to compress.                  *)
LEMMA ReserveLoopSafe ==
  ASSUME IndInv, NEW pos, NEW wait \in BOOLEAN, NEW pc,
         ReserveLoop(pos, wait, pc)
  PROVE  /\ producer_reserved_upto_pos' \in 0 .. MaxBytes + BufferSize
         /\ producer_reserved_write_pos <= producer_reserved_upto_pos'
         /\ producer_reserved_upto_pos' <= next_thread_pos + BufferSize
         /\ \A t \in Threads : Active(t) =>
              producer_reserved_upto_pos' <= thread_pos[t] + BufferSize
         /\ error' \in BOOLEAN
         /\ error => error'
         /\ ppc' = pc \/ (ppc' = "wait_space" /\ wait)
<1> USE WriterAssumption, BufferSizePositive
<1>1. CASE error \/ write_error
  BY <1>1 DEF ReserveLoop, IndInv, TypeOK, ReservationSafe
<1>2. CASE ~error /\ ~write_error
  <2>1. PICK c \in 0 .. MaxBytes :
          /\ CompletedPos(c)
          /\ producer_reserved_upto_pos' = c + BufferSize
          /\ ppc' = IF pos < c + BufferSize \/ ~wait THEN pc ELSE "wait_space"
    BY <1>2 DEF ReserveLoop
  <2>2. error' = error
    BY <1>2 DEF ReserveLoop
  <2>3. producer_reserved_write_pos <= c + BufferSize
    <3>1. CASE c = next_thread_pos
      BY <3>1 DEF IndInv, TypeOK, ReservationSafe
    <3>2. ASSUME NEW t \in Threads, c = thread_pos[t]
          PROVE  producer_reserved_write_pos <= c + BufferSize
      <4>1. Active(t)
        BY <3>2 DEF Active
      <4> QED
        BY <3>2, <4>1 DEF IndInv, TypeOK, ReservationSafe
    <3> QED
      BY <2>1, <3>1, <3>2 DEF CompletedPos
  <2>4. ppc' = pc \/ (ppc' = "wait_space" /\ wait)
    BY <2>1
  <2>5. /\ producer_reserved_upto_pos' \in 0 .. MaxBytes + BufferSize
        /\ producer_reserved_upto_pos' <= next_thread_pos + BufferSize
    BY <2>1 DEF CompletedPos, IndInv, TypeOK
  <2>6. ASSUME NEW t \in Threads
        PROVE  producer_reserved_upto_pos' <= thread_pos[t] + BufferSize
    BY <2>1 DEF CompletedPos, IndInv, TypeOK
  <2> QED
    BY <2>1, <2>2, <2>3, <2>4, <2>5, <2>6, <1>2 DEF IndInv, TypeOK
<1> QED
  BY <1>1, <1>2 DEF IndInv, TypeOK

(* Steps that leave the blocks, the ring, the output and the file alone     *)
(* keep what the invariant says of them.                                    *)
LEMMA BlocksKept ==
  ASSUME IndInv,
         \A t \in Threads : MaybeWoken(tpc[t], tpc'[t]),
         tpc' \in [Threads -> ThreadControl],
         UNCHANGED <<buffer, thread_pos, next_thread_pos, write_error,
                     producer_reserved_write_pos, local, file>>
  PROVE  /\ ActiveWhenBusy'
         /\ BlocksDisjoint'
         /\ RingHolds'
         /\ OutputsRight'
         /\ FileOrdered'
         /\ FileEnd' = FileEnd
         /\ WriterIsFirst'
         /\ BlocksTile'
         /\ \A t \in Threads : tpc'[t] = "exited" <=> tpc[t] = "exited"
<1>1. \A u \in Threads :
        /\ tpc'[u] \in Busy <=> tpc[u] \in Busy
        /\ tpc'[u] \in Busy \ {"compress"} <=> tpc[u] \in Busy \ {"compress"}
        /\ tpc'[u] \in Busy \ {"written"} <=> tpc[u] \in Busy \ {"written"}
        /\ tpc'[u] = "write_all" <=> tpc[u] = "write_all"
        /\ tpc'[u] = "written" <=> tpc[u] = "written"
        /\ tpc'[u] = "exited" <=> tpc[u] = "exited"
        /\ tpc'[u] # "turn" => tpc[u] # "turn"
  <2> TAKE u \in Threads
  <2>1. tpc[u] \in ThreadControl /\ MaybeWoken(tpc[u], tpc'[u])
    BY DEF IndInv, TypeOK, ThreadControl
  <2> QED
    BY <2>1, MaybeWokenControl
<1>2. ActiveWhenBusy'
  BY <1>1 DEF IndInv, ActiveWhenBusy, Active
<1>3. BlocksDisjoint'
  BY DEF IndInv, BlocksDisjoint, Active, local
<1>4. RingHolds'
  BY DEF IndInv, RingHolds, Slot
<1>5. OutputsRight'
  BY <1>1 DEF IndInv, OutputsRight, local
<1>6. FileOrdered' /\ FileEnd' = FileEnd
  BY DEF IndInv, FileOrdered, FileEnd
<1>7. WriterIsFirst'
  BY <1>1, <1>6 DEF IndInv, WriterIsFirst, local
<1>8. BlocksTile'
  BY <1>1, <1>6 DEF IndInv, BlocksTile, Active, local
<1> QED
  BY <1>1, <1>2, <1>3, <1>4, <1>5, <1>6, <1>7, <1>8

(* Being woken, each thread is where a broadcast leaves it. *)
LEMMA AllWoken ==
  ASSUME IndInv, tpc' = [t \in Threads |-> WokenThread(tpc[t])]
  PROVE  /\ tpc' \in [Threads -> ThreadControl]
         /\ \A t \in Threads : MaybeWoken(tpc[t], tpc'[t])
BY DEF IndInv, TypeOK, ThreadControl, WokenThread, MaybeWoken

(* update_reservation keeps the invariant, from write() and from close().   *)
LEMMA UpdateReservationPreserves ==
  ASSUME IndInv, NEW wait \in BOOLEAN, NEW pc \in {"write", "idle", "close"},
         update_reservation(wait, pc),
         ppc \in {"write", "idle"},
         pc = "write" => ppc = "write",
         wait => pc = "write",
         pc = "close" => fd_open
  PROVE  IndInv'
<1> USE WriterAssumption, BufferSizePositive
<1>1. /\ producer_reserved_upto_pos' \in 0 .. MaxBytes + BufferSize
      /\ producer_reserved_write_pos <= producer_reserved_upto_pos'
      /\ producer_reserved_upto_pos' <= next_thread_pos + BufferSize
      /\ \A t \in Threads : Active(t) =>
           producer_reserved_upto_pos' <= thread_pos[t] + BufferSize
      /\ error' \in BOOLEAN
      /\ error => error'
      /\ ppc' = pc \/ (ppc' = "wait_space" /\ wait)
  BY ReserveLoopSafe DEF update_reservation
<1>2. /\ UNCHANGED <<buffer, thread_pos, next_thread_pos, write_error,
                     producer_reserved_write_pos, local, file>>
      /\ UNCHANGED <<closing, size, fd_open>>
      /\ next_thread_end_pos' = producer_reserved_write_pos
      /\ producer_reserved_pos' = producer_reserved_write_pos
      /\ tpc' = [t \in Threads |-> WokenThread(tpc[t])]
  BY DEF update_reservation
<1>3. /\ tpc' \in [Threads -> ThreadControl]
      /\ \A t \in Threads : MaybeWoken(tpc[t], tpc'[t])
  BY <1>2, AllWoken
<1>4. /\ ActiveWhenBusy' /\ BlocksDisjoint' /\ RingHolds' /\ OutputsRight'
      /\ FileOrdered' /\ FileEnd' = FileEnd /\ WriterIsFirst' /\ BlocksTile'
      /\ \A t \in Threads : tpc'[t] = "exited" <=> tpc[t] = "exited"
  BY <1>2, <1>3, BlocksKept
<1>5. TypeOK'
  BY <1>1, <1>2, <1>3 DEF IndInv, TypeOK, ThreadControl, local
<1>6. PositionsOrdered'
  BY <1>1, <1>2 DEF IndInv, TypeOK, PositionsOrdered, Writing
<1>7. ReservationSafe'
  BY <1>1, <1>2 DEF ReservationSafe, Active
<1>8. ExitsAfterClose'
  BY <1>1, <1>2, <1>4 DEF IndInv, TypeOK, ExitsAfterClose
<1>9. CloseComplete'
  BY <1>1 DEF CloseComplete
<1> QED
  BY <1>4, <1>5, <1>6, <1>7, <1>8, <1>9 DEF IndInv

(* WriteCopy: memcpy into the reserved part of the ring replaces only bytes *)
(* that left the buffer.                                                    *)
LEMMA WriteCopyPreserves == ASSUME IndInv, WriteCopy PROVE IndInv'
<1> USE WriterAssumption, BufferSizePositive
<1> DEFINE w == producer_reserved_write_pos
           offset == Slot(w)
           reservation == producer_reserved_upto_pos - w
           amount == Min(BufferSize - offset, Min(reservation, size))
<1>1. /\ buffer' = [s \in 0 .. BufferSize - 1 |->
                      IF s \in offset .. offset + amount - 1
                      THEN w + (s - offset) ELSE buffer[s]]
      /\ producer_reserved_write_pos' = w + amount
      /\ size' = size - amount
      /\ ppc = "write" /\ size > 0
      /\ producer_reserved_upto_pos # w
      /\ UNCHANGED <<shared, producer_reserved_pos, producer_reserved_upto_pos,
                     error, ppc, tpc, local, file, fd_open>>
  BY DEF WriteCopy
<1>2. w \in Nat /\ offset \in 0 .. BufferSize - 1 /\ reservation \in Nat \ {0}
  <2>1. w \in Nat
    BY DEF IndInv, TypeOK
  <2> QED
    BY <1>1, <2>1, SlotInRange DEF IndInv, TypeOK, ReservationSafe
<1> HIDE DEF offset, reservation
<1>3. /\ amount \in Nat \ {0}
      /\ amount <= size /\ amount <= reservation /\ offset + amount <= BufferSize
  <2>1. size \in Nat /\ size > 0
    BY <1>1 DEF IndInv, TypeOK
  <2>2. BufferSize - offset \in Nat \ {0}
    BY <1>2
  <2> QED
    BY <2>1, <2>2, <1>2 DEF Min
<1> HIDE DEF amount
<1>4. TypeOK'
  BY <1>1, <1>2, <1>3 DEF IndInv, TypeOK, PositionsOrdered, Writing, shared, local
<1>5. PositionsOrdered'
  BY <1>1, <1>2, <1>3 DEF IndInv, TypeOK, PositionsOrdered, Writing, shared
<1>6. ReservationSafe'
  BY <1>1, <1>2, <1>3 DEF IndInv, TypeOK, ReservationSafe, Active, shared, reservation
<1>7. RingHolds'
  <2> SUFFICES ASSUME NEW p \in 0 .. MaxBytes,
                      p < w + amount, w + amount <= p + BufferSize
               PROVE  buffer'[Slot(p)] = p
    BY <1>1 DEF RingHolds, Slot
  <2>1. Slot(p) \in 0 .. BufferSize - 1
    BY SlotInRange
  <2>2. CASE p >= w
    <3>1. p - w \in Nat /\ offset + (p - w) < BufferSize /\ p = w + (p - w)
      BY <1>2, <1>3, <2>2
    <3>2. Slot(p) = offset + (p - w)
      BY <3>1, <1>2, SlotAdd DEF offset
    <3> QED
      BY <3>1, <3>2, <2>1, <1>1, <1>2, <1>3
  <2>3. CASE p < w
    <3>1. Slot(p) \notin offset .. offset + amount - 1
      <4> SUFFICES ASSUME Slot(p) \in offset .. offset + amount - 1 PROVE FALSE
        OBVIOUS
      <4> DEFINE j == Slot(p) - offset
      <4>1. j \in Nat /\ j < amount /\ offset + j < BufferSize
        BY <1>2, <1>3, <2>1
      <4>2. Slot(w + j) = offset + j
        BY <4>1, <1>2, SlotAdd DEF offset
      <4>3. p < w + j /\ w + j < p + BufferSize /\ w + j \in Nat
        BY <4>1, <1>2, <1>3, <2>3
      <4>4. Slot(p) # Slot(w + j)
        BY <4>3, SlotDistinct
      <4> QED
        BY <4>2, <4>4, <2>1, <1>2
    <3>2. buffer'[Slot(p)] = buffer[Slot(p)]
      BY <3>1, <2>1, <1>1
    <3>3. p < w /\ w <= p + BufferSize
      BY <2>3, <1>2, <1>3
    <3> QED
      BY <3>2, <3>3 DEF IndInv, RingHolds
  <2> QED
    BY <2>2, <2>3, <1>2
<1>8. /\ ActiveWhenBusy' /\ BlocksDisjoint' /\ OutputsRight'
      /\ FileOrdered' /\ FileEnd' = FileEnd /\ WriterIsFirst' /\ BlocksTile'
  <2>1. UNCHANGED <<thread_pos, next_thread_pos, write_error, tpc, length,
                    outputbuf, file>>
    BY <1>1 DEF shared, local
  <2>2. FileEnd' = FileEnd /\ FileOrdered'
    BY <2>1 DEF IndInv, FileOrdered, FileEnd
  <2>3. ActiveWhenBusy' /\ BlocksDisjoint'
    BY <2>1 DEF IndInv, ActiveWhenBusy, BlocksDisjoint, Active
  <2>4. OutputsRight'
    BY <2>1 DEF IndInv, OutputsRight
  <2>5. WriterIsFirst' /\ BlocksTile'
    BY <2>1, <2>2 DEF IndInv, WriterIsFirst, BlocksTile, Active
  <2> QED
    BY <2>2, <2>3, <2>4, <2>5
<1>9. ExitsAfterClose' /\ CloseComplete'
  BY <1>1 DEF IndInv, ExitsAfterClose, CloseComplete, shared
<1> QED
  BY <1>4, <1>5, <1>6, <1>7, <1>8, <1>9 DEF IndInv

-----------------------------------------------------------------------------
(* The compression threads. *)

(* do_compress reads exactly the bytes of the block it was given. *)
LEMMA CompressPreserves ==
  ASSUME IndInv, NEW t \in Threads, do_compress(t)
  PROVE  IndInv'
<1> USE WriterAssumption, BufferSizePositive
<1>1. /\ tpc[t] = "compress"
      /\ tpc' = [tpc EXCEPT ![t] = "turn"]
      /\ UNCHANGED <<buffer, shared, producer, length, file, fd_open>>
  BY DEF do_compress
<1>2. PICK ok \in BOOLEAN :
        outputbuf' = [outputbuf EXCEPT ![t] =
          IF ok THEN [k \in 1 .. length[t] |-> buffer[Slot(thread_pos[t] + k - 1)]]
                ELSE <<>>]
  BY DEF do_compress
<1>3. \A k \in 1 .. length[t] :
        buffer[Slot(thread_pos[t] + k - 1)] = thread_pos[t] + k - 1
  <2> TAKE k \in 1 .. length[t]
  <2>1. /\ Active(t) /\ thread_pos[t] \in Nat
        /\ length[t] \in Nat /\ thread_pos[t] + length[t] <= next_thread_pos
    BY <1>1 DEF IndInv, TypeOK, ActiveWhenBusy, Busy, BlocksDisjoint
  <2>2. /\ thread_pos[t] + k - 1 \in 0 .. MaxBytes
        /\ thread_pos[t] + k - 1 < producer_reserved_write_pos
        /\ producer_reserved_write_pos <= thread_pos[t] + k - 1 + BufferSize
    <3>1. /\ producer_reserved_write_pos <= producer_reserved_upto_pos
          /\ producer_reserved_upto_pos <= thread_pos[t] + BufferSize
          /\ next_thread_pos <= next_thread_end_pos
          /\ next_thread_end_pos <= producer_reserved_write_pos
      BY <2>1 DEF IndInv, PositionsOrdered, ReservationSafe
    <3>2. /\ producer_reserved_write_pos \in 0 .. MaxBytes
          /\ producer_reserved_upto_pos \in Nat
          /\ next_thread_pos \in Nat /\ next_thread_end_pos \in Nat
      BY DEF IndInv, TypeOK
    <3> QED
      BY <2>1, <3>1, <3>2
  <2> QED
    BY <2>2 DEF IndInv, RingHolds
<1>4. /\ \A u \in Threads \ {t} : tpc'[u] = tpc[u] /\ outputbuf'[u] = outputbuf[u]
      /\ tpc'[t] = "turn"
      /\ outputbuf'[t] # <<>> =>
           outputbuf'[t] = [k \in 1 .. length[t] |-> thread_pos[t] + k - 1]
  <2>1. ok => outputbuf'[t] = [k \in 1 .. length[t] |-> thread_pos[t] + k - 1]
    BY <1>2, <1>3 DEF IndInv, TypeOK
  <2>2. ~ok => outputbuf'[t] = <<>>
    BY <1>2 DEF IndInv, TypeOK
  <2> QED
    BY <1>1, <1>2, <2>1, <2>2 DEF IndInv, TypeOK
<1>5. TypeOK'
  <2>1. outputbuf'[t] \in Seq(Int)
    <3>1. CASE outputbuf'[t] = <<>>
      BY <3>1
    <3>2. CASE outputbuf'[t] = [k \in 1 .. length[t] |-> thread_pos[t] + k - 1]
      <4>1. length[t] \in Nat /\ thread_pos[t] \in Nat
        BY DEF IndInv, TypeOK
      <4>2. \A k \in 1 .. length[t] : thread_pos[t] + k - 1 \in Int
        BY <4>1
      <4>3. [k \in 1 .. length[t] |-> thread_pos[t] + k - 1]
              \in [1 .. length[t] -> Int]
        BY <4>2
      <4> QED
        BY <3>2, <4>1, <4>3 DEF Seq
    <3> QED
      BY <3>1, <3>2, <1>4
  <2>2. outputbuf' \in [Threads -> Seq(Int)]
    BY <2>1, <1>2, <1>4 DEF IndInv, TypeOK
  <2> QED
    BY <1>1, <2>2 DEF IndInv, TypeOK, shared, producer
<1>6. OutputsRight'
  <2> SUFFICES ASSUME NEW u \in Threads, tpc'[u] \in Busy \ {"compress"}
               PROVE  /\ outputbuf'[u] # <<>> =>
                           outputbuf'[u] =
                             [k \in 1 .. length[u] |-> thread_pos[u] + k - 1]
                      /\ tpc'[u] # "turn" => outputbuf'[u] # <<>>
    BY <1>1 DEF OutputsRight, shared
  <2>1. CASE u = t
    BY <2>1, <1>4
  <2>2. CASE u # t
    BY <2>2, <1>4 DEF IndInv, OutputsRight
  <2> QED
    BY <2>1, <2>2
<1>7. /\ ActiveWhenBusy' /\ WriterIsFirst' /\ FileEnd' = FileEnd
  BY <1>1, <1>4 DEF IndInv, ActiveWhenBusy, WriterIsFirst, Active, Busy,
     shared, FileEnd
<1>8. PositionsOrdered' /\ ReservationSafe' /\ BlocksDisjoint' /\ RingHolds'
  BY <1>1 DEF IndInv, PositionsOrdered, ReservationSafe, BlocksDisjoint,
     RingHolds, Active, Slot, shared, producer
<1>9. FileOrdered' /\ CloseComplete'
  BY <1>1 DEF IndInv, FileOrdered, CloseComplete, FileEnd, producer
<1>10. BlocksTile'
  <2>1. \A u \in Threads : tpc[u] \in Busy \ {"written"} =>
                           tpc'[u] \in Busy \ {"written"}
    BY <1>1, <1>4 DEF Busy
  <2> QED
    BY <1>1, <1>7, <2>1 DEF IndInv, BlocksTile, Active, shared
<1>11. ExitsAfterClose'
  BY <1>1, <1>4 DEF IndInv, ExitsAfterClose, shared, producer
<1> QED
  BY <1>5, <1>6, <1>7, <1>8, <1>9, <1>10, <1>11 DEF IndInv

(* Appending the block that starts where the file ends keeps the file in    *)
(* stream order.                                                            *)
LEMMA AppendOrdered ==
  ASSUME TypeOK, FileOrdered, NEW pos \in Nat, NEW n \in Nat \ {0},
         pos = FileEnd,
         file' = Append(file, [k \in 1 .. n |-> pos + k - 1])
  PROVE  FileOrdered' /\ FileEnd' = pos + n /\ file' \in Seq(Seq(Int))
<1> DEFINE block == [k \in 1 .. n |-> pos + k - 1]
<1>1. /\ block \in Seq(Int) /\ Len(block) = n
      /\ \A k \in 1 .. n : block[k] = pos + k - 1
      /\ block # <<>>
  <2>1. block \in [1 .. n -> Int]
    OBVIOUS
  <2>2. block \in Seq(Int) /\ Len(block) = n
    BY <2>1 DEF Seq
  <2> QED
    BY <2>1, <2>2
<1> HIDE DEF block
<1> DEFINE f == file'
<1>2. /\ file \in Seq(Seq(Int)) /\ f = Append(file, block)
      /\ f \in Seq(Seq(Int)) /\ f # <<>> /\ Len(f) = Len(file) + 1
      /\ \A b \in 1 .. Len(file) : f[b] = file[b]
      /\ f[Len(file) + 1] = block
  <2>1. file \in Seq(Seq(Int)) /\ f = Append(file, block)
    BY DEF TypeOK, block
  <2>2. block \in Seq(Int)
    BY <1>1
  <2>3. /\ Append(file, block) \in Seq(Seq(Int))
        /\ Append(file, block) # <<>>
        /\ Len(Append(file, block)) = Len(file) + 1
        /\ \A b \in 1 .. Len(file) : Append(file, block)[b] = file[b]
        /\ Append(file, block)[Len(file) + 1] = block
    BY <2>1, <2>2, AppendProperties
  <2> HIDE DEF f
  <2> QED
    BY <2>1, <2>3, Zenon
<1>3. Len(file) \in Nat /\ DOMAIN f = 1 .. Len(file) + 1 /\ DOMAIN file = 1 .. Len(file)
  <2>1. Len(file) \in Nat /\ DOMAIN file = 1 .. Len(file)
    BY <1>2, LenProperties
  <2>2. DOMAIN f = 1 .. Len(f)
    BY <1>2, LenProperties
  <2> QED
    BY <2>1, <2>2, <1>2
<1> HIDE DEF f
<1>4. FileEnd' = pos + n
  <2>1. FileEnd' = f[Len(f)][Len(f[Len(f)])] + 1
    BY <1>2 DEF FileEnd, f
  <2>2. FileEnd' = block[n] + 1
    BY <2>1, <1>1, <1>2
  <2> QED
    BY <2>2, <1>1
<1>5. ASSUME NEW b \in DOMAIN f
      PROVE  /\ f[b] # <<>>
             /\ \A k \in 1 .. Len(f[b]) - 1 : f[b][k + 1] = f[b][k] + 1
  <2>1. CASE b \in 1 .. Len(file)
    <3>1. f[b] = file[b] /\ b \in DOMAIN file
      BY <2>1, <1>2, <1>3
    <3> QED
      BY <3>1 DEF FileOrdered
  <2>2. CASE b = Len(file) + 1
    <3>1. f[b] = block
      BY <2>2, <1>2
    <3>2. \A k \in 1 .. n - 1 : block[k + 1] = block[k] + 1
      BY <1>1
    <3> QED
      BY <3>1, <3>2, <1>1
  <2> QED
    BY <2>1, <2>2, <1>3
<1>6. f[1][1] = 0
  <2>1. CASE file = <<>>
    <3>1. pos = 0 /\ Len(file) = 0 /\ f[1] = block
      BY <2>1, <1>2 DEF FileEnd
    <3> QED
      BY <3>1, <1>1
  <2>2. CASE file # <<>>
    <3>1. 1 \in 1 .. Len(file)
      BY <2>2, <1>2, <1>3, EmptySeq
    <3>2. f[1] = file[1]
      BY <3>1, <1>2
    <3> QED
      BY <3>2, <2>2 DEF FileOrdered
  <2> QED
    BY <2>1, <2>2
<1>7. ASSUME NEW b \in 1 .. Len(f) - 1
      PROVE  f[b + 1][1] = f[b][Len(f[b])] + 1
  <2>1. CASE b \in 1 .. Len(file) - 1
    <3>1. f[b] = file[b] /\ f[b + 1] = file[b + 1]
      BY <2>1, <1>2, <1>3
    <3> QED
      BY <3>1, <2>1 DEF FileOrdered
  <2>2. CASE b = Len(file)
    <3>1. file # <<>> /\ f[b] = file[Len(file)] /\ f[b + 1] = block
      BY <2>2, <1>2, <1>3
    <3>2. f[b][Len(f[b])] + 1 = pos
      BY <3>1 DEF FileEnd
    <3>3. block[1] = pos
      BY <1>1
    <3> QED
      BY <3>1, <3>2, <3>3
  <2>3. b \in 1 .. Len(file) - 1 \/ b = Len(file)
    <3>1. Len(f) = Len(file) + 1 /\ Len(file) \in Nat
      BY <1>2, <1>3
    <3>2. b \in 1 .. Len(file)
      BY <3>1
    <3> QED
      BY <3>1, <3>2
  <2> QED
    BY <2>1, <2>2, <2>3
<1> QED
  BY <1>2, <1>4, <1>5, <1>6, <1>7 DEF FileOrdered, f

(* write_all extends the file by the block that comes next. *)
LEMMA WriteAllPreserves ==
  ASSUME IndInv, NEW t \in Threads, write_all(t)
  PROVE  IndInv'
<1> USE WriterAssumption, BufferSizePositive
<1> DEFINE pos == thread_pos[t]
           n == length[t]
<1>1. /\ tpc[t] = "write_all"
      /\ file' = Append(file, outputbuf[t])
      /\ tpc' = [tpc EXCEPT ![t] = "written"]
      /\ UNCHANGED <<buffer, shared, producer, local, fd_open>>
  BY DEF write_all
<1>2. /\ \A u \in Threads \ {t} : tpc'[u] = tpc[u]
      /\ tpc'[t] = "written"
      /\ UNCHANGED <<thread_pos, next_thread_pos, length, write_error>>
  BY <1>1 DEF IndInv, TypeOK, shared, local
<1>3. /\ Active(t) /\ pos \in Nat /\ n \in Nat \ {0} /\ pos = FileEnd
      /\ outputbuf[t] = [k \in 1 .. n |-> pos + k - 1]
      /\ \A u \in Threads : pos <= thread_pos[u]
  <2>1. Active(t)
    BY <1>1 DEF IndInv, ActiveWhenBusy, Busy
  <2>2. pos \in Nat /\ n \in Nat \ {0}
    BY <2>1 DEF IndInv, TypeOK, BlocksDisjoint
  <2>3. outputbuf[t] = [k \in 1 .. n |-> pos + k - 1]
    BY <1>1 DEF IndInv, OutputsRight, Busy
  <2>4. pos = FileEnd /\ \A u \in Threads : pos <= thread_pos[u]
    BY <1>1 DEF IndInv, WriterIsFirst
  <2> QED
    BY <2>1, <2>2, <2>3, <2>4
<1>4. FileOrdered' /\ FileEnd' = pos + n /\ file' \in Seq(Seq(Int))
  BY <1>1, <1>3, AppendOrdered DEF IndInv
<1>5. \A u \in Threads \ {t} : Active(u) => pos + n <= thread_pos[u]
  BY <1>3 DEF IndInv, TypeOK, BlocksDisjoint
<1>6. \A u \in Threads \ {t} : tpc[u] \notin {"write_all", "written"}
  <2> SUFFICES ASSUME NEW u \in Threads \ {t}, tpc[u] \in {"write_all", "written"}
               PROVE  FALSE
    OBVIOUS
  <2>1. Active(u) /\ thread_pos[u] <= pos
    BY DEF IndInv, ActiveWhenBusy, WriterIsFirst, Busy
  <2> QED
    BY <2>1, <1>3, <1>5 DEF IndInv, TypeOK
<1>7. TypeOK'
  BY <1>1, <1>4 DEF IndInv, TypeOK, shared, producer, local
<1>8. ActiveWhenBusy'
  BY <1>1, <1>2 DEF IndInv, ActiveWhenBusy, Active, Busy
<1>9. PositionsOrdered' /\ ReservationSafe' /\ BlocksDisjoint' /\ RingHolds'
  BY <1>1 DEF IndInv, PositionsOrdered, ReservationSafe, BlocksDisjoint,
     RingHolds, Active, Slot, shared, producer, local
<1>10. OutputsRight'
  BY <1>1, <1>2 DEF IndInv, OutputsRight, Busy, local
<1>11. WriterIsFirst'
  <2> SUFFICES ASSUME NEW u \in Threads
               PROVE  /\ tpc'[u] \in {"write_all", "written"} =>
                           \A v \in Threads : thread_pos[u] <= thread_pos[v]
                      /\ tpc'[u] = "write_all" => thread_pos[u] = pos + n
                      /\ tpc'[u] = "written" => thread_pos[u] + length[u] = pos + n
                      /\ tpc'[u] \in Busy \ {"written"} => pos + n <= thread_pos[u]
    BY <1>2, <1>4 DEF WriterIsFirst
  <2>1. CASE u = t
    BY <2>1, <1>2, <1>3
  <2>2. CASE u # t
    BY <2>2, <1>2, <1>5, <1>6 DEF IndInv, ActiveWhenBusy
  <2> QED
    BY <2>1, <2>2
<1>12. BlocksTile'
  <2> SUFFICES ASSUME ~write_error
               PROVE  \/ pos + n = next_thread_pos
                      \/ \E u \in Threads : /\ tpc'[u] \in Busy \ {"written"}
                                            /\ thread_pos[u] = pos + n
    BY <1>2, <1>4 DEF IndInv, BlocksTile, Active
  <2>1. CASE pos + n = next_thread_pos
    BY <2>1
  <2>2. ASSUME NEW u \in Threads, thread_pos[u] = pos + n, pos + n # next_thread_pos
        PROVE  tpc'[u] \in Busy \ {"written"}
    <3>0. Active(t)
      BY <1>3
    <3>1. pos + n <= next_thread_pos /\ n > 0
      BY <3>0, ActiveBlock
    <3>2. /\ pos \in Nat /\ n \in Nat
          /\ next_thread_pos \in Nat /\ next_thread_pos <= MaxBytes
      BY Numbers
    <3>3. thread_pos[u] # UINT64_MAX
      BY <2>2, <3>1, <3>2, WriterAssumption
    <3>4. u # t
      <4>1. thread_pos[u] # pos
        BY <2>2, <3>1, <3>2
      <4> QED
        BY <4>1
    <3>5. Active(u)
      BY <3>3 DEF Active
    <3>6. tpc[u] \in Busy
      BY <3>5 DEF IndInv, ActiveWhenBusy
    <3> QED
      BY <3>4, <3>6, <1>2, <1>6
  <2> QED
    BY <2>1, <2>2, <1>3 DEF IndInv, BlocksTile
<1>13. ExitsAfterClose'
  BY <1>1, <1>2 DEF IndInv, ExitsAfterClose, shared, producer
<1>14. CloseComplete'
  <2>1. ppc # "closed"
    BY <1>1 DEF IndInv, ExitsAfterClose
  <2> QED
    BY <2>1, <1>1 DEF CloseComplete, producer
<1> QED
  BY <1>4, <1>7, <1>8, <1>9, <1>10, <1>11, <1>12, <1>13, <1>14 DEF IndInv

(* A thread that becomes idle (Finish) after writing or after a failure.    *)
LEMMA FinishPreserves ==
  ASSUME IndInv, NEW t \in Threads, NEW failed \in BOOLEAN,
         tpc[t] \in {"turn", "written"}, write_error => failed,
         tpc[t] = "turn" => failed, Finish(t, failed)
  PROVE  IndInv'
<1> DEFINE pos == [thread_pos EXCEPT ![t] = UINT64_MAX]
           pcs == [u \in Threads |-> WokenThread(tpc[u])]
<1>1. /\ pos \in [Threads -> Nat] /\ pos[t] = UINT64_MAX
      /\ \A u \in Threads \ {t} : pos[u] = thread_pos[u]
  BY WriterAssumption DEF IndInv, TypeOK
<1>2. /\ pcs \in [Threads -> ThreadControl]
      /\ \A u \in Threads \ {t} : MaybeWoken(tpc[u], pcs[u])
  BY DEF IndInv, TypeOK, ThreadControl, WokenThread, MaybeWoken
<1>3. LoopTop(t, pos, failed, pcs) /\ MaybeWokenProducer(ppc, ppc')
  BY DEF Finish, MaybeWokenProducer
<1>4. UNCHANGED <<buffer, next_thread_end_pos, closing,
                  producer_reserved_pos, producer_reserved_write_pos,
                  producer_reserved_upto_pos, error, size, outputbuf,
                  file, fd_open>>
  BY DEF Finish
<1> HIDE DEF pos, pcs
<1> QED
  BY <1>1, <1>2, <1>3, <1>4, LoopTopPreserves

(* Waiting for its turn, or finding that it is its turn, a thread keeps the *)
(* invariant: the first block not in the file belongs to the one thread     *)
(* that finds no other with an earlier block.                               *)
LEMMA TurnPreserves ==
  ASSUME IndInv, NEW t \in Threads, Turn(t)
  PROVE  IndInv'
<1> USE WriterAssumption, BufferSizePositive
<1>1. CASE write_error \/ outputbuf[t] = <<>>
  BY <1>1, FinishPreserves DEF Turn
<1>2. CASE ~(write_error \/ outputbuf[t] = <<>>)
  <2>1. /\ tpc[t] = "turn"
        /\ tpc' = [tpc EXCEPT ![t] = IF OtherThreadWriteFirst(t)
                                     THEN "wait_turn" ELSE "write_all"]
        /\ UNCHANGED <<buffer, shared, producer, local, file, fd_open>>
    BY <1>2 DEF Turn
  <2>2. /\ \A u \in Threads \ {t} : tpc'[u] = tpc[u]
        /\ tpc'[t] \in {"wait_turn", "write_all"}
        /\ tpc'[t] = "write_all" => ~OtherThreadWriteFirst(t)
        /\ UNCHANGED <<thread_pos, next_thread_pos, length, write_error, outputbuf>>
    BY <2>1 DEF IndInv, TypeOK, shared, local
  <2>3. TypeOK'
    BY <2>1 DEF IndInv, TypeOK, shared, producer, local
  <2>4. ActiveWhenBusy'
    BY <2>1, <2>2 DEF IndInv, ActiveWhenBusy, Active, Busy
  <2>5. PositionsOrdered' /\ ReservationSafe' /\ BlocksDisjoint' /\ RingHolds'
    BY <2>1 DEF IndInv, PositionsOrdered, ReservationSafe, BlocksDisjoint,
       RingHolds, Active, Slot, shared, producer, local
  <2>6. OutputsRight'
    BY <1>2, <2>1, <2>2 DEF IndInv, OutputsRight, Busy
  <2>7. FileOrdered' /\ FileEnd' = FileEnd
    BY <2>1 DEF IndInv, FileOrdered, FileEnd
  <2>8. tpc'[t] = "write_all" =>
          thread_pos[t] = FileEnd /\ \A u \in Threads : thread_pos[t] <= thread_pos[u]
    <3> SUFFICES ASSUME tpc'[t] = "write_all"
                 PROVE  /\ thread_pos[t] = FileEnd
                        /\ \A u \in Threads : thread_pos[t] <= thread_pos[u]
      OBVIOUS
    <3>1. \A u \in Threads : thread_pos[t] <= thread_pos[u]
      BY <2>2 DEF OtherThreadWriteFirst, IndInv, TypeOK
    <3>2. Active(t) /\ FileEnd <= thread_pos[t] /\ thread_pos[t] < next_thread_pos
      <4>1. Active(t) /\ tpc[t] \in Busy \ {"written"}
        BY <2>1 DEF IndInv, ActiveWhenBusy, Busy
      <4>2. length[t] > 0 /\ thread_pos[t] + length[t] <= next_thread_pos
        BY <4>1, ActiveBlock
      <4>3. thread_pos[t] < next_thread_pos
        BY <4>2, Numbers
      <4> QED
        BY <4>1, <4>3, FirstOf
    <3>3. \/ FileEnd = next_thread_pos
          \/ \E u \in Threads : thread_pos[u] = FileEnd
      BY <1>2 DEF IndInv, BlocksTile
    <3>4. FileEnd \in Nat
      BY <3>3 DEF IndInv, TypeOK
    <3> QED
      BY <3>1, <3>2, <3>3, <3>4 DEF IndInv, TypeOK
  <2>9. WriterIsFirst'
    <3> SUFFICES ASSUME NEW u \in Threads
                 PROVE  /\ tpc'[u] \in {"write_all", "written"} =>
                             \A v \in Threads : thread_pos[u] <= thread_pos[v]
                        /\ tpc'[u] = "write_all" => thread_pos[u] = FileEnd
                        /\ tpc'[u] = "written" => thread_pos[u] + length[u] = FileEnd
                        /\ tpc'[u] \in Busy \ {"written"} => FileEnd <= thread_pos[u]
      BY <2>2, <2>7 DEF WriterIsFirst
    <3>1. CASE u = t
      BY <3>1, <2>1, <2>2, <2>8 DEF IndInv, WriterIsFirst, Busy
    <3>2. CASE u # t
      BY <3>2, <2>2 DEF IndInv, WriterIsFirst
    <3> QED
      BY <3>1, <3>2
  <2>10. BlocksTile'
    <3>1. \A u \in Threads : tpc[u] \in Busy \ {"written"} =>
                             tpc'[u] \in Busy \ {"written"}
      BY <2>1, <2>2 DEF Busy
    <3> QED
      BY <3>1, <2>2, <2>7 DEF IndInv, BlocksTile, Active
  <2>11. ExitsAfterClose'
    BY <2>1, <2>2 DEF IndInv, ExitsAfterClose, shared, producer
  <2>12. CloseComplete'
    BY <2>1, <2>2, <2>7 DEF IndInv, CloseComplete, shared, producer
  <2> QED
    BY <2>3, <2>4, <2>5, <2>6, <2>7, <2>9, <2>10, <2>11, <2>12 DEF IndInv
<1> QED
  BY <1>1, <1>2

(* The other steps of the producer move only its control, and the threads'  *)
(* by waking them.                                                          *)
LEMMA ProducerStepPreserves ==
  ASSUME IndInv,
         \/ \E n \in WriteSizes : write(n)
         \/ close \/ WriteReserve \/ ReserveWoken \/ WriteReturn
         \/ CloseBroadcast \/ CloseJoin
  PROVE  IndInv'
<1> USE WriterAssumption, BufferSizePositive
<1>1. ASSUME NEW n \in WriteSizes, write(n) PROVE IndInv'
  <2>1. /\ UNCHANGED <<buffer, shared, producer_reserved_pos,
                 producer_reserved_write_pos, producer_reserved_upto_pos,
                 error, tpc, local, file, fd_open>>
        /\ ppc' = "write" /\ size' = n /\ ppc = "idle" /\ n \in Nat
        /\ producer_reserved_write_pos + n <= MaxBytes
    BY <1>1 DEF write
  <2>2. /\ tpc' \in [Threads -> ThreadControl]
        /\ \A t \in Threads : MaybeWoken(tpc[t], tpc'[t])
    BY <2>1 DEF IndInv, TypeOK, ThreadControl, MaybeWoken
  <2>3. /\ ActiveWhenBusy' /\ BlocksDisjoint' /\ RingHolds' /\ OutputsRight'
        /\ FileOrdered' /\ FileEnd' = FileEnd /\ WriterIsFirst' /\ BlocksTile'
    BY <2>1, <2>2, BlocksKept DEF shared
  <2>4. TypeOK' /\ PositionsOrdered' /\ ReservationSafe'
    BY <2>1 DEF IndInv, TypeOK, PositionsOrdered, ReservationSafe, Active,
       shared, local
  <2>5. ExitsAfterClose' /\ CloseComplete'
    BY <2>1 DEF IndInv, ExitsAfterClose, CloseComplete, shared
  <2> QED
    BY <2>3, <2>4, <2>5 DEF IndInv
<1>2. ASSUME close PROVE IndInv'
  <2>1. CASE fd_open
    BY <1>2, <2>1, UpdateReservationPreserves DEF close
  <2>2. CASE ~fd_open
    <3>1. /\ UNCHANGED <<buffer, shared, producer_reserved_pos,
                 producer_reserved_write_pos, producer_reserved_upto_pos,
                 error, size, tpc, local, file, fd_open>>
          /\ ppc' = "closed" /\ ppc = "idle"
      BY <1>2, <2>2 DEF close
    <3>2. /\ tpc' \in [Threads -> ThreadControl]
          /\ \A t \in Threads : MaybeWoken(tpc[t], tpc'[t])
      BY <3>1 DEF IndInv, TypeOK, ThreadControl, MaybeWoken
    <3>3. /\ ActiveWhenBusy' /\ BlocksDisjoint' /\ RingHolds' /\ OutputsRight'
          /\ FileOrdered' /\ FileEnd' = FileEnd /\ WriterIsFirst' /\ BlocksTile'
      BY <3>1, <3>2, BlocksKept DEF shared
    <3>4. TypeOK' /\ PositionsOrdered' /\ ReservationSafe'
      BY <3>1 DEF IndInv, TypeOK, PositionsOrdered, ReservationSafe, Active,
         Writing, shared, local
    <3>5. ExitsAfterClose' /\ CloseComplete'
      BY <3>1, <2>2 DEF IndInv, ExitsAfterClose, CloseComplete, shared
    <3> QED
      BY <3>3, <3>4, <3>5 DEF IndInv
  <2> QED
    BY <2>1, <2>2
<1>3. ASSUME WriteReserve PROVE IndInv'
  BY <1>3, UpdateReservationPreserves DEF WriteReserve
<1>4. ASSUME ReserveWoken PROVE IndInv'
  <2>1. /\ UNCHANGED <<buffer, shared, producer_reserved_pos,
                 producer_reserved_write_pos, size, tpc, local, file, fd_open>>
        /\ ppc = "reserve"
        /\ ReserveLoop(producer_reserved_pos, TRUE, "write")
    BY <1>4 DEF ReserveWoken
  <2>2. /\ producer_reserved_upto_pos' \in 0 .. MaxBytes + BufferSize
        /\ producer_reserved_write_pos <= producer_reserved_upto_pos'
        /\ producer_reserved_upto_pos' <= next_thread_pos + BufferSize
        /\ \A t \in Threads : Active(t) =>
             producer_reserved_upto_pos' <= thread_pos[t] + BufferSize
        /\ error' \in BOOLEAN
        /\ error => error'
        /\ ppc' \in {"write", "wait_space"}
    BY <2>1, ReserveLoopSafe
  <2>3. /\ tpc' \in [Threads -> ThreadControl]
        /\ \A t \in Threads : MaybeWoken(tpc[t], tpc'[t])
    BY <2>1 DEF IndInv, TypeOK, ThreadControl, MaybeWoken
  <2>4. /\ ActiveWhenBusy' /\ BlocksDisjoint' /\ RingHolds' /\ OutputsRight'
        /\ FileOrdered' /\ FileEnd' = FileEnd /\ WriterIsFirst' /\ BlocksTile'
    BY <2>1, <2>3, BlocksKept DEF shared
  <2>5. TypeOK'
    BY <2>1, <2>2 DEF IndInv, TypeOK, shared, local
  <2>6. PositionsOrdered'
    BY <2>1, <2>2 DEF IndInv, PositionsOrdered, Writing, shared
  <2>7. ReservationSafe'
    BY <2>1, <2>2 DEF ReservationSafe, Active, shared
  <2>8. ExitsAfterClose' /\ CloseComplete'
    BY <2>1, <2>2 DEF IndInv, ExitsAfterClose, CloseComplete, shared
  <2> QED
    BY <2>4, <2>5, <2>6, <2>7, <2>8 DEF IndInv
<1>5. ASSUME WriteReturn PROVE IndInv'
  <2>1. CASE ~error /\ producer_reserved_write_pos - producer_reserved_pos
                         >= BufferSize \div 2
    BY <1>5, <2>1, UpdateReservationPreserves DEF WriteReturn
  <2>2. CASE ~(~error /\ producer_reserved_write_pos - producer_reserved_pos
                           >= BufferSize \div 2)
    <3>1. /\ UNCHANGED <<buffer, shared, producer_reserved_pos,
                 producer_reserved_write_pos, producer_reserved_upto_pos,
                 error, size, tpc, local, file, fd_open>>
          /\ ppc' = "idle" /\ ppc = "write"
      BY <1>5, <2>2 DEF WriteReturn
    <3>2. /\ tpc' \in [Threads -> ThreadControl]
          /\ \A t \in Threads : MaybeWoken(tpc[t], tpc'[t])
      BY <3>1 DEF IndInv, TypeOK, ThreadControl, MaybeWoken
    <3>3. /\ ActiveWhenBusy' /\ BlocksDisjoint' /\ RingHolds' /\ OutputsRight'
          /\ FileOrdered' /\ FileEnd' = FileEnd /\ WriterIsFirst' /\ BlocksTile'
      BY <3>1, <3>2, BlocksKept DEF shared
    <3>4. TypeOK' /\ PositionsOrdered' /\ ReservationSafe'
      BY <3>1 DEF IndInv, TypeOK, PositionsOrdered, ReservationSafe, Active,
         Writing, shared, local
    <3>5. ExitsAfterClose' /\ CloseComplete'
      BY <3>1, <2>2 DEF IndInv, ExitsAfterClose, CloseComplete, shared
    <3> QED
      BY <3>3, <3>4, <3>5 DEF IndInv
  <2> QED
    BY <2>1, <2>2
<1>6. ASSUME CloseBroadcast PROVE IndInv'
  <2>1. /\ UNCHANGED <<buffer, thread_pos, next_thread_pos, next_thread_end_pos,
                 write_error, producer_reserved_pos,
                 producer_reserved_write_pos, producer_reserved_upto_pos,
                 error, size, local, file, fd_open>>
        /\ ppc' = "join" /\ ppc = "close" /\ closing' = TRUE
        /\ tpc' = [t \in Threads |-> WokenThread(tpc[t])]
    BY <1>6 DEF CloseBroadcast
  <2>2. /\ tpc' \in [Threads -> ThreadControl]
        /\ \A t \in Threads : MaybeWoken(tpc[t], tpc'[t])
    BY <2>1, AllWoken
  <2>3. /\ ActiveWhenBusy' /\ BlocksDisjoint' /\ RingHolds' /\ OutputsRight'
        /\ FileOrdered' /\ FileEnd' = FileEnd /\ WriterIsFirst' /\ BlocksTile'
        /\ \A t \in Threads : tpc'[t] = "exited" <=> tpc[t] = "exited"
    BY <2>1, <2>2, BlocksKept
  <2>4. TypeOK' /\ PositionsOrdered' /\ ReservationSafe'
    BY <2>1, <2>2 DEF IndInv, TypeOK, PositionsOrdered, ReservationSafe, Active,
       Writing, ThreadControl, local
  <2>5. ExitsAfterClose' /\ CloseComplete'
    BY <2>1, <2>3 DEF IndInv, ExitsAfterClose, CloseComplete
  <2> QED
    BY <2>3, <2>4, <2>5 DEF IndInv
<1>7. ASSUME CloseJoin PROVE IndInv'
  <2>1. /\ UNCHANGED <<buffer, shared, producer_reserved_pos,
                 producer_reserved_write_pos, producer_reserved_upto_pos,
                 size, tpc, local, file>>
        /\ ppc' = "closed" /\ ppc = "join" /\ fd_open' = FALSE
        /\ \A t \in Threads : tpc[t] = "exited"
    BY <1>7 DEF CloseJoin
  <2>2. PICK fsync_failed \in BOOLEAN :
          error' = (error \/ fsync_failed \/ write_error)
    BY <1>7 DEF CloseJoin
  <2>3. /\ tpc' \in [Threads -> ThreadControl]
        /\ \A t \in Threads : MaybeWoken(tpc[t], tpc'[t])
    BY <2>1 DEF IndInv, TypeOK, ThreadControl, MaybeWoken
  <2>4. /\ ActiveWhenBusy' /\ BlocksDisjoint' /\ RingHolds' /\ OutputsRight'
        /\ FileOrdered' /\ FileEnd' = FileEnd /\ WriterIsFirst' /\ BlocksTile'
    BY <2>1, <2>3, BlocksKept DEF shared
  <2>5. error' \in BOOLEAN /\ (write_error => error')
    BY <2>2 DEF IndInv, TypeOK
  <2>6. TypeOK' /\ PositionsOrdered' /\ ReservationSafe'
    BY <2>1, <2>5 DEF IndInv, TypeOK, PositionsOrdered, ReservationSafe, Active,
       Writing, shared, local
  <2>7. ExitsAfterClose'
    BY <2>1 DEF IndInv, ExitsAfterClose, shared
  <2>8. CloseComplete'
    <3>1. ~write_error => FileEnd = next_thread_pos
      BY <2>1 DEF IndInv, BlocksTile, Busy
    <3>2. ~write_error => next_thread_pos = producer_reserved_write_pos
      <4>1. 1 \in Threads
        BY DEF Threads
      <4> QED
        BY <4>1, <2>1 DEF IndInv, ExitsAfterClose
    <3> QED
      BY <3>1, <3>2, <2>1, <2>4, <2>5 DEF CloseComplete
  <2> QED
    BY <2>4, <2>6, <2>7, <2>8 DEF IndInv
<1> QED
  BY <1>1, <1>2, <1>3, <1>4, <1>5, <1>6, <1>7

-----------------------------------------------------------------------------
(* The whole specification. *)

(* A thread that starts, or returns from waiting for work. *)
LEMMA LoopPreserves == ASSUME IndInv, NEW t \in Threads, Loop(t) PROVE IndInv'
<1>1. /\ thread_pos \in [Threads -> Nat] /\ write_error \in BOOLEAN
      /\ tpc \in [Threads -> ThreadControl]
      /\ \A u \in Threads : MaybeWoken(tpc[u], tpc[u])
  BY DEF IndInv, TypeOK, ThreadControl, MaybeWoken
<1>2. /\ tpc[t] = "loop" /\ LoopTop(t, thread_pos, write_error, tpc)
      /\ UNCHANGED <<buffer, next_thread_end_pos, closing,
                     producer_reserved_pos, producer_reserved_write_pos,
                     producer_reserved_upto_pos, error, size, outputbuf,
                     file, fd_open>>
      /\ ppc' = ppc
  BY DEF Loop, producer
<1>3. thread_pos[t] = UINT64_MAX
  BY <1>2 DEF IndInv, ActiveWhenBusy, Active, Busy
<1>4. MaybeWokenProducer(ppc, ppc')
  BY <1>2 DEF MaybeWokenProducer
<1> QED
  BY <1>1, <1>2, <1>3, <1>4, LoopTopPreserves

(* A spurious return from pthread_cond_wait changes no property: every      *)
(* waiter evaluates its condition again.                                    *)
LEMMA SpuriousPreserves == ASSUME IndInv, Spurious PROVE IndInv'
<1>1. UNCHANGED <<buffer, shared, producer_reserved_pos,
                  producer_reserved_write_pos, producer_reserved_upto_pos,
                  error, size, local, file, fd_open>>
  BY DEF Spurious
<1>2. /\ tpc' \in [Threads -> ThreadControl]
      /\ \A t \in Threads : MaybeWoken(tpc[t], tpc'[t])
      /\ ppc' = ppc \/ (ppc = "wait_space" /\ ppc' = "reserve")
  BY DEF Spurious, SpuriousWakeup, IndInv, TypeOK, ThreadControl, WokenThread,
     MaybeWoken
<1>3. /\ ActiveWhenBusy' /\ BlocksDisjoint' /\ RingHolds' /\ OutputsRight'
      /\ FileOrdered' /\ FileEnd' = FileEnd /\ WriterIsFirst' /\ BlocksTile'
      /\ \A t \in Threads : tpc'[t] = "exited" <=> tpc[t] = "exited"
  BY <1>1, <1>2, BlocksKept DEF shared
<1>4. TypeOK'
  BY <1>1, <1>2 DEF IndInv, TypeOK, ThreadControl, shared, local
<1>5. PositionsOrdered' /\ ReservationSafe'
  BY <1>1, <1>2 DEF IndInv, PositionsOrdered, ReservationSafe, Active, Writing,
     shared
<1>6. ExitsAfterClose' /\ CloseComplete'
  BY <1>1, <1>2, <1>3 DEF IndInv, ExitsAfterClose, CloseComplete, shared
<1> QED
  BY <1>3, <1>4, <1>5, <1>6 DEF IndInv

(* The state the constructor leaves satisfies the invariant. *)
LEMMA InitEstablishes == ASSUME Init PROVE IndInv
<1> USE WriterAssumption, BufferSizePositive
<1>1. TypeOK
  <2>1. <<>> \in Seq(Int) /\ <<>> \in Seq(Seq(Int))
    BY EmptySeq
  <2>2. fd_open \in BOOLEAN
    BY DEF Init
  <2>3. /\ buffer \in [0 .. BufferSize - 1 -> Int]
        /\ thread_pos \in [Threads -> Nat]
        /\ length \in [Threads -> 0 .. BlockSize]
    BY DEF Init, NoByte
  <2>4. outputbuf \in [Threads -> Seq(Int)] /\ file \in Seq(Seq(Int))
    BY <2>1 DEF Init
  <2>5. tpc \in [Threads -> {"loop", "wait_work", "compress", "turn",
                             "wait_turn", "write_all", "written", "exited"}]
    BY DEF Init
  <2>6. error \in BOOLEAN
    BY <2>2 DEF Init
  <2>7. /\ next_thread_pos \in 0 .. MaxBytes
        /\ next_thread_end_pos \in 0 .. MaxBytes
        /\ producer_reserved_pos \in 0 .. MaxBytes
        /\ producer_reserved_write_pos \in 0 .. MaxBytes
        /\ producer_reserved_upto_pos \in 0 .. MaxBytes + BufferSize
        /\ size \in Nat
    BY DEF Init
  <2>8. /\ closing \in BOOLEAN /\ write_error \in BOOLEAN
        /\ ppc \in {"idle", "write", "wait_space", "reserve", "close", "join",
                    "closed"}
    BY DEF Init
  <2> QED
    BY <2>2, <2>3, <2>4, <2>5, <2>6, <2>7, <2>8, Zenon DEF TypeOK
<1>2. \A t \in Threads : /\ tpc[t] \in {"loop", "exited"}
                         /\ tpc[t] = "exited" <=> ~fd_open
                         /\ ~Active(t)
  BY DEF Init, Active
<1>3. FileEnd = 0 /\ file = <<>> /\ Len(file) = 0 /\ DOMAIN file = {}
  BY EmptySeq DEF Init, FileEnd
<1>4. ActiveWhenBusy /\ BlocksDisjoint /\ OutputsRight /\ WriterIsFirst
  BY <1>2 DEF ActiveWhenBusy, BlocksDisjoint, OutputsRight, WriterIsFirst, Busy
<1>5. PositionsOrdered /\ ReservationSafe /\ RingHolds
  BY <1>2 DEF Init, PositionsOrdered, ReservationSafe, RingHolds, Writing
<1>6. FileOrdered
  BY <1>3 DEF FileOrdered
<1>7. BlocksTile /\ ExitsAfterClose /\ CloseComplete
  BY <1>2, <1>3 DEF Init, BlocksTile, ExitsAfterClose, CloseComplete
<1> QED
  BY <1>1, <1>4, <1>5, <1>6, <1>7 DEF IndInv

(* Every step of the producer, of a thread, or of the environment keeps it. *)
LEMMA NextPreserves == ASSUME IndInv, [Next]_vars PROVE IndInv'
<1>1. ASSUME UNCHANGED vars PROVE IndInv'
  <2>1. UNCHANGED <<buffer, thread_pos, next_thread_pos, next_thread_end_pos,
                    closing, write_error, producer_reserved_pos,
                    producer_reserved_write_pos, producer_reserved_upto_pos,
                    error, ppc, size, tpc, length, outputbuf, file, fd_open>>
    BY <1>1 DEF vars, shared, producer, local
  <2>2. /\ tpc' \in [Threads -> ThreadControl]
        /\ \A t \in Threads : MaybeWoken(tpc[t], tpc'[t])
    BY <2>1 DEF IndInv, TypeOK, ThreadControl, MaybeWoken
  <2>3. /\ ActiveWhenBusy' /\ BlocksDisjoint' /\ RingHolds' /\ OutputsRight'
        /\ FileOrdered' /\ FileEnd' = FileEnd /\ WriterIsFirst' /\ BlocksTile'
    BY <2>1, <2>2, BlocksKept DEF local
  <2>4. TypeOK'
    BY <2>1 DEF IndInv, TypeOK
  <2>5. PositionsOrdered' /\ ReservationSafe'
    BY <2>1 DEF IndInv, PositionsOrdered, ReservationSafe, Active
  <2>6. ExitsAfterClose' /\ CloseComplete'
    BY <2>1, <2>3 DEF IndInv, ExitsAfterClose, CloseComplete
  <2> QED
    BY <2>3, <2>4, <2>5, <2>6 DEF IndInv
<1>2. ASSUME NEW t \in Threads, Thread(t) PROVE IndInv'
  <2>1. CASE Written(t)
    <3>1. write_error \in BOOLEAN
      BY DEF IndInv, TypeOK
    <3> QED
      BY <2>1, <3>1, FinishPreserves DEF Written
  <2> QED
    BY <1>2, <2>1, LoopPreserves, CompressPreserves, TurnPreserves,
       WriteAllPreserves DEF Thread
<1>3. CASE Closed
  BY <1>3, <1>1 DEF Closed
<1> QED
  BY <1>1, <1>2, <1>3, ProducerStepPreserves, WriteCopyPreserves,
     SpuriousPreserves DEF Next, Producer

(***************************************************************************)
(* The inductive invariant holds in every reachable state, for any number   *)
(* of threads, any block size and any sizes passed to write().              *)
(***************************************************************************)
THEOREM Invariance == Spec => []IndInv
<1>1. Init => IndInv
  BY InitEstablishes
<1>2. IndInv /\ [Next]_vars => IndInv'
  BY NextPreserves
<1> QED
  BY <1>1, <1>2, PTL DEF Spec

(* Type correctness. *)
THEOREM TypeCorrect == Spec => []TypeOK
BY Invariance, PTL DEF IndInv

(* The file always holds a prefix of the stream, in order (see FileOrdered). *)
THEOREM FileInStreamOrder == Spec => []FileOrdered
BY Invariance, PTL DEF IndInv

(***************************************************************************)
(* No byte of a block is overwritten while do_compress reads it without the *)
(* mutex (see BlockIntact).                                                 *)
(***************************************************************************)
THEOREM BlocksStayIntact == Spec => []BlockIntact
<1>1. IndInv => BlockIntact
  <2> SUFFICES ASSUME IndInv, NEW t \in Threads, tpc[t] = "compress",
                      NEW p \in thread_pos[t] .. thread_pos[t] + length[t] - 1
               PROVE  buffer[Slot(p)] = p
    BY DEF BlockIntact
  <2> USE WriterAssumption, BufferSizePositive
  <2>1. Active(t)
    BY DEF IndInv, ActiveWhenBusy, Busy
  <2>2. thread_pos[t] \in Nat /\ length[t] \in Nat /\ next_thread_pos \in Nat
    BY Numbers
  <2>3. p < next_thread_pos /\ thread_pos[t] <= p /\ p \in Nat
    BY <2>1, <2>2, ActiveBlock
  <2>4. /\ p < producer_reserved_write_pos
        /\ producer_reserved_write_pos <= p + BufferSize
        /\ p \in 0 .. MaxBytes
    <3>1. /\ next_thread_pos <= next_thread_end_pos
          /\ next_thread_end_pos <= producer_reserved_write_pos
          /\ producer_reserved_write_pos <= producer_reserved_upto_pos
          /\ producer_reserved_upto_pos <= thread_pos[t] + BufferSize
      BY <2>1 DEF IndInv, PositionsOrdered, ReservationSafe
    <3> QED
      BY <3>1, <2>2, <2>3, Numbers
  <2> QED
    BY <2>4 DEF IndInv, RingHolds
<1> QED
  BY <1>1, Invariance, PTL

(***************************************************************************)
(* When close() reports no error, the whole stream is in the file (see      *)
(* CloseComplete).                                                          *)
(***************************************************************************)
THEOREM CloseStoresAll == Spec => []CloseComplete
BY Invariance, PTL DEF IndInv

-----------------------------------------------------------------------------
(* Refinement. *)

(* A step that moves neither what was accepted, what is stored nor how the  *)
(* writer was closed is a stuttering step of the stream.                    *)
LEMMA StreamStutters ==
  ASSUME UNCHANGED <<producer_reserved_write_pos, file>>,
         \/ ppc # "closed" /\ ppc' # "closed"
         \/ UNCHANGED <<ppc, error>>
  PROVE  UNCHANGED Stream!svars
<1>1. FileEnd' = FileEnd
  BY DEF FileEnd
<1> QED
  BY <1>1 DEF Stream!svars

(* What write() copies is accepted by the stream. *)
LEMMA WriteCopyAccepts == ASSUME IndInv, IndInv', WriteCopy PROVE Stream!Accept
<1> USE WriterAssumption, BufferSizePositive
<1> DEFINE w == producer_reserved_write_pos
           offset == Slot(w)
           amount == Min(BufferSize - offset,
                         Min(producer_reserved_upto_pos - w, size))
<1>1. /\ ppc = "write" /\ ppc' = ppc /\ file' = file
      /\ w' = w + amount
      /\ producer_reserved_upto_pos # w /\ size > 0
  BY DEF WriteCopy
<1>2. w \in Nat /\ offset \in 0 .. BufferSize - 1
  <2>1. w \in Nat
    BY Numbers
  <2> HIDE DEF w
  <2> QED
    BY <2>1, SlotInRange
<1>3. /\ producer_reserved_upto_pos \in Nat /\ size \in Nat
      /\ w < producer_reserved_upto_pos
  <2>1. w <= producer_reserved_upto_pos
    BY DEF IndInv, ReservationSafe
  <2> QED
    BY <2>1, <1>1, Numbers
<1>4. amount \in Nat /\ amount > 0
  BY <1>1, <1>2, <1>3 DEF Min
<1>5. w' \in 0 .. MaxBytes
  BY DEF IndInv, TypeOK
<1> HIDE DEF offset, amount
<1>6. w' \in w + 1 .. MaxBytes
  BY <1>1, <1>2, <1>4, <1>5
<1>7. FileEnd' = FileEnd
  BY <1>1 DEF FileEnd
<1> QED
  BY <1>1, <1>6, <1>7 DEF Stream!Accept

(* What a thread writes out is the next part of the stream. *)
LEMMA WriteAllStores ==
  ASSUME IndInv, IndInv', NEW t \in Threads, write_all(t)
  PROVE  Stream!Store
<1> USE WriterAssumption, BufferSizePositive
<1>1. /\ tpc[t] = "write_all" /\ tpc'[t] = "written"
      /\ UNCHANGED <<thread_pos, length, next_thread_pos,
                     producer_reserved_write_pos, ppc, error>>
  BY DEF write_all, shared, producer, local, IndInv, TypeOK
<1>2. FileEnd = thread_pos[t] /\ FileEnd' = thread_pos[t] + length[t]
  BY <1>1 DEF IndInv, WriterIsFirst
<1>3. /\ length[t] > 0 /\ thread_pos[t] + length[t] <= next_thread_pos
      /\ next_thread_pos <= producer_reserved_write_pos
      /\ thread_pos[t] \in Nat /\ length[t] \in Nat
      /\ next_thread_pos \in Nat /\ producer_reserved_write_pos \in Nat
  <2>1. /\ thread_pos[t] \in Nat /\ length[t] \in Nat
        /\ next_thread_pos \in Nat /\ producer_reserved_write_pos \in Nat
        /\ next_thread_end_pos \in Nat
    BY Numbers
  <2>2. Active(t)
    BY <1>1 DEF IndInv, ActiveWhenBusy, Busy
  <2>3. length[t] > 0 /\ thread_pos[t] + length[t] <= next_thread_pos
    BY <2>2 DEF IndInv, BlocksDisjoint
  <2>4. next_thread_pos <= producer_reserved_write_pos
    <3>1. /\ next_thread_pos <= next_thread_end_pos
          /\ next_thread_end_pos <= producer_reserved_write_pos
      BY DEF IndInv, PositionsOrdered
    <3> QED
      BY <3>1, <2>1
  <2> QED
    BY <2>1, <2>3, <2>4
<1>4. FileEnd' \in FileEnd + 1 .. producer_reserved_write_pos
  <2> DEFINE a == thread_pos[t]
             n == length[t]
             w == producer_reserved_write_pos
             m == next_thread_pos
  <2>0. /\ a \in Nat /\ n \in Nat /\ w \in Nat /\ m \in Nat
        /\ n > 0 /\ a + n <= m /\ m <= w
    BY <1>3
  <2> HIDE DEF a, n, w, m
  <2>1. a \in Nat /\ n \in Nat /\ w \in Nat /\ n > 0 /\ a + n <= w
    BY <2>0
  <2>2. a + n \in a + 1 .. w
    BY <2>1
  <2> QED
    BY <2>2, <1>2 DEF a, n, w
<1>5. ppc # "closed"
  BY <1>1 DEF IndInv, ExitsAfterClose
<1> QED
  BY <1>1, <1>4, <1>5 DEF Stream!Store

(* Every step is one of the stream's, or leaves it as it is. *)
LEMMA StepRefines ==
  ASSUME IndInv, IndInv', [Next]_vars
  PROVE  [Stream!SNext]_(Stream!svars)
<1>1. CASE UNCHANGED vars
  BY <1>1, StreamStutters DEF vars, producer
<1>2. ASSUME NEW n \in WriteSizes, write(n) PROVE UNCHANGED Stream!svars
  BY <1>2, StreamStutters DEF write
<1>3. ASSUME close PROVE [Stream!SNext]_(Stream!svars)
  <2>1. CASE fd_open
    <3>1. ppc' = "close" /\ ppc = "idle"
      BY <1>3, <2>1, ReserveLoopSafe DEF close, update_reservation
    <3> QED
      BY <1>3, <2>1, <3>1, StreamStutters DEF close, update_reservation
  <2>2. CASE ~fd_open
    <3>1. /\ ppc = "idle" /\ ppc' = "closed" /\ error' = error
          /\ UNCHANGED <<producer_reserved_write_pos, file>>
      BY <1>3, <2>2 DEF close
    <3>2. error
      BY <3>1, <2>2 DEF IndInv, ExitsAfterClose
    <3>3. FileEnd' = FileEnd
      BY <3>1 DEF FileEnd
    <3> QED
      BY <3>1, <3>2, <3>3 DEF Stream!SNext, Stream!CloseStream
  <2> QED
    BY <2>1, <2>2
<1>4. ASSUME WriteReserve \/ ReserveWoken PROVE UNCHANGED Stream!svars
  <2>1. ppc \in {"write", "reserve"} /\ ppc' \in {"write", "wait_space"}
    BY <1>4, ReserveLoopSafe DEF WriteReserve, ReserveWoken, update_reservation
  <2> QED
    BY <1>4, <2>1, StreamStutters DEF WriteReserve, ReserveWoken,
       update_reservation
<1>5. ASSUME WriteReturn PROVE UNCHANGED Stream!svars
  <2>1. ppc = "write" /\ ppc' = "idle"
    BY <1>5, ReserveLoopSafe DEF WriteReturn, update_reservation
  <2> QED
    BY <1>5, <2>1, StreamStutters DEF WriteReturn, update_reservation
<1>6. ASSUME CloseBroadcast PROVE UNCHANGED Stream!svars
  BY <1>6, StreamStutters DEF CloseBroadcast
<1>7. ASSUME CloseJoin PROVE Stream!SNext
  <2>1. /\ ppc = "join" /\ ppc' = "closed"
        /\ UNCHANGED <<producer_reserved_write_pos, file>>
    BY <1>7 DEF CloseJoin
  <2>2. FileEnd' = FileEnd
    BY <2>1 DEF FileEnd
  <2>3. ~error' => FileEnd = producer_reserved_write_pos
    BY <2>1, <2>2 DEF IndInv, CloseComplete
  <2> QED
    BY <2>1, <2>2, <2>3 DEF Stream!SNext, Stream!CloseStream
<1>8. ASSUME NEW t \in Threads, Loop(t) \/ do_compress(t)
      PROVE UNCHANGED Stream!svars
  BY <1>8, StreamStutters DEF Loop, do_compress, producer
<1>9. ASSUME NEW t \in Threads, Turn(t) \/ Written(t)
      PROVE UNCHANGED Stream!svars
  <2>1. UNCHANGED <<producer_reserved_write_pos, file, error>>
    BY <1>9 DEF Turn, Written, Finish, producer
  <2>2. \/ ppc' = ppc
        \/ ppc = "wait_space" /\ ppc' = "reserve"
    BY <1>9 DEF Turn, Written, Finish, WokenProducer, producer
  <2> QED
    BY <2>1, <2>2, StreamStutters
<1>10. ASSUME Spurious PROVE UNCHANGED Stream!svars
  <2>1. /\ UNCHANGED <<producer_reserved_write_pos, file, error>>
        /\ ppc' = ppc \/ (ppc = "wait_space" /\ ppc' = "reserve")
    BY <1>10 DEF Spurious, SpuriousWakeup
  <2> QED
    BY <2>1, StreamStutters
<1>11. CASE Closed
  BY <1>11, <1>1 DEF Closed
<1> QED
  BY <1>1, <1>2, <1>3, <1>4, <1>5, <1>6, <1>7, <1>8, <1>9, <1>10, <1>11,
     WriteCopyAccepts, WriteAllStores
     DEF Next, Producer, Thread, Stream!SNext

(***************************************************************************)
(* The writer with its threads, its ring and its locks implements the       *)
(* sequential stream TraceWriter takes it for.                              *)
(***************************************************************************)
THEOREM StreamImplemented == Spec => ImplementsStream
<1>1. Init => Stream!SInit
  BY DEF Init, Stream!SInit, FileEnd
<1>2. IndInv /\ IndInv' /\ [Next]_vars => [Stream!SNext]_(Stream!svars)
  BY StepRefines
<1> QED
  BY <1>1, <1>2, Invariance, PTL DEF Spec, ImplementsStream, Stream!StreamSpec
=============================================================================
