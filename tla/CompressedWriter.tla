------------------------- MODULE CompressedWriter -------------------------
(***************************************************************************)
(* The trace writer of rr (CompressedWriter.cc).  One producer copies bytes *)
(* into a ring buffer; NumThreads compression threads take blocks of the    *)
(* ring, compress them concurrently and write them to the file one after    *)
(* the other, in stream order.                                              *)
(*                                                                          *)
(* A byte of the stream is identified with its position in the stream, so   *)
(* the buffer maps a slot to the position of the byte it holds.  Everything *)
(* done between taking the mutex and releasing it (or waiting on the        *)
(* condition variable) is one action; the work done with the mutex released *)
(* (memcpy, do_compress, write_all) is an action of its own.                *)
(***************************************************************************)
EXTENDS Integers, Sequences

CONSTANTS
  NumThreads,   \* number of compression threads
  BlockSize,    \* block_size: bytes handed to a thread at a time
  MaxBytes,     \* bound: bytes the producer writes before it closes
  WriteSizes,   \* sizes the producer passes to write()
  UINT64_MAX,   \* thread_pos of an idle thread; larger than any position
  CanFail       \* whether opening, compressing and fsync may fail

ASSUME WriterAssumption ==
  /\ NumThreads \in Nat \ {0}
  /\ BlockSize \in Nat \ {0}
  /\ MaxBytes \in Nat
  /\ WriteSizes \subseteq Nat \ {0}
  /\ UINT64_MAX \in Nat
  /\ MaxBytes < UINT64_MAX
  /\ CanFail \in BOOLEAN

Threads == 1 .. NumThreads
BufferSize == BlockSize * (NumThreads + 2)
NoByte == -1     \* a slot nothing was copied to yet

VARIABLES
  \* the ring, written by the producer and read by the threads, unlocked
  buffer,
  \* protected by the mutex
  thread_pos, next_thread_pos, next_thread_end_pos, closing, write_error,
  \* the producer's own
  producer_reserved_pos, producer_reserved_write_pos,
  producer_reserved_upto_pos, error, ppc, size,
  \* each compression thread's own: control, uncompressed_length, outputbuf
  tpc, length, outputbuf,
  \* the output file: the blocks written so far, and whether fd is open
  file, fd_open

shared   == <<thread_pos, next_thread_pos, next_thread_end_pos, closing,
              write_error>>
producer == <<producer_reserved_pos, producer_reserved_write_pos,
              producer_reserved_upto_pos, error, ppc, size>>
local    == <<length, outputbuf>>
vars     == <<buffer, shared, producer, tpc, local, file, fd_open>>

Slot(p) == p % BufferSize

Min(a, b) == IF a < b THEN a ELSE b

(* The constructor.  When the file cannot be created no thread is started. *)
Init ==
  /\ buffer = [s \in 0 .. BufferSize - 1 |-> NoByte]
  /\ thread_pos = [t \in Threads |-> UINT64_MAX]
  /\ next_thread_pos = 0
  /\ next_thread_end_pos = 0
  /\ closing = FALSE
  /\ write_error = FALSE
  /\ producer_reserved_pos = 0
  /\ producer_reserved_write_pos = 0
  /\ producer_reserved_upto_pos = 0
  /\ ppc = "idle"
  /\ size = 0
  /\ length = [t \in Threads |-> 0]
  /\ outputbuf = [t \in Threads |-> <<>>]
  /\ file = <<>>
  /\ fd_open \in IF CanFail THEN BOOLEAN ELSE {TRUE}
  /\ error = ~fd_open
  /\ tpc = [t \in Threads |-> IF fd_open THEN "loop" ELSE "exited"]

(***************************************************************************)
(* pthread_cond_broadcast: whoever waits on cond contends for the mutex     *)
(* again and re-evaluates the condition it waited for.                      *)
(***************************************************************************)
WokenThread(pc) == CASE pc = "wait_work" -> "loop"
                     [] pc = "wait_turn" -> "turn"
                     [] OTHER -> pc

(* Mutant: signal only the compression threads. *)
WokenProducerNever(pc) == pc

WokenProducer(pc) == IF pc = "wait_space" THEN "reserve" ELSE pc

-----------------------------------------------------------------------------
(* The producer. *)

(* Mutant: forget the blocks that are still being compressed. *)
CompletedPosIgnoresThreads(c) == c = next_thread_pos

(* Every stream position below this one has left the buffer. *)
CompletedPos(c) ==
  /\ c \in {next_thread_pos} \cup {thread_pos[t] : t \in Threads}
  /\ c <= next_thread_pos
  /\ \A t \in Threads : c <= thread_pos[t]

(***************************************************************************)
(* The loop of update_reservation, entered with the mutex held: report an   *)
(* error, extend the reservation (and go on at pc), or wait for space.      *)
(***************************************************************************)
ReserveLoop(pos, wait, pc) ==
  \/ /\ error
     /\ ppc' = pc
     /\ UNCHANGED <<error, producer_reserved_upto_pos>>
  \/ /\ ~error /\ write_error
     /\ error' = TRUE
     /\ ppc' = pc
     /\ UNCHANGED producer_reserved_upto_pos
  \/ /\ ~error /\ ~write_error
     /\ \E c \in 0 .. MaxBytes :
          /\ CompletedPos(c)
          /\ producer_reserved_upto_pos' = c + BufferSize
          /\ ppc' = IF pos < c + BufferSize \/ ~wait THEN pc ELSE "wait_space"
     /\ UNCHANGED error

(* update_reservation(wait), continuing at pc when it returns. *)
update_reservation(wait, pc) ==
  /\ next_thread_end_pos' = producer_reserved_write_pos
  /\ producer_reserved_pos' = producer_reserved_write_pos
  /\ tpc' = [t \in Threads |-> WokenThread(tpc[t])]
  /\ ReserveLoop(producer_reserved_write_pos, wait, pc)
  /\ UNCHANGED <<producer_reserved_write_pos, next_thread_pos, thread_pos,
                 closing, write_error, buffer, size, local, file, fd_open>>

(* write(data, n) is called. *)
write(n) ==
  /\ ppc = "idle"
  /\ producer_reserved_write_pos + n <= MaxBytes
  /\ ppc' = "write"
  /\ size' = n
  /\ UNCHANGED <<buffer, shared, producer_reserved_pos,
                 producer_reserved_write_pos, producer_reserved_upto_pos,
                 error, tpc, local, file, fd_open>>

(* The loop of write() with an empty reservation. *)
WriteReserve ==
  /\ ppc = "write" /\ ~error /\ size > 0
  /\ producer_reserved_upto_pos = producer_reserved_write_pos
  /\ update_reservation(TRUE, "write")

(* The producer returns from pthread_cond_wait in update_reservation. *)
ReserveWoken ==
  /\ ppc = "reserve"
  /\ ReserveLoop(producer_reserved_pos, TRUE, "write")
  /\ UNCHANGED <<buffer, shared, producer_reserved_pos,
                 producer_reserved_write_pos, size, tpc, local, file, fd_open>>

(* The loop of write() copying up to the reservation or the ring's end. *)
WriteCopy ==
  /\ ppc = "write" /\ ~error /\ size > 0
  /\ producer_reserved_upto_pos # producer_reserved_write_pos
  /\ LET reservation == producer_reserved_upto_pos - producer_reserved_write_pos
         offset == Slot(producer_reserved_write_pos)
         amount == Min(BufferSize - offset, Min(reservation, size))
     IN  /\ buffer' = [s \in 0 .. BufferSize - 1 |->
                         IF s \in offset .. offset + amount - 1
                         THEN producer_reserved_write_pos + (s - offset)
                         ELSE buffer[s]]
         /\ producer_reserved_write_pos' = producer_reserved_write_pos + amount
         /\ size' = size - amount
  /\ UNCHANGED <<shared, producer_reserved_pos, producer_reserved_upto_pos,
                 error, ppc, tpc, local, file, fd_open>>

(***************************************************************************)
(* The end of write(): publish what was copied once half the buffer is      *)
(* pending.  After an error the rest of the data is dropped.                *)
(***************************************************************************)
WriteReturn ==
  /\ ppc = "write" /\ (error \/ size = 0)
  /\ IF ~error /\ producer_reserved_write_pos - producer_reserved_pos
                     >= BufferSize \div 2
     THEN update_reservation(FALSE, "idle")
     ELSE /\ ppc' = "idle"
          /\ UNCHANGED <<buffer, shared, producer_reserved_pos,
                         producer_reserved_write_pos,
                         producer_reserved_upto_pos, error, size, tpc, local,
                         file, fd_open>>

(* close(): publish everything ... *)
close ==
  /\ ppc = "idle"
  /\ IF fd_open
     THEN update_reservation(FALSE, "close")
     ELSE ppc' = "closed" /\ UNCHANGED <<buffer, shared, producer_reserved_pos,
            producer_reserved_write_pos, producer_reserved_upto_pos, error,
            size, tpc, local, file, fd_open>>

(* Mutant: set closing without waking the threads. *)
CloseWithoutBroadcast ==
  /\ ppc = "close"
  /\ closing' = TRUE
  /\ ppc' = "join"
  /\ UNCHANGED <<buffer, thread_pos, next_thread_pos, next_thread_end_pos,
                 write_error, producer_reserved_pos,
                 producer_reserved_write_pos, producer_reserved_upto_pos,
                 error, size, tpc, local, file, fd_open>>

(* ... then tell the threads to finish ... *)
CloseBroadcast ==
  /\ ppc = "close"
  /\ closing' = TRUE
  /\ tpc' = [t \in Threads |-> WokenThread(tpc[t])]
  /\ ppc' = "join"
  /\ UNCHANGED <<buffer, thread_pos, next_thread_pos, next_thread_end_pos,
                 write_error, producer_reserved_pos,
                 producer_reserved_write_pos, producer_reserved_upto_pos,
                 error, size, local, file, fd_open>>

(* Mutant: the threads' write_error is not copied to error. *)
CloseJoinDropsError ==
  /\ ppc = "join"
  /\ \A t \in Threads : tpc[t] = "exited"
  /\ fd_open' = FALSE
  /\ ppc' = "closed"
  /\ UNCHANGED <<buffer, shared, producer_reserved_pos,
                 producer_reserved_write_pos, producer_reserved_upto_pos,
                 error, size, tpc, local, file>>

(* ... and join them, sync the file and report what went wrong. *)
CloseJoin ==
  /\ ppc = "join"
  /\ \A t \in Threads : tpc[t] = "exited"
  /\ \E fsync_failed \in IF CanFail THEN BOOLEAN ELSE {FALSE} :
       error' = (error \/ fsync_failed \/ write_error)
  /\ fd_open' = FALSE
  /\ ppc' = "closed"
  /\ UNCHANGED <<buffer, shared, producer_reserved_pos,
                 producer_reserved_write_pos, producer_reserved_upto_pos,
                 size, tpc, local, file>>

-----------------------------------------------------------------------------
(* A compression thread. *)

(* There is a block to take: a whole one, or the rest when closing. *)
WorkReady(failed) ==
  /\ ~failed
  /\ next_thread_pos < next_thread_end_pos
  /\ closing \/ next_thread_pos + BlockSize <= next_thread_end_pos

(* Where the block that is taken next ends. *)
NextBlockEnd == Min(next_thread_end_pos, next_thread_pos + BlockSize)

(***************************************************************************)
(* The top of compression_thread's loop, entered with the mutex held, with  *)
(* thread_pos = pos and write_error = failed, and with every other thread's *)
(* control as in pcs: take a block, leave, or wait for work.                *)
(***************************************************************************)
LoopTop(t, pos, failed, pcs) ==
  /\ write_error' = failed
  /\ \/ /\ WorkReady(failed)
        /\ thread_pos' = [pos EXCEPT ![t] = next_thread_pos]
        /\ next_thread_pos' = NextBlockEnd
        /\ length' = [length EXCEPT ![t] = NextBlockEnd - next_thread_pos]
        /\ tpc' = [pcs EXCEPT ![t] = "compress"]
     \/ /\ ~WorkReady(failed)
        /\ tpc' = [pcs EXCEPT ![t] =
                     IF closing /\ (failed \/ next_thread_pos = next_thread_end_pos)
                     THEN "exited" ELSE "wait_work"]
        /\ thread_pos' = pos
        /\ UNCHANGED <<next_thread_pos, length>>

(* A thread starts, or returns from waiting for work. *)
Loop(t) ==
  /\ tpc[t] = "loop"
  /\ LoopTop(t, thread_pos, write_error, tpc)
  /\ UNCHANGED <<buffer, next_thread_end_pos, closing, producer, outputbuf,
                 file, fd_open>>

(***************************************************************************)
(* do_compress, with the mutex released.  The block is read from the ring   *)
(* at one instant: BlockIntact shows that its bytes do not change while it  *)
(* is being read.  An empty output stands for compressed_length = 0.        *)
(***************************************************************************)
do_compress(t) ==
  /\ tpc[t] = "compress"
  /\ \E ok \in IF CanFail THEN BOOLEAN ELSE {TRUE} :
       outputbuf' = [outputbuf EXCEPT ![t] =
         IF ok THEN [k \in 1 .. length[t] |-> buffer[Slot(thread_pos[t] + k - 1)]]
               ELSE <<>>]
  /\ tpc' = [tpc EXCEPT ![t] = "turn"]
  /\ UNCHANGED <<buffer, shared, producer, length, file, fd_open>>

(* Mutant: the block just before this one is overlooked. *)
OtherThreadWriteFirstOffByOne(t) ==
  \E u \in Threads : thread_pos[u] + BlockSize < thread_pos[t]

(* Another thread works on an earlier block. *)
OtherThreadWriteFirst(t) == \E u \in Threads : thread_pos[u] < thread_pos[t]

(***************************************************************************)
(* Back under the mutex after compressing, writing or failing: thread t     *)
(* becomes idle, everyone waiting is woken, and t takes its next block.     *)
(***************************************************************************)
Finish(t, failed) ==
  /\ ppc' = WokenProducer(ppc)
  /\ LoopTop(t, [thread_pos EXCEPT ![t] = UINT64_MAX], failed,
             [u \in Threads |-> WokenThread(tpc[u])])
  /\ UNCHANGED <<buffer, next_thread_end_pos, closing, producer_reserved_pos,
                 producer_reserved_write_pos, producer_reserved_upto_pos,
                 error, size, outputbuf, file, fd_open>>

(* Wait until it is this thread's turn to write, or something failed. *)
Turn(t) ==
  /\ tpc[t] = "turn"
  /\ LET failed == write_error \/ outputbuf[t] = <<>>
     IN  IF failed
         THEN Finish(t, TRUE)
         ELSE /\ tpc' = [tpc EXCEPT ![t] = IF OtherThreadWriteFirst(t)
                                           THEN "wait_turn" ELSE "write_all"]
              /\ UNCHANGED <<buffer, shared, producer, local, file, fd_open>>

(* write_all, with the mutex released.  A failing write ends the program. *)
write_all(t) ==
  /\ tpc[t] = "write_all"
  /\ file' = Append(file, outputbuf[t])
  /\ tpc' = [tpc EXCEPT ![t] = "written"]
  /\ UNCHANGED <<buffer, shared, producer, local, fd_open>>

Written(t) ==
  /\ tpc[t] = "written"
  /\ Finish(t, write_error)

(* pthread_cond_wait may return although nobody called broadcast. *)
SpuriousWakeup ==
  \/ /\ ppc = "wait_space"
     /\ ppc' = "reserve"
     /\ UNCHANGED tpc
  \/ /\ \E t \in Threads : /\ tpc[t] \in {"wait_work", "wait_turn"}
                           /\ tpc' = [tpc EXCEPT ![t] = WokenThread(@)]
     /\ UNCHANGED ppc

-----------------------------------------------------------------------------
Producer ==
  \/ WriteReserve \/ ReserveWoken \/ WriteCopy \/ WriteReturn
  \/ CloseBroadcast \/ CloseJoin

Thread(t) ==
  Loop(t) \/ do_compress(t) \/ Turn(t) \/ write_all(t) \/ Written(t)

Spurious ==
  /\ SpuriousWakeup
  /\ UNCHANGED <<buffer, shared, producer_reserved_pos,
                 producer_reserved_write_pos, producer_reserved_upto_pos,
                 error, size, local, file, fd_open>>

(* The writer is closed; nothing runs any more. *)
Closed == ppc = "closed" /\ UNCHANGED vars

Next ==
  \/ \E n \in WriteSizes : write(n)
  \/ close
  \/ Producer
  \/ \E t \in Threads : Thread(t)
  \/ Spurious
  \/ Closed

Spec == Init /\ [][Next]_vars

(***************************************************************************)
(* The operating system runs every thread that can run: the producer inside *)
(* write() or close(), and every compression thread.  Nothing makes the     *)
(* producer call write() or close(), and no wakeup is ever spurious for     *)
(* sure.                                                                    *)
(***************************************************************************)
FairSpec ==
  /\ Spec
  /\ WF_vars(Producer)
  /\ \A t \in Threads : WF_vars(Thread(t))

-----------------------------------------------------------------------------
(* Properties. *)

Active(t) == thread_pos[t] # UINT64_MAX

TypeOK ==
  /\ buffer \in [0 .. BufferSize - 1 -> Int]
  /\ thread_pos \in [Threads -> Nat]
  /\ next_thread_pos \in 0 .. MaxBytes
  /\ next_thread_end_pos \in 0 .. MaxBytes
  /\ closing \in BOOLEAN
  /\ write_error \in BOOLEAN
  /\ producer_reserved_pos \in 0 .. MaxBytes
  /\ producer_reserved_write_pos \in 0 .. MaxBytes
  /\ producer_reserved_upto_pos \in 0 .. MaxBytes + BufferSize
  /\ error \in BOOLEAN
  /\ ppc \in {"idle", "write", "wait_space", "reserve", "close", "join",
              "closed"}
  /\ size \in Nat
  /\ tpc \in [Threads -> {"loop", "wait_work", "compress", "turn",
                          "wait_turn", "write_all", "written", "exited"}]
  /\ length \in [Threads -> 0 .. BlockSize]
  /\ outputbuf \in [Threads -> Seq(Int)]
  /\ file \in Seq(Seq(Int))
  /\ fd_open \in BOOLEAN

(* One past the last stream position that is in the file. *)
FileEnd ==
  IF file = <<>> THEN 0 ELSE file[Len(file)][Len(file[Len(file)])] + 1

(***************************************************************************)
(* The file holds the stream from its first byte on, each byte once and in  *)
(* order, although the blocks are compressed concurrently and any thread    *)
(* may finish first (compression_thread, "wait until we're the next thread  *)
(* that needs to write").                                                   *)
(***************************************************************************)
FileOrdered ==
  /\ \A b \in DOMAIN file :
       /\ file[b] # <<>>
       /\ \A k \in 1 .. Len(file[b]) - 1 : file[b][k + 1] = file[b][k] + 1
  /\ file # <<>> => file[1][1] = 0
  /\ \A b \in 1 .. Len(file) - 1 :
       file[b + 1][1] = file[b][Len(file[b])] + 1

(***************************************************************************)
(* The bytes of a block stay in the ring from the moment a thread takes the *)
(* block until it has compressed it: write() never copies over them, so     *)
(* do_compress may read the ring without the mutex.                         *)
(***************************************************************************)
BlockIntact ==
  \A t \in Threads : tpc[t] = "compress" =>
    \A p \in thread_pos[t] .. thread_pos[t] + length[t] - 1 :
      buffer[Slot(p)] = p

(***************************************************************************)
(* When close() returns and good() holds, every byte given to write() is in *)
(* the file: a failure in any thread reaches the producer's error flag.     *)
(***************************************************************************)
CloseComplete ==
  ppc = "closed" /\ ~error => FileEnd = producer_reserved_write_pos

(***************************************************************************)
(* write() returns: the producer is never left waiting for space, whatever  *)
(* the threads do and even when one of them fails.                          *)
(***************************************************************************)
WriteReturns == ppc \in {"write", "wait_space", "reserve"} ~> ppc = "idle"

(* close() returns: every thread sees closing and leaves its loop. *)
CloseReturns == ppc = "close" ~> ppc = "closed"

(***************************************************************************)
(* The concurrent writer implements the sequential stream it is used as:    *)
(* what the file holds is always a prefix of what write() accepted, it only *)
(* grows, and close() leaves it complete or reports an error.               *)
(***************************************************************************)
Stream == INSTANCE OrderedStream WITH
            accepted <- producer_reserved_write_pos,
            stored   <- FileEnd,
            outcome  <- IF ppc # "closed" THEN "open"
                        ELSE IF error THEN "failed" ELSE "good"

ImplementsStream == Stream!StreamSpec

-----------------------------------------------------------------------------
(* The inductive invariant behind the safety properties. *)

Busy == {"compress", "turn", "wait_turn", "write_all", "written"}
Writing == {"write", "wait_space", "reserve"}

(* A thread owns a block exactly while it works on it. *)
ActiveWhenBusy == \A t \in Threads : Active(t) <=> tpc[t] \in Busy

(* How the producer's positions and the dispatch positions are ordered. *)
PositionsOrdered ==
  /\ producer_reserved_pos = next_thread_end_pos
  /\ next_thread_pos <= next_thread_end_pos
  /\ next_thread_end_pos <= producer_reserved_write_pos
  /\ ppc \in Writing => producer_reserved_write_pos + size <= MaxBytes

(* The reservation never reaches a byte that has not left the buffer. *)
ReservationSafe ==
  /\ producer_reserved_write_pos <= producer_reserved_upto_pos
  /\ producer_reserved_upto_pos <= next_thread_pos + BufferSize
  /\ \A t \in Threads : Active(t) =>
       producer_reserved_upto_pos <= thread_pos[t] + BufferSize

(* The blocks in progress are non-empty, dispatched and pairwise disjoint. *)
BlocksDisjoint ==
  /\ \A t \in Threads : Active(t) =>
       /\ length[t] > 0
       /\ thread_pos[t] + length[t] <= next_thread_pos
  /\ \A t, u \in Threads : Active(t) /\ Active(u) /\ t # u =>
       \/ thread_pos[t] + length[t] <= thread_pos[u]
       \/ thread_pos[u] + length[u] <= thread_pos[t]

(* The last BufferSize bytes written are in the ring. *)
RingHolds ==
  \A p \in 0 .. MaxBytes :
    p < producer_reserved_write_pos /\ producer_reserved_write_pos <= p + BufferSize
      => buffer[Slot(p)] = p

(* What a thread compressed are the bytes of its block. *)
OutputsRight ==
  \A t \in Threads : tpc[t] \in Busy \ {"compress"} =>
    /\ outputbuf[t] # <<>> =>
         outputbuf[t] = [k \in 1 .. length[t] |-> thread_pos[t] + k - 1]
    /\ tpc[t] # "turn" => outputbuf[t] # <<>>

(* The thread that writes has the first block that is not in the file. *)
WriterIsFirst ==
  \A t \in Threads :
    /\ tpc[t] \in {"write_all", "written"} =>
         \A u \in Threads : thread_pos[t] <= thread_pos[u]
    /\ tpc[t] = "write_all" => thread_pos[t] = FileEnd
    /\ tpc[t] = "written" => thread_pos[t] + length[t] = FileEnd
    /\ tpc[t] \in Busy \ {"written"} => FileEnd <= thread_pos[t]

(* Unless something failed, blocks in progress tile the stream: a block   *)
(* starts where the file ends, and another one where a block ends.        *)
BlocksTile ==
  ~write_error =>
    /\ \/ FileEnd = next_thread_pos
       \/ \E t \in Threads : tpc[t] \in Busy \ {"written"} /\ thread_pos[t] = FileEnd
    /\ \A t \in Threads : Active(t) =>
         \/ thread_pos[t] + length[t] = next_thread_pos
         \/ \E u \in Threads : thread_pos[u] = thread_pos[t] + length[t]

(* close() publishes everything first, and a thread leaves only then. *)
ExitsAfterClose ==
  /\ closing => ppc \in {"join", "closed"}
  /\ ppc \in {"close", "join"} =>
       next_thread_end_pos = producer_reserved_write_pos
  /\ ~fd_open => \A t \in Threads : tpc[t] = "exited"
  /\ ~fd_open /\ ppc # "closed" => error
  /\ ppc = "closed" => ~fd_open
  /\ ppc \in {"close", "join"} => fd_open
  /\ \A t \in Threads : tpc[t] = "exited" /\ fd_open =>
       closing /\ (write_error \/ next_thread_pos = next_thread_end_pos)

(***************************************************************************)
(* Everything the threads and the producer rely on, together: the inductive *)
(* invariant from which FileOrdered, BlockIntact and CloseComplete follow.  *)
(***************************************************************************)
IndInv ==
  /\ TypeOK
  /\ ActiveWhenBusy
  /\ PositionsOrdered
  /\ ReservationSafe
  /\ BlocksDisjoint
  /\ RingHolds
  /\ OutputsRight
  /\ FileOrdered
  /\ WriterIsFirst
  /\ BlocksTile
  /\ ExitsAfterClose
  /\ CloseComplete
=============================================================================
