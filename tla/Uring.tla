------------------------------- MODULE Uring -------------------------------
(***************************************************************************)
(* Writing the muxed file to a disk: ring_write and ring_segments of       *)
(* src/src/platform/linux.rs over RingWriter of src/src/uring.rs.  The     *)
(* clusters are grouped into segments; headers and segments are built in   *)
(* turn into one of RING_BUFS buffers and queued to io_uring, whose kernel *)
(* thread (SQPOLL) takes the queue's entries without a system call.  Idle, *)
(* that thread announces in sq_flags that it must be woken, looks at the   *)
(* queue's tail once more and sleeps.  A write may be short: reap queues   *)
(* the rest of the block again.                                            *)
(*                                                                         *)
(* push stores the tail with Release and then loads the flags: a processor *)
(* may carry out the load while the store still sits in its store buffer   *)
(* (relaxed), so the kernel thread can look at the tail too early.         *)
(*                                                                         *)
(* A byte of the file is the pair of its block and its index there.        *)
(***************************************************************************)
EXTENDS Integers, Sequences, FiniteSets, FiniteSetsExt

CONSTANTS HeaderLen, Clusters,  \* bytes of the headers and of each cluster
          SegBytes,             \* SEG_BYTES
          Bufs,                 \* the buffers: 0 .. RING_BUFS - 1
          QueueDepth,           \* STREAM_QD, entries of the submission queue
          MaxShort, MaxFails    \* bounds: short writes, failing calls

UringAssumption == /\ {HeaderLen, SegBytes, QueueDepth} \subseteq Nat \ {0}
                   /\ Clusters \in Seq(Nat \ {0})
                   /\ {MaxShort, MaxFails} \subseteq Nat
                   /\ \E n \in 0 .. QueueDepth - 1 : Bufs = 0 .. n

VARIABLES pc,       \* ring_segments
          blocks,   \* the lengths of the headers and of the segments
          ui, off,  \* the block it is at, where it goes in the file
          idx,      \* the buffer it acquired
          slots,    \* buffer -> [off, len, acked]
          buf,      \* buffer -> the block it holds
          relaxed,  \* whether the processor lets the load overtake the store
          store,    \* the queue's entries not visible to the kernel yet
          sq, flag, poller,   \* the submission queue, NEED_WAKEUP, the kernel thread
          flight,   \* entries being written
          cq,       \* completions: <<buffer, result>>
          file,     \* position -> byte
          batch,    \* completions reap saw and has not handled
          short, fails

mem == <<slots, buf>>
kernel == <<sq, flag, poller, flight, cq, file>>
writer == <<blocks, ui, off, idx, mem, relaxed>>
vars == <<pc, writer, store, kernel, batch, short, fails>>

\* The first n clusters in segments of at least SegBytes bytes, and the bytes left over.
Grouped[n \in 0 .. Len(Clusters)] ==
    IF n = 0 THEN [segs |-> <<>>, acc |-> 0]
    ELSE LET g == Grouped[n - 1]
             acc == g.acc + Clusters[n]
         IN  IF acc >= SegBytes THEN [segs |-> Append(g.segs, acc), acc |-> 0]
                                ELSE [segs |-> g.segs, acc |-> acc]

\* The last segment may be smaller.
Segments == LET g == Grouped[Len(Clusters)]
            IN  IF g.acc > 0 THEN Append(g.segs, g.acc) ELSE g.segs

\* Where a block goes in the file.
Before[k \in 1 .. Len(blocks) + 1] == IF k = 1 THEN 0 ELSE Before[k - 1] + blocks[k - 1]
End == Before[Len(blocks) + 1]

Sizes == {0} \cup {Clusters[i] : i \in 1 .. Len(Clusters)}
Cap == Max({HeaderLen, SegBytes + Max(Sizes)})
NoByte == <<0, 0>>

Init == /\ blocks = <<HeaderLen>> \o Segments
        /\ pc = "setup" /\ ui = 1 /\ off = 0 /\ idx = 0
        /\ slots = [b \in Bufs |-> [off |-> 0, len |-> 0, acked |-> 0]]
        /\ buf = [b \in Bufs |-> 0]
        /\ relaxed \in BOOLEAN
        /\ store = <<>> /\ sq = <<>> /\ flag = FALSE /\ poller = "awake"
        /\ flight = {} /\ cq = <<>>
        /\ file = [p \in 0 .. End - 1 |-> NoByte]
        /\ batch = 0 /\ short = 0 /\ fails = 0

Fail == fails < MaxFails /\ fails' = fails + 1 /\ pc' = "failed"
Open(b) == slots[b].acked < slots[b].len

----------------------------------------------------------------------------
\* The writer.

Setup == /\ pc = "setup"
         /\ Fail \/ (pc' = "acquire" /\ UNCHANGED fails)
         /\ UNCHANGED <<writer, store, kernel, batch, short>>

\* Mutation of Acquire: the buffers in turn, without looking at what is acknowledged.
AcquireNext == /\ pc = "acquire" /\ ui <= Len(blocks)
               /\ idx' = ui % Cardinality(Bufs) /\ pc' = "build"
               /\ UNCHANGED <<blocks, ui, off, mem, relaxed, store, kernel, batch, short, fails>>

\* The first buffer whose block is written, or reap(true).
Acquire == /\ pc = "acquire" /\ ui <= Len(blocks)
           /\ \/ \E b \in Bufs : /\ ~Open(b) /\ \A x \in Bufs : x < b => Open(x)
                                 /\ idx' = b /\ pc' = "build"
              \/ (\A b \in Bufs : Open(b)) /\ pc' = "wait" /\ UNCHANGED idx
           /\ UNCHANGED <<blocks, ui, off, mem, relaxed, store, kernel, batch, short, fails>>

Build == /\ pc = "build" /\ buf' = [buf EXCEPT ![idx] = ui] /\ pc' = "submit"
         /\ UNCHANGED <<blocks, ui, off, idx, slots, relaxed, store, kernel, batch, short, fails>>

\* The tail's store; the kernel sees it at once, or when the store buffer drains.
Push(entry) == IF relaxed THEN store' = Append(store, entry) /\ UNCHANGED sq
                          ELSE sq' = Append(sq, entry) /\ UNCHANGED store

Submit == /\ pc = "submit"
          /\ slots' = [slots EXCEPT ![idx] = [off |-> off, len |-> blocks[ui], acked |-> 0]]
          /\ Push([b |-> idx, off |-> off, at |-> 0, len |-> blocks[ui]])
          /\ off' = off + blocks[ui] /\ ui' = ui + 1 /\ pc' = "flags"
          /\ UNCHANGED <<blocks, idx, buf, relaxed, flag, poller, flight, cq, file, batch, short, fails>>

\* submit_and_wait(_, min_complete): after a push, none; before reaping, one.
Waked == IF flag THEN flag' = FALSE /\ poller' = "awake" ELSE UNCHANGED <<flag, poller>>

Flags(at, next) == /\ pc = at
                   /\ \/ Waked /\ pc' = next /\ UNCHANGED fails
                      \/ flag /\ Fail /\ UNCHANGED <<flag, poller>>
                   /\ UNCHANGED <<writer, store, sq, flight, cq, file, batch, short>>

AfterPush == Flags("flags", "acquire")
BeforeWait == Flags("wait", "events")
AfterRest == Flags("rest", "reap")

GetEvents == /\ pc = "events"
             /\ \/ cq # <<>> /\ pc' = "reap" /\ batch' = Len(cq) /\ UNCHANGED fails
                \/ Fail /\ UNCHANGED batch
             /\ UNCHANGED <<writer, store, kernel, short>>

\* One completion.
Reap == /\ pc = "reap" /\ batch > 0
        /\ cq' = Tail(cq) /\ batch' = batch - 1
        /\ LET b == Head(cq)[1]
               res == Head(cq)[2]
               s == [slots[b] EXCEPT !.acked = @ + res]
           IN  IF res < 0
               THEN pc' = "failed" /\ UNCHANGED <<slots, store, sq>>
               ELSE /\ slots' = [slots EXCEPT ![b] = s]
                    /\ IF s.acked < s.len
                       THEN /\ Push([b |-> b, off |-> s.off + s.acked, at |-> s.acked,
                                     len |-> s.len - s.acked])
                            /\ pc' = "rest"
                       ELSE pc' = "reap" /\ UNCHANGED <<store, sq>>
        /\ UNCHANGED <<blocks, ui, off, idx, buf, relaxed, flag, poller, flight, file, short, fails>>

Reaped == /\ pc = "reap" /\ batch = 0 /\ pc' = "acquire"
          /\ UNCHANGED <<writer, store, kernel, batch, short, fails>>

Drain == /\ pc = "acquire" /\ ui > Len(blocks)
         /\ pc' = IF \E b \in Bufs : Open(b) THEN "wait" ELSE "done"
         /\ UNCHANGED <<writer, store, kernel, batch, short, fails>>

----------------------------------------------------------------------------
\* The processor and the kernel.

Visible == /\ store # <<>> /\ sq' = Append(sq, Head(store)) /\ store' = Tail(store)
           /\ UNCHANGED <<pc, writer, flag, poller, flight, cq, file, batch, short, fails>>

Poll == /\ poller # "asleep" /\ sq # <<>>
        /\ flight' = flight \cup {Head(sq)} /\ sq' = Tail(sq)
        /\ poller' = "awake" /\ flag' = FALSE
        /\ UNCHANGED <<pc, writer, store, cq, file, batch, short, fails>>

\* Idle for sq_thread_idle: announce it, look again, sleep.
Doze == /\ sq = <<>>
        /\ \/ poller = "awake" /\ flag' = TRUE /\ poller' = "drowsy"
           \/ poller = "drowsy" /\ poller' = "asleep" /\ UNCHANGED flag
        /\ UNCHANGED <<pc, writer, store, sq, flight, cq, file, batch, short, fails>>

\* n of the entry's bytes reach the file, from what the buffer holds now.
Write(e, n) ==
    /\ file' = [p \in DOMAIN file |-> IF p \in e.off .. e.off + n - 1
                                      THEN <<buf[e.b], e.at + p - e.off>> ELSE file[p]]
    /\ cq' = Append(cq, <<e.b, n>>)

Complete == /\ \E e \in flight :
                  /\ flight' = flight \ {e}
                  /\ \/ Write(e, e.len) /\ UNCHANGED <<short, fails>>
                     \/ /\ short < MaxShort /\ short' = short + 1
                        /\ \E n \in 0 .. e.len - 1 : Write(e, n)
                        /\ UNCHANGED fails
                     \/ /\ fails < MaxFails /\ fails' = fails + 1
                        /\ cq' = Append(cq, <<e.b, -1>>)
                        /\ UNCHANGED <<file, short>>
            /\ UNCHANGED <<pc, writer, store, sq, flag, poller, batch>>

Writer == \/ Setup \/ Acquire \/ Build \/ Submit \/ AfterPush \/ BeforeWait
          \/ AfterRest \/ GetEvents \/ Reap \/ Reaped \/ Drain
Next == Writer \/ Visible \/ Poll \/ Doze \/ Complete

\* No call has to fail: the writer is fair in the steps that do not.
Writing == Writer /\ UNCHANGED fails
Fairness == WF_vars(Writing) /\ WF_vars(Visible) /\ WF_vars(Poll) /\ WF_vars(Complete)
Spec == Init /\ [][Next]_vars /\ Fairness

----------------------------------------------------------------------------
TypeOK == /\ pc \in {"setup", "acquire", "build", "submit", "flags", "wait", "events", "reap",
                     "rest", "done", "failed"}
          /\ idx \in Bufs /\ \A b \in Bufs : slots[b].acked \in 0 .. slots[b].len

\* A buffer is refilled only when the kernel is through with it, and a short write is continued
\* where it stopped: every byte that reaches the file is the byte that belongs there, and a writer
\* that reports success has written all of them (acquire, reap, drain).
Right(p) == LET k == file[p][1]
                n == file[p][2]
            IN  k \in DOMAIN blocks /\ n \in 0 .. blocks[k] - 1 /\ Before[k] + n = p
BytesRight == \A p \in DOMAIN file : Right(p) \/ (file[p] = NoByte /\ pc # "done")

\* push asks for no room: no more than one entry per buffer is under way, so the queue cannot run
\* over; and every block fits the buffers ring_write allocates, whose writes are unchecked.
QueueFits == /\ Len(store) + Len(sq) <= QueueDepth
             /\ \A k \in 1 .. Len(blocks) : blocks[k] <= Cap
=============================================================================
