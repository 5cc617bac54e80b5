------------------------------ MODULE BufPool ------------------------------
(***************************************************************************)
(* The packet buffers between the decoder and the encode workers: the      *)
(* counting semaphore of src/asm/sync/sem.asm, the bitmask pool PkgPool of *)
(* src/src/worker.rs, and their use in src/src/dec.rs (emit, pipe_direct)  *)
(* and src/src/enc.rs (run_enc_worker).                                    *)
(*                                                                         *)
(* One action is one access to a shared word.  The decoder takes a permit, *)
(* finds a free bit, fills the buffer and sends it; a worker receives it,  *)
(* encodes, sets the bit again and only then gives the permit back.  The   *)
(* ring in between (SeqRing) is a queue here: it never holds more than the *)
(* pool has buffers, so its capacity plays no part.                        *)
(***************************************************************************)
EXTENDS Naturals, Sequences, FiniteSets

CONSTANTS Workers,
          N,            \* buffers (args.chnk_buff)
          WordBits      \* bits of one word of the free mask (64)

ASSUME PoolAssumption == /\ N \in Nat \ {0}
                         /\ WordBits \in Nat \ {0}
                         /\ IsFiniteSet(Workers)

VARIABLES count, waiters,   \* Semaphore: permits, announced waiters
          free,             \* the bits set in PkgPool.free
          dpc,              \* label of the decoder
          eax,              \* the count it read
          word, bits,       \* the word of the mask it looks at, the bits it saw there
          slot,             \* the buffer it holds
          queue,            \* buffers sent and not yet received
          wpc, held         \* per worker: label and buffer

sem == <<count, waiters>>
decoder == <<dpc, eax, word, bits, slot>>
workers == <<wpc, held>>
vars == <<sem, free, decoder, queue, workers>>

Slots == 0 .. N - 1
WordOf(s) == s \div WordBits
LastWord == WordOf(N - 1)
InWord(w) == {s \in free : WordOf(s) = w}

Init == /\ count = N /\ waiters = 0
        /\ free = Slots
        /\ dpc = "spin" /\ eax = 0 /\ word = 0 /\ bits = {} /\ slot = 0
        /\ queue = <<>>
        /\ wpc = [w \in Workers |-> "recv"]
        /\ held = [w \in Workers |-> 0]

DStep(from, to) == dpc = from /\ dpc' = to

----------------------------------------------------------------------------
\* The decoder: sem_acq.

LoadCount == /\ DStep("spin", IF count = 0 THEN "announce" ELSE "cas")
             /\ eax' = count
             /\ UNCHANGED <<sem, free, word, bits, slot, queue, workers>>

TakePermit == /\ \/ /\ count = eax
                    /\ DStep("cas", "scan")
                    /\ count' = count - 1
                 \/ /\ count # eax
                    /\ DStep("cas", "spin")
                    /\ UNCHANGED count
              /\ word' = 0
              /\ UNCHANGED <<waiters, free, eax, bits, slot, queue, workers>>

AnnounceWait == /\ DStep("announce", "recheck")
                /\ waiters' = waiters + 1
                /\ UNCHANGED <<count, free, eax, word, bits, slot, queue, workers>>

RecheckCount == /\ DStep("recheck", IF count = 0 THEN "futex" ELSE "unwait")
                /\ UNCHANGED <<sem, free, eax, word, bits, slot, queue, workers>>

FutexWait == /\ DStep("futex", IF count = 0 THEN "asleep" ELSE "unwait")
             /\ UNCHANGED <<sem, free, eax, word, bits, slot, queue, workers>>

\* Mutation of RetractWait: the announcement is left behind.
RetractWaitLost == /\ DStep("unwait", "spin")
                   /\ UNCHANGED <<sem, free, eax, word, bits, slot, queue, workers>>

RetractWait == /\ DStep("unwait", "spin")
               /\ waiters' = waiters - 1
               /\ UNCHANGED <<count, free, eax, word, bits, slot, queue, workers>>

\* FUTEX_WAIT may also return without a wake.
SpuriousWake == /\ DStep("asleep", "unwait")
                /\ UNCHANGED <<sem, free, eax, word, bits, slot, queue, workers>>

----------------------------------------------------------------------------
\* The decoder: PkgPool.take, one word after the other, for ever.

NextWord == word' = IF word = LastWord THEN 0 ELSE word + 1

LoadWord == /\ bits' = InWord(word)
            /\ \/ bits' # {} /\ DStep("scan", "clear") /\ UNCHANGED word
               \/ bits' = {} /\ DStep("scan", "scan") /\ NextWord
            /\ UNCHANGED <<sem, free, eax, slot, queue, workers>>

\* Mutation of ClearBit: the bit is read, not cleared.
ClearBitNot == \E b \in bits :
                  /\ \A other \in bits : b <= other
                  /\ DStep("clear", "fill")
                  /\ slot' = b
                  /\ UNCHANGED <<sem, free, eax, word, bits, queue, workers>>

\* fetch_and(!mask) of the lowest bit seen: it is ours if it was still set.
ClearBit ==
    \E b \in bits :
       /\ \A other \in bits : b <= other
       /\ dpc = "clear"
       /\ free' = free \ {b}
       /\ \/ /\ b \in free
             /\ dpc' = "fill"
             /\ slot' = b
             /\ UNCHANGED <<word, bits>>
          \/ /\ b \notin free
             /\ bits' = InWord(word)
             /\ \/ bits' # {} /\ UNCHANGED <<dpc, word>>
                \/ bits' = {} /\ dpc' = "scan" /\ NextWord
             /\ UNCHANGED slot
       /\ UNCHANGED <<sem, eax, queue, workers>>

\* The decoded chunk is in the buffer: send it (there may be no further chunk).
Emit == /\ \/ DStep("fill", "spin")
           \/ DStep("fill", "done")
        /\ queue' = Append(queue, slot)
        /\ UNCHANGED <<sem, free, eax, word, bits, slot, workers>>

\* The pipe ended inside the chunk: the buffer goes back without its permit.
ShortRead == /\ DStep("fill", "done")
             /\ free' = free \cup {slot}
             /\ UNCHANGED <<sem, eax, word, bits, slot, queue, workers>>

Acquire == \/ LoadCount \/ TakePermit \/ AnnounceWait \/ RecheckCount
           \/ FutexWait \/ RetractWait
Take == LoadWord \/ ClearBit
Decode == Acquire \/ Take \/ Emit \/ ShortRead

----------------------------------------------------------------------------
\* The workers.

WStep(w, from, to) == wpc[w] = from /\ wpc' = [wpc EXCEPT ![w] = to]

Recv(w) == /\ queue # <<>>
           /\ held' = [held EXCEPT ![w] = Head(queue)]
           /\ queue' = Tail(queue)
           /\ WStep(w, "recv", "encode")
           /\ UNCHANGED <<sem, free, decoder>>

\* Mutation of Give: the permit is given back, the bit is not.
GiveNoBit(w) == /\ WStep(w, "encode", "release")
                /\ UNCHANGED <<sem, free, decoder, queue, held>>

\* The chunk is encoded and book-kept; PkgPool.give sets the bit.
Give(w) == /\ WStep(w, "encode", "release")
           /\ free' = free \cup {held[w]}
           /\ UNCHANGED <<sem, decoder, queue, held>>

ReleasePermit(w) == /\ WStep(w, "release", "waiters")
                    /\ count' = count + 1
                    /\ UNCHANGED <<waiters, free, decoder, queue, held>>

\* Mutation of AnyWaiter: a waiter is never looked for.
NoWaiter(w) == /\ WStep(w, "waiters", "recv")
               /\ UNCHANGED <<sem, free, decoder, queue, held>>

AnyWaiter(w) == /\ WStep(w, "waiters", IF waiters = 0 THEN "recv" ELSE "wake")
                /\ UNCHANGED <<sem, free, decoder, queue, held>>

FutexWake(w) == /\ WStep(w, "wake", "recv")
                /\ dpc' = IF dpc = "asleep" THEN "unwait" ELSE dpc
                /\ UNCHANGED <<sem, free, eax, word, bits, slot, queue, held>>

\* Mutation of Work: the permit is given back before the bit is set.
WorkPermitFirst(w) ==
    \/ Recv(w) \/ AnyWaiter(w) \/ FutexWake(w)
    \/ /\ WStep(w, "encode", "release")
       /\ count' = count + 1
       /\ UNCHANGED <<waiters, free, decoder, queue, held>>
    \/ /\ WStep(w, "release", "waiters")
       /\ free' = free \cup {held[w]}
       /\ UNCHANGED <<sem, decoder, queue, held>>

Work(w) == Recv(w) \/ Give(w) \/ ReleasePermit(w) \/ AnyWaiter(w) \/ FutexWake(w)

\* The decoder has sent its last chunk and every buffer is back.
Finished == /\ dpc = "done" /\ queue = <<>>
            /\ \A w \in Workers : wpc[w] = "recv"
            /\ UNCHANGED vars

Next == \/ Decode \/ SpuriousWake
        \/ \E w \in Workers : Work(w)
        \/ Finished

\* The decoder and every worker run when they can; an encode ends.
Spec == /\ Init /\ [][Next]_vars
        /\ WF_vars(Decode)
        /\ \A w \in Workers : WF_vars(Work(w))

----------------------------------------------------------------------------
DLabels == {"spin", "cas", "announce", "recheck", "futex", "asleep", "unwait",
            "scan", "clear", "fill", "done"}
WLabels == {"recv", "encode", "release", "waiters", "wake"}

TypeOK == /\ count \in Nat /\ waiters \in 0 .. 1
          /\ free \subseteq Slots
          /\ dpc \in DLabels
          /\ eax \in Nat
          /\ word \in 0 .. LastWord /\ bits \subseteq Slots /\ slot \in Slots
          /\ queue \in Seq(Slots)
          /\ wpc \in [Workers -> WLabels]
          /\ held \in [Workers -> Slots]

\* A buffer is in one place: free, being filled, in the queue (once), or with
\* one worker.  Its pixels are read and written without any lock.
Queued == {queue[i] : i \in DOMAIN queue}
Encoding == {w \in Workers : wpc[w] = "encode"}
OneOwner ==
    /\ \A i, j \in DOMAIN queue : i # j => queue[i] # queue[j]
    /\ \A v, w \in Encoding : v # w => held[v] # held[w]
    /\ \A w \in Encoding : held[w] \notin free \cup Queued
    /\ Queued \cap free = {}
    /\ dpc = "fill" => /\ slot \notin free \cup Queued
                       /\ \A w \in Encoding : held[w] # slot

\* "permit is already held; free slot exists or 1 release away"
\* (worker.rs:174): in fact the bit is set before the permit is given back, so
\* the first pass over the words always meets it and take never spins.
FirstPassFinds == dpc \in {"scan", "clear"} => \E s \in free : WordOf(s) >= word

\* Permits and free bits are two counts of the same thing, and differ only by
\* the buffers whose bit and permit are being moved one after the other.
PermitsCounted ==
    dpc # "done" =>
      Cardinality(free) = count + Cardinality({w \in Workers : wpc[w] = "release"})
                                + (IF dpc \in {"scan", "clear"} THEN 1 ELSE 0)

\* The decoder never sleeps on a semaphore that has a permit, except while the
\* release that will wake it is still on its way.
DecoderCovered == dpc = "asleep" /\ count > 0 =>
                    \E w \in Workers : wpc[w] \in {"waiters", "wake"}

\* The decoder is not held up while there are buffers: it is woken when a permit comes while it
\* sleeps, and a permit it has stands for a bit it has still to come to.
DecoderGetsOn == DecoderCovered /\ FirstPassFinds

\* Every buffer comes back to the pool, however the workers run.
BuffersReturn == \A s \in Slots : s \notin free ~> s \in free
=============================================================================
