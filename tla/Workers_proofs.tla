--------------------------- MODULE Workers_proofs ---------------------------
(***************************************************************************)
(* The parts of an encode worker, for all their constants.                 *)
(*                                                                         *)
(* First the buffer pool (BufPool), for every number of workers, buffers   *)
(* and words.  PermitsCounted carries the argument: holding a permit means *)
(* that the number of free bits is at least one, and as only the decoder   *)
(* clears bits, what is free when the permit is taken stays free until the *)
(* scan meets it (FirstPassFinds).                                         *)
(*                                                                         *)
(* Then the mutex of sync.rs (FutexMutex): it excludes, and forgets no     *)
(* sleeper, for every set of threads.  Its invariants are inductive        *)
(* together: exclusion needs "the word is 0 only when nobody holds it",    *)
(* and that the sleepers are covered only the order of swap, wait and      *)
(* wake.                                                                   *)
(*                                                                         *)
(* Then the encoders called as libraries (LibEncoders), for every number   *)
(* of chunks and of frames, every size of the sink and every bound of the  *)
(* failures.  Their invariant follows the bytes from the encoder to the    *)
(* file: what is in the file, in the vector and behind it, in this order,  *)
(* is every packet that came out so far (LibWhole), as long as no write    *)
(* failed.  When one did, the vector keeps what it should have lost;       *)
(* LibOwned says whose that is, and when a file is opened over it.         *)
(*                                                                         *)
(* Last, what MCWorkers composes: a step of it is a step of the part that  *)
(* runs and leaves the others alone, so that each part keeps the invariant *)
(* proved here or in a module of its own (TqPipeline_proofs).              *)
(***************************************************************************)
EXTENDS MCWorkers, FiniteSetTheorems, FunctionTheorems, SequenceTheorems, TLAPS

USE PoolAssumption

\* The semaphore's word is never decremented from 0, and the decoder counts
\* as a waiter exactly while it is between announcing and retracting.
SemWords == /\ dpc = "cas" => eax > 0
            /\ waiters = IF dpc \in {"recheck", "futex", "asleep", "unwait"} THEN 1 ELSE 0

\* The bits the decoder saw are still free: nobody else clears one.
SeenFree == dpc = "clear" => bits \subseteq free

PoolInv == /\ TypeOK /\ OneOwner /\ FirstPassFinds /\ PermitsCounted /\ DecoderCovered
           /\ SemWords /\ SeenFree

Releasing == {w \in Workers : wpc[w] = "release"}
Held == IF dpc \in {"scan", "clear"} THEN 1 ELSE 0

LEMMA Finite ==
    ASSUME TypeOK
    PROVE /\ IsFiniteSet(free) /\ Cardinality(free) \in Nat
          /\ IsFiniteSet(Releasing) /\ Cardinality(Releasing) \in Nat
<1>1. IsFiniteSet(Slots)
  BY FS_Interval DEF Slots
<1>2. free \in SUBSET Slots /\ Releasing \in SUBSET Workers
  BY DEF TypeOK, Releasing
<1> QED BY <1>1, <1>2, FS_Subset, FS_CardinalityType

LEMMA WordType == \A s \in Slots : WordOf(s) \in 0 .. LastWord
<1> SUFFICES ASSUME NEW s \in Slots PROVE WordOf(s) \in 0 .. LastWord
  OBVIOUS
<1>1. s \in Nat /\ N - 1 \in Nat /\ s <= N - 1
  BY DEF Slots
<1> QED BY <1>1 DEF WordOf, LastWord

LEMMA LastWordType == LastWord \in Nat
  BY DEF LastWord, WordOf

LEMMA InitPool == Init => PoolInv
<1> SUFFICES ASSUME Init PROVE PoolInv
  OBVIOUS
<1>1. TypeOK
  <2>1. 0 \in Slots /\ LastWord \in Nat
    BY LastWordType DEF Slots
  <2> QED BY <2>1 DEF Init, TypeOK, DLabels, WLabels
<1>2. OneOwner
  BY DEF Init, OneOwner, Queued, Encoding
<1>3. Cardinality(free) = count /\ Releasing = {}
  BY FS_Interval DEF Init, Slots, Releasing
<1>4. PermitsCounted
  <2>1. Cardinality(Releasing) = 0 /\ count \in Nat /\ dpc = "spin"
    BY <1>3, FS_EmptySet DEF Init
  <2> QED BY <1>3, <2>1 DEF PermitsCounted, Releasing
<1> QED BY <1>1, <1>2, <1>4 DEF Init, PoolInv, FirstPassFinds, DecoderCovered, SemWords, SeenFree

\* sem_acq before the permit: the decoder moves through the semaphore, nothing
\* else changes.
LEMMA AcquireStep ==
    ASSUME PoolInv, LoadCount \/ AnnounceWait \/ RecheckCount \/ FutexWait \/ RetractWait
                    \/ SpuriousWake
    PROVE PoolInv'
<1> USE DEF sem, workers, decoder, DStep
<1>1. /\ UNCHANGED <<count, free, word, bits, slot, queue, workers>>
      /\ dpc \in {"spin", "announce", "recheck", "futex", "asleep", "unwait"}
      /\ dpc' \in {"spin", "announce", "cas", "recheck", "futex", "asleep", "unwait"}
  BY DEF LoadCount, AnnounceWait, RecheckCount, FutexWait, RetractWait, SpuriousWake
<1>2. TypeOK' /\ SemWords'
  BY DEF PoolInv, TypeOK, SemWords, DLabels,
         LoadCount, AnnounceWait, RecheckCount, FutexWait, RetractWait, SpuriousWake
<1>3. OneOwner'
  BY <1>1 DEF PoolInv, OneOwner, Queued, Encoding
<1>4. PermitsCounted'
  BY <1>1 DEF PoolInv, PermitsCounted
<1>5. DecoderCovered'
  BY <1>1 DEF PoolInv, DecoderCovered, LoadCount, AnnounceWait, RecheckCount, FutexWait,
             RetractWait, SpuriousWake
<1> QED BY <1>1, <1>2, <1>3, <1>4, <1>5 DEF PoolInv, FirstPassFinds, SeenFree

LEMMA PermitStep ==
    ASSUME PoolInv, TakePermit
    PROVE PoolInv'
<1> USE DEF sem, workers, decoder, DStep
<1>1. /\ UNCHANGED <<waiters, free, bits, slot, queue, workers>> /\ word' = 0
      /\ dpc = "cas" /\ dpc' \in {"scan", "spin"}
  BY DEF TakePermit
<1>2. count \in Nat /\ (dpc' = "scan" => count > 0 /\ count' = count - 1)
  BY <1>1 DEF PoolInv, TypeOK, SemWords, TakePermit
<1>3. TypeOK' /\ SemWords'
  BY <1>1, <1>2, LastWordType DEF PoolInv, TypeOK, SemWords, DLabels, TakePermit
<1>4. OneOwner'
  BY <1>1 DEF PoolInv, OneOwner, Queued, Encoding
<1>5. Cardinality(free) = count + Cardinality(Releasing)
  <2>1. Cardinality(free) = count + Cardinality(Releasing) + 0
    BY <1>1 DEF PoolInv, PermitsCounted, Releasing
  <2> QED BY <1>2, <2>1, Finite DEF PoolInv
<1>6. PermitsCounted'
  <2>1. Cardinality(Releasing) \in Nat /\ Releasing' = Releasing
    BY <1>1, Finite DEF PoolInv, Releasing
  <2>2. CASE dpc' = "scan"
    BY <1>1, <1>2, <1>5, <2>1, <2>2 DEF PermitsCounted, Releasing
  <2>3. CASE dpc' = "spin"
    <3>1. count' = count
      BY <2>3 DEF TakePermit
    <3> QED BY <1>1, <1>2, <1>5, <2>1, <2>3, <3>1 DEF PermitsCounted, Releasing
  <2> QED BY <1>1, <2>2, <2>3
<1>7. FirstPassFinds'
  <2> SUFFICES ASSUME dpc' = "scan" PROVE \E s \in free : WordOf(s) >= 0
    BY <1>1 DEF FirstPassFinds
  <2>1. Cardinality(free) > 0
    BY <1>2, <1>5, Finite DEF PoolInv
  <2>2. PICK s \in free : TRUE
    BY <2>1, FS_EmptySet
  <2>3. WordOf(s) \in 0 .. LastWord
    BY WordType DEF PoolInv, TypeOK
  <2> QED BY <2>3
<1> QED BY <1>1, <1>3, <1>4, <1>6, <1>7 DEF PoolInv, DecoderCovered, SeenFree

\* The word looked at is empty, so what the scan is bound to meet is in a later one.
LEMMA LoadWordStep ==
    ASSUME PoolInv, LoadWord
    PROVE PoolInv'
<1> USE DEF sem, workers, decoder, DStep
<1>1. /\ UNCHANGED <<sem, free, slot, queue, workers, eax>>
      /\ dpc = "scan" /\ dpc' \in {"scan", "clear"}
      /\ bits' = InWord(word)
  BY DEF LoadWord
<1>2. PICK s \in free : WordOf(s) >= word
  BY <1>1 DEF PoolInv, FirstPassFinds
<1>3. s \in Slots /\ WordOf(s) \in 0 .. LastWord /\ word \in 0 .. LastWord /\ LastWord \in Int
  BY WordType, LastWordType DEF PoolInv, TypeOK
<1>4. dpc' = "scan" => word' = word + 1 /\ WordOf(s) >= word + 1
  <2> SUFFICES ASSUME dpc' = "scan" PROVE word' = word + 1 /\ WordOf(s) >= word + 1
    OBVIOUS
  <2>1. bits' = {} /\ NextWord
    BY DEF LoadWord
  <2>2. WordOf(s) # word
    BY <1>1, <2>1 DEF InWord
  <2> QED BY <1>2, <1>3, <2>1, <2>2 DEF NextWord
<1>5. dpc' = "clear" => word' = word
  BY DEF LoadWord
<1>6. FirstPassFinds'
  BY <1>1, <1>2, <1>4, <1>5 DEF FirstPassFinds
<1>7. TypeOK'
  <2>1. word' \in 0 .. LastWord
    BY <1>1, <1>3, <1>4, <1>5
  <2>2. bits' \subseteq Slots
    BY <1>1 DEF PoolInv, TypeOK, InWord
  <2> QED BY <1>1, <2>1, <2>2 DEF PoolInv, TypeOK, DLabels
<1>8. OneOwner'
  BY <1>1 DEF PoolInv, OneOwner, Queued, Encoding
<1>9. PermitsCounted'
  BY <1>1 DEF PoolInv, PermitsCounted
<1>10. SemWords' /\ SeenFree'
  BY <1>1 DEF PoolInv, SemWords, SeenFree, InWord
<1> QED BY <1>1, <1>6, <1>7, <1>8, <1>9, <1>10 DEF PoolInv, DecoderCovered

\* With one decoder the bit seen is always still set, and becomes its buffer.
LEMMA ClearBitStep ==
    ASSUME PoolInv, ClearBit
    PROVE PoolInv'
<1> USE DEF sem, workers, decoder
<1>1. PICK b \in bits : /\ dpc = "clear" /\ free' = free \ {b} /\ b \in free
                        /\ dpc' = "fill" /\ slot' = b
                        /\ UNCHANGED <<word, bits, sem, eax, queue, workers>>
  BY DEF ClearBit, PoolInv, SeenFree
<1>2. b \in Slots
  BY <1>1 DEF PoolInv, TypeOK
<1>3. TypeOK'
  BY <1>1, <1>2 DEF PoolInv, TypeOK, DLabels
<1>4. OneOwner'
  BY <1>1 DEF PoolInv, OneOwner, Queued, Encoding
<1>5. PermitsCounted'
  <2>1. Cardinality(free') = Cardinality(free) - 1
    BY <1>1, Finite, FS_RemoveElement DEF PoolInv
  <2>2. Cardinality(free) = count + Cardinality(Releasing) + 1 /\ Releasing' = Releasing
    BY <1>1 DEF PoolInv, PermitsCounted, Releasing
  <2>3. count \in Nat /\ Cardinality(Releasing) \in Nat
    BY Finite DEF PoolInv, TypeOK
  <2> QED BY <1>1, <2>1, <2>2, <2>3 DEF PermitsCounted, Releasing
<1> QED BY <1>1, <1>3, <1>4, <1>5 DEF PoolInv, FirstPassFinds, DecoderCovered, SemWords, SeenFree

LEMMA EmitStep ==
    ASSUME PoolInv, Emit
    PROVE PoolInv'
<1> USE DEF sem, workers, decoder, DStep
<1>1. /\ UNCHANGED <<sem, free, eax, word, bits, slot, workers>>
      /\ dpc = "fill" /\ dpc' \in {"spin", "done"}
      /\ queue' = Append(queue, slot)
  BY DEF Emit
<1>2. queue \in Seq(Slots) /\ slot \in Slots
  BY DEF PoolInv, TypeOK
<1>3. /\ DOMAIN queue = 1 .. Len(queue) /\ DOMAIN queue' = 1 .. Len(queue) + 1
      /\ queue'[Len(queue) + 1] = slot /\ Len(queue) \in Nat
      /\ \A i \in 1 .. Len(queue) : queue'[i] = queue[i]
  BY <1>1, <1>2
<1>4. Queued' = Queued \cup {slot}
  BY <1>3 DEF Queued
<1>5. TypeOK'
  BY <1>1, <1>2 DEF PoolInv, TypeOK, DLabels
<1>6. OneOwner'
  <2>1. slot \notin free \cup Queued /\ \A w \in Encoding : held[w] # slot
    BY <1>1 DEF PoolInv, OneOwner
  <2>2. ASSUME NEW i \in DOMAIN queue', NEW j \in DOMAIN queue', i # j
        PROVE queue'[i] # queue'[j]
    <3>1. \A k \in 1 .. Len(queue) : queue[k] # slot
      BY <1>3, <2>1 DEF Queued
    <3>2. \A k, l \in 1 .. Len(queue) : k # l => queue[k] # queue[l]
      BY <1>3 DEF PoolInv, OneOwner
    <3> QED BY <1>3, <2>2, <3>1, <3>2
  <2>3. Encoding' = Encoding /\ held' = held /\ free' = free
    BY <1>1 DEF Encoding
  <2>4. \A w \in Encoding : held[w] \notin free \cup Queued
    BY DEF PoolInv, OneOwner
  <2>5. /\ Queued \cap free = {}
        /\ \A v, w \in Encoding : v # w => held[v] # held[w]
    BY DEF PoolInv, OneOwner
  <2> QED BY <1>1, <1>4, <2>1, <2>2, <2>3, <2>4, <2>5 DEF OneOwner
<1>7. PermitsCounted'
  BY <1>1 DEF PoolInv, PermitsCounted
<1> QED BY <1>1, <1>5, <1>6, <1>7
        DEF PoolInv, FirstPassFinds, DecoderCovered, SemWords, SeenFree

LEMMA ShortReadStep ==
    ASSUME PoolInv, ShortRead
    PROVE PoolInv'
<1> USE DEF sem, workers, decoder, DStep
<1>1. /\ UNCHANGED <<sem, eax, word, bits, slot, queue, workers>>
      /\ dpc = "fill" /\ dpc' = "done" /\ free' = free \cup {slot}
  BY DEF ShortRead
<1>2. TypeOK'
  BY <1>1 DEF PoolInv, TypeOK, DLabels
<1>3. OneOwner'
  BY <1>1 DEF PoolInv, OneOwner, Queued, Encoding
<1> QED BY <1>1, <1>2, <1>3
        DEF PoolInv, PermitsCounted, FirstPassFinds, DecoderCovered, SemWords, SeenFree

\* One worker's label moves.
LEMMA WorkerMoves ==
    ASSUME TypeOK, NEW w \in Workers, NEW from, NEW to \in WLabels, WStep(w, from, to)
    PROVE /\ wpc[w] = from /\ wpc'[w] = to /\ wpc' \in [Workers -> WLabels]
          /\ \A v \in Workers : v # w => wpc'[v] = wpc[v]
  BY DEF WStep, TypeOK

LEMMA RecvStep ==
    ASSUME PoolInv, NEW w \in Workers, Recv(w)
    PROVE PoolInv'
<1> USE DEF sem, workers, decoder
<1>1. /\ UNCHANGED <<sem, free, decoder>>
      /\ queue # <<>> /\ queue' = Tail(queue)
      /\ held' = [held EXCEPT ![w] = Head(queue)]
      /\ wpc[w] = "recv" /\ wpc'[w] = "encode" /\ wpc' \in [Workers -> WLabels]
      /\ \A v \in Workers : v # w => wpc'[v] = wpc[v]
  BY WorkerMoves DEF Recv, PoolInv, WLabels
<1>2. queue \in Seq(Slots) /\ held \in [Workers -> Slots]
  BY DEF PoolInv, TypeOK
<1>3. /\ DOMAIN queue = 1 .. Len(queue) /\ Len(queue) \in Nat /\ Len(queue) > 0
      /\ Head(queue) = queue[1] /\ queue[1] \in Slots
      /\ queue' \in Seq(Slots) /\ DOMAIN queue' = 1 .. Len(queue) - 1
      /\ \A i \in 1 .. Len(queue) - 1 : queue'[i] = queue[i + 1]
  BY <1>1, <1>2
<1>4. /\ held'[w] = queue[1] /\ held' \in [Workers -> Slots]
      /\ \A v \in Workers : v # w => held'[v] = held[v]
  BY <1>1, <1>2, <1>3
<1>5. Queued' \subseteq Queued /\ queue[1] \in Queued /\ queue[1] \notin Queued'
  <2>1. \A i, j \in 1 .. Len(queue) : i # j => queue[i] # queue[j]
    BY <1>3 DEF PoolInv, OneOwner
  <2>2. queue[1] \in Queued
    BY <1>3 DEF Queued
  <2>3. \A i \in DOMAIN queue' : queue'[i] \in Queued /\ queue'[i] # queue[1]
    <3> TAKE i \in DOMAIN queue'
    <3>1. i + 1 \in 1 .. Len(queue) /\ i + 1 # 1 /\ queue'[i] = queue[i + 1]
      BY <1>3
    <3> QED BY <1>3, <2>1, <3>1 DEF Queued
  <2> QED BY <2>2, <2>3 DEF Queued
<1>6. TypeOK'
  BY <1>1, <1>3, <1>4 DEF PoolInv, TypeOK
<1>7. OneOwner'
  <2>1. Encoding' = Encoding \cup {w}
    BY <1>1 DEF Encoding
  <2>2. ASSUME NEW i \in DOMAIN queue', NEW j \in DOMAIN queue', i # j
        PROVE queue'[i] # queue'[j]
    <3>1. i + 1 \in DOMAIN queue /\ j + 1 \in DOMAIN queue /\ i + 1 # j + 1
      BY <1>3, <2>2
    <3> QED BY <1>3, <2>2, <3>1 DEF PoolInv, OneOwner
  <2>3. \A v \in Encoding : held[v] \notin free \cup Queued /\ v # w /\ v \in Workers
    BY <1>1 DEF PoolInv, OneOwner, Encoding
  <2>4. Queued \cap free = {} /\ \A u, v \in Encoding : u # v => held[u] # held[v]
    BY DEF PoolInv, OneOwner
  <2>5. \A u, v \in Encoding' : u # v => held'[u] # held'[v]
    BY <1>4, <1>5, <2>1, <2>3, <2>4
  <2>6. \A v \in Encoding' : held'[v] \notin free \cup Queued'
    BY <1>4, <1>5, <2>1, <2>3, <2>4
  <2>7. dpc = "fill" => slot \notin free \cup Queued' /\ \A v \in Encoding' : held'[v] # slot
    BY <1>4, <1>5, <2>1, <2>3 DEF PoolInv, OneOwner
  <2> QED BY <1>1, <1>5, <2>2, <2>4, <2>5, <2>6, <2>7 DEF OneOwner
<1>8. PermitsCounted'
  <2>1. Releasing' = Releasing
    BY <1>1 DEF Releasing
  <2> QED BY <1>1, <2>1 DEF PoolInv, PermitsCounted, Releasing
<1>9. DecoderCovered'
  BY <1>1 DEF PoolInv, DecoderCovered
<1> QED BY <1>1, <1>6, <1>7, <1>8, <1>9 DEF PoolInv, FirstPassFinds, SemWords, SeenFree

LEMMA GiveStep ==
    ASSUME PoolInv, NEW w \in Workers, Give(w)
    PROVE PoolInv'
<1> USE DEF sem, workers, decoder
<1>1. /\ UNCHANGED <<sem, decoder, queue, held>> /\ free' = free \cup {held[w]}
      /\ wpc[w] = "encode" /\ wpc'[w] = "release" /\ wpc' \in [Workers -> WLabels]
      /\ \A v \in Workers : v # w => wpc'[v] = wpc[v]
  BY WorkerMoves DEF Give, PoolInv, WLabels
<1>2. held[w] \in Slots /\ held[w] \notin free \cup Queued
  BY <1>1 DEF PoolInv, TypeOK, OneOwner, Encoding
<1>3. TypeOK'
  BY <1>1, <1>2 DEF PoolInv, TypeOK
<1>4. OneOwner'
  <2>1. Encoding' = Encoding \ {w} /\ w \in Encoding
    BY <1>1 DEF Encoding
  <2>2. Queued' = Queued
    BY <1>1 DEF Queued
  <2> QED BY <1>1, <1>2, <2>1, <2>2 DEF PoolInv, OneOwner
<1>5. PermitsCounted'
  <2>1. Releasing' = Releasing \cup {w} /\ w \notin Releasing
    BY <1>1 DEF Releasing
  <2>2. Cardinality(Releasing') = Cardinality(Releasing) + 1
    BY <2>1, Finite, FS_AddElement DEF PoolInv
  <2>3. Cardinality(free') = Cardinality(free) + 1
    BY <1>1, <1>2, Finite, FS_AddElement DEF PoolInv
  <2>4. dpc # "done" => Cardinality(free) = count + Cardinality(Releasing) + Held
    BY DEF PoolInv, PermitsCounted, Releasing, Held
  <2>5. count \in Nat /\ Cardinality(Releasing) \in Nat /\ Held \in Nat
    BY Finite DEF PoolInv, TypeOK, Held
  <2>6. dpc # "done" => Cardinality(free') = count + Cardinality(Releasing') + Held
    BY <2>2, <2>3, <2>4, <2>5
  <2> QED BY <1>1, <2>6 DEF PermitsCounted, Releasing, Held
<1>6. DecoderCovered'
  BY <1>1 DEF PoolInv, DecoderCovered
<1>7. FirstPassFinds' /\ SeenFree'
  BY <1>1 DEF PoolInv, FirstPassFinds, SeenFree
<1> QED BY <1>1, <1>3, <1>4, <1>5, <1>6, <1>7 DEF PoolInv, SemWords

LEMMA ReleaseStep ==
    ASSUME PoolInv, NEW w \in Workers, ReleasePermit(w)
    PROVE PoolInv'
<1> USE DEF sem, workers, decoder
<1>1. /\ UNCHANGED <<waiters, free, decoder, queue, held>> /\ count' = count + 1
      /\ wpc[w] = "release" /\ wpc'[w] = "waiters" /\ wpc' \in [Workers -> WLabels]
      /\ \A v \in Workers : v # w => wpc'[v] = wpc[v]
  BY WorkerMoves DEF ReleasePermit, PoolInv, WLabels
<1>2. TypeOK'
  BY <1>1 DEF PoolInv, TypeOK
<1>3. OneOwner'
  <2>1. Encoding' = Encoding /\ Queued' = Queued
    BY <1>1 DEF Encoding, Queued
  <2> QED BY <1>1, <2>1 DEF PoolInv, OneOwner
<1>4. PermitsCounted'
  <2>1. Releasing' = Releasing \ {w} /\ w \in Releasing
    BY <1>1 DEF Releasing
  <2>2. Cardinality(Releasing') = Cardinality(Releasing) - 1
    BY <2>1, Finite, FS_RemoveElement DEF PoolInv
  <2>3. dpc # "done" => Cardinality(free) = count + Cardinality(Releasing) + Held
    BY DEF PoolInv, PermitsCounted, Releasing, Held
  <2>4. count \in Nat /\ Cardinality(Releasing) \in Nat /\ Held \in Nat
    BY Finite DEF PoolInv, TypeOK, Held
  <2>5. dpc # "done" => Cardinality(free) = count' + Cardinality(Releasing') + Held
    BY <1>1, <2>2, <2>3, <2>4
  <2> QED BY <1>1, <2>5 DEF PermitsCounted, Releasing, Held
<1>5. DecoderCovered'
  BY <1>1 DEF DecoderCovered
<1> QED BY <1>1, <1>2, <1>3, <1>4, <1>5 DEF PoolInv, FirstPassFinds, SemWords, SeenFree

\* A releaser that finds no waiter: the decoder is not asleep.  One that finds
\* one wakes it.
LEMMA WakeStep ==
    ASSUME PoolInv, NEW w \in Workers, AnyWaiter(w) \/ FutexWake(w)
    PROVE PoolInv'
<1> USE DEF sem, workers, decoder
<1>1. /\ UNCHANGED <<sem, free, eax, word, bits, slot, queue, held>>
      /\ wpc[w] \in {"waiters", "wake"} /\ wpc'[w] \in {"recv", "wake"}
      /\ wpc' \in [Workers -> WLabels]
      /\ \A v \in Workers : v # w => wpc'[v] = wpc[v]
      /\ dpc' = dpc \/ (dpc = "asleep" /\ dpc' = "unwait")
      /\ dpc' = "asleep" => wpc'[w] = "wake"
  <2>1. CASE AnyWaiter(w)
    BY <2>1, WorkerMoves DEF AnyWaiter, PoolInv, WLabels, SemWords
  <2>2. CASE FutexWake(w)
    BY <2>2, WorkerMoves DEF FutexWake, PoolInv, WLabels
  <2> QED BY <2>1, <2>2
<1>2. TypeOK' /\ SemWords'
  BY <1>1 DEF PoolInv, TypeOK, SemWords, DLabels
<1>3. OneOwner'
  <2>1. Encoding' = Encoding /\ Queued' = Queued
    BY <1>1 DEF Encoding, Queued
  <2> QED BY <1>1, <2>1 DEF PoolInv, OneOwner
<1>4. PermitsCounted'
  <2>1. Releasing' = Releasing
    BY <1>1 DEF Releasing
  <2> QED BY <1>1, <2>1 DEF PoolInv, PermitsCounted, Releasing
<1>5. DecoderCovered'
  BY <1>1 DEF DecoderCovered
<1> QED BY <1>1, <1>2, <1>3, <1>4, <1>5 DEF PoolInv, FirstPassFinds, SeenFree

LEMMA PoolStep == ASSUME PoolInv, [Next]_vars PROVE PoolInv'
<1>1. CASE Decode \/ SpuriousWake
  BY <1>1, AcquireStep, PermitStep, LoadWordStep, ClearBitStep, EmitStep, ShortReadStep
     DEF Decode, Acquire, Take
<1>2. ASSUME NEW w \in Workers, Work(w) PROVE PoolInv'
  BY <1>2, RecvStep, GiveStep, ReleaseStep, WakeStep DEF Work
<1>3. CASE UNCHANGED vars
  BY <1>3 DEF vars, sem, decoder, workers, PoolInv, TypeOK, OneOwner, Queued, Encoding,
              FirstPassFinds, PermitsCounted, DecoderCovered, SemWords, SeenFree
<1> QED BY <1>1, <1>2, <1>3 DEF Next, Finished

\* The inductive invariant of the pool holds in every reachable state: a buffer
\* has one owner, the permits count the free bits but for those in transit, and
\* the decoder does not sleep on a permit nobody will announce (worker.rs).
THEOREM PoolInvariant == Spec => []PoolInv
<1>1. PoolInv /\ [Next]_vars => PoolInv'
  BY PoolStep
<1> QED BY InitPool, <1>1, PTL DEF Spec

\* A buffer never has two owners (dec.rs, worker.rs).
THEOREM BuffersOwnedOnce == Spec => []OneOwner
  BY PoolInvariant, PTL DEF PoolInv

\* PkgPool::take never needs a second pass over the mask.
THEOREM TakeFindsAtOnce == Spec => []FirstPassFinds
  BY PoolInvariant, PTL DEF PoolInv

\* Permits and free bits never drift apart.
THEOREM PermitsMatchBits == Spec => []PermitsCounted
  BY PoolInvariant, PTL DEF PoolInv

\* No wakeup of the decoder is lost, and with a permit its first pass finds a free buffer (sem.asm,
\* worker.rs).
THEOREM DecoderNotForgotten == Spec => []DecoderGetsOn
  BY PoolInvariant, PTL DEF PoolInv, DecoderGetsOn

----------------------------------------------------------------------------
MutexInv == Mutex!TypeOK /\ Mutex!MutualExclusion /\ Mutex!WordTellsHeld /\ Mutex!SleepersCovered

\* A step moves one thread from one label to another.
LEMMA MutexStepMoves ==
    ASSUME Mutex!TypeOK, NEW t \in MutexThreads, NEW from, NEW to, Mutex!Step(t, from, to)
    PROVE /\ mutex_pc[t] = from /\ mutex_pc'[t] = to
          /\ \A u \in MutexThreads : u # t => mutex_pc'[u] = mutex_pc[u]
  BY DEF Mutex!Step, Mutex!TypeOK

LEMMA MutexStepType ==
    ASSUME Mutex!TypeOK, NEW t \in MutexThreads, NEW from, NEW to \in Mutex!Labels, Mutex!Step(t, from, to)
    PROVE mutex_pc' \in [MutexThreads -> Mutex!Labels]
  BY DEF Mutex!Step, Mutex!TypeOK

\* Who holds the lock, and who sleeps, after one thread moved.
LEMMA MutexHoldersMove ==
    ASSUME Mutex!TypeOK, NEW t \in MutexThreads, NEW from, NEW to, Mutex!Step(t, from, to)
    PROVE /\ Mutex!Holders' = IF to = "cs" THEN Mutex!Holders \cup {t} ELSE Mutex!Holders \ {t}
          /\ Mutex!Asleep' = IF to = "asleep" THEN Mutex!Asleep \cup {t} ELSE Mutex!Asleep \ {t}
  BY MutexStepMoves DEF Mutex!Holders, Mutex!Asleep

LEMMA MutexInitInv == Mutex!Init => MutexInv
  BY DEF Mutex!Init, MutexInv, Mutex!TypeOK, Mutex!Labels, Mutex!MutualExclusion, Mutex!WordTellsHeld, Mutex!SleepersCovered,
         Mutex!Holders, Mutex!Asleep

\* lock and lock_slow: a compare_exchange that succeeds finds 0, so nobody holds
\* the lock; one that fails changes nothing.
LEMMA MutexCompareStep ==
    ASSUME MutexInv, NEW t \in MutexThreads, NEW from \in {"out", "retry"},
           NEW next \in {"spin", "swap"}, Mutex!CompareExchange(t, from, next)
    PROVE MutexInv'
<1>0. Mutex!TypeOK
  BY DEF MutexInv
<1>1. CASE mutex_state = 0 /\ mutex_state' = 1 /\ Mutex!Step(t, from, "cs")
  <2>1. Mutex!Holders = {}
    BY <1>1 DEF MutexInv, Mutex!WordTellsHeld
  <2>2. Mutex!Holders' = {t} /\ Mutex!Asleep' = Mutex!Asleep \ {t}
    BY <1>0, <1>1, <2>1, MutexHoldersMove
  <2>3. Mutex!TypeOK'
    BY <1>0, <1>1, MutexStepType DEF Mutex!TypeOK, Mutex!Labels
  <2>4. Mutex!SleepersCovered'
    <3>1. ASSUME NEW u \in MutexThreads, mutex_pc[u] \in {"swap", "wake"} PROVE mutex_pc'[u] = mutex_pc[u]
      BY <1>0, <1>1, <3>1, MutexStepMoves
    <3> QED BY <1>1, <2>2, <3>1 DEF MutexInv, Mutex!SleepersCovered
  <2> QED BY <1>1, <2>2, <2>3, <2>4 DEF MutexInv, Mutex!MutualExclusion, Mutex!WordTellsHeld
<1>2. CASE mutex_state # 0 /\ Mutex!Step(t, from, next) /\ UNCHANGED mutex_state
  <2>1. mutex_pc[t] = from /\ t \notin Mutex!Holders /\ t \notin Mutex!Asleep
    BY <1>0, <1>2, MutexStepMoves DEF Mutex!Holders, Mutex!Asleep
  <2>2. Mutex!Holders' = Mutex!Holders /\ Mutex!Asleep' = Mutex!Asleep
    BY <1>0, <1>2, <2>1, MutexHoldersMove
  <2>3. Mutex!TypeOK'
    BY <1>0, <1>2, MutexStepType DEF Mutex!TypeOK, Mutex!Labels
  <2>4. Mutex!SleepersCovered'
    <3>1. ASSUME NEW u \in MutexThreads, mutex_pc[u] \in {"swap", "wake"} PROVE mutex_pc'[u] = mutex_pc[u]
      BY <1>0, <1>2, <3>1, MutexStepMoves
    <3> QED BY <1>2, <2>2, <3>1 DEF MutexInv, Mutex!SleepersCovered
  <2> QED BY <1>2, <2>2, <2>3, <2>4 DEF MutexInv, Mutex!MutualExclusion, Mutex!WordTellsHeld
<1> QED BY <1>1, <1>2 DEF Mutex!CompareExchange

LEMMA MutexSwapStep ==
    ASSUME MutexInv, NEW t \in MutexThreads, Mutex!SwapTwo(t)
    PROVE MutexInv'
<1>0. Mutex!TypeOK
  BY DEF MutexInv
<1>1. CASE mutex_state = 0
  <2>1. Mutex!Holders = {} /\ Mutex!Step(t, "swap", "cs") /\ mutex_state' = 2
    BY <1>1 DEF MutexInv, Mutex!WordTellsHeld, Mutex!SwapTwo
  <2>2. Mutex!Holders' = {t}
    BY <1>0, <2>1, MutexHoldersMove
  <2>3. Mutex!TypeOK'
    BY <1>0, <2>1, MutexStepType DEF Mutex!TypeOK, Mutex!Labels
  <2> QED BY <2>1, <2>2, <2>3 DEF MutexInv, Mutex!MutualExclusion, Mutex!WordTellsHeld, Mutex!SleepersCovered
<1>2. CASE mutex_state # 0
  <2>1. Mutex!Step(t, "swap", "wait") /\ mutex_state' = 2
    BY <1>2 DEF Mutex!SwapTwo
  <2>2. Mutex!Holders' = Mutex!Holders
    BY <1>0, <2>1, MutexHoldersMove, MutexStepMoves DEF Mutex!Holders
  <2>3. Mutex!TypeOK'
    BY <1>0, <2>1, MutexStepType DEF Mutex!TypeOK, Mutex!Labels
  <2> QED BY <1>2, <2>1, <2>2, <2>3 DEF MutexInv, Mutex!MutualExclusion, Mutex!WordTellsHeld, Mutex!SleepersCovered
<1> QED BY <1>1, <1>2

\* SpinEnds, FutexWait and a spurious return touch neither the word nor the holder.
LEMMA MutexWaitStep ==
    ASSUME MutexInv, NEW t \in MutexThreads, Mutex!SpinEnds(t) \/ Mutex!FutexWait(t) \/ Mutex!SpuriousWake(t)
    PROVE MutexInv'
<1>0. Mutex!TypeOK
  BY DEF MutexInv
<1>1. PICK from \in {"spin", "wait", "asleep"}, to \in {"retry", "swap", "asleep"} :
        /\ Mutex!Step(t, from, to) /\ UNCHANGED mutex_state
        /\ to = "asleep" => mutex_state = 2
        /\ from = "asleep" => to = "swap"
  BY DEF Mutex!SpinEnds, Mutex!FutexWait, Mutex!SpuriousWake
<1>2. Mutex!Holders' = Mutex!Holders
  BY <1>0, <1>1, MutexHoldersMove, MutexStepMoves DEF Mutex!Holders
<1>3. Mutex!TypeOK'
  BY <1>0, <1>1, MutexStepType DEF Mutex!TypeOK, Mutex!Labels
<1>4. Mutex!SleepersCovered'
  <2>1. CASE mutex_state = 2
    BY <1>1, <2>1 DEF Mutex!SleepersCovered
  <2>2. CASE mutex_state # 2
    <3>1. Mutex!Asleep' \subseteq Mutex!Asleep
      BY <1>0, <1>1, <2>2, MutexHoldersMove
    <3>2. ASSUME NEW u \in MutexThreads, mutex_pc[u] \in {"swap", "wake"} PROVE mutex_pc'[u] = mutex_pc[u]
      BY <1>0, <1>1, <3>2, MutexStepMoves
    <3> QED BY <2>2, <3>1, <3>2 DEF MutexInv, Mutex!SleepersCovered
  <2> QED BY <2>1, <2>2
<1> QED BY <1>1, <1>2, <1>3, <1>4 DEF MutexInv, Mutex!MutualExclusion, Mutex!WordTellsHeld

LEMMA MutexDropStep ==
    ASSUME MutexInv, NEW t \in MutexThreads, Mutex!Drop(t)
    PROVE MutexInv'
<1>0. Mutex!TypeOK
  BY DEF MutexInv
<1>1. PICK to \in {"wake", "out"} : /\ Mutex!Step(t, "cs", to) /\ mutex_state' = 0
                                    /\ to = "wake" <=> mutex_state = 2
  BY DEF Mutex!Drop
<1>2. mutex_pc[t] = "cs" /\ mutex_pc'[t] = to
  BY <1>0, <1>1, MutexStepMoves
<1>3. Mutex!Holders' = {}
  BY <1>0, <1>1, <1>2, MutexHoldersMove DEF MutexInv, Mutex!MutualExclusion, Mutex!Holders
<1>4. Mutex!TypeOK'
  BY <1>0, <1>1, MutexStepType DEF Mutex!TypeOK, Mutex!Labels
<1>5. Mutex!SleepersCovered'
  <2>1. CASE mutex_state = 2
    BY <1>1, <1>2, <2>1 DEF Mutex!SleepersCovered
  <2>2. CASE mutex_state # 2
    <3>1. Mutex!Asleep' = Mutex!Asleep
      BY <1>0, <1>1, <1>2, MutexHoldersMove DEF Mutex!Asleep
    <3>2. ASSUME NEW u \in MutexThreads, mutex_pc[u] \in {"swap", "wake"} PROVE mutex_pc'[u] = mutex_pc[u]
      BY <1>0, <1>1, <3>2, MutexStepMoves
    <3> QED BY <2>2, <3>1, <3>2 DEF MutexInv, Mutex!SleepersCovered
  <2> QED BY <2>1, <2>2
<1> QED BY <1>1, <1>3, <1>4, <1>5 DEF MutexInv, Mutex!MutualExclusion, Mutex!WordTellsHeld

LEMMA MutexWakeStep ==
    ASSUME MutexInv, NEW t \in MutexThreads, Mutex!FutexWake(t)
    PROVE MutexInv'
<1>0. Mutex!TypeOK
  BY DEF MutexInv
<1>1. CASE Mutex!Asleep = {} /\ Mutex!Step(t, "wake", "out") /\ UNCHANGED mutex_state
  <2>1. Mutex!Holders' = Mutex!Holders /\ Mutex!Asleep' = {}
    BY <1>0, <1>1, MutexHoldersMove, MutexStepMoves DEF Mutex!Holders
  <2>2. Mutex!TypeOK'
    BY <1>0, <1>1, MutexStepType DEF Mutex!TypeOK, Mutex!Labels
  <2> QED BY <1>1, <2>1, <2>2 DEF MutexInv, Mutex!MutualExclusion, Mutex!WordTellsHeld, Mutex!SleepersCovered
<1>2. ASSUME NEW u \in Mutex!Asleep, mutex_pc[t] = "wake",
             mutex_pc' = [mutex_pc EXCEPT ![t] = "out", ![u] = "swap"], UNCHANGED mutex_state
      PROVE MutexInv'
  <2>1. u \in MutexThreads /\ u # t /\ mutex_pc[u] = "asleep"
    BY <1>2 DEF Mutex!Asleep
  <2>2. mutex_pc'[u] = "swap" /\ mutex_pc'[t] = "out"
    BY <1>0, <1>2, <2>1 DEF Mutex!TypeOK
  <2>3. \A v \in MutexThreads : v # t /\ v # u => mutex_pc'[v] = mutex_pc[v]
    BY <1>0, <1>2 DEF Mutex!TypeOK
  <2>4. Mutex!Holders' = Mutex!Holders
    BY <1>2, <2>1, <2>2, <2>3 DEF Mutex!Holders
  <2>5. Mutex!TypeOK'
    BY <1>0, <1>2 DEF Mutex!TypeOK, Mutex!Labels
  <2>6. Mutex!SleepersCovered'
    BY <2>1, <2>2 DEF Mutex!SleepersCovered
  <2> QED BY <1>2, <2>4, <2>5, <2>6 DEF MutexInv, Mutex!MutualExclusion, Mutex!WordTellsHeld
<1> QED BY <1>1, <1>2 DEF Mutex!FutexWake

LEMMA MutexStep == ASSUME MutexInv, [Mutex!Next]_(Mutex!vars) PROVE MutexInv'
<1>1. ASSUME NEW t \in MutexThreads,
             Mutex!Lock(t) \/ Mutex!Acquire(t) \/ Mutex!Release(t) \/ Mutex!SpuriousWake(t)
      PROVE MutexInv'
  BY <1>1, MutexCompareStep, MutexSwapStep, MutexWaitStep, MutexDropStep, MutexWakeStep
     DEF Mutex!Lock, Mutex!LockSlow, Mutex!Acquire, Mutex!Release
<1>2. CASE UNCHANGED Mutex!vars
  BY <1>2 DEF Mutex!vars, MutexInv, Mutex!TypeOK, Mutex!MutualExclusion, Mutex!WordTellsHeld,
              Mutex!SleepersCovered, Mutex!Holders, Mutex!Asleep
<1> QED BY <1>1, <1>2 DEF Mutex!Next

----------------------------------------------------------------------------
\* The encoders called as libraries.

LEMMA LibCards == ASSUME NEW S PROVE Lib!Cardinality(S) = Cardinality(S)
  BY DEF Lib!Cardinality, Cardinality

LibPackets == [chunk : Nat, frame : Nat, size : Lib!Sizes]
\* The packets of this chunk, and of the chunks during which a write failed.
LibMine == {p \in LibPackets : p.chunk = lib_chunk \/ p.chunk \in lib_fails}
\* The packets before that of the first frame.
LibLead == IF lib_kind = "x265" /\ lib_wpc # "headers" THEN 1 ELSE 0

LibTypes ==
    /\ lib_kind \in LibSize.kinds
    /\ lib_wpc \in {"next", "headers", "feed", "drain", "flush", "more", "commit", "drop"}
    /\ lib_chunk \in Nat /\ lib_frames \in Nat /\ lib_fed \in Nat /\ lib_out \in Nat
          /\ lib_sz \in Nat
    /\ lib_out <= lib_fed /\ lib_fed <= lib_frames
    /\ lib_cap \in Nat /\ LibSize.buf <= lib_cap

LibTurn ==
    /\ lib_wpc = "headers" => lib_kind = "x265" /\ lib_out = 0
    /\ lib_wpc \in {"drain", "flush", "more"} => lib_kind = "avm"
    /\ lib_wpc = "commit" => lib_kind = "vvenc"
    /\ lib_wpc \in {"commit", "drop"} \/ (lib_wpc = "next" /\ lib_chunk > 0) => lib_out = lib_frames
    /\ lib_wpc # "next" => lib_chunk > 0
    /\ lib_kind # "vvenc" \/ lib_wpc \in {"drop", "next"} => lib_raw = <<>>

\* What the vector holds when a file has been dropped, the drop failed to write.
LibOwned ==
    /\ lib_buf \in Seq(LibMine) /\ lib_file \in Seq(LibMine) /\ lib_raw \in Seq(LibMine)
    /\ lib_wpc = "next" => lib_buf = <<>> \/ lib_chunk \in lib_fails

\* The packets of w are the headers and those of the first n - l frames, sz bytes.
LibCounted(w, n, l, bytes) ==
    /\ Len(w) = n
    /\ \A i \in 1 .. Len(w) : w[i].frame = i - l
    /\ Lib!Bytes(w) = bytes

\* Until a write fails, the file, the vector and what is behind it hold all that came out.
LibWhole == (lib_fails = {} /\ lib_chunk > 0)
               => LibCounted(lib_file \o (lib_buf \o lib_raw), lib_out + LibLead, LibLead, lib_sz)

LibInv == LibTypes /\ LibTurn /\ LibOwned /\ Lib!PayloadFits /\ LibWhole

----------------------------------------------------------------------------
LEMMA LibConstants ==
    ASSUME Lib!LibAssumption
    PROVE /\ LibSize.buf \in Nat /\ 1 <= LibSize.buf /\ LibSize.maxFrames \in Nat
                /\ LibSize.chunks \in Nat
          /\ \A n \in Lib!Sizes : n \in Nat /\ n <= LibSize.buf
BY DEF Lib!LibAssumption, Lib!Sizes

LEMMA LibBytesAre ==
    ASSUME NEW s
    PROVE Lib!Bytes(s) = Cardinality({x \in (1 .. Len(s)) \X (1 .. LibSize.buf) :
             x[2] <= s[x[1]].size})
  BY LibCards DEF Lib!Bytes

\* The bytes of a sequence are finitely many; a packet adds its own.
LEMMA LibBytesNat ==
    ASSUME Lib!LibAssumption, NEW s \in Seq(LibPackets)
    PROVE Lib!Bytes(s) \in Nat
          /\ IsFiniteSet({x \in (1 .. Len(s)) \X (1 .. LibSize.buf) : x[2] <= s[x[1]].size})
<1> DEFINE A == {x \in (1 .. Len(s)) \X (1 .. LibSize.buf) : x[2] <= s[x[1]].size}
<1>1. Len(s) \in Nat /\ LibSize.buf \in Nat
  BY LibConstants
<1>2. IsFiniteSet(1 .. Len(s)) /\ IsFiniteSet(1 .. LibSize.buf)
  BY <1>1, FS_Interval
<1>3. IsFiniteSet((1 .. Len(s)) \X (1 .. LibSize.buf))
  BY <1>2, FS_Product
<1>4. IsFiniteSet(A)
  <2>1. A \in SUBSET ((1 .. Len(s)) \X (1 .. LibSize.buf))
    OBVIOUS
  <2> QED BY <1>3, <2>1, FS_Subset
<1> QED BY <1>4, FS_CardinalityType, LibBytesAre

LEMMA LibBytesEmpty == Lib!Bytes(<<>>) = 0
<1>1. {x \in (1 .. Len(<<>>)) \X (1 .. LibSize.buf) : x[2] <= (<<>>)[x[1]].size} = {}
  <2>1. Len(<<>>) = 0
    OBVIOUS
  <2>2. 1 .. 0 = {}
    OBVIOUS
  <2> QED BY <2>1, <2>2
<1> QED BY <1>1, FS_EmptySet, LibBytesAre

LEMMA LibBytesAppend ==
    ASSUME Lib!LibAssumption, NEW s \in Seq(LibPackets), NEW p \in LibPackets
    PROVE Lib!Bytes(Append(s, p)) = Lib!Bytes(s) + p.size
<1> DEFINE t == Append(s, p)
           L == Len(s)
           A == {x \in (1 .. L) \X (1 .. LibSize.buf) : x[2] <= s[x[1]].size}
           B == {x \in (1 .. Len(t)) \X (1 .. LibSize.buf) : x[2] <= t[x[1]].size}
           C == {L + 1} \X (1 .. p.size)
<1>1. /\ L \in Nat /\ Len(t) = L + 1 /\ t[L + 1] = p /\ \A i \in 1 .. L : t[i] = s[i]
      /\ p.size \in Nat /\ p.size <= LibSize.buf /\ LibSize.buf \in Nat
  BY LibConstants DEF LibPackets
<1> HIDE DEF t, L
<1>2. 1 .. L + 1 = (1 .. L) \cup {L + 1} /\ L + 1 \notin 1 .. L
  BY <1>1
<1>3. \A k \in 1 .. LibSize.buf : k <= p.size <=> k \in 1 .. p.size
  BY <1>1
<1>4. 1 .. p.size \subseteq 1 .. LibSize.buf
  BY <1>1
<1>5. B = A \cup C /\ A \cap C = {}
  <2>1. ASSUME NEW x \in B PROVE x \in A \cup C
    <3>1. CASE x[1] \in 1 .. L
      BY <1>1, <2>1, <3>1
    <3>2. CASE x[1] = L + 1
      BY <1>1, <1>3, <2>1, <3>2
    <3> QED BY <1>1, <1>2, <2>1, <3>1, <3>2
  <2>2. ASSUME NEW x \in A PROVE x \in B /\ x \notin C
    BY <1>1, <1>2, <2>2
  <2>3. ASSUME NEW x \in C PROVE x \in B
    BY <1>1, <1>2, <1>3, <1>4, <2>3
  <2> HIDE DEF A, B, C
  <2> QED BY <2>1, <2>2, <2>3
<1>6. IsFiniteSet(C) /\ Cardinality(C) = p.size
  <2>1. PICK P : P = 1 .. p.size
    OBVIOUS
  <2> DEFINE f == [k \in P |-> <<L + 1, k>>]
  <2>2. f \in Bijection(P, C)
    <3>1. f \in [P -> C]
      BY <2>1
    <3>2. \A i, k \in P : f[i] = f[k] => i = k
      OBVIOUS
    <3>3. \A c \in C : \E k \in P : f[k] = c
      BY <2>1
    <3> HIDE DEF f, C
    <3> QED BY <3>1, <3>2, <3>3, Fun_IsBij
  <2>3. ExistsBijection(P, C)
    BY <2>2 DEF ExistsBijection
  <2>4. IsFiniteSet(1 .. p.size) /\ Cardinality(1 .. p.size) = IF 1 > p.size THEN 0
           ELSE p.size - 1 + 1
    <3>1. 1 \in Int /\ p.size \in Int
      BY <1>1
    <3> QED BY ONLY <3>1, FS_Interval
  <2>5. (IF 1 > p.size THEN 0 ELSE p.size - 1 + 1) = p.size
    BY <1>1
  <2> QED BY <2>1, <2>3, <2>4, <2>5, FS_Bijection
<1>7. IsFiniteSet(A) /\ Cardinality(A) \in Nat
  BY LibBytesNat, LibBytesAre DEF L
<1>8. Cardinality(A \cup C) = Cardinality(A) + Cardinality(C) - Cardinality(A \cap C)
  BY <1>6, <1>7, FS_Union
<1>9. Cardinality(A \cap C) = 0
  BY <1>5, FS_EmptySet
<1>10. PICK a \in Nat, n \in Nat : Cardinality(A) = a /\ Cardinality(C) = n
  BY <1>1, <1>6, <1>7
<1>11. a + n - 0 = a + n
  OBVIOUS
<1>12. Cardinality(B) = a + n
  <2> HIDE DEF A, B, C
  <2> QED BY <1>5, <1>8, <1>9, <1>10, <1>11, Zenon
<1>13. Lib!Bytes(t) = Cardinality(B) /\ Lib!Bytes(s) = Cardinality(A)
  BY LibBytesAre DEF L
<1> QED BY <1>6, <1>10, <1>12, <1>13 DEF t

LEMMA LibCountedAppend ==
    ASSUME Lib!LibAssumption, NEW s \in Seq(LibPackets), NEW p \in LibPackets, NEW n \in Nat,
              NEW l \in Nat,
           NEW b \in Nat, LibCounted(s, n, l, b), p.frame = n + 1 - l
    PROVE LibCounted(Append(s, p), n + 1, l, b + p.size)
<1>1. Len(Append(s, p)) = n + 1 /\ Append(s, p)[n + 1] = p /\ \A i \in 1 .. n :
         Append(s, p)[i] = s[i]
  BY DEF LibCounted
<1>2. ASSUME NEW i \in 1 .. n + 1 PROVE Append(s, p)[i].frame = i - l
  <2>1. CASE i = n + 1
    BY <1>1, <2>1
  <2>2. CASE i # n + 1
    <3>1. i \in 1 .. n
      BY <2>2
    <3>2. Append(s, p)[i] = s[i] /\ s[i].frame = i - l
      BY <1>1, <3>1 DEF LibCounted
    <3> QED BY <3>2
  <2> QED BY <2>1, <2>2
<1>3. Lib!Bytes(Append(s, p)) = b + p.size
  BY LibBytesAppend DEF LibCounted
<1> QED BY <1>1, <1>2, <1>3 DEF LibCounted

LEMMA LibBytesZero ==
    ASSUME Lib!LibAssumption, NEW s \in Seq(LibPackets), Lib!Bytes(s) = 0
    PROVE s = <<>>
<1> DEFINE A == {x \in (1 .. Len(s)) \X (1 .. LibSize.buf) : x[2] <= s[x[1]].size}
<1>1. A = {}
  <2>1. IsFiniteSet(A) /\ Cardinality(A) = 0
    BY LibBytesNat, LibBytesAre
  <2> HIDE DEF A
  <2> QED BY <2>1, FS_EmptySet
<1> SUFFICES ASSUME s # <<>> PROVE FALSE
  OBVIOUS
<1>2. 1 \in 1 .. Len(s)
  OBVIOUS
<1>3. s[1] \in LibPackets
  BY <1>2
<1>4. 1 <= s[1].size /\ 1 \in 1 .. LibSize.buf
  BY <1>3, LibConstants DEF LibPackets, Lib!Sizes
<1>5. <<1, 1>> \in A
  BY <1>2, <1>4
<1> QED BY <1>1, <1>5

----------------------------------------------------------------------------
\* What an attempt of the sink leaves: all of it written, or all of it still in the vector.
LEMMA LibDrainDone ==
    ASSUME NEW P, NEW b \in Seq(P), NEW f \in Seq(P), NEW r \in Lib!Drain(b, f)
    PROVE /\ r.buf \in Seq(P) /\ r.file \in Seq(P) /\ r.ok \in BOOLEAN
          /\ r = [buf |-> r.buf, file |-> r.file, ok |-> r.ok]
          /\ r.ok => r.buf = <<>> /\ r.file = f \o b
          /\ ~r.ok => r.buf = b
<1>1. CASE r = [buf |-> <<>>, file |-> f \o b, ok |-> TRUE]
  BY <1>1
<1>2. ASSUME NEW k \in 0 .. Len(b) - 1, r = [buf |-> b, file |-> f \o SubSeq(b, 1, k), ok |-> FALSE]
      PROVE r.file \in Seq(P) /\ r.buf = b /\ r.ok = FALSE
            /\ r = [buf |-> r.buf, file |-> r.file, ok |-> r.ok]
  <2>1. \A i \in 1 .. k : b[i] \in P
    OBVIOUS
  <2>2. SubSeq(b, 1, k) \in Seq(P)
    <3>1. 1 \in Int /\ k \in Int
      OBVIOUS
    <3> QED BY <2>1, <3>1, SubSeqProperties
  <2>3. f \o SubSeq(b, 1, k) \in Seq(P)
    BY <2>2, ConcatProperties
  <2> QED BY <1>2, <2>3
<1> QED BY <1>1, <1>2 DEF Lib!Drain

LEMMA LibPutDone ==
    ASSUME Lib!LibAssumption, NEW P \in SUBSET LibPackets, NEW b \in Seq(P), NEW f \in Seq(P),
              NEW p \in P,
           NEW c \in Nat, LibSize.buf <= c, Lib!Bytes(b) <= c, NEW r \in Lib!Put(b, f, p)
    PROVE /\ r.buf \in Seq(P) /\ r.file \in Seq(P) /\ r.ok \in BOOLEAN
          /\ Lib!Bytes(r.buf) <= c
          /\ r.ok => r.file \o r.buf = Append(f \o b, p)
<1> DEFINE full == Lib!Bytes(b) + p.size > LibSize.buf
           room == IF full THEN Lib!Drain(b, f) ELSE {[buf |-> b, file |-> f, ok |-> TRUE]}
<1>1. PICK q \in room : r \in (IF ~q.ok THEN {q}
                               ELSE IF p.size >= LibSize.buf
                                    THEN {[q EXCEPT !.file = Append(@, p)], [q EXCEPT !.ok = FALSE]}
                                    ELSE {[q EXCEPT !.buf = Append(@, p)]})
  BY DEF Lib!Put
<1>2. b \in Seq(LibPackets) /\ f \in Seq(LibPackets) /\ p \in LibPackets
  BY SeqMonotonic
<1>3. /\ Lib!Bytes(b) \in Nat /\ Lib!Bytes(<<>>) = 0 /\ LibSize.buf \in Nat /\ p.size \in Nat
            /\ p.size <= LibSize.buf /\ 1 <= LibSize.buf
  BY <1>2, LibBytesNat, LibBytesEmpty, LibConstants DEF LibPackets
<1>4. /\ q.buf \in Seq(P) /\ q.file \in Seq(P) /\ q.ok \in BOOLEAN
      /\ q = [buf |-> q.buf, file |-> q.file, ok |-> q.ok]
      /\ q.ok => q.file \o q.buf = f \o b
      /\ q.buf = <<>> \/ q.buf = b
      /\ q.ok /\ full => q.buf = <<>>
      /\ ~full => q.buf = b
  <2>1. CASE full
    <3>1. q \in Lib!Drain(b, f)
      BY <2>1
    <3>2. f \o b \in Seq(P)
      BY ConcatProperties
    <3>3. (f \o b) \o <<>> = f \o b
      BY <3>2, ConcatEmptySeq
    <3>4. /\ q.buf \in Seq(P) /\ q.file \in Seq(P) /\ q.ok \in BOOLEAN
          /\ q = [buf |-> q.buf, file |-> q.file, ok |-> q.ok]
          /\ q.ok => q.buf = <<>> /\ q.file = f \o b
          /\ ~q.ok => q.buf = b
      BY <3>1, LibDrainDone
    <3> HIDE DEF full, room
    <3>5. q.buf = <<>> \/ q.buf = b
      BY <3>4
    <3>6. q.ok => q.file \o q.buf = f \o b
      BY <3>3, <3>4
    <3> QED BY <2>1, <3>4, <3>5, <3>6, Zenon
  <2>2. CASE ~full
    <3>1. q = [buf |-> b, file |-> f, ok |-> TRUE]
      BY <2>2
    <3> HIDE DEF full
    <3> QED BY <2>2, <3>1
  <2> QED BY <2>1, <2>2
<1>5. Lib!Bytes(q.buf) <= c
  BY <1>3, <1>4
<1>6. CASE ~q.ok
  BY <1>1, <1>4, <1>5, <1>6
<1>7. CASE q.ok /\ p.size >= LibSize.buf
  <2>1. q.buf = <<>>
    <3>1. CASE full
      <4> HIDE DEF full
      <4> QED BY <1>4, <1>7, <3>1
    <3>2. CASE ~full
      <4>1. Lib!Bytes(b) = 0
        BY <1>3, <1>7, <3>2
      <4>2. b = <<>>
        BY <1>2, <4>1, LibBytesZero
      <4> HIDE DEF full
      <4> QED BY <1>4, <3>2, <4>2
    <3> QED BY <3>1, <3>2
  <2>2. CASE r = [q EXCEPT !.ok = FALSE]
    <3>1. r = [buf |-> q.buf, file |-> q.file, ok |-> FALSE]
      BY <1>4, <2>2
    <3> QED BY <1>4, <1>5, <3>1
  <2>3. CASE r = [q EXCEPT !.file = Append(@, p)]
    <3>1. r = [buf |-> <<>>, file |-> Append(q.file, p), ok |-> TRUE]
      BY <1>4, <1>7, <2>1, <2>3
    <3>2. q.file = f \o b
      BY <1>4, <1>7, <2>1, ConcatEmptySeq
    <3>3. Append(q.file, p) \in Seq(P)
      BY <1>4
    <3>4. Append(q.file, p) \o <<>> = Append(q.file, p)
      BY <3>3, ConcatEmptySeq
    <3> QED BY <1>3, <3>1, <3>2, <3>3, <3>4
  <2> QED BY <1>1, <1>7, <2>2, <2>3
<1>8. CASE q.ok /\ ~(p.size >= LibSize.buf)
  <2>1. r = [buf |-> Append(q.buf, p), file |-> q.file, ok |-> TRUE]
    <3>1. r = [q EXCEPT !.buf = Append(@, p)]
      BY <1>1, <1>8
    <3> HIDE DEF room
    <3> QED BY <1>4, <1>8, <3>1
  <2>2. Lib!Bytes(Append(q.buf, p)) = Lib!Bytes(q.buf) + p.size
    <3>1. q.buf \in Seq(LibPackets)
      BY <1>4, SeqMonotonic
    <3> QED BY <1>2, <3>1, LibBytesAppend
  <2>3. Lib!Bytes(q.buf) + p.size <= LibSize.buf
    <3>1. CASE full
      <4>1. q.buf = <<>>
        <5> HIDE DEF full
        <5> QED BY <1>4, <1>8, <3>1
      <4> QED BY <1>3, <4>1
    <3>2. CASE ~full
      <4>1. q.buf = b
        <5> HIDE DEF full
        <5> QED BY <1>4, <3>2
      <4> QED BY <1>3, <3>2, <4>1
    <3> QED BY <3>1, <3>2
  <2>4. Append(q.buf, p) \in Seq(P) /\ q.file \o Append(q.buf, p) = Append(q.file \o q.buf, p)
    BY <1>4
  <2>5. Lib!Bytes(Append(q.buf, p)) <= c
    <3>1. Lib!Bytes(Append(q.buf, p)) \in Nat
      BY <2>4, SeqMonotonic, LibBytesNat
    <3> QED BY <1>3, <2>2, <2>3, <3>1
  <2> QED BY <1>4, <1>8, <2>1, <2>4, <2>5
<1> QED BY <1>4, <1>6, <1>7, <1>8

----------------------------------------------------------------------------
LibStored == LibOwned /\ Lib!PayloadFits /\ LibWhole

LEMMA LibMineGrows ==
    ASSUME lib_chunk' = lib_chunk, lib_fails \subseteq lib_fails' PROVE LibMine \subseteq LibMine'
BY DEF LibMine

LEMMA LibPacketMine ==
    ASSUME Lib!LibAssumption, LibTypes, NEW f \in Nat, NEW n \in Lib!Sizes
    PROVE Lib!Packet(f, n) \in LibMine /\ Lib!Packet(f, n).frame = f /\ Lib!Packet(f, n).size = n
             /\ n \in Nat /\ n <= LibSize.buf
BY LibConstants DEF LibTypes, Lib!Packet, LibMine, LibPackets

LEMMA LibInMine == LibMine \subseteq LibPackets
BY DEF LibMine

LEMMA LibAtHand ==
    ASSUME Lib!LibAssumption, LibInv
    PROVE /\ Lib!Bytes(lib_buf \o lib_raw) \in Nat /\ Lib!Bytes(lib_buf) \in Nat
                /\ Lib!Bytes(lib_buf \o lib_raw) <= lib_cap
          /\ lib_buf \o lib_raw \in Seq(LibMine) /\ lib_file \o lib_buf \in Seq(LibMine)
                /\ lib_file \o (lib_buf \o lib_raw) \in Seq(LibMine)
          /\ (lib_file \o lib_buf) \o lib_raw = lib_file \o (lib_buf \o lib_raw)
          /\ lib_raw = <<>> => lib_buf \o lib_raw = lib_buf
<1>1. lib_buf \in Seq(LibMine) /\ lib_file \in Seq(LibMine) /\ lib_raw \in Seq(LibMine)
  BY DEF LibInv, LibOwned
<1>2. lib_buf \o lib_raw \in Seq(LibMine) /\ lib_file \o lib_buf \in Seq(LibMine)
  BY <1>1, ConcatProperties
<1>3. lib_file \o (lib_buf \o lib_raw) \in Seq(LibMine)
  BY <1>1, <1>2, ConcatProperties
<1>4. lib_buf \o lib_raw \in Seq(LibPackets) /\ lib_buf \in Seq(LibPackets)
  BY <1>1, <1>2, LibInMine, SeqMonotonic
<1>5. Lib!Bytes(lib_buf \o lib_raw) \in Nat /\ Lib!Bytes(lib_buf) \in Nat
  BY <1>4, LibBytesNat
<1>6. (lib_file \o lib_buf) \o lib_raw = lib_file \o (lib_buf \o lib_raw)
  BY <1>1, ConcatAssociative
<1>7. lib_raw = <<>> => lib_buf \o lib_raw = lib_buf
  BY <1>1, ConcatEmptySeq
<1> QED BY <1>2, <1>3, <1>5, <1>6, <1>7 DEF LibInv, Lib!PayloadFits

\* A packet put in the sink follows what is in the file and the vector, unless a write fails.
LEMMA LibSunkPut ==
    ASSUME Lib!LibAssumption, LibInv, lib_raw = <<>>, NEW p \in LibMine,
              Lib!Sink(Lib!Put(lib_buf, lib_file, p)), lib_chunk' = lib_chunk
    PROVE /\ lib_buf' \in Seq(LibMine') /\ lib_file' \in Seq(LibMine')
          /\ lib_fails \subseteq lib_fails'
          /\ Lib!Bytes(lib_buf') <= lib_cap
          /\ lib_fails' = {}
                => lib_fails = {} /\ lib_file' \o lib_buf' = Append(lib_file \o lib_buf, p)
<1>1. PICK r \in Lib!Put(lib_buf, lib_file, p) :
            /\ lib_buf' = r.buf /\ lib_file' = r.file
            /\ lib_fails' = IF r.ok THEN lib_fails ELSE lib_fails \cup {lib_chunk}
  BY DEF Lib!Sink
<1>2. lib_buf \in Seq(LibMine) /\ lib_file \in Seq(LibMine) /\ lib_cap \in Nat
         /\ LibSize.buf <= lib_cap
  BY DEF LibInv, LibOwned, LibTypes
<1>3. Lib!Bytes(lib_buf) <= lib_cap
  BY LibAtHand
<1>4. LibMine \in SUBSET LibPackets
  BY LibInMine
<1>5. /\ r.buf \in Seq(LibMine) /\ r.file \in Seq(LibMine) /\ r.ok \in BOOLEAN
      /\ Lib!Bytes(r.buf) <= lib_cap
      /\ r.ok => r.file \o r.buf = Append(lib_file \o lib_buf, p)
  <2>1. r.buf \in Seq(LibMine) /\ r.file \in Seq(LibMine) /\ r.ok \in BOOLEAN
    BY <1>1, <1>2, <1>3, <1>4, LibPutDone
  <2>2. Lib!Bytes(r.buf) <= lib_cap
    BY <1>1, <1>2, <1>3, <1>4, LibPutDone
  <2>3. r.ok => r.file \o r.buf = Append(lib_file \o lib_buf, p)
    <3>1. LibSize.buf <= lib_cap
      BY <1>2
    <3> QED BY ONLY Lib!LibAssumption, <1>1, <1>2, <1>3, <1>4, <3>1, LibPutDone
  <2> QED BY <2>1, <2>2, <2>3
<1>6. lib_fails \subseteq lib_fails' /\ (lib_fails' = {} => lib_fails = {} /\ r.ok)
  BY <1>1, <1>5
<1>7. LibMine \subseteq LibMine'
  BY <1>6, LibMineGrows
<1>8. lib_buf' \in Seq(LibMine') /\ lib_file' \in Seq(LibMine')
  BY <1>1, <1>5, <1>7, SeqMonotonic
<1> QED BY <1>1, <1>5, <1>6, <1>8

\* The sink writes b out, or keeps all of it.
LEMMA LibSunkDrain ==
    ASSUME Lib!LibAssumption, LibInv, NEW b \in Seq(LibMine), Lib!Sink(Lib!Drain(b, lib_file)),
              lib_chunk' = lib_chunk
    PROVE /\ lib_buf' \in Seq(LibMine') /\ lib_file' \in Seq(LibMine')
          /\ lib_fails \subseteq lib_fails'
          /\ lib_buf' = <<>> \/ (lib_buf' = b /\ lib_chunk \in lib_fails')
          /\ lib_fails' = {} => lib_fails = {} /\ lib_file' \o lib_buf' = lib_file \o b
<1>1. PICK r \in Lib!Drain(b, lib_file) :
            /\ lib_buf' = r.buf /\ lib_file' = r.file
            /\ lib_fails' = IF r.ok THEN lib_fails ELSE lib_fails \cup {lib_chunk}
  BY DEF Lib!Sink
<1>2. lib_file \in Seq(LibMine)
  BY DEF LibInv, LibOwned
<1>3. /\ r.buf \in Seq(LibMine) /\ r.file \in Seq(LibMine) /\ r.ok \in BOOLEAN
      /\ r.ok => r.buf = <<>> /\ r.file = lib_file \o b
      /\ ~r.ok => r.buf = b
  BY <1>1, <1>2, LibDrainDone
<1>4. lib_fails \subseteq lib_fails' /\ (lib_fails' = {} => lib_fails = {} /\ r.ok)
         /\ (~r.ok => lib_chunk \in lib_fails')
  BY <1>1, <1>3
<1>5. LibMine \subseteq LibMine'
  BY <1>4, LibMineGrows
<1>6. lib_buf' \in Seq(LibMine') /\ lib_file' \in Seq(LibMine')
  BY <1>1, <1>3, <1>5, SeqMonotonic
<1>7. (lib_file \o b) \o <<>> = lib_file \o b
  <2>1. lib_file \o b \in Seq(LibMine)
    BY <1>2, ConcatProperties
  <2> QED BY <2>1, ConcatEmptySeq
<1>8. r.ok => lib_file' \o lib_buf' = lib_file \o b
  <2> SUFFICES ASSUME r.ok PROVE r.file \o r.buf = lib_file \o b
    BY <1>1
  <2>1. r.buf = <<>> /\ r.file = lib_file \o b
    BY <1>3
  <2> QED BY <1>7, <2>1
<1>9. lib_buf' = <<>> \/ (lib_buf' = b /\ lib_chunk \in lib_fails')
  BY <1>1, <1>3, <1>4
<1> QED BY <1>4, <1>6, <1>8, <1>9

\* What is whole stays whole when the packet of the next frame is added.
LEMMA LibWholeGrows ==
    ASSUME Lib!LibAssumption, LibInv, lib_chunk > 0, NEW n \in Lib!Sizes, lib_fails = {},
              lib_wpc # "headers"
    PROVE LibCounted(Append(lib_file \o (lib_buf \o lib_raw), Lib!Packet(lib_out + 1, n)),
             lib_out + 1 + LibLead, LibLead, lib_sz + n)
<1> DEFINE w == lib_file \o (lib_buf \o lib_raw)  p == Lib!Packet(lib_out + 1, n)
<1>1. lib_out \in Nat /\ lib_sz \in Nat /\ lib_out + 1 \in Nat
  BY DEF LibInv, LibTypes
<1>2. LibLead \in Nat /\ lib_out + LibLead \in Nat
         /\ (lib_out + LibLead) + 1 = lib_out + 1 + LibLead
      /\ lib_out + 1 = (lib_out + LibLead) + 1 - LibLead
  BY <1>1 DEF LibLead
<1>3. w \in Seq(LibPackets) /\ p \in LibPackets /\ p.frame = lib_out + 1 /\ p.size = n
  <2>1. w \in Seq(LibMine)
    BY LibAtHand
  <2>2. p \in LibMine /\ p.frame = lib_out + 1 /\ p.size = n
    BY <1>1, LibPacketMine DEF LibInv
  <2> HIDE DEF w, p
  <2> QED BY <2>1, <2>2, LibInMine, SeqMonotonic
<1>4. LibCounted(w, lib_out + LibLead, LibLead, lib_sz)
  BY DEF LibInv, LibWhole
<1> HIDE DEF w, p
<1>5. LibCounted(Append(w, p), (lib_out + LibLead) + 1, LibLead, lib_sz + p.size)
  BY <1>1, <1>2, <1>3, <1>4, LibCountedAppend
<1> QED BY <1>2, <1>3, <1>5 DEF w, p

LEMMA LibWrittenStores ==
    ASSUME Lib!LibAssumption, LibInv, lib_kind # "vvenc", lib_wpc \notin {"next", "headers"},
           lib_wpc' \notin {"next", "headers"}, Lib!Written, Lib!Same
    PROVE LibStored' /\ lib_out' = lib_out + 1 /\ lib_sz' \in Nat /\ lib_cap' = lib_cap
             /\ lib_raw' = lib_raw
<1>1. PICK n \in Lib!Sizes : /\ Lib!Sink(Lib!Put(lib_buf, lib_file, Lib!Packet(lib_out + 1, n)))
                         /\ lib_out' = lib_out + 1 /\ lib_sz' = lib_sz + n
                         /\ UNCHANGED <<lib_raw, lib_cap>>
  BY DEF Lib!Written
<1>2. lib_raw = <<>> /\ lib_chunk > 0 /\ lib_out + 1 \in Nat /\ lib_sz \in Nat
         /\ lib_chunk' = lib_chunk /\ lib_kind' = lib_kind
  BY DEF LibInv, LibTypes, LibTurn, Lib!Same
<1>3. Lib!Packet(lib_out + 1, n) \in LibMine /\ n \in Nat
  BY <1>2, LibPacketMine DEF LibInv
<1>4. /\ lib_buf' \in Seq(LibMine') /\ lib_file' \in Seq(LibMine')
      /\ Lib!Bytes(lib_buf') <= lib_cap
      /\ lib_fails' = {}
            => lib_fails = {}
               /\ lib_file' \o lib_buf' = Append(lib_file \o lib_buf, Lib!Packet(lib_out + 1, n))
  BY <1>1, <1>2, <1>3, LibSunkPut
<1>5. lib_raw' = <<>> /\ lib_buf' \o lib_raw' = lib_buf'
  BY <1>1, <1>2, <1>4, ConcatEmptySeq
<1>6. LibOwned'
  BY <1>4, <1>5, EmptySeq DEF LibOwned
<1>7. Lib!PayloadFits'
  BY <1>1, <1>4, <1>5 DEF Lib!PayloadFits
<1>8. LibWhole'
  <2> SUFFICES ASSUME lib_fails' = {}
               PROVE LibCounted(lib_file' \o (lib_buf' \o lib_raw'), lib_out' + LibLead', LibLead',
                        lib_sz')
    BY DEF LibWhole
  <2>1. lib_file' \o (lib_buf' \o lib_raw') = Append(lib_file \o (lib_buf \o lib_raw),
           Lib!Packet(lib_out + 1, n)) /\ lib_fails = {}
    BY <1>2, <1>4, <1>5, LibAtHand
  <2>2. LibLead' = LibLead
    BY <1>2 DEF LibLead
  <2>3. LibCounted(Append(lib_file \o (lib_buf \o lib_raw), Lib!Packet(lib_out + 1, n)),
           lib_out + 1 + LibLead, LibLead, lib_sz + n)
    BY <1>2, <2>1, LibWholeGrows
  <2> QED BY <1>1, <2>1, <2>2, <2>3
<1> QED BY <1>1, <1>2, <1>3, <1>6, <1>7, <1>8 DEF LibStored

LEMMA LibQuietStores ==
    ASSUME Lib!LibAssumption, LibInv, lib_wpc \notin {"next", "headers"},
           lib_wpc' \notin {"next", "headers"}, Lib!Nothing, Lib!Same
    PROVE LibStored'
<1>1. UNCHANGED <<lib_buf, lib_file, lib_fails, lib_out, lib_sz, lib_raw, lib_cap, lib_kind,
         lib_chunk>>
  BY DEF Lib!Nothing, Lib!Still, Lib!Same
<1>2. LibLead' = LibLead /\ LibMine' = LibMine
  BY <1>1 DEF LibLead, LibMine
<1>3. LibOwned' /\ Lib!PayloadFits'
  BY <1>1, <1>2 DEF LibInv, LibOwned, Lib!PayloadFits
<1>4. LibWhole'
  BY <1>1, <1>2 DEF LibInv, LibWhole
<1> QED BY <1>3, <1>4 DEF LibStored

\* Room for the largest packet behind the vector, and nothing of what was there is lost.
LEMMA LibSpareStores ==
    ASSUME Lib!LibAssumption, LibInv, Lib!Spare, Lib!Same
    PROVE /\ lib_buf' \in Seq(LibMine') /\ lib_file' \in Seq(LibMine')
          /\ lib_fails \subseteq lib_fails'
          /\ lib_cap' \in Nat /\ LibSize.buf <= lib_cap' /\ Lib!Bytes(lib_buf') \in Nat
                /\ Lib!Bytes(lib_buf') + LibSize.buf <= lib_cap'
          /\ lib_fails' = {}
                => lib_fails = {} /\ lib_file' \o lib_buf' = lib_file \o (lib_buf \o lib_raw)
<1> DEFINE b == lib_buf \o lib_raw
<1>1. b \in Seq(LibMine) /\ Lib!Bytes(b) \in Nat /\ lib_cap \in Nat /\ LibSize.buf \in Nat
         /\ LibSize.buf <= lib_cap /\ lib_chunk' = lib_chunk
  BY LibAtHand, LibConstants DEF LibInv, LibTypes, Lib!Same
<1>2. CASE lib_cap - Lib!Bytes(b) >= Lib!Need
  <2>1. lib_buf' = b /\ UNCHANGED <<lib_file, lib_cap, lib_fails>>
    BY <1>2 DEF Lib!Spare
  <2>2. LibMine' = LibMine
    BY <1>1, <2>1 DEF LibMine
  <2>3. lib_file \in Seq(LibMine)
    BY DEF LibInv, LibOwned
  <2> HIDE DEF b
  <2>4. Lib!Bytes(b) + LibSize.buf <= lib_cap
    BY <1>1, <1>2 DEF Lib!Need
  <2> QED BY <1>1, <2>1, <2>2, <2>3, <2>4 DEF b
<1>3. CASE ~(lib_cap - Lib!Bytes(b) >= Lib!Need)
  <2>1. Lib!Sink(Lib!Drain(b, lib_file))
           /\ lib_cap' = Lib!Max({lib_cap, Lib!Bytes(lib_buf') + Lib!Need + LibSize.buf})
    BY <1>3 DEF Lib!Spare
  <2> HIDE DEF b
  <2>2. /\ lib_buf' \in Seq(LibMine') /\ lib_file' \in Seq(LibMine')
        /\ lib_fails \subseteq lib_fails'
        /\ lib_buf' = <<>> \/ lib_buf' = b
        /\ lib_fails' = {} => lib_fails = {} /\ lib_file' \o lib_buf' = lib_file \o b
    BY <1>1, <2>1, LibSunkDrain
  <2>3. Lib!Bytes(lib_buf') \in Nat
    <3>1. Lib!Bytes(<<>>) \in Nat
      BY LibBytesEmpty
    <3> QED BY <1>1, <2>2, <3>1
  <2>4. PICK k \in Nat : Lib!Bytes(lib_buf') = k
    BY <2>3
  <2>5. lib_cap' \in {lib_cap, k + LibSize.buf + LibSize.buf}
           /\ lib_cap' >= k + LibSize.buf + LibSize.buf
    <3>1. lib_cap' = Lib!Max({lib_cap, k + LibSize.buf + LibSize.buf})
      BY <2>1, <2>4 DEF Lib!Need
    <3>2. \E m \in {lib_cap, k + LibSize.buf + LibSize.buf} :
             \A j \in {lib_cap, k + LibSize.buf + LibSize.buf} : m >= j
      <4>1. CASE lib_cap >= k + LibSize.buf + LibSize.buf
        BY <1>1, <4>1
      <4>2. CASE ~(lib_cap >= k + LibSize.buf + LibSize.buf)
        BY <1>1, <4>2
      <4> QED BY <4>1, <4>2
    <3> QED BY <3>1, <3>2 DEF Lib!Max
  <2>6. lib_cap' \in Nat /\ LibSize.buf <= lib_cap' /\ k + LibSize.buf <= lib_cap'
    BY <1>1, <2>5
  <2> QED BY <2>2, <2>4, <2>6 DEF b
<1> QED BY <1>2, <1>3

LEMMA LibUnitStores ==
    ASSUME Lib!LibAssumption, LibInv, lib_kind = "vvenc", lib_wpc \notin {"next", "headers"},
           lib_wpc' \notin {"next", "headers"}, Lib!Spare, Lib!Same, Lib!AccessUnit \/ Lib!NoUnit
    PROVE LibStored' /\ lib_sz' \in Nat /\ lib_cap' \in Nat /\ LibSize.buf <= lib_cap'
<1>1. /\ lib_buf' \in Seq(LibMine') /\ lib_file' \in Seq(LibMine')
      /\ lib_fails \subseteq lib_fails'
      /\ lib_cap' \in Nat /\ LibSize.buf <= lib_cap' /\ Lib!Bytes(lib_buf') \in Nat
            /\ Lib!Bytes(lib_buf') + LibSize.buf <= lib_cap'
      /\ lib_fails' = {}
            => lib_fails = {} /\ lib_file' \o lib_buf' = lib_file \o (lib_buf \o lib_raw)
  BY LibSpareStores
<1>2. lib_chunk > 0 /\ lib_out + 1 \in Nat /\ lib_sz \in Nat /\ lib_chunk' = lib_chunk
         /\ lib_kind' = lib_kind /\ LibSize.buf \in Nat
  BY LibConstants DEF LibInv, LibTypes, LibTurn, Lib!Same
<1>3. LibLead' = LibLead
  BY <1>2 DEF LibLead
<1>4. CASE Lib!AccessUnit
  <2>1. PICK n \in Lib!Sizes :
           lib_raw' = <<Lib!Packet(lib_out + 1, n)>> /\ lib_out' = lib_out + 1
              /\ lib_sz' = lib_sz + n
    BY <1>4 DEF Lib!AccessUnit
  <2>2. PICK p : p = Lib!Packet(lib_out + 1, n)
    OBVIOUS
  <2>3. p \in LibMine /\ p.size = n /\ n \in Nat /\ n <= LibSize.buf
    BY <1>2, <2>2, LibPacketMine DEF LibInv
  <2>4. p \in LibMine'
    BY <1>1, <1>2, <2>3, LibMineGrows
  <2>5. lib_raw' = <<p>> /\ lib_raw' \in Seq(LibMine')
    BY <2>1, <2>2, <2>4
  <2>6. \A s \in Seq(LibMine') : s \o <<p>> = Append(s, p)
    BY <2>4
  <2>7. Lib!Bytes(lib_buf' \o lib_raw') <= lib_cap'
    <3>1. LibMine' \subseteq LibPackets
      BY DEF LibMine
    <3>2. lib_buf' \in Seq(LibPackets) /\ p \in LibPackets
      BY <1>1, <2>4, <3>1, SeqMonotonic
    <3>3. Lib!Bytes(Append(lib_buf', p)) = Lib!Bytes(lib_buf') + n
      BY <2>3, <3>2, LibBytesAppend
    <3>4. Lib!Bytes(lib_buf') + n <= lib_cap'
      BY <1>1, <1>2, <2>3
    <3> QED BY <1>1, <2>5, <2>6, <3>3, <3>4
  <2>8. ASSUME lib_fails' = {}
        PROVE LibCounted(lib_file' \o (lib_buf' \o lib_raw'), lib_out' + LibLead', LibLead',
                 lib_sz')
    <3>1. lib_file' \o lib_buf' \in Seq(LibMine')
      BY <1>1, ConcatProperties
    <3>2. (lib_file' \o lib_buf') \o lib_raw' = lib_file' \o (lib_buf' \o lib_raw')
      BY <1>1, <2>5, ConcatAssociative
    <3>3. (lib_file' \o lib_buf') \o lib_raw' = Append(lib_file \o (lib_buf \o lib_raw), p)
             /\ lib_fails = {}
      BY <1>1, <2>5, <2>6, <2>8, <3>1
    <3>4. LibCounted(Append(lib_file \o (lib_buf \o lib_raw), p), lib_out + 1 + LibLead, LibLead,
             lib_sz + n)
      BY <1>2, <2>2, <3>3, LibWholeGrows
    <3> QED BY <1>3, <2>1, <3>2, <3>3, <3>4
  <2> QED BY <1>1, <1>2, <2>1, <2>3, <2>5, <2>7, <2>8
         DEF LibStored, LibOwned, Lib!PayloadFits, LibWhole
<1>5. CASE Lib!NoUnit
  <2>1. lib_raw' = <<>> /\ lib_out' = lib_out /\ lib_sz' = lib_sz
    BY <1>5 DEF Lib!NoUnit
  <2>2. lib_buf' \o lib_raw' = lib_buf' /\ lib_raw' \in Seq(LibMine')
    BY <1>1, <2>1, ConcatEmptySeq, EmptySeq
  <2>3. Lib!Bytes(lib_buf' \o lib_raw') <= lib_cap'
    BY <1>1, <1>2, <2>2
  <2>4. ASSUME lib_fails' = {}
        PROVE LibCounted(lib_file' \o (lib_buf' \o lib_raw'), lib_out' + LibLead', LibLead',
                 lib_sz')
    <3>1. lib_fails = {} /\ lib_file' \o (lib_buf' \o lib_raw') = lib_file \o (lib_buf \o lib_raw)
      BY <1>1, <2>2, <2>4
    <3>2. LibCounted(lib_file \o (lib_buf \o lib_raw), lib_out + LibLead, LibLead, lib_sz)
      BY <1>2, <3>1 DEF LibInv, LibWhole
    <3> QED BY <1>3, <2>1, <3>1, <3>2
  <2> QED BY <1>1, <1>2, <2>1, <2>2, <2>3, <2>4 DEF LibStored, LibOwned, Lib!PayloadFits, LibWhole
<1> QED BY <1>4, <1>5

----------------------------------------------------------------------------
LEMMA LibInitLib == ASSUME Lib!LibAssumption, Lib!Init PROVE LibInv
<1>1. LibTypes /\ LibTurn
  BY LibConstants DEF Lib!Init, LibTypes, LibTurn
<1>2. LibOwned
  BY EmptySeq DEF Lib!Init, LibOwned
<1>3. lib_buf \o lib_raw = <<>> /\ Lib!Bytes(lib_buf \o lib_raw) = 0 /\ 0 <= lib_cap
  <2>1. lib_buf = <<>> /\ lib_raw = <<>> /\ lib_cap = LibSize.buf
    BY DEF Lib!Init
  <2>2. lib_buf \o lib_raw = <<>>
    BY <2>1, EmptySeq, ConcatEmptySeq
  <2> QED BY <2>1, <2>2, LibBytesEmpty, LibConstants
<1>4. LibWhole
  BY DEF Lib!Init, LibWhole
<1> QED BY <1>1, <1>2, <1>3, <1>4 DEF LibInv, Lib!PayloadFits

LEMMA LibOpenStep == ASSUME Lib!LibAssumption, LibInv, Lib!Open PROVE LibInv'
<1>1. /\ lib_wpc = "next" /\ lib_wpc' = (IF lib_kind = "x265" THEN "headers" ELSE "feed")
      /\ lib_chunk' = lib_chunk + 1 /\ lib_frames' \in 1 .. LibSize.maxFrames
      /\ lib_fed' = 0 /\ lib_out' = 0 /\ lib_sz' = 0 /\ lib_file' = <<>> /\ lib_raw' = <<>>
      /\ UNCHANGED <<lib_kind, lib_buf, lib_cap, lib_fails>>
  BY DEF Lib!Open, Lib!WStep
<1>2. lib_chunk \in Nat /\ LibSize.maxFrames \in Nat
  BY LibConstants DEF LibInv, LibTypes
<1>3. lib_frames' \in Nat /\ lib_chunk' \in Nat /\ lib_chunk' > 0
  BY <1>1, <1>2
<1>4. LibTypes'
  BY <1>1, <1>3 DEF LibInv, LibTypes
<1>5. LibTurn'
  BY <1>1, <1>3 DEF LibTurn
<1>6. lib_buf' \in Seq(LibMine')
  <2>1. CASE lib_buf = <<>>
    BY <1>1, <2>1, EmptySeq
  <2>2. CASE lib_chunk \in lib_fails
    <3>1. LibMine \subseteq LibMine'
      <4> SUFFICES ASSUME NEW q \in LibMine PROVE q \in LibMine'
        OBVIOUS
      <4>1. q \in LibPackets /\ q.chunk \in lib_fails
        BY <2>2 DEF LibMine
      <4> QED BY <1>1, <4>1 DEF LibMine
    <3> QED BY <1>1, <3>1, SeqMonotonic DEF LibInv, LibOwned
  <2> QED BY <1>1, <2>1, <2>2 DEF LibInv, LibOwned
<1>7. lib_raw' \in Seq(LibMine') /\ lib_file' \in Seq(LibMine') /\ lib_buf' \o lib_raw' = lib_buf'
  BY <1>1, <1>6, EmptySeq, ConcatEmptySeq
<1>8. LibOwned'
  BY <1>1, <1>6, <1>7 DEF LibOwned
<1>9. lib_raw = <<>> /\ Lib!Bytes(lib_buf) <= lib_cap
  <2>1. lib_raw = <<>>
    BY <1>1 DEF LibInv, LibTurn
  <2> QED BY <2>1, LibAtHand
<1>10. Lib!PayloadFits'
  BY <1>1, <1>7, <1>9 DEF Lib!PayloadFits
<1>11. LibWhole'
  <2> SUFFICES ASSUME lib_fails' = {}
               PROVE LibCounted(lib_file' \o (lib_buf' \o lib_raw'), lib_out' + LibLead', LibLead',
                        lib_sz')
    BY DEF LibWhole
  <2>1. lib_buf' = <<>>
    BY <1>1 DEF LibInv, LibOwned
  <2>2. lib_file' \o (lib_buf' \o lib_raw') = <<>>
    BY <1>1, <2>1, EmptySeq, ConcatEmptySeq
  <2>3. LibLead' = 0
    BY <1>1 DEF LibLead
  <2>4. LibCounted(<<>>, 0, 0, 0)
    BY LibBytesEmpty DEF LibCounted
  <2> QED BY <1>1, <2>2, <2>3, <2>4
<1> QED BY <1>4, <1>5, <1>8, <1>10, <1>11 DEF LibInv

LEMMA LibHeadersStep == ASSUME Lib!LibAssumption, LibInv, Lib!Headers PROVE LibInv'
<1>1. /\ lib_wpc = "headers" /\ lib_wpc' = "feed"
            /\ Lib!Sink(Lib!Put(lib_buf, lib_file, Lib!Packet(0, 1))) /\ lib_sz' = 1
      /\ UNCHANGED <<lib_fed, lib_out, lib_raw, lib_cap, lib_kind, lib_chunk, lib_frames>>
  BY DEF Lib!Headers, Lib!WStep, Lib!Same
<1>2. lib_kind = "x265" /\ lib_out = 0 /\ lib_raw = <<>> /\ lib_chunk > 0
  BY <1>1 DEF LibInv, LibTurn
<1>3. LibTypes' /\ LibTurn'
  BY <1>1, <1>2 DEF LibInv, LibTypes, LibTurn
<1>4. Lib!Packet(0, 1) \in LibMine /\ Lib!Packet(0, 1).frame = 0 /\ Lib!Packet(0, 1).size = 1
  <2>1. 1 \in Lib!Sizes /\ 0 \in Nat
    BY DEF Lib!Sizes
  <2> QED BY <2>1, LibPacketMine DEF LibInv
<1>5. /\ lib_buf' \in Seq(LibMine') /\ lib_file' \in Seq(LibMine')
      /\ Lib!Bytes(lib_buf') <= lib_cap
      /\ lib_fails' = {}
            => lib_fails = {}
               /\ lib_file' \o lib_buf' = Append(lib_file \o lib_buf, Lib!Packet(0, 1))
  BY <1>1, <1>2, <1>4, LibSunkPut
<1>6. lib_raw' = <<>> /\ lib_buf' \o lib_raw' = lib_buf'
  BY <1>1, <1>2, <1>5, ConcatEmptySeq
<1>7. LibOwned' /\ Lib!PayloadFits'
  BY <1>1, <1>5, <1>6, EmptySeq DEF LibOwned, Lib!PayloadFits
<1>8. LibWhole'
  <2> SUFFICES ASSUME lib_fails' = {}
               PROVE LibCounted(lib_file' \o (lib_buf' \o lib_raw'), lib_out' + LibLead', LibLead',
                        lib_sz')
    BY DEF LibWhole
  <2>1. lib_file' \o (lib_buf' \o lib_raw') = Append(lib_file \o lib_buf, Lib!Packet(0, 1))
           /\ lib_fails = {} /\ lib_buf \o lib_raw = lib_buf
    BY <1>2, <1>5, <1>6, LibAtHand
  <2>2. LibLead = 0 /\ LibLead' = 1
    BY <1>1, <1>2 DEF LibLead
  <2>3. LibCounted(lib_file \o lib_buf, 0, 0, lib_sz)
    BY <1>2, <2>1, <2>2 DEF LibInv, LibWhole
  <2>4. lib_file \o lib_buf = <<>>
    <3>1. lib_file \o lib_buf \in Seq(LibMine)
      BY LibAtHand
    <3>2. Len(lib_file \o lib_buf) = 0
      BY <2>3 DEF LibCounted
    <3> HIDE DEF LibInv
    <3> QED BY <3>1, <3>2, EmptySeq
  <2>5. LibCounted(Append(<<>>, Lib!Packet(0, 1)), 1, 1, 1)
    <3> DEFINE p == Lib!Packet(0, 1)
    <3>1. <<>> \in Seq(LibPackets) /\ p \in LibPackets
      BY <1>4, LibInMine, EmptySeq
    <3>2. Lib!Bytes(Append(<<>>, p)) = Lib!Bytes(<<>>) + p.size
      BY <3>1, LibBytesAppend
    <3>3. Lib!Bytes(Append(<<>>, p)) = 1
      BY <1>4, <3>2, LibBytesEmpty
    <3>4. p.frame = 0
      BY <1>4
    <3> HIDE DEF p
    <3>5. Len(Append(<<>>, p)) = 1 /\ Append(<<>>, p)[1] = p
      BY <3>1
    <3> QED BY <3>3, <3>4, <3>5 DEF LibCounted, p
  <2>6. lib_out' + LibLead' = 1 /\ LibLead' = 1 /\ lib_sz' = 1
    BY <1>1, <1>2, <2>2
  <2>7. lib_file' \o (lib_buf' \o lib_raw') = Append(<<>>, Lib!Packet(0, 1))
    BY <2>1, <2>4
  <2> QED BY <2>5, <2>6, <2>7
<1> QED BY <1>3, <1>7, <1>8 DEF LibInv

LEMMA LibDropStep == ASSUME Lib!LibAssumption, LibInv, Lib!Drop PROVE LibInv'
<1>1. /\ lib_wpc = "drop" /\ lib_wpc' = "next" /\ Lib!Sink(Lib!Drain(lib_buf, lib_file))
      /\ UNCHANGED <<lib_fed, lib_out, lib_sz, lib_raw, lib_cap, lib_kind, lib_chunk, lib_frames>>
  BY DEF Lib!Drop, Lib!WStep, Lib!Same
<1>2. lib_raw = <<>> /\ lib_chunk > 0 /\ lib_out = lib_frames
  BY <1>1 DEF LibInv, LibTurn
<1>3. LibTypes' /\ LibTurn'
  BY <1>1, <1>2 DEF LibInv, LibTypes, LibTurn
<1>4. lib_buf \in Seq(LibMine) /\ lib_buf \o lib_raw = lib_buf
  BY <1>2, LibAtHand DEF LibInv, LibOwned
<1>5. /\ lib_buf' \in Seq(LibMine') /\ lib_file' \in Seq(LibMine')
      /\ lib_buf' = <<>> \/ (lib_buf' = lib_buf /\ lib_chunk \in lib_fails')
      /\ lib_fails' = {} => lib_fails = {} /\ lib_file' \o lib_buf' = lib_file \o lib_buf
  BY <1>1, <1>4, LibSunkDrain
<1>6. lib_raw' = <<>> /\ lib_buf' \o lib_raw' = lib_buf'
  BY <1>1, <1>2, <1>5, ConcatEmptySeq
<1>7. LibOwned'
  BY <1>1, <1>5, <1>6, EmptySeq DEF LibOwned
<1>8. Lib!PayloadFits'
  <2>1. Lib!Bytes(lib_buf) <= lib_cap
    BY <1>4 DEF LibInv, Lib!PayloadFits
  <2>2. Lib!Bytes(<<>>) <= lib_cap
    BY LibBytesEmpty DEF LibInv, LibTypes
  <2> QED BY <1>1, <1>5, <1>6, <2>1, <2>2 DEF Lib!PayloadFits
<1>9. LibWhole'
  <2> SUFFICES ASSUME lib_fails' = {}
               PROVE LibCounted(lib_file' \o (lib_buf' \o lib_raw'), lib_out' + LibLead', LibLead',
                        lib_sz')
    BY DEF LibWhole
  <2>1. lib_file' \o (lib_buf' \o lib_raw') = lib_file \o (lib_buf \o lib_raw) /\ lib_fails = {}
    BY <1>4, <1>5, <1>6
  <2>2. LibLead' = LibLead
    BY <1>1 DEF LibLead
  <2>3. LibCounted(lib_file \o (lib_buf \o lib_raw), lib_out + LibLead, LibLead, lib_sz)
    BY <1>2, <2>1 DEF LibInv, LibWhole
  <2> QED BY <1>1, <2>1, <2>2, <2>3
<1> QED BY <1>3, <1>7, <1>8, <1>9 DEF LibInv

LEMMA LibCommitStep == ASSUME Lib!LibAssumption, LibInv, Lib!Commit PROVE LibInv'
<1>1. /\ lib_wpc = "commit" /\ lib_wpc' = "drop" /\ lib_buf' = lib_buf \o lib_raw /\ lib_raw' = <<>>
      /\ UNCHANGED <<lib_file, lib_cap, lib_fails, lib_fed, lib_out, lib_sz, lib_kind, lib_chunk,
            lib_frames>>
  BY DEF Lib!Commit, Lib!WStep, Lib!Same
<1>2. lib_chunk > 0 /\ lib_out = lib_frames
  BY <1>1 DEF LibInv, LibTurn
<1>3. LibTypes' /\ LibTurn'
  BY <1>1, <1>2 DEF LibInv, LibTypes, LibTurn
<1>4. LibMine' = LibMine /\ LibLead' = LibLead
  BY <1>1 DEF LibMine, LibLead
<1>5. lib_buf' \in Seq(LibMine') /\ lib_file' \in Seq(LibMine') /\ lib_raw' \in Seq(LibMine')
  BY <1>1, <1>4, LibAtHand, EmptySeq DEF LibInv, LibOwned
<1>6. lib_buf' \o lib_raw' = lib_buf \o lib_raw
  BY <1>1, <1>5, ConcatEmptySeq
<1>7. LibOwned' /\ Lib!PayloadFits' /\ LibWhole'
  BY <1>1, <1>4, <1>5, <1>6 DEF LibInv, LibOwned, Lib!PayloadFits, LibWhole
<1> QED BY <1>3, <1>7 DEF LibInv

\* What is stored by the steps in which a packet comes back, or none does.
LEMMA LibSinkSteps ==
    ASSUME Lib!LibAssumption, LibInv, lib_kind # "vvenc", lib_wpc \notin {"next", "headers"},
           lib_wpc' \notin {"next", "headers"}, Lib!Same, Lib!Written \/ Lib!Nothing
    PROVE /\ LibStored' /\ lib_sz' \in Nat /\ lib_cap' \in Nat /\ LibSize.buf <= lib_cap'
                /\ lib_raw' = <<>>
          /\ Lib!Written => lib_out' = lib_out + 1
          /\ Lib!Nothing => lib_out' = lib_out
<1>1. lib_raw = <<>> /\ lib_sz \in Nat /\ lib_out \in Nat /\ lib_cap \in Nat
         /\ LibSize.buf <= lib_cap
  BY DEF LibInv, LibTypes, LibTurn
<1>2. CASE Lib!Written
  <2>1. LibStored' /\ lib_out' = lib_out + 1 /\ lib_sz' \in Nat /\ lib_cap' = lib_cap
           /\ lib_raw' = lib_raw
    BY <1>2, LibWrittenStores
  <2>2. ~ Lib!Nothing
    <3> SUFFICES ASSUME lib_out' = lib_out PROVE FALSE
      BY DEF Lib!Nothing
    <3> QED BY <1>1, <2>1
  <2> QED BY <1>1, <2>1, <2>2
<1>3. CASE Lib!Nothing
  <2>1. LibStored'
    BY <1>3, LibQuietStores
  <2>2. UNCHANGED <<lib_out, lib_sz, lib_raw, lib_cap>>
    BY <1>3 DEF Lib!Nothing
  <2>3. ~ Lib!Written
    <3> SUFFICES ASSUME lib_out' = lib_out + 1 PROVE FALSE
      BY DEF Lib!Written
    <3> QED BY <1>1, <2>2
  <2> QED BY <1>1, <2>1, <2>2, <2>3
<1> QED BY <1>2, <1>3

LEMMA LibFeedSteps ==
    ASSUME Lib!LibAssumption, LibInv, Lib!AvmFeed \/ Lib!AvmDrain \/ Lib!AvmFlush \/ Lib!H26xFeed
              \/ Lib!H26xFlush
    PROVE LibInv'
<1>1. lib_wpc \notin {"next", "headers"} /\ lib_kind # "vvenc" /\ lib_wpc # "commit" /\ Lib!Same
         /\ (Lib!Written \/ Lib!Nothing)
      /\ lib_wpc' \in {"feed", "drain", "flush", "more", "drop"}
      /\ (lib_wpc' \in {"drain", "flush", "more"} => lib_kind = "avm")
  BY DEF Lib!AvmFeed, Lib!AvmDrain, Lib!AvmFlush, Lib!H26xFeed, Lib!H26xFlush, Lib!WStep, LibInv,
     LibTurn
<1>2. /\ LibStored' /\ lib_sz' \in Nat /\ lib_cap' \in Nat /\ LibSize.buf <= lib_cap'
            /\ lib_raw' = <<>>
      /\ Lib!Written => lib_out' = lib_out + 1
      /\ Lib!Nothing => lib_out' = lib_out
  BY <1>1, LibSinkSteps
<1> HIDE DEF Lib!Same
<1>3. lib_kind' = lib_kind /\ lib_chunk' = lib_chunk /\ lib_frames' = lib_frames
  BY <1>1 DEF Lib!Same
<1>4. lib_fed \in Nat /\ lib_out \in Nat /\ lib_frames \in Nat /\ lib_chunk > 0
         /\ lib_out <= lib_fed /\ lib_fed <= lib_frames
  BY <1>1 DEF LibInv, LibTypes, LibTurn
<1>5. /\ lib_out' \in {lib_out, lib_out + 1} /\ lib_fed' \in {lib_fed, lib_fed + 1}
      /\ lib_out' <= lib_fed' /\ lib_fed' <= lib_frames
      /\ lib_wpc' = "drop" => lib_out' = lib_frames
  <2>1. CASE Lib!AvmFeed
    <3>1. lib_fed' = lib_fed + 1 /\ lib_fed < lib_frames /\ lib_out' = lib_out /\ lib_wpc' = "drain"
      BY <1>2, <2>1 DEF Lib!AvmFeed, Lib!WStep
    <3> QED BY <1>4, <3>1
  <2>2. CASE Lib!AvmDrain
    <3>1. lib_fed' = lib_fed /\ lib_wpc' # "drop"
             /\ (lib_out' = lib_out \/ (lib_out' = lib_out + 1 /\ lib_out < lib_fed))
      BY <1>2, <2>2 DEF Lib!AvmDrain, Lib!WStep
    <3> QED BY <1>4, <3>1
  <2>3. CASE Lib!AvmFlush
    <3>1. lib_fed' = lib_fed /\ lib_fed = lib_frames
             /\ (lib_out' = lib_out \/ (lib_out' = lib_out + 1 /\ lib_out < lib_fed))
          /\ (lib_wpc' = "drop" => (lib_out = lib_fed /\ lib_out' = lib_out))
      BY <1>2, <2>3 DEF Lib!AvmFlush, Lib!WStep
    <3> QED BY <1>4, <3>1
  <2>4. CASE Lib!H26xFeed
    <3>1. lib_fed' = lib_fed + 1 /\ lib_fed < lib_frames /\ lib_wpc' # "drop"
             /\ (lib_out' = lib_out \/ lib_out' = lib_out + 1)
      BY <1>2, <2>4 DEF Lib!H26xFeed, Lib!WStep
    <3> QED BY <1>4, <3>1
  <2>5. CASE Lib!H26xFlush
    <3>1. lib_fed' = lib_fed /\ lib_fed = lib_frames
             /\ (lib_out' = lib_out \/ (lib_out' = lib_out + 1 /\ lib_out < lib_fed))
          /\ (lib_wpc' = "drop" => (lib_out = lib_fed /\ lib_out' = lib_out))
      BY <1>2, <2>5 DEF Lib!H26xFlush, Lib!WStep
    <3> QED BY <1>4, <3>1
  <2> QED BY <2>1, <2>2, <2>3, <2>4, <2>5
<1>6. LibTypes'
  <2>1. lib_out' \in Nat /\ lib_fed' \in Nat
    BY <1>4, <1>5
  <2>2. lib_kind' \in LibSize.kinds /\ lib_chunk' \in Nat
    BY <1>3 DEF LibInv, LibTypes
  <2> QED BY <1>1, <1>2, <1>3, <1>4, <1>5, <2>1, <2>2 DEF LibTypes
<1>7. LibTurn'
  BY <1>1, <1>2, <1>3, <1>4, <1>5 DEF LibTurn
<1> QED BY <1>2, <1>6, <1>7 DEF LibInv, LibStored

LEMMA LibVvencSteps ==
    ASSUME Lib!LibAssumption, LibInv, Lib!VvencFeed \/ Lib!VvencFlush
    PROVE LibInv'
<1>1. /\ lib_wpc = "feed" /\ lib_wpc' \in {"feed", "commit"} /\ lib_kind = "vvenc" /\ Lib!Same
            /\ Lib!Spare
      /\ Lib!AccessUnit \/ Lib!NoUnit
  BY DEF Lib!VvencFeed, Lib!VvencFlush, Lib!WStep
<1>2. LibStored' /\ lib_sz' \in Nat /\ lib_cap' \in Nat /\ LibSize.buf <= lib_cap'
  BY <1>1, LibUnitStores
<1>3. lib_kind' = lib_kind /\ lib_chunk' = lib_chunk /\ lib_frames' = lib_frames
  BY <1>1 DEF Lib!Same
<1>4. lib_fed \in Nat /\ lib_out \in Nat /\ lib_frames \in Nat /\ lib_chunk > 0
         /\ lib_out <= lib_fed /\ lib_fed <= lib_frames
  BY <1>1 DEF LibInv, LibTypes, LibTurn
<1>5. /\ lib_out' \in {lib_out, lib_out + 1} /\ lib_fed' \in {lib_fed, lib_fed + 1}
      /\ lib_out' <= lib_fed' /\ lib_fed' <= lib_frames
      /\ lib_wpc' = "commit" => lib_out' = lib_frames
  <2>1. CASE Lib!VvencFeed
    <3>1. lib_fed' = lib_fed + 1 /\ lib_fed < lib_frames /\ lib_wpc' = "feed"
             /\ (lib_out' = lib_out \/ lib_out' = lib_out + 1)
      BY <2>1 DEF Lib!VvencFeed, Lib!WStep, Lib!AccessUnit, Lib!NoUnit
    <3> QED BY <1>4, <3>1
  <2>2. CASE Lib!VvencFlush
    <3>1. lib_fed' = lib_fed /\ lib_fed = lib_frames
          /\ \/ lib_wpc' = "feed" /\ lib_out < lib_fed /\ lib_out' = lib_out + 1
             \/ lib_wpc' = "feed" /\ lib_out' = lib_out
             \/ lib_wpc' = "commit" /\ lib_out + 1 = lib_fed /\ lib_out' = lib_out + 1
             \/ lib_wpc' = "commit" /\ lib_out = lib_fed /\ lib_out' = lib_out
      BY <2>2 DEF Lib!VvencFlush, Lib!WStep, Lib!AccessUnit, Lib!NoUnit
    <3> QED BY <1>4, <3>1
  <2> QED BY <2>1, <2>2
<1>6. LibTypes'
  <2>1. lib_out' \in Nat /\ lib_fed' \in Nat
    BY <1>4, <1>5
  <2>2. lib_kind' \in LibSize.kinds /\ lib_chunk' \in Nat
    BY <1>3 DEF LibInv, LibTypes
  <2> QED BY <1>1, <1>2, <1>3, <1>4, <1>5, <2>1, <2>2 DEF LibTypes
<1>7. LibTurn'
  BY <1>1, <1>3, <1>4, <1>5 DEF LibTurn
<1> QED BY <1>2, <1>6, <1>7 DEF LibInv, LibStored

LEMMA LibStep == ASSUME Lib!LibAssumption, LibInv, [Lib!Next]_(Lib!vars) PROVE LibInv'
<1>1. CASE UNCHANGED Lib!vars
  BY <1>1 DEF Lib!vars, LibInv, LibTypes, LibTurn, LibOwned, Lib!PayloadFits, LibWhole, LibMine,
     LibLead
<1>2. CASE Lib!Next
  BY <1>2, LibOpenStep, LibHeadersStep, LibDropStep, LibFeedSteps, LibVvencSteps, LibCommitStep
     DEF Lib!Next
<1> QED BY <1>1, <1>2

LEMMA LibShows == ASSUME Lib!LibAssumption, LibInv
                            PROVE Lib!FileExact /\ Lib!ForeignAfterFailure /\ Lib!PayloadFits
<1>1. Lib!FileExact
  <2> SUFFICES ASSUME lib_wpc = "next", lib_chunk > 0, lib_fails = {}
               PROVE Lib!Frames(lib_file) = Lib!Expected /\ lib_sz = Lib!Bytes(lib_file)
                        /\ lib_buf = <<>>
    BY DEF Lib!FileExact
  <2>1. lib_raw = <<>> /\ lib_buf = <<>> /\ lib_out = lib_frames
    BY DEF LibInv, LibTurn, LibOwned
  <2>2. lib_file \o (lib_buf \o lib_raw) = lib_file
    <3>1. lib_file \in Seq(LibMine)
      BY DEF LibInv, LibOwned
    <3> QED BY <2>1, <3>1, EmptySeq, ConcatEmptySeq
  <2>3. LibCounted(lib_file, lib_frames + LibLead, LibLead, lib_sz)
    BY <2>1, <2>2 DEF LibInv, LibWhole
  <2>4. LibLead = IF lib_kind = "x265" THEN 1 ELSE 0
    BY DEF LibLead
  <2>5. lib_frames \in Nat
    BY DEF LibInv, LibTypes
  <2>6. Len(lib_file) = lib_frames + LibLead /\ \A i \in 1 .. lib_frames + LibLead :
           lib_file[i].frame = i - LibLead
    BY <2>3 DEF LibCounted
  <2>7. Lib!Frames(lib_file) = [i \in 1 .. lib_frames + LibLead |-> i - LibLead]
    BY <2>6 DEF Lib!Frames
  <2>8. Lib!Expected = [i \in 1 .. lib_frames + LibLead |-> i - LibLead]
    <3>1. CASE lib_kind = "x265"
      BY <2>4, <3>1 DEF Lib!Expected
    <3>2. CASE lib_kind # "x265"
      <4>1. \A i \in 1 .. lib_frames : i - 0 = i
        BY <2>5
      <4>2. lib_frames + 0 = lib_frames
        BY <2>5
      <4> QED BY <2>4, <3>2, <4>1, <4>2 DEF Lib!Expected
    <3> QED BY <3>1, <3>2
  <2> QED BY <2>1, <2>3, <2>7, <2>8 DEF LibCounted
<1>2. Lib!ForeignAfterFailure
  <2>1. lib_file \o lib_buf \in Seq(LibMine)
    BY LibAtHand
  <2> QED BY <2>1 DEF Lib!ForeignAfterFailure, LibMine
<1> QED BY <1>1, <1>2 DEF LibInv


----------------------------------------------------------------------------
\* The parts together.

\* The part that runs stays the same.
LEMMA PartStays == [MCNext]_all => part' = part
  BY DEF MCNext, all, poolOnly, mutexOnly, libOnly, tqOnly

LEMMA PoolMoves == [MCNext]_all => [Next]_vars
  BY DEF MCNext, all, poolOnly, mutexOnly, libOnly, tqOnly

\* The pool's invariant holds whatever part runs.
LEMMA PoolKept == MCSpec => []PoolInv
<1>1. MCInit => PoolInv
  BY InitPool DEF MCInit
<1>2. PoolInv /\ [MCNext]_all => PoolInv'
  BY PoolMoves, PoolStep
<1> QED BY <1>1, <1>2, PTL DEF MCSpec

LEMMA MutexMoves == ASSUME part = "mutex", [MCNext]_all PROVE [Mutex!Next]_(Mutex!vars)
  BY DEF MCNext, all, poolOnly, mutexOnly, libOnly, tqOnly, mutexVars, Mutex!vars

\* The invariant of the mutex.
LEMMA MutexKept == MCSpec => [](part = "mutex" => MutexInv)
<1>1. MCInit => (part = "mutex" => MutexInv)
  BY MutexInitInv DEF MCInit
<1>2. (part = "mutex" => MutexInv) /\ [MCNext]_all => (part = "mutex" => MutexInv)'
  BY PartStays, MutexMoves, MutexStep
<1> QED BY <1>1, <1>2, PTL DEF MCSpec

LEMMA LibMoves == ASSUME part = "lib", [MCNext]_all PROVE [Lib!Next]_(Lib!vars)
  BY DEF MCNext, all, poolOnly, mutexOnly, libOnly, tqOnly, libVars, Lib!vars

\* The inductive invariant of the encoders called as libraries: where each packet of the chunk is
\* between the encoder, the sink and the file (make_chnk_lib and the steps it calls, BufWriter).
THEOREM LibInvariant == MCSpec => [](part = "lib" => LibInv)
<1>1. MCInit => (part = "lib" => LibInv)
  BY PartsAssumption, LibInitLib DEF MCInit
<1>2. (part = "lib" => LibInv) /\ [MCNext]_all => (part = "lib" => LibInv)'
  <2> SUFFICES ASSUME part = "lib" => LibInv, [MCNext]_all, part' = "lib" PROVE LibInv'
    OBVIOUS
  <2> QED BY PartStays, LibMoves, PartsAssumption, LibStep
<1> QED BY <1>1, <1>2, PTL DEF MCSpec

LEMMA TqMoves == ASSUME part = "tq", [MCNext]_all PROVE [Tq!Next]_(Tq!vars)
  BY DEF MCNext, all, tqOnly, Tq!vars, tqVars, Tq!pool, Tq!rings, Tq!coordinator, Tq!workers,
         Tq!disk, mutexOnly, libOnly, poolOnly

\* The invariant of the pipeline (Tq).
LEMMA TqKept == MCSpec => [](part = "tq" => Tq!PipeInv)
<1>1. MCInit => (part = "tq" => Tq!PipeInv)
  BY PartsAssumption, Tq!InitPipe DEF MCInit
<1>2. (part = "tq" => Tq!PipeInv) /\ [MCNext]_all => (part = "tq" => Tq!PipeInv)'
  <2> SUFFICES ASSUME part = "tq" => Tq!PipeInv, [MCNext]_all, part' = "tq" PROVE Tq!PipeInv'
    OBVIOUS
  <2> QED BY PartStays, TqMoves, PartsAssumption, Tq!PipeStep
<1> QED BY <1>1, <1>2, PTL DEF MCSpec

LEMMA MoreMoves == ASSUME part = "more", [MCNext]_all PROVE [More!Next]_(More!vars)
  BY DEF MCNext, all, tqOnly, More!vars, tqVars, More!pool, More!rings, More!coordinator, More!workers,
         More!disk, mutexOnly, libOnly, poolOnly

\* The invariant of the pipeline (More).
LEMMA MoreKept == MCSpec => [](part = "more" => More!PipeInv)
<1>1. MCInit => (part = "more" => More!PipeInv)
  BY PartsAssumption, More!InitPipe DEF MCInit
<1>2. (part = "more" => More!PipeInv) /\ [MCNext]_all => (part = "more" => More!PipeInv)'
  <2> SUFFICES ASSUME part = "more" => More!PipeInv, [MCNext]_all, part' = "more" PROVE More!PipeInv'
    OBVIOUS
  <2> QED BY PartStays, MoreMoves, PartsAssumption, More!PipeStep
<1> QED BY <1>1, <1>2, PTL DEF MCSpec

LEMMA FullMoves == ASSUME part = "full", [MCNext]_all PROVE [Full!Next]_(Full!vars)
  BY DEF MCNext, all, tqOnly, Full!vars, tqVars, Full!pool, Full!rings, Full!coordinator, Full!workers,
         Full!disk, mutexOnly, libOnly, poolOnly

\* The invariant of the pipeline (Full).
LEMMA FullKept == MCSpec => [](part = "full" => Full!PipeInv)
<1>1. MCInit => (part = "full" => Full!PipeInv)
  BY PartsAssumption, Full!InitPipe DEF MCInit
<1>2. (part = "full" => Full!PipeInv) /\ [MCNext]_all => (part = "full" => Full!PipeInv)'
  <2> SUFFICES ASSUME part = "full" => Full!PipeInv, [MCNext]_all, part' = "full" PROVE Full!PipeInv'
    OBVIOUS
  <2> QED BY PartStays, FullMoves, PartsAssumption, Full!PipeStep
<1> QED BY <1>1, <1>2, PTL DEF MCSpec

----------------------------------------------------------------------------
\* No thread is left asleep on a mutex with nobody bound to wake it: whoever holds it found the
\* word at 2 and will wake one, or somebody awake is about to (lock_slow and the drop of sync.rs).
THEOREM NoSleeperForgotten == MCSpec => []SleepersCovered
<1>1. (part = "mutex" => MutexInv) => SleepersCovered
  BY DEF SleepersCovered, MutexInv
<1> QED BY <1>1, MutexKept, PTL

\* Two guards of one mutex never exist at the same time (lock, try_lock, lock_slow).
THEOREM Exclusive == MCSpec => [](part = "mutex" => Mutex!MutualExclusion)
<1>1. (part = "mutex" => MutexInv) => (part = "mutex" => Mutex!MutualExclusion)
  BY DEF MutexInv
<1> QED BY <1>1, MutexKept, PTL

\* Where no write failed, the file of a chunk that is reported holds the packet of every frame,
\* once and in order, and VVenC's payload lies within the sink's capacity: for every number of
\* chunks and frames, and every size of the sink (make_chnk_lib and the steps it calls, BufWriter).
THEOREM FilesAreExact == MCSpec => []FileExact
<1>1. (part = "lib" => LibInv) => FileExact
  BY PartsAssumption, LibShows DEF FileExact
<1> QED BY <1>1, LibInvariant, PTL

\* A file holds packets of another chunk only when a write failed while that one was encoded: the
\* vector of the sink outlives the file (BufWriter, its drop, make_chnk_lib).
THEOREM ForeignOnlyAfterFailure == MCSpec => [](part = "lib" => Lib!ForeignAfterFailure)
<1>1. (part = "lib" => LibInv) => (part = "lib" => Lib!ForeignAfterFailure)
  BY PartsAssumption, LibShows
<1> QED BY <1>1, LibInvariant, PTL

\* What is book-kept for a chunk is its best probe, and its file holds that one, in pipelines of
\* any size (retain_swap, output_bytes, complete_chnk).
THEOREM BookedAreBest == MCSpec => []BookedIsBest
<1>1. (part = "tq" => Tq!PipeInv) /\ (part = "more" => More!PipeInv) /\ (part = "full" => Full!PipeInv)
      => BookedIsBest
  BY PartsAssumption, Tq!ShowsBest, More!ShowsBest, Full!ShowsBest DEF BookedIsBest
<1> QED BY <1>1, TqKept, MoreKept, FullKept, PTL

\* When enc_tq returns, every chunk is book-kept and logged, though the message that ends the run
\* leaves before that (tq_coord, complete_chnk, the joins).
THEOREM AllAreBooked == MCSpec => []AllBooked
<1>1. (part = "tq" => Tq!PipeInv) /\ (part = "more" => More!PipeInv) /\ (part = "full" => Full!PipeInv)
      => AllBooked
  BY PartsAssumption, Tq!ShowsAll, More!ShowsAll, Full!ShowsAll DEF AllBooked
<1> QED BY <1>1, TqKept, MoreKept, FullKept, PTL

\* The states of the parts keep their types.
THEOREM WorkersTyped == MCSpec => []PartsTyped
<1>1. PoolInv /\ (part = "mutex" => MutexInv) /\ (part = "tq" => Tq!PipeInv)
      /\ (part = "more" => More!PipeInv) /\ (part = "full" => Full!PipeInv) => PartsTyped
  BY PartsAssumption, Tq!ShowsTypes, More!ShowsTypes, Full!ShowsTypes DEF PartsTyped, PoolInv, MutexInv
<1> QED BY <1>1, PoolKept, MutexKept, TqKept, MoreKept, FullKept, PTL
=============================================================================
