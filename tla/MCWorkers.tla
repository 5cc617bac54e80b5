------------------------------ MODULE MCWorkers ------------------------------
(***************************************************************************)
(* Model checking of the parts an encode worker is made of: the packet     *)
(* pool (BufPool, extended), the mutex, the encoders called as libraries,  *)
(* and the target-quality pipeline in three sizes: tq, where the search    *)
(* matters, more, where chunks outnumber the packets, and full, where the  *)
(* pool is as large as the cycle of rings bears. The parts share no        *)
(* variable; a behaviour runs one of them.                                 *)
(***************************************************************************)
EXTENDS BufPool

CONSTANTS MutexThreads,              \* the threads of the mutex
          LibSize,                   \* the constants of the library encoders, as a record
          TqSize, MoreSize, FullSize,  \* of the three pipelines
          TqEncoders, TqMetrics      \* their workers

\* The sizes that are checked.
SmallLib == [kinds |-> {"avm", "vvenc", "x265", "x264"}, chunks |-> 2, maxFrames |-> 3, buf |-> 2,
             maxFails |-> 1]
SearchTq == [todo |-> 2, slots |-> {2, 3}, cap |-> 1, maxRounds |-> 2, diffs |-> {0, 1}]
MoreTq == [todo |-> 3, slots |-> {2, 3}, cap |-> 1, maxRounds |-> 2, diffs |-> {1}]
FullTq == [todo |-> 4, slots |-> {2, 3, 4, 5}, cap |-> 1, maxRounds |-> 1, diffs |-> {0}]

VARIABLES part,   \* the part that runs in this behaviour
          mutex_state, mutex_pc,
          lib_kind, lib_wpc, lib_chunk, lib_frames, lib_fed, lib_out, lib_sz, lib_buf, lib_file,
          lib_raw, lib_cap, lib_fails,
          tq_alt, tq_frames, tq_next, tq_dpc, tq_permits, tq_free, tq_coord, tq_enc, tq_met,
          tq_closed, tq_held, tq_counted, tq_pkt, tq_epc, tq_eslot, tq_mpc, tq_mslot, tq_file,
          tq_booked, tq_log, tq_main

mutexVars == <<mutex_state, mutex_pc>>
libVars == <<lib_kind, lib_wpc, lib_chunk, lib_frames, lib_fed, lib_out, lib_sz, lib_buf, lib_file,
             lib_raw, lib_cap, lib_fails>>
tqVars == <<tq_alt, tq_frames, tq_next, tq_dpc, tq_permits, tq_free, tq_coord, tq_enc, tq_met,
            tq_closed, tq_held, tq_counted, tq_pkt, tq_epc, tq_eslot, tq_mpc, tq_mslot, tq_file,
            tq_booked, tq_log, tq_main>>
all == <<part, vars, mutexVars, libVars, tqVars>>

Mutex == INSTANCE FutexMutex WITH
    Threads <- MutexThreads, state <- mutex_state, pc <- mutex_pc
Lib == INSTANCE LibEncoders WITH
    Kinds <- LibSize.kinds, Chunks <- LibSize.chunks, MaxFrames <- LibSize.maxFrames,
    Buf <- LibSize.buf, MaxFails <- LibSize.maxFails, kind <- lib_kind, wpc <- lib_wpc,
    chunk <- lib_chunk, frames <- lib_frames, fed <- lib_fed, out <- lib_out, sz <- lib_sz,
    buf <- lib_buf, file <- lib_file, raw <- lib_raw, cap <- lib_cap, fails <- lib_fails
Tq == INSTANCE TqPipeline_proofs WITH
    Todo <- TqSize.todo, Slots <- TqSize.slots, Cap <- TqSize.cap, Encoders <- TqEncoders,
    Metrics <- TqMetrics, MaxRounds <- TqSize.maxRounds, Diffs <- TqSize.diffs, alt <- tq_alt,
    frames <- tq_frames, next <- tq_next, dpc <- tq_dpc, permits <- tq_permits, free <- tq_free,
    coord <- tq_coord, enc <- tq_enc, met <- tq_met, closed <- tq_closed, held <- tq_held,
    counted <- tq_counted, pkt <- tq_pkt, epc <- tq_epc, eslot <- tq_eslot, mpc <- tq_mpc,
    mslot <- tq_mslot, file <- tq_file, booked <- tq_booked, log <- tq_log, main <- tq_main
More == INSTANCE TqPipeline_proofs WITH
    Todo <- MoreSize.todo, Slots <- MoreSize.slots, Cap <- MoreSize.cap, Encoders <- TqEncoders,
    Metrics <- TqMetrics, MaxRounds <- MoreSize.maxRounds, Diffs <- MoreSize.diffs, alt <- tq_alt,
    frames <- tq_frames, next <- tq_next, dpc <- tq_dpc, permits <- tq_permits, free <- tq_free,
    coord <- tq_coord, enc <- tq_enc, met <- tq_met, closed <- tq_closed, held <- tq_held,
    counted <- tq_counted, pkt <- tq_pkt, epc <- tq_epc, eslot <- tq_eslot, mpc <- tq_mpc,
    mslot <- tq_mslot, file <- tq_file, booked <- tq_booked, log <- tq_log, main <- tq_main
Full == INSTANCE TqPipeline_proofs WITH
    Todo <- FullSize.todo, Slots <- FullSize.slots, Cap <- FullSize.cap, Encoders <- TqEncoders,
    Metrics <- TqMetrics, MaxRounds <- FullSize.maxRounds, Diffs <- FullSize.diffs, alt <- tq_alt,
    frames <- tq_frames, next <- tq_next, dpc <- tq_dpc, permits <- tq_permits, free <- tq_free,
    coord <- tq_coord, enc <- tq_enc, met <- tq_met, closed <- tq_closed, held <- tq_held,
    counted <- tq_counted, pkt <- tq_pkt, epc <- tq_epc, eslot <- tq_eslot, mpc <- tq_mpc,
    mslot <- tq_mslot, file <- tq_file, booked <- tq_booked, log <- tq_log, main <- tq_main

ASSUME PartsAssumption == Lib!LibAssumption /\ Tq!TqAssumption /\ More!TqAssumption /\ Full!TqAssumption

----------------------------------------------------------------------------
\* One part runs; the variables of the others stay at a value of no meaning.
mutexOff == mutex_state = 0 /\ mutex_pc = 0
libOff ==
    /\ lib_kind = 0 /\ lib_wpc = 0 /\ lib_chunk = 0 /\ lib_frames = 0 /\ lib_fed = 0
    /\ lib_out = 0 /\ lib_sz = 0 /\ lib_buf = 0 /\ lib_file = 0 /\ lib_raw = 0 /\ lib_cap = 0
    /\ lib_fails = 0
tqOff ==
    /\ tq_alt = 0 /\ tq_frames = 0 /\ tq_next = 0 /\ tq_dpc = 0 /\ tq_permits = 0
    /\ tq_free = 0 /\ tq_coord = 0 /\ tq_enc = 0 /\ tq_met = 0 /\ tq_closed = 0 /\ tq_held = 0
    /\ tq_counted = 0 /\ tq_pkt = 0 /\ tq_epc = 0 /\ tq_eslot = 0 /\ tq_mpc = 0 /\ tq_mslot = 0
    /\ tq_file = 0 /\ tq_booked = 0 /\ tq_log = 0 /\ tq_main = 0

MCInit == /\ part \in {"pool", "mutex", "lib", "tq", "more", "full"}
          /\ Init
          /\ IF part = "mutex" THEN Mutex!Init ELSE mutexOff
          /\ IF part = "lib" THEN Lib!Init ELSE libOff
          /\ IF part = "tq" THEN Tq!Init ELSE IF part = "more" THEN More!Init ELSE IF part = "full" THEN Full!Init ELSE tqOff

\* What a step of one part leaves alone.
mutexOnly == UNCHANGED <<part, vars, libVars, tqVars>>
libOnly == UNCHANGED <<part, vars, mutexVars, tqVars>>
tqOnly == UNCHANGED <<part, vars, mutexVars, libVars>>
poolOnly == UNCHANGED <<part, mutexVars, libVars, tqVars>>

MCNext == \/ part = "pool" /\ Next /\ poolOnly
          \/ part = "mutex" /\ Mutex!Next /\ mutexOnly
          \/ part = "lib" /\ Lib!Next /\ libOnly
          \/ part = "tq" /\ Tq!Next /\ tqOnly
          \/ part = "more" /\ More!Next /\ tqOnly
          \/ part = "full" /\ Full!Next /\ tqOnly

\* The processes of the parts that their own specifications are fair to.  Only one part runs, so
\* processes of several parts may share a name: fairness to the name is fairness to each.
Processes == {"decoder", "coordinator", "main"} \cup Workers \cup MutexThreads \cup TqEncoders
             \cup TqMetrics
Process(i) ==
    \/ part = "pool" /\ poolOnly
       /\ \/ i = "decoder" /\ Decode
          \/ i \in Workers /\ Work(i)
    \/ part = "mutex" /\ mutexOnly
       /\ i \in MutexThreads /\ (Mutex!Acquire(i) \/ Mutex!Release(i))
    \/ part = "tq" /\ tqOnly
       /\ \/ i = "decoder" /\ Tq!Decoder
          \/ i = "coordinator" /\ Tq!Coordinator
          \/ i = "main" /\ Tq!Main
          \/ i \in TqEncoders /\ Tq!Encoder(i)
          \/ i \in TqMetrics /\ Tq!Metric(i)
    \/ part = "more" /\ tqOnly
       /\ \/ i = "decoder" /\ More!Decoder
          \/ i = "coordinator" /\ More!Coordinator
          \/ i = "main" /\ More!Main
          \/ i \in TqEncoders /\ More!Encoder(i)
          \/ i \in TqMetrics /\ More!Metric(i)
    \/ part = "full" /\ tqOnly
       /\ \/ i = "decoder" /\ Full!Decoder
          \/ i = "coordinator" /\ Full!Coordinator
          \/ i = "main" /\ Full!Main
          \/ i \in TqEncoders /\ Full!Encoder(i)
          \/ i \in TqMetrics /\ Full!Metric(i)
MCSpec == MCInit /\ [][MCNext]_all /\ \A i \in Processes : WF_all(Process(i))

----------------------------------------------------------------------------
\* BufPool's registers that no later step reads before it loads them again are left out of a state.
View == <<part, mutexVars, libVars, tqVars, sem, free, dpc, queue, wpc,
          IF dpc = "cas" THEN eax ELSE 0,
          IF dpc \in {"scan", "clear"} THEN word ELSE 0,
          IF dpc = "clear" THEN bits ELSE {},
          IF dpc = "fill" THEN slot ELSE 0,
          [w \in Workers |-> IF wpc[w] = "encode" THEN held[w] ELSE 0]>>

\* The properties of the parts; their modules say what each is about.

\* The types of the parts' states.
PartsTyped == /\ TypeOK
              /\ part = "mutex" => Mutex!TypeOK
              /\ part = "tq" => Tq!TypeOK
              /\ part = "more" => More!TypeOK
              /\ part = "full" => Full!TypeOK

\* A thread sleeps on a mutex only while a holder or a woken thread will wake it (sync.rs).
SleepersCovered == part = "mutex" => Mutex!SleepersCovered

\* Somebody gets a mutex that threads are waiting for (sync.rs).
SomebodyGetsIn == (part = "mutex" /\ Mutex!Contending) ~> (part # "mutex" \/ Mutex!Holders # {})

\* A chunk's file holds the packets of its frames, in order, each whole, and what VVenC writes
\* behind the end of the sink lies within its capacity (the encoders called as libraries).
FileExact == part = "lib" => Lib!FileExact /\ Lib!PayloadFits

\* What is book-kept for a chunk is its best probe, and its file holds that one (target quality).
BookedIsBest ==
    /\ part = "tq" => Tq!BookedIsBest
    /\ part = "more" => More!BookedIsBest
    /\ part = "full" => Full!BookedIsBest

\* When enc_tq returns, each chunk that arrived is in chunks.json (complete_chnk, the shutdown).
AllBooked ==
    /\ part = "tq" => Tq!AllBooked
    /\ part = "more" => More!AllBooked
    /\ part = "full" => Full!AllBooked

\* Every chunk that arrived ends: the cycle of rings never fills up and no permit is lost (tq_coord,
\* spawn_tq_dec, complete_chnk).
ChunksEnd == <>(/\ part = "tq" => Tq!Done
                /\ part = "more" => More!Done
                /\ part = "full" => Full!Done)
=============================================================================
