----------------------------- MODULE TqPipeline -----------------------------
(***************************************************************************)
(* The feedback pipeline of a target-quality run: enc_tq, spawn_tq_dec,    *)
(* tq_coord, the make_tq_loop workers and the make_metric_loop workers of  *)
(* src/src/enc.rs.  A packet (a slot of the pool) goes                     *)
(*   decoder -> coord -> tq_coord -> enc -> encode worker -> met -> metric *)
(* and from there back to coord for another probe, or its chunk is done:   *)
(* the metric worker then writes the file (unless the last encode wrote    *)
(* it), tells tq_coord (the message 1), book-keeps the chunk and gives the *)
(* slot back.  tq_coord closes enc when it has counted every chunk; the    *)
(* shutdown joins it, the encode workers, closes met and joins the metric  *)
(* workers.                                                                *)
(*                                                                         *)
(* The rings are bounded queues (module Channel is what they promise).     *)
(* With P slots and rings of Cap items the cycle cannot fill up as long as *)
(* P <= 2 * Cap + the encode workers + the metric workers + 1 (the packet  *)
(* tq_coord holds): CAP is 128, P is -w plus -b.                           *)
(*                                                                         *)
(* A probe is <<chunk, round>>, or <<chunk, 0>> when encoded with the      *)
(* final parameters.  Its distance from the target is any of Diffs; when   *)
(* the search ends is any round (module TqSearch), MaxRounds at the latest.*)
(***************************************************************************)
EXTENDS Naturals, Sequences, FiniteSets

CONSTANTS Todo,       \* chunks to do
          Slots,      \* packets of the pool
          Cap,        \* capacity of a ring
          Encoders, Metrics,  \* the workers
          MaxRounds, Diffs    \* bounds of a search

TqAssumption ==
    /\ {Todo, Cap, MaxRounds} \subseteq Nat \ {0}
    /\ Diffs \subseteq Nat /\ \E d \in Diffs : \A x \in Diffs : x <= d   \* less than infinity
    /\ Slots \subseteq Nat \ {0, 1}   \* addresses; the rings use 0 and 1 otherwise
    /\ IsFiniteSet(Slots) /\ IsFiniteSet(Encoders) /\ IsFiniteSet(Metrics)
    /\ Cardinality(Slots) <= 2 * Cap + Cardinality(Encoders) + Cardinality(Metrics) + 1

VARIABLES alt,         \* -P: probes use other parameters than the final encode
          frames,      \* chunks of which the pipe delivers every frame
          next, dpc, permits, free,   \* the decoder, the pool
          coord, enc, met, closed,    \* the rings, and which are closed
          held, counted,              \* tq_coord: the packet it passes on, completed
          pkt,         \* slot -> WorkPkg and its TQState
          epc, eslot,  \* encode workers
          mpc, mslot,  \* metric workers
          file, booked, log,   \* chunk -> the probe its file holds; stats; chunks.json
          main         \* enc_tq

pool == <<next, dpc, permits, free>>
rings == <<coord, enc, met, closed>>
coordinator == <<held, counted>>
workers == <<epc, eslot, mpc, mslot>>
disk == <<file, booked, log>>
vars == <<alt, frames, pool, rings, coordinator, pkt, workers, disk, main>>

Chunks == 1 .. Todo
None == 0
One == 1
NoProbe == <<0, 0>>
Inf == 1 + CHOOSE d \in Diffs : \A x \in Diffs : x <= d

Empty == [chunk |-> 0, armed |-> FALSE, round |-> 0, final |-> FALSE, diffs |-> <<>>,
          probe |-> NoProbe, kept |-> NoProbe, keptDiff |-> Inf]

Init == /\ alt \in BOOLEAN /\ frames \in 0 .. Todo
        /\ next = 1 /\ dpc = "acquire" /\ permits = Cardinality(Slots) /\ free = Slots
        /\ coord = <<>> /\ enc = <<>> /\ met = <<>> /\ closed = {}
        /\ held = None /\ counted = 0
        /\ pkt = [s \in Slots |-> Empty]
        /\ epc = [e \in Encoders |-> "recv"] /\ eslot = [e \in Encoders |-> None]
        /\ mpc = [m \in Metrics |-> "recv"] /\ mslot = [m \in Metrics |-> None]
        /\ file = [c \in Chunks |-> NoProbe] /\ booked = {} /\ log = <<>>
        /\ main = "join coord"

----------------------------------------------------------------------------
\* The decoder: emit, or pipe_loop / pipe_direct, which return on a pipe that ends early.

Acquire == /\ dpc = "acquire" /\ next <= Todo /\ permits > 0
           /\ permits' = permits - 1
           /\ dpc' = IF next <= frames THEN "send" ELSE "done"
           /\ UNCHANGED <<alt, frames, next, free, rings, coordinator, pkt, workers, disk, main>>

\* WorkPkg::set clears the flag that the search state is armed, not the state.
Set(pk, c) == [pk EXCEPT !.chunk = c, !.probe = NoProbe, !.armed = FALSE]

FirstFree == CHOOSE s \in free : \A x \in free : s <= x

Decoded == /\ dpc = "send" /\ Len(coord) < Cap
           /\ LET s == FirstFree
              IN  /\ free' = free \ {s}
                  /\ pkt' = [pkt EXCEPT ![s] = Set(@, next)]
                  /\ coord' = Append(coord, s)
           /\ next' = next + 1 /\ dpc' = "acquire"
           /\ UNCHANGED <<alt, frames, permits, enc, met, closed, coordinator, workers, disk, main>>

AllDecoded == /\ dpc = "acquire" /\ next > Todo
              /\ dpc' = "done"
              /\ UNCHANGED <<alt, frames, next, permits, free, rings, coordinator, pkt, workers, disk, main>>

----------------------------------------------------------------------------
\* tq_coord.

CoordRecv == /\ held = None /\ counted < Todo /\ coord # <<>>
             /\ coord' = Tail(coord)
             /\ IF Head(coord) = One
                THEN counted' = counted + 1 /\ UNCHANGED held
                ELSE held' = Head(coord) /\ UNCHANGED counted
             /\ UNCHANGED <<alt, frames, pool, enc, met, closed, pkt, workers, disk, main>>

CoordSend == /\ held # None /\ Len(enc) < Cap
             /\ enc' = Append(enc, held) /\ held' = None
             /\ UNCHANGED <<alt, frames, pool, coord, met, closed, counted, pkt, workers, disk, main>>

CoordClose == /\ counted = Todo /\ "enc" \notin closed
              /\ closed' = closed \cup {"enc"}
              /\ UNCHANGED <<alt, frames, pool, coord, enc, met, coordinator, pkt, workers, disk, main>>

----------------------------------------------------------------------------
\* The encode workers.

\* Mutation of Arm: the distance of the probe kept for the chunk before stays.
ArmStale(pk) == [pk EXCEPT !.armed = TRUE, !.round = 0, !.final = FALSE, !.diffs = <<>>,
                           !.kept = NoProbe]
\* TQState::arm.
Arm(pk) == [pk EXCEPT !.armed = TRUE, !.round = 0, !.final = FALSE, !.diffs = <<>>,
                      !.kept = NoProbe, !.keptDiff = Inf]

\* The probe of the next crf, or the final encode.
Probed(pk) == LET r == IF pk.final THEN 0 ELSE pk.round + 1
              IN  [pk EXCEPT !.round = IF pk.final THEN @ ELSE r, !.probe = <<pk.chunk, r>>]

Encode(e) ==
    /\ epc[e] = "recv" /\ enc # <<>>
    /\ LET s == Head(enc)
           pk == Probed(IF pkt[s].armed THEN pkt[s] ELSE Arm(pkt[s]))
       IN  /\ pkt' = [pkt EXCEPT ![s] = pk]
           /\ file' = IF pk.final THEN [file EXCEPT ![pk.chunk] = pk.probe] ELSE file
           /\ eslot' = [eslot EXCEPT ![e] = s]
    /\ enc' = Tail(enc)
    /\ epc' = [epc EXCEPT ![e] = "send"]
    /\ UNCHANGED <<alt, frames, pool, coord, met, closed, coordinator, mpc, mslot, booked, log, main>>

EncSend(e) == /\ epc[e] = "send" /\ Len(met) < Cap
              /\ met' = Append(met, eslot[e])
              /\ eslot' = [eslot EXCEPT ![e] = None] /\ epc' = [epc EXCEPT ![e] = "recv"]
              /\ UNCHANGED <<alt, frames, pool, coord, enc, closed, coordinator, pkt, mpc, mslot, disk, main>>

EncEof(e) == /\ epc[e] = "recv" /\ enc = <<>> /\ "enc" \in closed
             /\ epc' = [epc EXCEPT ![e] = "done"]
             /\ UNCHANGED <<alt, frames, pool, rings, coordinator, pkt, eslot, mpc, mslot, disk, main>>

----------------------------------------------------------------------------
\* The metric workers.

MetRecv(m) == /\ mpc[m] = "recv" /\ met # <<>>
              /\ met' = Tail(met)
              /\ mslot' = [mslot EXCEPT ![m] = Head(met)]
              /\ mpc' = [mpc EXCEPT ![m] = IF pkt[Head(met)].final THEN "tell" ELSE "score"]
              /\ UNCHANGED <<alt, frames, pool, coord, enc, closed, coordinator, pkt, epc, eslot, disk, main>>

\* retain_swap: the best probe so far is kept aside; retain_noop with -P.
Retain(pk, d) == IF ~alt /\ d < pk.keptDiff
                 THEN [pk EXCEPT !.keptDiff = d, !.probe = pk.kept, !.kept = pk.probe]
                 ELSE pk

Stays(pk) == pk.round < MaxRounds

\* The probe is scored; the search goes on, or output_bytes writes the kept probe, or the
\* chunk goes back for its final encode.
Score(m) ==
    /\ mpc[m] = "score"
    /\ \E d \in Diffs, ends \in BOOLEAN :
          LET s == mslot[m]
              pk == [Retain(pkt[s], d) EXCEPT !.diffs = Append(@, d)]
          IN  /\ ends \/ Stays(pk)
              /\ pkt' = [pkt EXCEPT ![s] = [pk EXCEPT !.final = ends /\ alt]]
              /\ file' = IF ends /\ ~alt THEN [file EXCEPT ![pk.chunk] = pk.kept] ELSE file
              /\ mpc' = [mpc EXCEPT ![m] = IF ends /\ ~alt THEN "tell" ELSE "again"]
    /\ UNCHANGED <<alt, frames, pool, rings, coordinator, epc, eslot, mslot, booked, log, main>>

\* mpsc_send(work_tx).
Again(m) == /\ mpc[m] = "again" /\ Len(coord) < Cap
            /\ coord' = Append(coord, mslot[m])
            /\ mslot' = [mslot EXCEPT ![m] = None] /\ mpc' = [mpc EXCEPT ![m] = "recv"]
            /\ UNCHANGED <<alt, frames, pool, enc, met, closed, coordinator, pkt, epc, eslot, disk, main>>

\* complete_chnk: the message, add_completion, the line of chunks.json.
Tell(m) == /\ mpc[m] = "tell" /\ Len(coord) < Cap
           /\ coord' = Append(coord, One)
           /\ mpc' = [mpc EXCEPT ![m] = "book"]
           /\ UNCHANGED <<alt, frames, pool, enc, met, closed, coordinator, pkt, epc, eslot, mslot, disk, main>>

Book(m) == /\ mpc[m] = "book"
           /\ booked' = booked \cup {pkt[mslot[m]].chunk}
           /\ log' = Append(log, pkt[mslot[m]].chunk)
           /\ mpc' = [mpc EXCEPT ![m] = "give"]
           /\ UNCHANGED <<alt, frames, pool, rings, coordinator, pkt, epc, eslot, mslot, file, main>>

\* Mutation of Give: the slot without its permit.
GiveNoPermit(m) ==
           /\ mpc[m] = "give"
           /\ free' = free \cup {mslot[m]} /\ permits' = permits
           /\ mslot' = [mslot EXCEPT ![m] = None] /\ mpc' = [mpc EXCEPT ![m] = "recv"]
           /\ UNCHANGED <<alt, frames, next, dpc, rings, coordinator, pkt, epc, eslot, disk, main>>
Give(m) == /\ mpc[m] = "give"
           /\ free' = free \cup {mslot[m]} /\ permits' = permits + 1
           /\ mslot' = [mslot EXCEPT ![m] = None] /\ mpc' = [mpc EXCEPT ![m] = "recv"]
           /\ UNCHANGED <<alt, frames, next, dpc, rings, coordinator, pkt, epc, eslot, disk, main>>

MetEof(m) == /\ mpc[m] = "recv" /\ met = <<>> /\ "met" \in closed
             /\ mpc' = [mpc EXCEPT ![m] = "done"]
             /\ UNCHANGED <<alt, frames, pool, rings, coordinator, pkt, epc, eslot, mslot, disk, main>>

----------------------------------------------------------------------------
\* enc_tq after the spawns.

MStep(from, to) == main = from /\ main' = to

\* The thread of tq_coord joins the decoder before it ends.
JoinCoord == /\ MStep("join coord", "join encoders")
             /\ "enc" \in closed /\ dpc = "done"
             /\ UNCHANGED <<alt, frames, pool, rings, coordinator, pkt, workers, disk>>

JoinEncoders == /\ MStep("join encoders", "join metrics")
                /\ \A e \in Encoders : epc[e] = "done"
                /\ closed' = closed \cup {"met"}
                /\ UNCHANGED <<alt, frames, pool, coord, enc, met, coordinator, pkt, workers, disk>>

\* Mutation of Joined: the metric workers are only told.
JoinedNot == TRUE
Joined == \A m \in Metrics : mpc[m] = "done"

\* write_tq_log reads chunks.json.
JoinMetrics == /\ MStep("join metrics", "log written") /\ Joined
               /\ UNCHANGED <<alt, frames, pool, rings, coordinator, pkt, workers, disk>>

Decoder == Acquire \/ Decoded \/ AllDecoded
Coordinator == CoordRecv \/ CoordSend \/ CoordClose
Encoder(e) == Encode(e) \/ EncSend(e) \/ EncEof(e)
Metric(m) == MetRecv(m) \/ Score(m) \/ Again(m) \/ Tell(m) \/ Book(m) \/ Give(m) \/ MetEof(m)
Main == JoinCoord \/ JoinEncoders \/ JoinMetrics

Next == \/ Decoder \/ Coordinator \/ Main
        \/ \E e \in Encoders : Encoder(e)
        \/ \E m \in Metrics : Metric(m)

Fairness == /\ WF_vars(Decoder) /\ WF_vars(Coordinator) /\ WF_vars(Main)
            /\ \A e \in Encoders : WF_vars(Encoder(e))
            /\ \A m \in Metrics : WF_vars(Metric(m))

Spec == Init /\ [][Next]_vars /\ Fairness

----------------------------------------------------------------------------
TypeOK == /\ free \subseteq Slots /\ permits \in 0 .. Cardinality(Slots)
          /\ Len(coord) <= Cap /\ Len(enc) <= Cap /\ Len(met) <= Cap
          /\ held \in Slots \cup {None} /\ counted \in 0 .. Todo
          /\ \A c \in Chunks : file[c] \in (0 .. Todo) \X (0 .. MaxRounds)

\* What is book-kept is on disk and is the right probe: the final encode of that chunk with
\* -P, otherwise the first of its own probes that came closest to the target, whatever the
\* packet held before (WorkPkg::set only disarms, retain_swap trades buffers with it).
BookedIsBest ==
    \A s \in Slots : \A m \in Metrics :
        mslot[m] = s /\ mpc[m] = "give" =>
            LET c == pkt[s].chunk
                d == pkt[s].diffs
            IN  IF alt THEN file[c] = <<c, 0>>
                ELSE \E r \in 1 .. Len(d) :
                        /\ file[c] = <<c, r>>
                        /\ \A k \in 1 .. Len(d) : d[r] <= d[k] /\ (k < r => d[r] < d[k])

\* The message of a finished chunk leaves before it is book-kept and starts the shutdown:
\* all the same every chunk is book-kept and logged once when write_tq_log reads the log.
AllBooked == main = "log written" =>
                /\ booked = Chunks
                /\ Len(log) = Todo /\ \A c \in Chunks : \E i \in 1 .. Todo : log[i] = c

\* Nobody waits on everybody: what the decoder could read is book-kept in the end, and the
\* run ends when it could read everything.
Done == 1 .. frames \subseteq booked /\ (frames = Todo => main = "log written")
ChunksEnd == <>Done
=============================================================================
