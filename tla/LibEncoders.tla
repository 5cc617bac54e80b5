---------------------------- MODULE LibEncoders ----------------------------
(***************************************************************************)
(* A worker that encodes chunks with AVM, VVenC, x265 or x264 (the         *)
(* enc_<encoder>_* functions of src/src/enc.rs), called by run_enc_worker, *)
(* and the buffered sink it writes to (BufWriter of src/src/io.rs).  The   *)
(* vector behind the sink is one per worker, reused from file to file.     *)
(*                                                                         *)
(* External: the encoder holds frames back as it likes and gives one       *)
(* packet per frame, in an order of its own that is the order of numbers   *)
(* here; a flush gives a packet as long as it holds a frame (VVenC may     *)
(* give an empty one first).  A write to the file may fail after a part    *)
(* of the bytes; the callers drop the error (let _ = ...).                 *)
(***************************************************************************)
EXTENDS Naturals, Sequences, SequencesExt, FiniteSetsExt

CONSTANTS Kinds,      \* encoders: a subset of {"avm", "vvenc", "x265", "x264"}
          Chunks,     \* chunks the worker encodes
          MaxFrames,  \* bound of the frames of a chunk
          Buf,        \* BUF, the size of the sink, in units of the smallest packet
          MaxFails    \* bound of the failing writes

LibAssumption == /\ Kinds \subseteq {"avm", "vvenc", "x265", "x264"}
                 /\ {Chunks, MaxFrames, Buf} \subseteq Nat \ {0}
                 /\ MaxFails \in Nat

VARIABLES kind, wpc, chunk, frames,
          fed, out,        \* frames fed, frames whose packet came back (done)
          sz,              \* bytes the function reports
          buf, file,       \* the vector, the file: packets [chunk, frame, size]
          raw, cap,        \* VVenC: the packet behind the end of the vector, its capacity
          fails            \* the chunks during which a write failed

vars == <<kind, wpc, chunk, frames, fed, out, sz, buf, file, raw, cap, fails>>

\* The bytes of a sequence of packets: each is the place of a packet and a place in it.
Bytes(s) == Cardinality({x \in (1 .. Len(s)) \X (1 .. Buf) : x[2] <= s[x[1]].size})
Packet(f, n) == [chunk |-> chunk, frame |-> f, size |-> n]
Sizes == {1, Buf}          \* small, and as large as the sink

Init == /\ kind \in Kinds
        /\ wpc = "next" /\ chunk = 0 /\ frames = 0 /\ fed = 0 /\ out = 0 /\ sz = 0
        /\ buf = <<>> /\ file = <<>> /\ raw = <<>> /\ cap = Buf /\ fails = {}

----------------------------------------------------------------------------
\* The sink.  sunk = <<vector, file>> after an attempt; a failing write leaves a part
\* of its bytes in the file and all of them in the vector.

Drain(b, f) ==
    {[buf |-> <<>>, file |-> f \o b, ok |-> TRUE]} \cup
    {[buf |-> b, file |-> f \o SubSeq(b, 1, k), ok |-> FALSE] : k \in 0 .. Len(b) - 1}

\* BufWriter::write, called by write_all.
Put(b, f, p) ==
    LET room == IF Bytes(b) + p.size > Buf THEN Drain(b, f)
                ELSE {[buf |-> b, file |-> f, ok |-> TRUE]}
    IN  UNION {IF ~r.ok THEN {r}
               ELSE IF p.size >= Buf
                    THEN {[r EXCEPT !.file = Append(@, p)], [r EXCEPT !.ok = FALSE]}
                    ELSE {[r EXCEPT !.buf = Append(@, p)]} : r \in room}

\* Takes one outcome of rs; a failure is counted.
Sink(rs) == \E r \in rs :
               /\ buf' = r.buf /\ file' = r.file
               /\ fails' = IF r.ok THEN fails ELSE fails \cup {chunk}
               /\ Cardinality(fails') <= MaxFails

WStep(from, to) == wpc = from /\ wpc' = to
Still == UNCHANGED <<buf, file, fails>>
Same == UNCHANGED <<kind, chunk, frames>>

----------------------------------------------------------------------------
\* make_chnk_lib: the file is created, the encoder opened.  What a failed drop left in
\* the vector is still there.
Open == /\ chunk < Chunks
        /\ WStep("next", IF kind = "x265" THEN "headers" ELSE "feed")
        /\ chunk' = chunk + 1 /\ frames' \in 1 .. MaxFrames
        /\ fed' = 0 /\ out' = 0 /\ sz' = 0
        /\ file' = <<>> /\ raw' = <<>>
        /\ UNCHANGED <<kind, buf, cap, fails>>

\* A packet comes back and is written.
Written == \E n \in Sizes : /\ Sink(Put(buf, file, Packet(out + 1, n)))
                            /\ out' = out + 1 /\ sz' = sz + n
                            /\ UNCHANGED <<raw, cap>>

Nothing == Still /\ UNCHANGED <<out, sz, raw, cap>>

\* AVM: every frame is followed by all the packets that are ready.
AvmFeed == /\ kind = "avm" /\ fed < frames
           /\ WStep("feed", "drain")
           /\ fed' = fed + 1 /\ Nothing /\ Same

AvmDrain == /\ \/ WStep("drain", "drain") /\ out < fed /\ Written
               \/ WStep("drain", "feed") /\ Nothing
            /\ UNCHANGED fed /\ Same

\* finish_avm: flush and drain until a flush brings no packet.
AvmFlush == /\ kind = "avm" /\ fed = frames
            /\ \/ WStep("feed", "flush") /\ Nothing
               \/ WStep("flush", "more") /\ out < fed /\ Written
               \/ WStep("more", "more") /\ out < fed /\ Written
               \/ WStep("more", "flush") /\ Nothing
               \/ WStep("flush", "drop") /\ out = fed /\ Nothing
            /\ UNCHANGED fed /\ Same

\* hdrs_x265: the parameter sets come first, once.
Headers == /\ WStep("headers", "feed")
           /\ Sink(Put(buf, file, Packet(0, 1)))
           /\ sz' = 1
           /\ UNCHANGED <<fed, out, raw, cap>> /\ Same

\* step_x265, step_x264: at most one packet for a frame.
H26xFeed == /\ kind \in {"x265", "x264"} /\ fed < frames
            /\ WStep("feed", "feed")
            /\ fed' = fed + 1
            /\ Written \/ Nothing
            /\ Same

\* flush_x265, flush_x264: a packet a call, until none comes.
H26xFlush == /\ kind \in {"x265", "x264"} /\ fed = frames
             /\ \/ WStep("feed", "feed") /\ out < fed /\ Written
                \/ WStep("feed", "drop") /\ out = fed /\ Nothing
             /\ UNCHANGED fed /\ Same

----------------------------------------------------------------------------
\* VVenC writes behind the end of the vector: spare folds the packet of the call before
\* in and makes room for the largest one.

Need == Buf                \* payload_size: no packet is larger

Spare == LET b == buf \o raw
         IN  IF cap - Bytes(b) >= Need
             THEN buf' = b /\ UNCHANGED <<file, cap, fails>>
             ELSE Sink(Drain(b, file)) /\ cap' = Max({cap, Bytes(buf') + Need + Buf})

\* The encoder fills the payload, or gives an empty access unit.
AccessUnit == \E n \in Sizes : /\ raw' = <<Packet(out + 1, n)>>
                               /\ out' = out + 1 /\ sz' = sz + n
NoUnit == raw' = <<>> /\ UNCHANGED <<out, sz>>

VvencFeed == /\ kind = "vvenc" /\ fed < frames
             /\ WStep("feed", "feed")
             /\ fed' = fed + 1
             /\ Spare
             /\ AccessUnit \/ NoUnit
             /\ Same

\* finish_vvenc: until the encoder says it is finished, with the last packet or after it.
VvencFlush == /\ kind = "vvenc" /\ fed = frames
              /\ Spare
              /\ \/ WStep("feed", "feed") /\ out < fed /\ AccessUnit
                 \/ WStep("feed", "feed") /\ out < fed /\ raw # <<>> /\ NoUnit
                 \/ WStep("feed", "commit") /\ out + 1 = fed /\ AccessUnit
                 \/ WStep("feed", "commit") /\ out = fed /\ NoUnit
              /\ UNCHANGED fed /\ Same

\* Mutation of Commit: the bytes still pending are left behind.
CommitNot == /\ WStep("commit", "drop")
             /\ raw' = <<>>
             /\ UNCHANGED <<buf, file, cap, fails, fed, out, sz>> /\ Same

Commit == /\ WStep("commit", "drop")
          /\ buf' = buf \o raw /\ raw' = <<>>
          /\ UNCHANGED <<file, cap, fails, fed, out, sz>> /\ Same

\* BufWriter::drop, then the chunk is reported with sz.
Drop == /\ WStep("drop", "next")
        /\ Sink(Drain(buf, file))
        /\ UNCHANGED <<fed, out, sz, raw, cap>> /\ Same

----------------------------------------------------------------------------
Next == \/ Open \/ Headers \/ Drop
        \/ AvmFeed \/ AvmDrain \/ AvmFlush
        \/ H26xFeed \/ H26xFlush
        \/ VvencFeed \/ VvencFlush \/ Commit

Spec == Init /\ [][Next]_vars /\ WF_vars(Next)

----------------------------------------------------------------------------
Frames(s) == [i \in 1 .. Len(s) |-> s[i].frame]
Expected == [i \in 1 .. frames + (IF kind = "x265" THEN 1 ELSE 0) |->
                IF kind = "x265" THEN i - 1 ELSE i]

\* As long as no write failed, a chunk is reported when its file holds the headers of the
\* encoder (x265) and the packet of every frame, once and in order, and the reported
\* size is the size of the file; nothing is left in the vector for the next file.
FileExact == (wpc = "next" /\ chunk > 0 /\ fails = {}) =>
                /\ Frames(file) = Expected
                /\ sz = Bytes(file)
                /\ buf = <<>>

\* A file holds packets of another chunk only when a write failed while that chunk was
\* encoded (its vector was not empty when the next file was opened).
ForeignAfterFailure == \A i \in 1 .. Len(file \o buf) :
                          LET c == (file \o buf)[i].chunk IN c = chunk \/ c \in fails

\* The packet VVenC wrote behind the vector lies within its capacity.
PayloadFits == Bytes(buf \o raw) <= cap
=============================================================================
