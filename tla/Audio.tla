------------------------------- MODULE Audio -------------------------------
(***************************************************************************)
(* The audio of one stream, decoded and encoded in parallel:               *)
(* fused_encode, par_decode, par_encode_seg, chunk_encode of               *)
(* src/src/audio.rs and AuDecoder::decode_range of src/src/lavf.rs.        *)
(*                                                                         *)
(* The ranges are cut into units.  Threads take units off a counter and    *)
(* decode each with a decoder of their own: from the first packet at or    *)
(* after the start of the unit (the first unit of a range from where the   *)
(* seek lands, the surplus dropped later) up to the first packet at or     *)
(* after its end.  Fused, the encoder takes the units in order while they  *)
(* are decoded, at most Threads of them ahead, and encodes full segments   *)
(* with frames before and after them that prime an encoder and are thrown  *)
(* away; normalising, the units are put together after all are decoded.    *)
(*                                                                         *)
(* A sample is its position in the stream; an encoded frame is one sample. *)
(* External: the container (packets of Packet samples, each a key packet). *)
(***************************************************************************)
EXTENDS Integers, FiniteSets, Lists

CONSTANTS Threads,             \* available_parallelism
          Length, Packet,      \* of the stream and of its packets, in samples
          Warmup,              \* a seek goes this far before a unit
          RangeLists,          \* <<start, end>>, the end exclusive
          Unit,                \* UNIT_SAMPLES
          Chunk, Preroll, Postroll,   \* CHUNK_FRAMES, PREROLL, POSTROLL
          MaxErrors            \* bound of the decode and encode errors

AudioAssumption ==
    /\ {Threads, Length, Packet, Unit, Chunk} \subseteq Nat \ {0}
    /\ {Warmup, Preroll, Postroll, MaxErrors} \subseteq Nat
    /\ Preroll <= Threads * Chunk
    /\ Packet <= Unit
    \* A range is long enough for every thread of par_decode to start at a packet of its own;
    \* in a shorter one several threads would decode the same packet.
    /\ \A r \in RangeLists : \A i \in DOMAIN r :
          r[i][2] - r[i][1] >= Threads * Packet /\ r[i][2] <= Length

VARIABLES ranges, norm,        \* the cuts, and whether the loudness is normalised
          counter, tpc, tunit, \* the unit counter; per thread, its label and unit
          result, ready,       \* decoded units
          consumed, failed, errors,
          cpc, remaining, buf, encOff,   \* the consumer
          segs, verdict        \* what was encoded, and what the scope returns

vars == <<ranges, norm, counter, tpc, tunit, result, ready, consumed, failed, errors,
          cpc, remaining, buf, encOff, segs, verdict>>

Workers == 1 .. Threads
Upto(a, b) == [i \in 1 .. (IF b > a THEN b - a ELSE 0) |-> a + i - 1]
CeilDiv(a, b) == (a + b - 1) \div b

----------------------------------------------------------------------------
\* The units: <<start, end, first of its range, last of its range>>; by UNIT_SAMPLES when
\* fused, one per thread when normalising, where only the very last one is marked last.

UnitsOf(r, isLast) ==
    LET n == IF norm THEN Threads ELSE CeilDiv(r[2] - r[1], Unit)
        at(c) == IF norm THEN r[1] + ((r[2] - r[1]) * c) \div n ELSE r[1] + c * Unit
    IN  [c \in 1 .. n |-> <<at(c - 1), IF c = n THEN r[2] ELSE at(c), c = 1, c = n /\ isLast>>]

units == FlattenSeq([i \in DOMAIN ranges |-> UnitsOf(ranges[i], ~norm \/ i = Len(ranges))])
N == Len(units)
RangeLen(u) == LET r == CHOOSE i \in DOMAIN ranges :
                          Cardinality({k \in 1 .. u : units[k][3]}) = i
               IN  ranges[r][2] - ranges[r][1]

Init == /\ ranges \in RangeLists /\ norm \in BOOLEAN
        /\ counter = 1 /\ tpc = [t \in Workers |-> "take"] /\ tunit = [t \in Workers |-> 0]
        /\ result = <<>> /\ ready = {}
        /\ consumed = 0 /\ failed = FALSE /\ errors = 0
        /\ cpc = "wait" /\ remaining = 0 /\ buf = <<>> /\ encOff = 0
        /\ segs = <<>> /\ verdict = "none"

----------------------------------------------------------------------------
\* AuDecoder::decode_range.

PacketAt(s) == (s \div Packet) * Packet
NextPacket(s) == CeilDiv(s, Packet) * Packet
SeekTo(s) == PacketAt(IF s > Warmup THEN s - Warmup ELSE 0)
Start(u) == IF u[3] THEN SeekTo(u[1]) ELSE NextPacket(u[1])
\* Mutation of End: the packet that holds the end belongs to the unit as well.
EndHolds(u) == IF u[4] THEN Length ELSE NextPacket(u[2]) + Packet
\* The packet that starts the unit is not held against its end.
End(u) == IF u[4] THEN Length
          ELSE IF NextPacket(u[2]) > Start(u) THEN NextPacket(u[2]) ELSE Start(u) + Packet
DecodeRange(u) == Upto(Start(u), IF End(u) < Length THEN End(u) ELSE Length)
DropFront(u) == IF u[3] THEN u[1] - Start(u) ELSE 0

TStep(t, from, to) == tpc[t] = from /\ tpc' = [tpc EXCEPT ![t] = to]

TakeUnit(t) == /\ TStep(t, "take", IF counter > N \/ failed THEN "done"
                                   ELSE IF norm THEN "decode" ELSE "window")
               /\ counter' = counter + 1
               /\ tunit' = [tunit EXCEPT ![t] = counter]
               /\ UNCHANGED <<ranges, norm, result, ready, consumed, failed, errors,
                              cpc, remaining, buf, encOff, segs, verdict>>

Ahead(t) == tunit[t] > consumed + Threads

\* Mutation of Window: a thread that is too far ahead does not look at the failures.
WindowDeaf(t) == /\ TStep(t, "window", "decode")
                 /\ ~Ahead(t)
                 /\ UNCHANGED <<ranges, norm, counter, tunit, result, ready, consumed, failed, errors,
                                cpc, remaining, buf, encOff, segs, verdict>>

\* The sleep loop of a thread that is too far ahead.
Window(t) == /\ TStep(t, "window", IF Ahead(t) THEN "done" ELSE "decode")
             /\ Ahead(t) => failed
             /\ UNCHANGED <<ranges, norm, counter, tunit, result, ready, consumed, failed, errors,
                            cpc, remaining, buf, encOff, segs, verdict>>

DecodeUnit(t) == /\ TStep(t, "decode", "take")
                 /\ result' = [u \in DOMAIN result \cup {tunit[t]} |->
                                 IF u = tunit[t] THEN DecodeRange(units[u]) ELSE result[u]]
                 /\ ready' = ready \cup {tunit[t]}
                 /\ UNCHANGED <<ranges, norm, counter, tunit, consumed, failed, errors,
                                cpc, remaining, buf, encOff, segs, verdict>>

Fail(t) == /\ TStep(t, "decode", "error") /\ errors < MaxErrors
           /\ errors' = errors + 1 /\ failed' = TRUE
           /\ UNCHANGED <<ranges, norm, counter, tunit, result, ready, consumed,
                          cpc, remaining, buf, encOff, segs, verdict>>

----------------------------------------------------------------------------
\* The consumer.

CStep(from, to) == cpc = from /\ cpc' = to
Next1 == consumed + 1

\* A decode error ends the loop quietly: the join reports it.
GiveUp == /\ ~norm /\ CStep("wait", "join")
          /\ Next1 <= N /\ Next1 \notin ready /\ failed
          /\ UNCHANGED <<ranges, norm, counter, tpc, tunit, result, ready, consumed, failed, errors,
                         remaining, buf, encOff, segs, verdict>>

Minimum(a, b) == IF a < b THEN a ELSE b

Consume == /\ ~norm /\ CStep("wait", "segment")
           /\ Next1 \in ready
           /\ LET u == units[Next1]
                  pcm == result[Next1]
                  left == IF u[3] THEN RangeLen(Next1) ELSE remaining
                  n == Minimum(Len(pcm) - DropFront(u), left)
              IN  /\ buf' = buf \o SubSeq(pcm, DropFront(u) + 1, DropFront(u) + n)
                  /\ remaining' = left - n
           /\ consumed' = Next1
           /\ UNCHANGED <<ranges, norm, counter, tpc, tunit, result, ready, failed, errors,
                          encOff, segs, verdict>>

\* encode_chunk for each chunk of the segment: what it keeps, and what primes it.
Encoded(off, n) ==
    [c \in 1 .. CeilDiv(n, Chunk) |->
        LET from == off + (c - 1) * Chunk
            to == Minimum(from + Chunk, off + n)
        IN  [kept |-> SubSeq(buf, from + 1, to),
             before |-> Minimum(from, Preroll),
             after |-> Minimum(Postroll, Len(buf) - to)]]

Seg == Threads * Chunk

Drained == /\ buf' = SubSeq(buf, encOff + Seg - Preroll + 1, Len(buf))
           /\ encOff' = Preroll

EncodeSeg == /\ cpc = "segment" /\ Len(buf) >= encOff + Seg + Postroll
             /\ segs' = segs \o Encoded(encOff, Seg)
             /\ Drained
             /\ UNCHANGED <<ranges, norm, counter, tpc, tunit, result, ready, consumed, failed, errors,
                            cpc, remaining, verdict>>

NextUnit == /\ CStep("segment", IF consumed = N THEN "tail" ELSE "wait")
            /\ Len(buf) < encOff + Seg + Postroll
            /\ UNCHANGED <<ranges, norm, counter, tpc, tunit, result, ready, consumed, failed, errors,
                           remaining, buf, encOff, segs, verdict>>

EncodeTail == /\ CStep("tail", "join")
              /\ segs' = IF Len(buf) > encOff THEN segs \o Encoded(encOff, Len(buf) - encOff) ELSE segs
              /\ UNCHANGED <<ranges, norm, counter, tpc, tunit, result, ready, consumed, failed, errors,
                             remaining, buf, encOff, verdict>>

\* An encoder or a write fails.
EncodeFail == /\ cpc \in {"segment", "tail"} /\ errors < MaxErrors
              /\ cpc' = "encode failed" /\ failed' = TRUE /\ errors' = errors + 1
              /\ UNCHANGED <<ranges, norm, counter, tpc, tunit, result, ready, consumed,
                             remaining, buf, encOff, segs, verdict>>

Stopped == \A t \in Workers : tpc[t] \in {"done", "error"}

\* The join of fused_encode: an error of a thread, or the one of the consumer.
Join == /\ ~norm /\ cpc \in {"join", "encode failed"} /\ Stopped
        /\ verdict' = IF cpc = "encode failed" \/ \E t \in Workers : tpc[t] = "error"
                      THEN "error" ELSE "ok"
        /\ cpc' = "end"
        /\ UNCHANGED <<ranges, norm, counter, tpc, tunit, result, ready, consumed, failed, errors,
                       remaining, buf, encOff, segs>>

\* par_decode after the join: per range, its units up to the length of the range; then
\* measure, the gain, and chunk_encode.
Assembled ==
    LET first(i) == CHOOSE u \in 1 .. N : units[u][3] /\ Cardinality({k \in 1 .. u : units[k][3]}) = i
        all(i) == FlattenSeq([k \in 1 .. Threads |->
                            LET u == first(i) + k - 1
                            IN  SubSeq(result[u], DropFront(units[u]) + 1, Len(result[u]))])
    IN  FlattenSeq([i \in DOMAIN ranges |-> SubSeq(all(i), 1, ranges[i][2] - ranges[i][1])])

Assemble == /\ norm /\ CStep("wait", "tail") /\ Stopped
            /\ ~failed
            /\ buf' = Assembled
            /\ UNCHANGED <<ranges, norm, counter, tpc, tunit, result, ready, consumed, failed, errors,
                           remaining, encOff, segs, verdict>>

ParEnd == /\ norm /\ \/ cpc = "join" /\ verdict' = "ok"
                     \/ cpc = "encode failed" /\ verdict' = "error"
                     \/ cpc = "wait" /\ Stopped /\ failed /\ verdict' = "error"
          /\ cpc' = "end"
          /\ UNCHANGED <<ranges, norm, counter, tpc, tunit, result, ready, consumed, failed, errors,
                         remaining, buf, encOff, segs>>

Worker(t) == TakeUnit(t) \/ Window(t) \/ DecodeUnit(t) \/ Fail(t)
Consumer == GiveUp \/ Consume \/ EncodeSeg \/ NextUnit \/ EncodeTail \/ EncodeFail \/ Join
            \/ Assemble \/ ParEnd
Next == Consumer \/ \E t \in Workers : Worker(t)
Fairness == WF_vars(Consumer) /\ \A t \in Workers : WF_vars(Worker(t))
Spec == Init /\ [][Next]_vars /\ Fairness

----------------------------------------------------------------------------
TypeOK == /\ consumed \in 0 .. N /\ ready \subseteq 1 .. N /\ errors \in 0 .. MaxErrors
          /\ verdict \in {"none", "ok", "error"}

Wanted == FlattenSeq([i \in DOMAIN ranges |-> Upto(ranges[i][1], ranges[i][2])])
Out == FlattenSeq([i \in DOMAIN segs |-> segs[i].kept])

\* A file that is reported good holds every sample of the ranges once and in order, whoever
\* decoded them: neighbouring units meet at the same packet, nothing is lost or repeated
\* where two segments meet, and every chunk but the first was primed by the frames before
\* it.  What is reported good met no error.
AudioExact == verdict = "ok" =>
                 /\ Out = Wanted
                 /\ errors = 0
                 /\ \A i \in DOMAIN segs : i > 1 => segs[i].before = Preroll

\* The decoding runs ahead of the encoder by the units of its threads and no further.
WindowHolds == ~norm => \A u \in ready : u <= consumed + Threads

\* The run ends, also when a decoder or the encoder fails while threads wait for the window.
Ends == <>(verdict # "none")
=============================================================================
