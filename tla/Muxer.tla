------------------------------- MODULE Muxer -------------------------------
(***************************************************************************)
(* Muxing the chunks into one Matroska file: mux_mkv of src/src/mkv_mux.rs *)
(* over src/src/mkv/.  Every chunk is a cluster.  The file is planned      *)
(* before a byte is written: the octets of each cluster's blocks, then a   *)
(* fixpoint over the sizes and offsets that depend on one another (the     *)
(* seek head and the cues hold positions, whose widths depend on them, and *)
(* every cluster holds its position in the width of the file's size).      *)
(* Then several threads build clusters in disjoint regions, with unchecked *)
(* writes: what they write must be what was planned.                       *)
(*                                                                         *)
(* A payload is its length.  The contents of the elements of fixed size    *)
(* and the checksums are left out.  Frames, packets and clusters count     *)
(* from 1, display ranks from 0.                                           *)
(***************************************************************************)
EXTENDS Integers, Sequences, FiniteSets, Lists

CONSTANTS Movies,   \* what is muxed: [chunks, disp, tracks, fps, head], see Init
          Threads,  \* available_parallelism
          MinPar    \* MIN_PAR

VARIABLES pc, movie,
          tracks,             \* audio, then subtitles: [kind, ts, len, dur, pads]
          plans,              \* ClusterPlan
          sh, cues, width,    \* sh_size, cues_len, pos_width
          lay,                \* Layout, once fixed
          batches,            \* thread -> clusters it has still to build
          out                 \* cluster -> where it was written and its blocks

vars == <<pc, movie, tracks, plans, sh, cues, width, lay, batches, out>>

Over(n, f(_)) == LET sum[i \in 0 .. n] == IF i = 0 THEN 0 ELSE sum[i - 1] + f(i) IN sum[n]
SumOf(s) == Over(Len(s), LAMBDA i : s[i])

----------------------------------------------------------------------------
\* Widths (mkv/ebml.rs, mkv/element.rs) and sizes of elements.

\* At most five octets here: no length is as large as 2^32.
Octets(v, base) == CHOOSE n \in 1 .. 5 : /\ n = 5 \/ v \div base ^ (n - 1) < base
                                         /\ n > 1 => v \div base ^ (n - 2) >= base
UintSize(v) == Octets(v, 256)
VintSize(v) == Octets(v + 1, 128)
SintSize(v) == IF v = 0 THEN 0 ELSE Octets(2 * (IF v > 0 THEN v ELSE -v - 1), 256)
Master(id, content) == id + VintSize(content) + content
Crc == 6

BlockGroupSize(track, len, key, rel, dur) ==
    LET block == VintSize(track) + 3 + len
        ref == IF key THEN 0 ELSE 2 + SintSize(-rel)
    IN  Master(1, Crc + Master(1, block) + 2 + UintSize(dur) + ref)
PadGroupSize(track, len, pad) ==
    Master(1, Crc + Master(1, VintSize(track) + 3 + len) + 3 + SintSize(pad))
SimpleBlockSize(track, len) == Master(1, VintSize(track) + 3 + len)

ClusterContent(p, w, prev) == Crc + 2 + UintSize(p.ts) + 2 + w
                              + (IF prev > 0 THEN 2 + UintSize(prev) ELSE 0) + p.bg + p.sb + p.sub
SeekEntry(pos) == Master(2, Master(2, 4) + 3 + UintSize(pos))
SeekHeadSize(offs) == Master(4, Crc + Over(Len(offs), LAMBDA i : SeekEntry(offs[i])))

\* cue_of: where a cluster's first block group begins in its content.
CueRel(p, w) == 8 + UintSize(p.ts) + 2 + w + (IF p.prev > 0 THEN 2 + UintSize(p.prev) ELSE 0)
CuePoint(p, w, dur) == 22 + UintSize(p.ts) + UintSize(p.pos) + UintSize(CueRel(p, w)) + UintSize(dur)

----------------------------------------------------------------------------
\* Times, in milliseconds.

Num == movie.fps[1]
Den == movie.fps[2]
PtsMs(f) == (f * Den * 1000 + Num \div 2) \div Num

\* pts_table, of the frame after f - 1 others.
Tab[f \in Nat] ==
    IF f = 0 THEN [ms |-> 0, rem |-> Num \div 2]
    ELSE LET last == Tab[f - 1]
             rem == last.rem + ((Den * 1000) % Num)
         IN  [ms |-> last.ms + (Den * 1000) \div Num + (IF rem >= Num THEN 1 ELSE 0),
              rem |-> IF rem >= Num THEN rem - Num ELSE rem]
I16(v) == ((v + 32768) % 65536) - 32768
Rel(t, ts) == I16(t - ts)
Dur(f) == Tab[f + 1].ms - Tab[f].ms

\* The packets' times: Opus counts samples at 48 kHz, copied streams have timestamps (copied audio
\* gets back the codec delay the demuxer took out).
OpusTs(t) == [i \in DOMAIN t.len |-> (SumOf(SubSeq(t.samples, 1, i - 1)) * 1000 + 24000) \div 48000]
Ms(v, tb) == (v * tb[1] * 1000 + tb[2] \div 2) \div tb[2]
AtLeast0(v) == IF v > 0 THEN v ELSE 0
CopyTs(t) == LET scale == t.rate * t.tb[1]
                 origin == t.origin - (t.delay * t.tb[2] + scale \div 2) \div scale
             IN  [i \in DOMAIN t.len |-> Ms(AtLeast0(t.pts[i] - origin), t.tb)]
SubTs(t) == [i \in DOMAIN t.len |-> Ms(AtLeast0(t.pts[i] - t.origin), t.tb)]

----------------------------------------------------------------------------
\* Planning.

Init == /\ movie \in Movies
        /\ pc = "plan" /\ tracks = <<>> /\ plans = <<>>
        /\ sh = 0 /\ cues = 0 /\ width = 1 /\ lay = <<>>
        /\ batches = <<>> /\ out = <<>>

Clusters == 1 .. Len(movie.chunks)
Base(c) == Over(c - 1, LAMBDA d : Len(movie.chunks[d]))

\* The frame whose time a block has: NAL chunks are in decode order, their ranks in movie.disp.
Shown(c, i) == Base(c) + (IF movie.disp = <<>> THEN i - 1 ELSE movie.disp[c][i])
VideoRel(c, i) == Rel(Tab[Shown(c, i)].ms, Tab[Base(c)].ms)

PlanClusters ==
    /\ pc = "plan"
    /\ plans' = [c \in Clusters |->
           [ts |-> Tab[Base(c)].ms, sb |-> 0, sub |-> 0, size |-> 0, pos |-> 0, prev |-> 0,
            bg |-> Over(Len(movie.chunks[c]), LAMBDA i :
                       BlockGroupSize(1, movie.chunks[c][i], i = 1, VideoRel(c, i), Dur(Shown(c, i))))]]
    /\ pc' = "tracks"
    /\ UNCHANGED <<movie, tracks, sh, cues, width, lay, batches, out>>

\* assign_audio, assign_subs: a packet goes to the last cluster that begins no later, and never to
\* one before its predecessor's.
ClusterOf(ts, i) == CHOOSE c \in Clusters :
    LET reached(d) == d = 1 \/ \E q \in 1 .. i : \A e \in 2 .. d : ts[q] >= plans[e].ts
    IN  reached(c) /\ \A d \in Clusters : reached(d) => d <= c
Bound(ts, c) == Cardinality({i \in DOMAIN ts : ClusterOf(ts, i) < c})

Number(k) == k + 1
PacketSize(t, number, i) ==
    IF t.kind = "subs" THEN BlockGroupSize(number, t.len[i], TRUE, 0, t.dur[i])
    ELSE IF i \in DOMAIN t.pads THEN PadGroupSize(number, t.len[i], t.pads[i])
    ELSE SimpleBlockSize(number, t.len[i])

\* The next track; one without packets, or of a codec Matroska has no name for, is left out.
AssignTrack ==
    /\ pc = "tracks" /\ movie.tracks # <<>>
    /\ LET t == Head(movie.tracks)
           ts == CASE t.kind = "opus" -> OpusTs(t) [] t.kind = "copy" -> CopyTs(t) [] OTHER -> SubTs(t)
           new == [kind |-> t.kind, ts |-> ts, len |-> t.len, pads |-> t.pads,
                   dur |-> IF t.kind = "subs" THEN [i \in DOMAIN t.len |-> Ms(AtLeast0(t.durs[i]), t.tb)]
                           ELSE <<>>]
           octets(c) == Over(Len(ts), LAMBDA i : IF ClusterOf(ts, i) = c
                                  THEN PacketSize(new, Number(Len(tracks) + 1), i) ELSE 0)
       IN  IF t.len = <<>> \/ ~t.known THEN UNCHANGED <<tracks, plans>>
           ELSE /\ tracks' = Append(tracks, new)
                /\ plans' = [c \in Clusters |-> IF t.kind = "subs"
                                THEN [plans[c] EXCEPT !.sub = @ + octets(c)]
                                ELSE [plans[c] EXCEPT !.sb = @ + octets(c)]]
    /\ movie' = [movie EXCEPT !.tracks = Tail(@)]
    /\ UNCHANGED <<pc, sh, cues, width, lay, batches, out>>

\* layout, one iteration: with the sizes of the last one, until they are their own result.
Sized == LET size[c \in Clusters] ==
                 Master(4, ClusterContent(plans[c], width, IF c = 1 THEN 0 ELSE size[c - 1]))
         IN  size
HeadOffs == LET h == movie.head
                tagsAt == sh + h.info + h.tracks + h.chapters
            IN  [info |-> sh, tracks |-> sh + h.info, chapters |-> sh + h.info + h.tracks,
                 tags |-> tagsAt, cues |-> tagsAt + h.tags]
Seek(o) == <<o.info, o.tracks>> \o (IF movie.head.chapters > 0 THEN <<o.chapters>> ELSE <<>>)
           \o <<o.cues, o.tags>>

\* Mutation of Fixed: the size of the cues is not compared.
FixedButCues(s, c, w) == s = sh /\ w = width
Fixed(s, c, w) == s = sh /\ c = cues /\ w = width

Relayout ==
    /\ pc = "tracks" /\ movie.tracks = <<>>
    /\ LET size == Sized
           offs == HeadOffs
           new == [c \in Clusters |->
                      [plans[c] EXCEPT !.size = size[c], !.prev = IF c = 1 THEN 0 ELSE size[c - 1],
                           !.pos = offs.cues + cues + Over(c - 1, LAMBDA d : size[d])]]
           newSh == SeekHeadSize(Seek(offs))
           inner == Crc + Over(Len(new), LAMBDA c : CuePoint(new[c], width, PtsMs(1)))
           newCues == Master(4, inner)
           h == movie.head
           content == newSh + h.info + h.tracks + h.chapters + h.tags + newCues
                      + Over(Len(new), LAMBDA c : size[c])
           fileSize == 40 + Master(4, content)
           newWidth == UintSize(fileSize)
       IN  /\ plans' = new
           /\ IF Fixed(newSh, newCues, newWidth)
              THEN /\ lay' = [seek |-> offs, content |-> content, size |-> fileSize, inner |-> inner]
                   /\ pc' = "build" /\ UNCHANGED <<sh, cues, width>>
              ELSE /\ sh' = newSh /\ cues' = newCues /\ width' = newWidth
                   /\ UNCHANGED <<pc, lay>>
    /\ UNCHANGED <<movie, tracks, batches, out>>

----------------------------------------------------------------------------
\* Building.

\* write_headers: where it ends is where the first region begins.
Headers == LET h == movie.head
           IN  40 + 4 + VintSize(lay.content) + SeekHeadSize(Seek(lay.seek)) + h.info + h.tracks
               + h.chapters + h.tags + Master(4, lay.inner)

\* build_clusters: runs of clusters of about the same octets for each thread.
Batches(n) ==
    LET bytes == Over(Len(plans), LAMBDA c : plans[c].size)
        per == (bytes + n - 1) \div n
        Put(st, c) == LET acc == st.acc + plans[c].size
                      IN  IF acc >= per /\ Len(st.done) + 1 < n
                          THEN [done |-> Append(st.done, Append(st.cur, c)), cur |-> <<>>, acc |-> 0]
                          ELSE [st EXCEPT !.cur = Append(@, c), !.acc = acc]
        end == FoldLeft(Put, [done |-> <<>>, cur |-> <<>>, acc |-> 0], [c \in Clusters |-> c])
    IN  IF end.cur = <<>> THEN end.done ELSE Append(end.done, end.cur)

Spawn == /\ pc = "build"
         /\ LET least(a, b) == IF a < b THEN a ELSE b
                most(a, b) == IF a > b THEN a ELSE b
                bytes == Over(Len(plans), LAMBDA c : plans[c].size)
                n == least(least(Threads, Len(plans)), most(bytes \div MinPar, 1))
            IN  batches' = IF n <= 1 THEN <<[c \in Clusters |-> c]>> ELSE Batches(n)
         /\ pc' = "threads"
         /\ UNCHANGED <<movie, tracks, plans, sh, cues, width, lay, out>>

\* build_block_group, build_pad_group, build_simple_block: what they write.
Built(track, len, more, content) ==
    1 + VintSize(content) + Crc + 1 + VintSize(VintSize(track) + 3 + len) + VintSize(track) + 3 + len + more
Group(track, len, more) ==
    Built(track, len, more, Crc + 1 + VintSize(VintSize(track) + 3 + len) + VintSize(track) + 3 + len + more)

VideoBlock(c, i) ==
    LET rel == VideoRel(c, i)
    IN  [track |-> 1, i |-> Base(c) + i, key |-> Tab[Base(c) + i - 1].ms, rel |-> rel, dur |-> Dur(Shown(c, i)),
         own |-> PtsMs(Shown(c, i)),
         size |-> Group(1, movie.chunks[c][i],
                        2 + UintSize(Dur(Shown(c, i))) + (IF i = 1 THEN 0 ELSE 2 + SintSize(-rel)))]
AuxBlock(c, k, i) ==
    LET t == tracks[k]
    IN  [track |-> Number(k), i |-> i, key |-> t.ts[i], rel |-> Rel(t.ts[i], plans[c].ts),
         dur |-> IF t.kind = "subs" THEN t.dur[i] ELSE 0, own |-> t.ts[i],
         size |-> CASE t.kind = "subs" -> Group(Number(k), t.len[i], 2 + UintSize(t.dur[i]))
                    [] i \in DOMAIN t.pads -> Group(Number(k), t.len[i], 3 + SintSize(t.pads[i]))
                    [] OTHER -> 1 + VintSize(VintSize(Number(k)) + 3 + t.len[i])
                                + VintSize(Number(k)) + 3 + t.len[i]]

\* earliest: the track whose next packet in the cluster comes first.
Waiting(c, cur) == {k \in DOMAIN tracks : cur[k] <= Bound(tracks[k].ts, c + 1)}
Earliest(c, cur) == CHOOSE k \in Waiting(c, cur) : \A j \in Waiting(c, cur) :
    \/ tracks[k].ts[cur[k]] < tracks[j].ts[cur[j]]
    \/ tracks[k].ts[cur[k]] = tracks[j].ts[cur[j]] /\ k <= j

FrameFirst(c, st) ==
    \/ Waiting(c, st.cur) = {}
    \/ LET k == Earliest(c, st.cur) IN Tab[Base(c) + st.v].ms <= tracks[k].ts[st.cur[k]]

\* build_cluster: frames (in their order) and packets, interleaved by time.
Blocks(c) ==
    LET n == Len(movie.chunks[c])
        Step(st) == IF st.v < n /\ FrameFirst(c, st)
                    THEN [st EXCEPT !.v = @ + 1, !.blocks = Append(@, VideoBlock(c, st.v + 1))]
                    ELSE LET k == Earliest(c, st.cur)
                         IN  [st EXCEPT !.cur[k] = @ + 1, !.blocks = Append(@, AuxBlock(c, k, st.cur[k]))]
        total == n + Over(Len(tracks), LAMBDA k : Bound(tracks[k].ts, c + 1) - Bound(tracks[k].ts, c))
        run[m \in 0 .. total] ==
            IF m = 0 THEN [v |-> 0, blocks |-> <<>>,
                           cur |-> [k \in DOMAIN tracks |-> Bound(tracks[k].ts, c) + 1]]
            ELSE LET last == run[m - 1] IN Step(last)
    IN  run[total].blocks

\* build_cluster_header.
ClusterHeader(c) == 4 + VintSize(ClusterContent(plans[c], width, plans[c].prev)) + Crc
    + 2 + UintSize(plans[c].ts) + 2 + width
    + (IF plans[c].prev > 0 THEN 2 + UintSize(plans[c].prev) ELSE 0)

BuildCluster(b) ==
    /\ pc = "threads" /\ batches[b] # <<>>
    /\ LET c == Head(batches[b])
       IN  out' = out \o <<[c |-> c, at |-> Headers + Over(c - 1, LAMBDA d : plans[d].size),
                            header |-> ClusterHeader(c), blocks |-> Blocks(c)]>>
    /\ batches' = [batches EXCEPT ![b] = Tail(@)]
    /\ UNCHANGED <<pc, movie, tracks, plans, sh, cues, width, lay>>

Join == /\ pc = "threads" /\ \A b \in DOMAIN batches : batches[b] = <<>>
        /\ pc' = "done"
        /\ UNCHANGED <<movie, tracks, plans, sh, cues, width, lay, batches, out>>

Next == PlanClusters \/ AssignTrack \/ Relayout \/ Spawn \/ Join
        \/ \E b \in DOMAIN batches : BuildCluster(b)

\* Some thread runs as long as there is something to do.
Spec == Init /\ [][Next]_vars /\ WF_vars(Next)

----------------------------------------------------------------------------
TypeOK == /\ pc \in {"plan", "tracks", "build", "threads", "done"}
          /\ width \in 1 .. 8 /\ Len(out) <= Len(movie.chunks)

\* What the threads write is what layout planned: each cluster once, in the region that begins
\* where its Position (and its cue) says, filled to its last octet by its blocks; the cues point
\* at the first block; the seek head at its elements; the regions end where the file does.
LayoutExact == pc = "done" =>
    LET data == 40 + 4 + VintSize(lay.content)
        at(c) == CHOOSE x \in Elements(out) : x.c = c
        end == Headers + Over(Len(plans), LAMBDA c : plans[c].size)
        h == movie.head
        shSize == SeekHeadSize(Seek(lay.seek))
    IN  /\ Len(out) = Len(plans) /\ {x.c : x \in Elements(out)} = Clusters
        /\ \A c \in Clusters :
               LET x == at(c) IN
               /\ x.at = data + plans[c].pos
               /\ x.header + Over(Len(x.blocks), LAMBDA i : x.blocks[i].size) = plans[c].size
               /\ CueRel(plans[c], width) =
                      x.header - 4 - VintSize(ClusterContent(plans[c], width, plans[c].prev))
               /\ UintSize(plans[c].pos) <= width
        /\ lay.seek.info = shSize /\ lay.seek.tags = shSize + h.info + h.tracks + h.chapters
        /\ end = lay.size

\* Every frame and every packet has one block, in an order that never goes back in time, and a
\* reader that adds the block's 16 bits to its cluster's time finds the time it was given (a
\* frame's the exact one), unless it is further away than 16 bits reach (see the hazards).
BlocksTimed == pc = "done" =>
    /\ \A x \in Elements(out) :
           /\ \A i \in 1 .. Len(x.blocks) : LET b == x.blocks[i] IN
                  /\ b.own - plans[x.c].ts <= 32767 => plans[x.c].ts + b.rel = b.own
                  /\ \A j \in 1 .. i : x.blocks[j].key <= b.key
    /\ LET all == FlattenSeq([i \in DOMAIN out |-> out[i].blocks])
           ids == {<<b.track, b.i>> : b \in Elements(all)}
       IN  /\ Cardinality(ids) = Len(all)
           /\ ids = {<<1, f>> : f \in 1 .. Base(Len(plans) + 1)}
                    \cup UNION {{<<Number(k), i>> : i \in DOMAIN tracks[k].ts} : k \in DOMAIN tracks}
=============================================================================
