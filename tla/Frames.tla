------------------------------- MODULE Frames -------------------------------
(***************************************************************************)
(* Which frames a chunk gets: load_scenes, trans_scenes, val_scenes,       *)
(* chnkify and zone_tmpls of src/src/chunk.rs, the positioning of          *)
(* VidDecoder (skip_to, seek_near, pts_frame; src/asm/dec.asm), the piped  *)
(* input with its resume (src/src/y4m.rs, pipe_loop), and the audio cut by *)
(* acq_au of src/src/main.rs.                                              *)
(*                                                                         *)
(* A source frame is its number.  A file knows only timestamps: frame f    *)
(* has the time f * Ts[1] / Ts[2] ticks, stored rounded; a seek lands on   *)
(* the last key frame at or before a timestamp (external).  A script piped *)
(* in delivers the whole video, or with ranges the kept frames only, which *)
(* is how guide.txt asks for it.                                           *)
(***************************************************************************)
EXTENDS Integers, FiniteSetsExt, Lists

CONSTANTS Frm,           \* frames of the video
          Scenes,        \* sets of scene starts
          Zoned,         \* scene starts whose line in the file has parameters
          RangeLists,    \* what -r may say; << >> for no -r
          KeySets,       \* key frames
          TsFactors,     \* ts_factors: <<ticks, frames>>
          Near,          \* 150: skip_to decodes rather than seeks up to here
          MaxChnk        \* MAX_CHNK_FRAMES

FramesAssumption ==
    /\ {Frm, Near, MaxChnk} \subseteq Nat \ {0}
    /\ TsFactors \subseteq Nat \X Nat
    /\ \A t \in TsFactors : t[2] > 0 /\ t[1] >= 2 * t[2]   \* ticks at least twice as fine as frames
    \* as the scene detection writes them; a video begins with a key frame
    /\ \A S \in Scenes \cup KeySets : S \subseteq Nat /\ IsFiniteSet(S) /\ 0 \in S
    /\ \A r \in RangeLists : /\ r \in Seq(Nat \X Nat)
                             /\ \A i \in 1 .. Len(r) : r[i][2] < Frm   \* main_with_args refuses others

VARIABLES cuts, ranges, keys, ts, up,  \* the file and the arguments; timestamps round up
          piped, resumed,              \* input from stdin; vspipe restarted at a frame
          done,                        \* chunks book-kept by an earlier run
          chnks, tmpls, zones, phase,
          todo,                        \* chunks to deliver
          nextFrame, pos,              \* next_frame, and the frame the decoder gives next
          got                          \* chunk -> the source frames in its packet

vars == <<cuts, ranges, keys, ts, up, piped, resumed, done, chnks, tmpls, zones, phase, todo,
          nextFrame, pos, got>>
input == <<cuts, ranges, keys, ts, up, piped, resumed>>

Init == /\ cuts \in Scenes /\ ranges \in RangeLists /\ keys \in KeySets
        /\ ts \in TsFactors /\ up \in BOOLEAN
        /\ piped \in BOOLEAN /\ resumed \in BOOLEAN
        /\ done = {} /\ chnks = <<>> /\ tmpls = <<>> /\ zones = <<>> /\ phase = "cut"
        /\ todo = <<>> /\ nextFrame = 0 /\ pos = 0 /\ got = <<>>

Ascending(S) == [i \in 1 .. Cardinality(S) |-> CHOOSE x \in S : Cardinality({y \in S : y < x}) = i - 1]
Upto(from, n) == [i \in 1 .. n |-> from + i - 1]
InRange(f, r) == r[1] <= f /\ f <= r[2]
Ranged == ranges # <<>>

----------------------------------------------------------------------------
\* The chunks.

Params(f) == IF f \in Zoned THEN f ELSE -1
\* The parameters of the last scene that starts at or before f, -1 for none.
SceneParams(f) == LET S == {c \in cuts : c <= f} IN IF S = {} THEN -1 ELSE Params(Max(S))

\* load_scenes: one scene per line, up to the next.
Loaded == LET c == Ascending(cuts)
          IN  [i \in 1 .. Len(c) |-> [s |-> c[i], e |-> IF i < Len(c) THEN c[i + 1] ELSE Frm,
                                      p |-> Params(c[i])]]

\* trans_scenes: the cuts of the scenes and of the ranges, and the ranges a frame is in.
AllCuts == cuts \cup UNION {{ranges[k][1], ranges[k][2] + 1} : k \in DOMAIN ranges}
Holding(x) == {k \in DOMAIN ranges : InRange(x, ranges[k])}

\* Mutation of Transed: a scene cut inside a range keeps the end of the range.
TransedWide ==
    LET c == Ascending({x \in AllCuts : Holding(x) # {}})
    IN  [i \in DOMAIN c |-> [s |-> c[i], e |-> ranges[Min(Holding(c[i]))][2] + 1,
                             p |-> SceneParams(c[i])]]

\* The cuts that lie in a range begin a scene, up to the next cut or the end of the first
\* range they are in.
Transed ==
    LET c == Ascending({x \in AllCuts : Holding(x) # {}})
    IN  [i \in DOMAIN c |->
            [s |-> c[i], p |-> SceneParams(c[i]),
             e |-> Min({x \in AllCuts : x > c[i]} \cup {ranges[Min(Holding(c[i]))][2] + 1})]]

\* val_scenes refuses empty and long scenes.
Valid(sc) == \A i \in DOMAIN sc : sc[i].e - sc[i].s \in 1 .. MaxChnk

\* zone_tmpls: the distinct parameters in the order they appear, and per chunk the place
\* of its own, 0 for none.
ZoneList(sc) ==
    LET new == Ascending({i \in DOMAIN sc : sc[i].p # -1 /\ \A j \in 1 .. i - 1 : sc[j].p # sc[i].p})
    IN  [k \in DOMAIN new |-> sc[new[k]].p]

TmplOf(z, p) == IF p = -1 THEN 0 ELSE CHOOSE k \in DOMAIN z : z[k] = p

Cut == /\ phase = "cut"
       /\ LET sc == IF Ranged THEN Transed ELSE Loaded
          IN  IF ~Valid(sc) THEN phase' = "refused" /\ UNCHANGED <<done, chnks, tmpls, zones, todo>>
              ELSE /\ phase' = "decode"
                   /\ chnks' = sc
                   /\ zones' = ZoneList(sc)
                   /\ tmpls' = [i \in DOMAIN sc |-> TmplOf(ZoneList(sc), sc[i].p)]
                   /\ done' \in SUBSET DOMAIN sc
                   /\ todo' = Upto(1, Len(sc))
       /\ UNCHANGED <<input, nextFrame, pos, got>>

----------------------------------------------------------------------------
\* The decoder of a file.

Pts(f) == (f * ts[1] + IF up THEN ts[2] - 1 ELSE 0) \div ts[2]
PtsFrame(t) == (t * ts[2] + ts[1] \div 2) \div ts[1]

\* seek_near: the key frame is decoded, its own timestamp says where the decoder is.
Landing(f) == Max({k \in keys : Pts(k) <= (f * ts[1]) \div ts[2]} \cup {Min(keys)})
Sought(f) == <<PtsFrame(Pts(Landing(f))) + 1, Landing(f) + 1>>

Ahead(f, at) == IF f > at[1] THEN <<f, at[2] + (f - at[1])>> ELSE at

\* Mutation of SkipTo: a seek that lands on the frame itself is good enough.
SkipToOnce(f, at) == IF f < at[1] \/ f - at[1] > Near THEN Ahead(f, Sought(f)) ELSE Ahead(f, at)

\* skip_to: near enough to decode up to it, or a seek, and a second one if the first
\* landed on the frame itself and consumed it.
SkipTo(f, at) ==
    IF f < at[1] \/ f - at[1] > Near
    THEN Ahead(f, IF Sought(f)[1] > f THEN Sought(f - 1) ELSE Sought(f))
    ELSE Ahead(f, at)

\* dec_chnks and dec_linear: chunks of an earlier run are passed over.
Decode == /\ phase = "decode" /\ ~piped /\ todo # <<>>
          /\ todo' = Tail(todo)
          /\ IF Head(todo) \in done THEN UNCHANGED <<nextFrame, pos, got>>
             ELSE LET c == chnks[Head(todo)]
                      at == SkipTo(c.s, <<nextFrame, pos>>)
                  IN  /\ got' = Append(got, [chunk |-> Head(todo), frames |-> Upto(at[2], c.e - c.s)])
                      /\ nextFrame' = at[1] + (c.e - c.s)
                      /\ pos' = at[2] + (c.e - c.s)
          /\ UNCHANGED <<input, done, chnks, tmpls, zones, phase>>

----------------------------------------------------------------------------
\* The pipe.

\* The frames that are to be encoded.
Kept == IF Ranged THEN UNION {ranges[k][1] .. ranges[k][2] : k \in DOMAIN ranges} ELSE 0 .. Frm - 1
\* The frame of the video that a frame of the script is; past its end, none.
OfScript(j) == IF j < Cardinality(Kept) THEN Ascending(Kept)[j + 1] ELSE -1

\* vspipe_resume: the script is started again at the first chunk to do, given by its start.
Resume == /\ phase = "decode" /\ piped /\ resumed /\ pos = 0 /\ Len(todo) = Len(chnks)
          /\ done # {} /\ done # DOMAIN chnks
          /\ LET first == Min(DOMAIN chnks \ done)
             IN  /\ todo' = Upto(first, Len(chnks) - first + 1)
                 /\ pos' = chnks[first].s
          /\ phase' = "pipe"
          /\ UNCHANGED <<input, done, chnks, tmpls, zones, nextFrame, got>>

NoResume == /\ phase = "decode" /\ piped
            /\ ~resumed \/ done = {} \/ done = DOMAIN chnks
            /\ phase' = "pipe"
            /\ UNCHANGED <<input, done, chnks, tmpls, zones, todo, nextFrame, pos, got>>

\* pipe_loop: a chunk takes as many frames as it has, whatever its start; a chunk of an
\* earlier run is read and dropped.
ReadPipe == /\ phase = "pipe" /\ todo # <<>>
            /\ LET c == chnks[Head(todo)]
                   n == c.e - c.s
               IN  /\ pos' = pos + n
                   /\ got' = IF Head(todo) \in done THEN got
                             ELSE Append(got, [chunk |-> Head(todo),
                                               frames |-> [i \in 1 .. n |-> OfScript(pos + i - 1)]])
            /\ todo' = Tail(todo)
            /\ UNCHANGED <<input, done, chnks, tmpls, zones, phase, nextFrame>>

Next == Cut \/ Decode \/ Resume \/ NoResume \/ ReadPipe
Spec == Init /\ [][Next]_vars

----------------------------------------------------------------------------
Finished == phase \in {"decode", "pipe"} /\ todo = <<>>
Span(c) == Upto(c.s, c.e - c.s)

TypeOK == /\ phase \in {"cut", "decode", "pipe", "refused"}
          /\ Len(tmpls) = Len(chnks) /\ done \subseteq DOMAIN chnks

\* A chunk gets exactly its frames and the parameters of the scene they are in: the
\* position the decoder computes from timestamps is the one it is at after every seek,
\* and the frames read from a pipe are counted off chunk by chunk.  A pipe restarted by
\* vspipe_resume is off when the script trims (see PipeAligned): that case is left out.
ChunkGetsItsFrames ==
    ~(piped /\ resumed /\ Ranged) =>
        \A i \in DOMAIN got :
            LET c == got[i].chunk IN
            /\ got[i].frames = Span(chnks[c])
            /\ LET p == SceneParams(chnks[c].s)
               IN  IF p = -1 THEN tmpls[c] = 0 ELSE tmpls[c] >= 1 /\ zones[tmpls[c]] = p

\* The chunks are the kept frames, each once and in the order of the video, also for
\* ranges that overlap or are out of order.
ChunksAreKept ==
    phase \in {"decode", "pipe"} =>
        /\ UNION {chnks[i].s .. chnks[i].e - 1 : i \in DOMAIN chnks} = Kept
        /\ \A i, j \in DOMAIN chnks : i < j => chnks[i].e <= chnks[j].s

\* acq_au, frame_samp: what each range keeps of the audio, in frames.
AudioKept == FlattenSeq([k \in DOMAIN ranges |-> Upto(ranges[k][1], ranges[k][2] - ranges[k][1])])

\* guide.txt:660, "audio is cut sample-accurately to match kept frames".  Not true of the code:
\* every range loses the audio of its last frame, since acq_au takes the end for exclusive.
AudioMatches ==
    phase = "decode" /\ Ranged =>
        AudioKept = FlattenSeq([i \in DOMAIN chnks |-> Span(chnks[i])])

\* guide.txt:1181-1196, "jump to resume point immediately" and "If you trim/splice in your
\* script; add -r".  Not true of the two together: see vspipe_resume.
PipeAligned == \A i \in DOMAIN got : got[i].frames = Span(chnks[got[i].chunk])
=============================================================================
