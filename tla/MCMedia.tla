------------------------------- MODULE MCMedia -------------------------------
(***************************************************************************)
(* Model checking of the parts that carry the data: the target-quality     *)
(* search, the decoder of probes, the layouts of frames, the frames of     *)
(* chunks, the audio, the writer of the file, the bitstream parsers and    *)
(* the muxer, and the two threads of an SVT-AV1 worker (SvtDrain,          *)
(* extended). The parts share no variable; a behaviour runs one of them.   *)
(***************************************************************************)
EXTENDS SvtDrain, Integers, TLC

CONSTANTS SearchSize, LaySize, FrmSize, UrSize, NalSize, ProbeSize  \* the parts' constants, as records

\* The encoders and what feeds them: GPU decoding goes with every encoder but not with a pipe, avm
\* has no target quality.
AllTools == {t \in [enc : {"svt", "avm", "vvenc", "x265", "x264"}, hw : BOOLEAN, tq : BOOLEAN,
                    alone : BOOLEAN, pipe : {"none", "8", "10"}] :
                /\ t.hw => t.pipe = "none"
                /\ t.enc = "avm" => ~t.tq}

\* Scene files, -r arguments (also out of order and overlapping), key frames, timebases.
SceneFiles == {{0}, {0, 3}, {0, 2, 5}, {0, 1, 4}}
RangeArgs == {<<>>, <<<<1, 2>>, <<4, 6>>>>, <<<<4, 6>>, <<1, 2>>>>, <<<<0, 4>>, <<3, 5>>>>,
              <<<<5, 6>>, <<2, 2>>, <<6, 7>>>>}
KeyFrames == {{0}, {0, 3}, {0, 2, 5, 6}}
Timebases == {<<5, 2>>, <<3, 1>>, <<7, 3>>, <<41, 1>>}

\* Decode orders: pictures that are shown in another order, and in this one.
Picture(n, r, t) == [poc |-> n, ref |-> r, tid |-> t]
Orders == {<<Picture(0, TRUE, 0), Picture(2, TRUE, 0), Picture(1, FALSE, 1),
             Picture(4, TRUE, 0), Picture(3, FALSE, 0)>>,
           [i \in 1 .. 5 |-> Picture(i - 1, TRUE, 0)]}

\* The sizes that are checked.
SmallSearch == [qpMin |-> 1, qpMax |-> 6, scores |-> 0 .. 8, tolerances |-> {0, 1}, butter |-> FALSE]
SmallLay == [widths |-> {64, 160, 192, 384, 1920}, heights |-> {30, 80, 1080},
             crops |-> {<<0, 0>>, <<2, 0>>, <<4, 96>>, <<20, 32>>}, tools |-> AllTools,
             shift |-> 160, pack |-> 192, unpack |-> 120, align |-> 64]
SmallFrm == [frames |-> 8, scenes |-> SceneFiles, zoned |-> {0, 5}, ranges |-> RangeArgs,
             keys |-> KeyFrames, timebases |-> Timebases, near |-> 2, maxChnk |-> 5]
SmallUr == [headerLen |-> 1, clusters |-> <<1, 2, 1, 1>>, segBytes |-> 2, bufs |-> {0, 1},
            queueDepth |-> 2, maxShort |-> 2, maxFails |-> 1]
SmallNal == [orders |-> Orders, cycle |-> 4, values |-> {1, 2}, maxChunks |-> 2, maxExtra |-> 1,
             u32 |-> 65536]
SmallProbe == [kinds |-> {"dav1d", "vvdec", "annexb"}, probes |-> 2, maxFrames |-> 3, delay |-> 2,
               avDelay |-> 1, dpb |-> 2, releasers |-> {1}, maxBufs |-> 5]

VARIABLES part,   \* the part that runs in this behaviour
          search_score, search_target, search_tolerance, search_searchMin, search_searchMax,
          search_round, search_lastCrf, search_probes, search_phase,
          lay_pc, lay_tool, lay_w, lay_h, lay_b10, lay_crop, lay_linesz, lay_strat, lay_frameSz,
          lay_isNv12, lay_kernel,
          frm_cuts, frm_ranges, frm_keys, frm_ts, frm_up, frm_piped, frm_resumed, frm_done,
          frm_chnks, frm_tmpls, frm_zones, frm_phase, frm_todo, frm_nextFrame, frm_pos, frm_got,
          au_ranges, au_norm, au_counter, au_tpc, au_tunit, au_result, au_ready, au_consumed,
          au_failed, au_errors, au_cpc, au_remaining, au_buf, au_encOff, au_segs, au_verdict,
          ur_pc, ur_blocks, ur_ui, ur_off, ur_idx, ur_slots, ur_buf, ur_relaxed, ur_store, ur_sq,
          ur_flag, ur_poller, ur_flight, ur_cq, ur_file, ur_batch, ur_short, ur_fails,
          nal_codec, nal_vary, nal_pc, nal_ci, nal_order, nal_extra, nal_msb, nal_lsb, nal_arena,
          nal_ranges, nal_nals, nal_nalRanges, nal_nal0, nal_size, nal_displays, nal_rec,
          nal_varies, nal_first, nal_psets, nal_source,
          mux_pc, mux_movie, mux_tracks, mux_plans, mux_sh, mux_cues, mux_width, mux_lay,
          mux_batches, mux_out,
          probe_kind, probe_mpc, probe_probe, probe_frames, probe_fed, probe_got, probe_low,
          probe_status, probe_queue, probe_cur, probe_dpb, probe_shared, probe_local, probe_next,
          probe_data, probe_made, probe_tpc, probe_base, probe_head

searchVars == <<search_score, search_target, search_tolerance, search_searchMin, search_searchMax,
                search_round, search_lastCrf, search_probes, search_phase>>
layVars == <<lay_pc, lay_tool, lay_w, lay_h, lay_b10, lay_crop, lay_linesz, lay_strat, lay_frameSz,
             lay_isNv12, lay_kernel>>
frmVars == <<frm_cuts, frm_ranges, frm_keys, frm_ts, frm_up, frm_piped, frm_resumed, frm_done,
             frm_chnks, frm_tmpls, frm_zones, frm_phase, frm_todo, frm_nextFrame, frm_pos, frm_got>>
auVars == <<au_ranges, au_norm, au_counter, au_tpc, au_tunit, au_result, au_ready, au_consumed,
            au_failed, au_errors, au_cpc, au_remaining, au_buf, au_encOff, au_segs, au_verdict>>
urVars == <<ur_pc, ur_blocks, ur_ui, ur_off, ur_idx, ur_slots, ur_buf, ur_relaxed, ur_store, ur_sq,
            ur_flag, ur_poller, ur_flight, ur_cq, ur_file, ur_batch, ur_short, ur_fails>>
nalVars == <<nal_codec, nal_vary, nal_pc, nal_ci, nal_order, nal_extra, nal_msb, nal_lsb,
             nal_arena, nal_ranges, nal_nals, nal_nalRanges, nal_nal0, nal_size, nal_displays,
             nal_rec, nal_varies, nal_first, nal_psets, nal_source>>
muxVars == <<mux_pc, mux_movie, mux_tracks, mux_plans, mux_sh, mux_cues, mux_width, mux_lay,
             mux_batches, mux_out>>
probeVars == <<probe_kind, probe_mpc, probe_probe, probe_frames, probe_fed, probe_got, probe_low,
               probe_status, probe_queue, probe_cur, probe_dpb, probe_shared, probe_local,
               probe_next, probe_data, probe_made, probe_tpc, probe_base, probe_head>>
all == <<part, vars, searchVars, layVars, frmVars, auVars, urVars, nalVars, muxVars, probeVars>>

\* What audio is kept, in samples.
Cuts == {<<<<0, 15>>>>, <<<<1, 6>>, <<8, 15>>>>, <<<<3, 12>>>>}

\* Movies around the sizes and times where a length grows by an octet: of clusters, of positions
\* in the file, of timestamps.
Opus(n, len) == [kind |-> "opus", known |-> TRUE, len |-> [i \in 1 .. n |-> len],
                 samples |-> [i \in 1 .. n |-> 960], pads |-> <<>>]
Copied == [kind |-> "copy", known |-> TRUE, len |-> <<200, 100, 70>>, pts |-> <<-7, 40, 81>>,
           tb |-> <<1, 1000>>, rate |-> 48000, delay |-> 312, origin |-> 0,
           pads |-> (2 :> 6500 @@ 3 :> 100)]
Unknown == [Copied EXCEPT !.known = FALSE]
Subs == [kind |-> "subs", known |-> TRUE, len |-> <<30, 20>>, pts |-> <<45, 200>>,
         durs |-> <<1000, 300>>, tb |-> <<1, 1000>>, origin |-> 0, pads |-> <<>>]
Movie(n, disp, streams, fps, chapters) ==
    [chunks |-> <<<<n, 50, 60>>, <<70, 80>>, <<90, 20>>>>, disp |-> disp, tracks |-> streams,
     fps |-> fps, head |-> [info |-> 90, tracks |-> 200, chapters |-> chapters, tags |-> 300]]
Movies ==
    {Movie(n, <<>>, <<>>, <<25, 1>>, 0) :
        n \in (110 .. 130) \cup (16340 .. 16390) \cup {3 * k : k \in 21300 .. 21850}
              \cup {2 ^ 21 - 5 * k : k \in 0 .. 400} \cup {2 ^ 28 - 5 * k : k \in 0 .. 400}}
    \cup {Movie(n, <<>>, <<Opus(6, 10), Unknown, Subs>>, <<24000, 1001>>, 70) :
        n \in {3 * k : k \in 21300 .. 21600}}
    \cup {Movie(n, <<<<0, 2, 1>>, <<0, 1>>, <<0, 1>>>>, <<Copied, Subs>>, fps, 0) :
        n \in {100} \cup {3 * k : k \in 5591700 .. 5592000}, fps \in {<<24, 1>>, <<1, 20>>}}
Search == INSTANCE TqSearch WITH
    QpMin <- SearchSize.qpMin, QpMax <- SearchSize.qpMax, Scores <- SearchSize.scores,
    Tolerances <- SearchSize.tolerances, Butter <- SearchSize.butter,
    score <- search_score, target <- search_target, tolerance <- search_tolerance,
    searchMin <- search_searchMin, searchMax <- search_searchMax, round <- search_round,
    lastCrf <- search_lastCrf, probes <- search_probes, phase <- search_phase
Lay == INSTANCE Layouts WITH
    Widths <- LaySize.widths, Heights <- LaySize.heights, Crops <- LaySize.crops,
    Tools <- LaySize.tools, ShiftChunk <- LaySize.shift, PackChunk <- LaySize.pack,
    UnpackChunk <- LaySize.unpack, Align <- LaySize.align, pc <- lay_pc, tool <- lay_tool,
    w <- lay_w, h <- lay_h, b10 <- lay_b10, crop <- lay_crop, linesz <- lay_linesz,
    strat <- lay_strat, frameSz <- lay_frameSz, isNv12 <- lay_isNv12, kernel <- lay_kernel
Frm == INSTANCE Frames_proofs WITH
    Frm <- FrmSize.frames, Scenes <- FrmSize.scenes, Zoned <- FrmSize.zoned,
    RangeLists <- FrmSize.ranges, KeySets <- FrmSize.keys, TsFactors <- FrmSize.timebases,
    Near <- FrmSize.near, MaxChnk <- FrmSize.maxChnk, cuts <- frm_cuts, ranges <- frm_ranges,
    keys <- frm_keys, ts <- frm_ts, up <- frm_up, piped <- frm_piped, resumed <- frm_resumed,
    done <- frm_done, chnks <- frm_chnks, tmpls <- frm_tmpls, zones <- frm_zones,
    phase <- frm_phase, todo <- frm_todo, nextFrame <- frm_nextFrame, pos <- frm_pos,
    got <- frm_got
Au == INSTANCE Audio WITH
    Threads <- 2, Length <- 16, Packet <- 2, Warmup <- 1, RangeLists <- Cuts, Unit <- 2,
    Chunk <- 2, Preroll <- 1, Postroll <- 1, MaxErrors <- 1, ranges <- au_ranges, norm <- au_norm,
    counter <- au_counter, tpc <- au_tpc, tunit <- au_tunit, result <- au_result,
    ready <- au_ready, consumed <- au_consumed, failed <- au_failed, errors <- au_errors,
    cpc <- au_cpc, remaining <- au_remaining, buf <- au_buf, encOff <- au_encOff, segs <- au_segs,
    verdict <- au_verdict
Ur == INSTANCE Uring_proofs WITH
    HeaderLen <- UrSize.headerLen, Clusters <- UrSize.clusters, SegBytes <- UrSize.segBytes,
    Bufs <- UrSize.bufs, QueueDepth <- UrSize.queueDepth, MaxShort <- UrSize.maxShort,
    MaxFails <- UrSize.maxFails, pc <- ur_pc, blocks <- ur_blocks, ui <- ur_ui, off <- ur_off,
    idx <- ur_idx, slots <- ur_slots, buf <- ur_buf, relaxed <- ur_relaxed, store <- ur_store,
    sq <- ur_sq, flag <- ur_flag, poller <- ur_poller, flight <- ur_flight, cq <- ur_cq,
    file <- ur_file, batch <- ur_batch, short <- ur_short, fails <- ur_fails
Nal == INSTANCE NalStream WITH
    Orders <- NalSize.orders, Cycle <- NalSize.cycle, Values <- NalSize.values,
    MaxChunks <- NalSize.maxChunks, MaxExtra <- NalSize.maxExtra, U32 <- NalSize.u32,
    codec <- nal_codec, vary <- nal_vary, pc <- nal_pc, ci <- nal_ci, order <- nal_order,
    extra <- nal_extra, msb <- nal_msb, lsb <- nal_lsb, arena <- nal_arena, ranges <- nal_ranges,
    nals <- nal_nals, nalRanges <- nal_nalRanges, nal0 <- nal_nal0, size <- nal_size,
    displays <- nal_displays, rec <- nal_rec, varies <- nal_varies, first <- nal_first,
    psets <- nal_psets, source <- nal_source
Mux == INSTANCE Muxer WITH
    Movies <- Movies, Threads <- 2, MinPar <- 100, pc <- mux_pc, movie <- mux_movie,
    tracks <- mux_tracks, plans <- mux_plans, sh <- mux_sh, cues <- mux_cues, width <- mux_width,
    lay <- mux_lay, batches <- mux_batches, out <- mux_out
Probe == INSTANCE ProbeDec_proofs WITH
    Kinds <- ProbeSize.kinds, Probes <- ProbeSize.probes, MaxFrames <- ProbeSize.maxFrames,
    Delay <- ProbeSize.delay, AvDelay <- ProbeSize.avDelay, Dpb <- ProbeSize.dpb,
    Releasers <- ProbeSize.releasers, MaxBufs <- ProbeSize.maxBufs, kind <- probe_kind, mpc <- probe_mpc,
    probe <- probe_probe, frames <- probe_frames, fed <- probe_fed, got <- probe_got,
    low <- probe_low, status <- probe_status, queue <- probe_queue, cur <- probe_cur,
    dpb <- probe_dpb, shared <- probe_shared, local <- probe_local, next <- probe_next,
    data <- probe_data, made <- probe_made, tpc <- probe_tpc, base <- probe_base,
    head <- probe_head

ASSUME PartsAssumption == 
    /\ Search!SearchAssumption
    /\ Lay!LayoutAssumption
    /\ Frm!FramesAssumption
    /\ Au!AudioAssumption
    /\ Ur!UringAssumption
    /\ Nal!NalAssumption
    /\ Probe!ProbeDecAssumption

----------------------------------------------------------------------------
\* One part runs; the variables of the others stay at a value of no meaning.
searchOff ==
    /\ search_score = 0 /\ search_target = 0 /\ search_tolerance = 0 /\ search_searchMin = 0
    /\ search_searchMax = 0 /\ search_round = 0 /\ search_lastCrf = 0 /\ search_probes = 0
    /\ search_phase = 0
layOff ==
    /\ lay_pc = 0 /\ lay_tool = 0 /\ lay_w = 0 /\ lay_h = 0 /\ lay_b10 = 0 /\ lay_crop = 0
    /\ lay_linesz = 0 /\ lay_strat = 0 /\ lay_frameSz = 0 /\ lay_isNv12 = 0 /\ lay_kernel = 0
frmOff ==
    /\ frm_cuts = 0 /\ frm_ranges = 0 /\ frm_keys = 0 /\ frm_ts = 0 /\ frm_up = 0
    /\ frm_piped = 0 /\ frm_resumed = 0 /\ frm_done = 0 /\ frm_chnks = 0 /\ frm_tmpls = 0
    /\ frm_zones = 0 /\ frm_phase = 0 /\ frm_todo = 0 /\ frm_nextFrame = 0 /\ frm_pos = 0
    /\ frm_got = 0
auOff ==
    /\ au_ranges = 0 /\ au_norm = 0 /\ au_counter = 0 /\ au_tpc = 0 /\ au_tunit = 0
    /\ au_result = 0 /\ au_ready = 0 /\ au_consumed = 0 /\ au_failed = 0 /\ au_errors = 0
    /\ au_cpc = 0 /\ au_remaining = 0 /\ au_buf = 0 /\ au_encOff = 0 /\ au_segs = 0
    /\ au_verdict = 0
urOff ==
    /\ ur_pc = 0 /\ ur_blocks = 0 /\ ur_ui = 0 /\ ur_off = 0 /\ ur_idx = 0 /\ ur_slots = 0
    /\ ur_buf = 0 /\ ur_relaxed = 0 /\ ur_store = 0 /\ ur_sq = 0 /\ ur_flag = 0
    /\ ur_poller = 0 /\ ur_flight = 0 /\ ur_cq = 0 /\ ur_file = 0 /\ ur_batch = 0
    /\ ur_short = 0 /\ ur_fails = 0
nalOff ==
    /\ nal_codec = 0 /\ nal_vary = 0 /\ nal_pc = 0 /\ nal_ci = 0 /\ nal_order = 0
    /\ nal_extra = 0 /\ nal_msb = 0 /\ nal_lsb = 0 /\ nal_arena = 0 /\ nal_ranges = 0
    /\ nal_nals = 0 /\ nal_nalRanges = 0 /\ nal_nal0 = 0 /\ nal_size = 0 /\ nal_displays = 0
    /\ nal_rec = 0 /\ nal_varies = 0 /\ nal_first = 0 /\ nal_psets = 0 /\ nal_source = 0
muxOff ==
    /\ mux_pc = 0 /\ mux_movie = 0 /\ mux_tracks = 0 /\ mux_plans = 0 /\ mux_sh = 0
    /\ mux_cues = 0 /\ mux_width = 0 /\ mux_lay = 0 /\ mux_batches = 0 /\ mux_out = 0
probeOff ==
    /\ probe_kind = 0 /\ probe_mpc = 0 /\ probe_probe = 0 /\ probe_frames = 0 /\ probe_fed = 0
    /\ probe_got = 0 /\ probe_low = 0 /\ probe_status = 0 /\ probe_queue = 0 /\ probe_cur = 0
    /\ probe_dpb = 0 /\ probe_shared = 0 /\ probe_local = 0 /\ probe_next = 0 /\ probe_data = 0
    /\ probe_made = 0 /\ probe_tpc = 0 /\ probe_base = 0 /\ probe_head = 0

MCInit == /\ part \in {"svt", "search", "lay", "frm", "au", "ur", "nal", "mux", "probe"}
          /\ Init
          /\ IF part = "search" THEN Search!Init ELSE searchOff
          /\ IF part = "lay" THEN Lay!Init ELSE layOff
          /\ IF part = "frm" THEN Frm!Init ELSE frmOff
          /\ IF part = "au" THEN Au!Init ELSE auOff
          /\ IF part = "ur" THEN Ur!Init ELSE urOff
          /\ IF part = "nal" THEN Nal!Init ELSE nalOff
          /\ IF part = "mux" THEN Mux!Init ELSE muxOff
          /\ IF part = "probe" THEN Probe!Init ELSE probeOff

\* What a step of one part leaves alone.
searchOnly == UNCHANGED <<part, vars, layVars, frmVars, auVars, urVars, nalVars, muxVars, probeVars>>
layOnly == UNCHANGED <<part, vars, searchVars, frmVars, auVars, urVars, nalVars, muxVars, probeVars>>
frmOnly == UNCHANGED <<part, vars, searchVars, layVars, auVars, urVars, nalVars, muxVars, probeVars>>
auOnly == UNCHANGED <<part, vars, searchVars, layVars, frmVars, urVars, nalVars, muxVars, probeVars>>
urOnly == UNCHANGED <<part, vars, searchVars, layVars, frmVars, auVars, nalVars, muxVars, probeVars>>
nalOnly == UNCHANGED <<part, vars, searchVars, layVars, frmVars, auVars, urVars, muxVars, probeVars>>
muxOnly == UNCHANGED <<part, vars, searchVars, layVars, frmVars, auVars, urVars, nalVars, probeVars>>
probeOnly == UNCHANGED <<part, vars, searchVars, layVars, frmVars, auVars, urVars, nalVars, muxVars>>
svtOnly == UNCHANGED <<part, searchVars, layVars, frmVars, auVars, urVars, nalVars, muxVars, probeVars>>

MCNext == \/ part = "svt" /\ Next /\ svtOnly
          \/ part = "search" /\ Search!Next /\ searchOnly
          \/ part = "lay" /\ Lay!Next /\ layOnly
          \/ part = "frm" /\ Frm!Next /\ frmOnly
          \/ part = "au" /\ Au!Next /\ auOnly
          \/ part = "ur" /\ Ur!Next /\ urOnly
          \/ part = "nal" /\ Nal!Next /\ nalOnly
          \/ part = "mux" /\ Mux!Next /\ muxOnly
          \/ part = "probe" /\ Probe!Next /\ probeOnly

\* The processes of each part that its own specification is fair to, numbered; since only one
\* part runs, fairness to the i-th of the part is fairness to each.
Process(i) ==
    \/ part = "svt" /\ svtOnly
       /\ \/ i = 1 /\ Worker
          \/ i = 2 /\ Drain
          \/ i = 3 /\ Encoder
    \/ part = "au" /\ auOnly
       /\ \/ i = 1 /\ Au!Consumer
          \/ i - 1 \in 1 .. 2 /\ Au!Worker(i - 1)
    \/ part = "ur" /\ urOnly
       /\ \/ i = 1 /\ Ur!Writing
          \/ i = 2 /\ Ur!Visible
          \/ i = 3 /\ Ur!Poll
          \/ i = 4 /\ Ur!Complete
\* Weak fairness to the muxer, which has a step to take until it is done: written out, since TLC
\* evaluates ENABLED of its steps at great cost.
MuxerRuns == []<>(part # "mux" \/ mux_pc = "done") \/ []<><<TRUE>>_muxVars
MCSpec == MCInit /\ [][MCNext]_all /\ (\A i \in 1 .. 4 : WF_all(Process(i))) /\ MuxerRuns

----------------------------------------------------------------------------
\* The properties of the parts; their modules say what each is about.

\* The types of the parts' states (that of the layouts is what PictureArrives determines).
PartsTyped ==
    /\ TypeOK
    /\ part = "search" => Search!TypeOK /\ Search!InTable
    /\ part = "frm" => Frm!TypeOK
    /\ part = "au" => Au!TypeOK
    /\ part = "ur" => Ur!TypeOK
    /\ part = "nal" => Nal!TypeOK
    /\ part = "mux" => Mux!TypeOK
    /\ part = "probe" => Probe!TypeOK

\* A chunk is shipped with the parameter that comes closest to the target (tq.rs).
ShipsClosest == part = "search" => Search!ShipsClosest

\* A metric compares the frames of the probe it was given, one by one, each in a buffer that nobody
\* else was given, and every buffer of the pool is in one place (dav1d.rs, vvdec.rs, annexb.rs,
\* vship.rs).
ScoresItsFrames == part = "probe" => Probe!ScoresItsFrames /\ Probe!BufferInOnePlace

\* Every decode strategy delivers the cropped picture, in the layout the encoder reads (ffms.rs,
\* dec.rs, enc.rs).
PictureArrives == part = "lay" => Lay!DecodesCrop /\ Lay!EncoderReadsLayout

\* A chunk gets the frames of its span, wherever a seek lands (chunk.rs, ffms.rs, dec.rs).
ChunkGetsItsFrames == part = "frm" => Frm!ChunkGetsItsFrames

\* What -r keeps of the chunks is what it says, with the parameters of their scenes (chunk.rs).
ChunksAreKept == part = "frm" => Frm!ChunksAreKept

\* The audio that is encoded is what was cut out of the stream, each sample once, though threads
\* decode it in pieces, and no thread runs further ahead than the window (audio.rs, lavf.rs).
AudioExact == part = "au" => Au!AudioExact /\ Au!WindowHolds

\* What reaches the disk is the file, no buffer is refilled under the kernel's hands and the queue
\* has room (uring.rs, linux.rs).
BytesRight == part = "ur" => Ur!BytesRight /\ Ur!QueueFits

\* The clusters and headers fill exactly the places planned for them, and each block is in its
\* cluster at its time (mux.rs, mkv_mux.rs).
LayoutExact == part = "mux" => Mux!LayoutExact /\ Mux!BlocksTimed

\* Pictures are shown in the order the encoder meant (nal_parse.rs).
DisplayOrder == part = "nal" => Nal!DisplayOrder

\* A decoder of the muxed stream has the parameter sets of the chunk it is in (nal_parse.rs,
\* mkv_mux.rs).
StreamsDecode == part = "nal" => Nal!StreamsDecode

\* The audio's threads end, also after an error; so does the writer, where the tail's store is seen
\* before the flags are read (audio.rs, uring.rs); and the plan of the file settles, each size in
\* it being its own consequence, and is carried out (mux.rs).  And every chunk an SVT-AV1 worker begins ends,
\* whatever the encoder holds back, though the display never rings: the sender, blocked by a full
\* encoder, and the drain, asleep over packets it was not told of, never wait for ever
\* (svt_drain.asm, finish_svt).
Ends == /\ <>(/\ part = "au" => au_verdict # "none"
              /\ part = "ur" => ur_relaxed \/ ur_pc \in {"done", "failed"}
              /\ part = "mux" => mux_pc = "done")
        /\ (part = "svt" /\ wpc = "send") ~> wpc = "next"
=============================================================================
