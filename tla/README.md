# A verification development of xav

xav encodes a video in chunks: a decoder cuts the input into chunks, workers
encode them concurrently with an encoder, a log of finished chunks makes the
work resumable, and the chunks are muxed at the end.  With a target quality
each chunk is probed, scored and encoded again until its score is right.  The
program brings its own synchronisation: rings, semaphore and mutex are built on
futexes, most of them in assembly (`src/asm/sync`).

This directory holds TLA+ modules of the parts where order or arithmetic
matters, the TLC configurations that check them, and TLAPS proofs.  Paths below
leave out the leading `src/`: `src/enc.rs` is the Rust file
`src/src/enc.rs` of the map in `PROJECT.json`, `asm/sync/...` the assembly,
`guide.txt` the program's manual, `src/guide.txt`.

    tlc -workers 2 -config Workers.cfg MCWorkers.tla         one run
    tlapm Media_proofs.tla                                   one module of proofs

## 1. The system

### Components

| component | code | state | operations |
|---|---|---|---|
| Sequence rings | `asm/sync/ring_{mpmc,spmc,mpsc}.asm`, `src/chan` | slots (number, value), TAIL, HEAD, waiter counts CW and PW, futex words AVAIL and SPACE, CLOSED | `send`, `recv`, `close` |
| Mutex, once-lock | `src/sync.rs`, `src/sys.rs` | one futex word; a state word and a value | `lock`, drop of the guard; `get`, `set`, `get_or_init` |
| Packet buffers, semaphore | `src/worker.rs` (`PkgPool`), `asm/sync/sem.asm`, `src/dec.rs` (`Bufs`) | words of free bits; a count and a waiter word; a packet's search state | `sem_acq`, `take`, `give`, `sem_release`; `arm`, `set` |
| Run, resume, book-keeping | `src/main.rs`, `src/chunk.rs`, `src/fs.rs` | on disk `cmd.txt`, `done.txt`, `encode/NNNN.ext`; in memory `ResumeInf` | read arguments, save them, skip, finish a chunk, mux, remove the directory |
| Encode orchestration | `src/enc.rs` (`enc_all`, `enc_tq`) | threads, rings, counts | decode, encode, coordinate, complete, join |
| Target-quality search | `src/enc.rs`, `src/tq.rs` | probes and bounds per chunk | next crf, verdict |
| Probe decoders, picture pool | `src/dav1d.rs`, `vvdec.rs`, `annexb.rs`, `vship.rs` (`PinPool`) | decoder queues, free lists | load, next picture, get and put a buffer |
| Chunks and scenes | `src/chunk.rs`, `src/scd` | scenes, ranges, templates | load, validate, cut by ranges |
| SVT-AV1 worker, drain thread | `src/enc.rs` (`enc_svt_*`), `asm/sync/svt_drain.asm` | a stage of shared words, three semaphores | send frames, flush; drain packets |
| Encoders called as libraries | `src/enc.rs` (AVM, VVenC, x265, x264), `src/io.rs` | encoder, sink and its vector | feed, flush, write |
| Frame layouts | `src/ffms.rs`, `dec.rs`, `pipeline.rs`, `enc.rs` | strategy, frame size, kernel | choose a strategy, decode by it, convert, encode |
| Decoders, pipe | `src/dec.rs`, `ffms.rs`, `y4m.rs` | next frame, position | seek, skip, decode a chunk; read a pipe, resume it |
| Output writer | `src/uring.rs`, `src/platform/linux.rs` | buffers, blocks in flight, submission and completion queues | build, push, reap, wait; the kernel's poller |
| Audio | `src/audio.rs`, `opus.rs`, `lavf.rs`, `copy.rs` | units, window, segments | decode ahead, encode segments, join |
| Bitstream parsers | `src/nal_parse.rs`, `mkv_mux.rs`; `obu_parse.rs`, `av2_parse.rs` | picture order counts, parameter sets, ranges of bytes | classify NALs, cut access units, repeat sets |
| Muxers | `src/mkv_mux.rs`, `src/mkv`, `mux_webm.rs` | plan of the file | plan, lay out, build clusters in threads |
| Threads, monitor | `src/thread.rs`, `asm/sync/thread.asm`, `src/progs.rs` | stacks, join words, counters | spawn, join, display |
| SPSC ring; Windows rings | `asm/sync/ring_spsc.asm`; `*_win.asm` | as the rings | as the rings |
| SIMD kernels, parameters and messages, metrics, runtime | the rest | none that outlives a call | |

### How they interact

Plain mode (`enc_all`): one decoder thread acquires a permit of the semaphore,
takes a packet buffer, fills it with the frames of a chunk and sends it through
an SPMC ring; `-w` workers receive, encode to `encode/NNNN.ext`, lock the
mutex around `ResumeInf`, log the chunk in `done.txt`, give the buffer and then
the permit back.  The decoder closes the ring after its last send; workers end
on end of stream; the main thread joins them, muxes every file in `encode/` by
its number and removes the temporary directory.

Target-quality mode (`enc_tq`): the decoder and the metric workers send to a
coordinator through an MPSC ring, the coordinator to encode workers through an
SPMC ring, these to metric workers through an MPMC ring.  A metric worker
decodes the probe, scores it, and either books the chunk or sends its packet
back to the coordinator for another crf.

Below these: an SVT-AV1 worker is two threads that hand a chunk to each other;
the other encoders are called in the worker's thread and write to a sink that
the worker keeps from chunk to chunk.  What a frame looks like in a packet's
buffer (8 or 10 bits, packed, padded, cropped, NV12) is decided once and relied
upon in the decoder, the pipeline and the encoder.  The mux plans the file,
then threads build clusters at their planned offsets, or blocks are built in
turn and handed to io_uring.

Behaviours that are hard here: instruction-level interleavings of the rings,
lost wakeups, the end of a stream racing its last item, laps of a full ring,
a cycle of bounded queues, packets used again, kills at any moment and restarts
(perhaps with another command line), failed and short writes, decoders that
hold pictures back, seeks by rounded timestamps, sizes that depend on each
other.

### What makes them correct

- Rings: each item sent is received once, in order of its position; nobody
  shares a slot with anybody; nobody sleeps for ever; the end of the stream is
  seen by all, after the last item.
- Mutex: exclusion; a sleeper is woken by somebody.
- Buffers: one owner; a permit guarantees a free bit; the decoder is woken; a
  packet starts a chunk with nothing of the last one.
- Workers: a chunk's file has its frames, each once and in order, and nothing of
  another chunk; each thread lets go of the other.
- Target quality: what is booked is the best probe and what the file holds; the
  search ends with what the range and the target allow; each picture is compared
  with its own; every chunk ends.
- Resume: what is book-kept is whole, made by the saved command and never
  touched again; each chunk is encoded once; the output is all chunks of the
  command, in order, and nothing else; a kill loses nothing that was finished.
- Media: a chunk gets its frames; a frame arrives as decoded; audio and video are
  cut alike; every byte of the output is where it was planned, in display order,
  and decodable.

## 2. Plan

| order | module | about | status |
|---|---|---|---|
| 1 | `Channel`, `SeqRing` | abstract channel; the three rings, instruction by instruction | done, proved |
| 2 | `FutexMutex` | the mutex | done, proved |
| 3 | `BufPool` | semaphore, bit mask and the hand-over of buffers | done, proved |
| 4 | `Resume` | disk, kills, restarts | done; book-keeping proved |
| 5 | `TqPipeline` | the target-quality pipeline and its shutdown | done, proved |
| 6 | `TqSearch`, `ProbeDec` | the search; the decoders of probes and the picture pool | done, proved |
| 7 | `SvtDrain`, `LibEncoders` | the encode workers | done, proved |
| 8 | `Frames`, `Layouts` | which frames a chunk gets, and in which layout | done, proved |
| 9 | `Audio`, `NalStream`, `Muxer`, `Uring` | from chunks to the output | done; `Uring` proved, of `NalStream` the display order |
| 10 | proofs about `Audio`, and about the lengths in `Muxer` and `NalStream` | `AudioExact`; `LayoutExact`, `StreamsDecode` | next |
| 11 | Windows rings | the recheck before the load of the wait word | next |

Abstract specifications: `Channel` for the rings (checked as a refinement);
`TqPipeline` is built on it, its rings being bounded queues with the channel's
promise.  `TqSearch` tells `TqPipeline` when a search ends; `FutexMutex` is what
`Resume` and `TqPipeline` take for one step of book-keeping.

## 3. Modules

### Channel
The promise of a ring: a bounded queue, `Put`, `Take`, `Close`, and `End` (a
consumer is told the stream is over) only when the channel is closed and empty.
Who waits is left out; waiting is a matter of the ring's own liveness.

### SeqRing
Slots carry a number: `p` says free for position `p`, `p + 1` holds the item of
position `p`, `p + Cap` freed for the next lap.  `MultiSend`, `SoleSend`,
`MultiRecv`, `SoleRecv` and `Close` are the routines of the assembly; an action
is one access to shared memory, and the labels in `pc` are the assembly's, with
names of our own between them.  `MpmcNext`, `SpmcNext` and `MpscNext` are the
three rings with their callers' protocol: when `close` is called (`DrainFirst`:
by `enc_tq` after everything was received, else by `enc_all` right after the
last send), and that the coordinator counts what it receives instead of waiting
for a close.

Memory order.  The code publishes and frees a slot with `xchg` and announces
waiters with `lock inc` or `xchg`, which are full barriers on x86, so the loads
that follow them are not early.  What remains are plain stores that may be
seen late: the only producer's TAIL and the only consumer's HEAD (read by
their own thread only) and `mov [CW], 0` of `mpsc_recv` (seen late, it costs a
needless wake).  Sequentially consistent interleavings are therefore enough.

Left out: wrap-around of positions at 2^32 (a chunk's number has 16 bits, so a
ring sees far fewer items, probes included); spurious returns of FUTEX_WAIT
(they lead to the same labels as a changed word, which is modelled).

### FutexMutex
`Mutex::lock`, `lock_slow` and the guard's drop with the three-valued word
(0 free, 1 held, 2 held and maybe waited for).  The spin loop is reduced to its
end; spurious wakeups are included.

### BufPool
The decoder (`sem_acq`, `PkgPool::take`, `emit`, or the short read that sends
nothing and keeps reading) and the workers (`recv`, encode, `give`, then
`sem_release`).  The ring between them is a bag of sent buffers.  The mask has
`WordBits` bits per word (64 in the code) so that more than one word exists on
small instances.  Only the decoder takes, so the retry of a lost
compare-exchange cannot happen; it is kept in `ClearBit`, as the code has it.

### Resume
The disk (`cmdTxt`, `doneTxt`, `file`, `out`), one process (`phase`, the log in
memory, workers) and `Kill`.  A file is the command that wrote it and whether it
is whole; a command is how many chunks it makes (`Size`) and what it becomes when
it is read back from `cmd.txt` (`ReadBack`: `parse_quoted_args` returns the
command itself unless an argument has a quote in it or is empty).  All commands
of a run use one encoder, so chunk files have one extension.  A kill is that of
the process: what was written stays written.

### TqPipeline
`enc_tq` with its threads: decoder (`spawn_tq_dec`), `tq_coord`, encode workers
(`make_tq_loop`), metric workers (`make_metric_loop`, `complete_chnk`) and the
shutdown of the main thread.  A packet holds the chunk, whether its search is
`armed`, the probes' rounds, and the final flag; a probe is a chunk and a round
and has a distance from the target.  With `frames < Todo` the pipe ends early: the
decoder returns with a permit and `tq_coord`, which counts to a fixed number,
waits for ever.

### TqSearch
`TQCtx`, `tq_search_crf` and the verdict of a probe: two bisections, then an
interpolation (any value, rounded to the grid and clamped), bounds that move
past the probe, an end by range, by contradiction or by an empty range.  A crf
counts grid steps.  The metric is any strictly monotone function of the crf.

### ProbeDec
The metric worker's decoder (`load`, `dec_next`, the drain) for dav1d, VVdeC and
the libavcodec ones, and `PinPool` under it: a lock-free stack that threads of
the decoder push on while the worker takes it over whole.  The decoders are
external: what they hold back, when they refuse data and when they let go of a
picture is theirs to choose.

### SvtDrain
The sender (`enc_svt_*`, `finish_svt`), the drain thread and the display
(`svt_drain_tick`) over the shared stage.  The three semaphores are counters;
the drain thread sets its tick to 0 after its nap, whatever came in between.
The encoder is external: it holds at most `InCap` frames and `OutCap` packets.

### LibEncoders
The loops that feed and flush AVM, VVenC, x265 and x264, their writes to
`BufWriter`, and its vector, which lives as long as the worker.  Writes may fail
after a part of the bytes; the callers drop the error.  VVenC writes its packet
into spare capacity behind the vector's end.

### Frames
`load_scenes`, `trans_scenes`, `val_scenes`, `chnkify`; `skip_to`, `seek_near`
and `pts_frame`, with timestamps rounded to the container's ticks; the pipe and
`vspipe_resume`; the ranges of `acq_au`.  A frame is its number.  What the code
computes by loops over ranges (`Kept`, `AllCuts`) is stated as what these loops
leave: the kept ranges in order, apart from each other, and the cuts that fall
into them.  `Ascending` is what `load_scenes` asks of the scene file; that it
starts at 0 and that a video begins with a key frame are assumptions.

### Layouts
`get_dec_strat` (all strategies of file, pipe and GPU, with each of the five
encoders: GPU decoding is refused beside a pipe and nowhere else, and AVM has no
target quality), the sizes and offsets with which each strategy reads the decoder's planes and writes the buffer, the
pipeline's sizes and the choice of the encoder's kernel.  Kernels that take
whole chunks of bytes are told from those that also take a rest; a mismatch is
what `DecodesCrop` and `EncoderReadsLayout` are about.  `ToRaw` is the case of
no chunk waiting in memory.

### Audio
Cutting ranges into units, threads that decode them at most `Threads` ahead of
the encoder, `decode_range`'s start and end, segments with pre- and postroll, the
normalising variant that decodes everything first, and failures of either side.
Resampling is taken for the identity: a sample is its position in the stream, and
an encoded frame is one sample, so the rounding and the delay of a resampler are
outside.  Assumed too (`AudioAssumption`) is that each range is as long as a packet
for every thread: in a shorter one several threads of `par_decode` would start at the
same packet and decode it more than once.

### Uring
`ring_write`, `ring_segments` and `RingWriter` with the kernel's poller: its flag,
its second look at the tail, short and failed writes, completions in any order.
`relaxed` is a processor on which the flag's load may overtake the tail's store.
`Grouped` is the loop of `ring_write` that gathers clusters into segments, and
`Before` the running `off` of `ring_segments`.  The buffers are `0 .. RING_BUFS - 1`
and no more than the queue has entries (3 and 64 in the code): `push` does not
ask for room (`QueueFits`).

### NalStream
`prep_nal` and `inline_psets` over `nal_parse.rs`: classification, picture order
counts, display ranks, the held-back parameter sets and the ranges of bytes a
block consists of.  AVC, HEVC and VVC differ in `codec`.  A slice carries its count
modulo `Cycle`; that an encoder's counts are within half a cycle of the ones they
refer to (`WithinHalf`) is a rule of the three standards and an assumption, as are
that a chunk begins with an IRAP of count 0 that is shown first (`Orders`) and that
no two pictures of a chunk have one count.  A second IRAP within a chunk, where the
counts would begin anew, and pictures shown before the first are therefore not in
the streams; `Poc::reset` is that at the begin of a chunk.

### Muxer
`mux_mkv`: the plan of the clusters, the fixpoint over positions and widths, and
the threads that build clusters into disjoint regions with unchecked writes.
Lengths of EBML numbers are those of the code up to five octets (`Octets`), which is
enough for files below 4 GiB; times of blocks are cut to 16 bits (`I16`).  Header
elements without positions are sizes.

### Lists
What a sequence consists of, its last element, the first and last position where
something holds, and folds over it: the helpers of `Audio`, `Frames`, `NalStream` and
`Muxer`, as folds of the community module `Folds`.

### MC modules
`MCSeqRing` and `MCSpmc` are about the rings, `MCResume` gives the commands of the
resume runs.  `MCWorkers` and `MCMedia` put several modules into one run: a
variable `part`, chosen at the start, says which of them the behaviour is of,
and the variables of the others stay put.  The parts share no variable, so this
is each module checked by itself.

The sizes of the parts are records of constants, so that the theorems hold for all
of them: `LibSize`, `TqSize`, `MoreSize`, `FullSize`, `TqEncoders`, `TqMetrics` and
`MutexThreads` in `MCWorkers`, where `SmallLib`, `SearchTq`, `MoreTq` and `FullTq` are
what the run puts in; `SearchSize`, `ProbeSize`, `LaySize`, `FrmSize`, `NalSize` and
`UrSize` in `MCMedia`, with `SmallSearch` and so on.  What each module assumes of its
own constants is assumed of these (`PartsAssumption`), and evaluated by the runs.

## 4. Runs

| run | instance | what it shows |
|---|---|---|
| `ring_spmc` | 1 producer, 2 consumers, 3 items on 2 slots, closed early or when drained | slots exclusive, reads right, waiter counts exact, no worker sleeps beside a ready item, all told the end; closed when drained, it implements `Channel` |
| `ring_mpsc_coord` | 2 producers with 2 items each on 2 slots, 1 consumer | full ring and several laps: implements `Channel`, every item received |
| `ring_mpmc_metric` | 2 producers, 2 consumers, 2 slots | the same with consumers racing each other, and the end for all |
| `workers` | pool: 3 buffers in 2 words, 3 workers; mutex: 4 threads; lib: the 4 encoders, 2 chunks, a failing write; target quality: 2, 3 and 4 chunks on 2 to 5 packets with rings of 1 | `OneOwner`, `DecoderGetsOn`, `BuffersReturn`; `SleepersCovered`, `SomebodyGetsIn`; `FileExact`; `BookedIsBest`, `AllBooked`; `ChunksEnd` |
| `media` | svt: 2 chunks of up to 3 frames, an encoder that holds 1; search: all scores of 6 crfs; probe: 3 decoders, 2 probes; layouts: five encoders on file, GPU and pipe, sizes around the kernels' chunks; frames: 8 frames, scenes, ranges, key frames, timebases; audio: 2 threads, 16 samples; io_uring: a header and 4 clusters on 2 buffers; NAL: 2 chunks of 5 pictures; mux: 2,300 movies around the widths | `DrainsOwnChunk`, `ChunkWhole`; `ShipsClosest`; `ScoresItsFrames`; `PictureArrives`; `ChunkGetsItsFrames`, `ChunksAreKept`; `AudioExact`; `BytesRight`; `DisplayOrder`, `StreamsDecode`; `LayoutExact`; `Ends` |
| `resume_kill` | commands of 3 and 2 chunks that are misread, 2 workers, 2 kills anywhere, failing writes | each chunk in one place, log never overwritten, nothing finished is redone |
| `resume_output` | 2 commands of 3 chunks, 2 workers, 2 kills up to the mux | what is logged is whole; the output is exact; the encode ends |
| `ring_spmc_close` | 1 producer, 1 consumer, closed after the last send | VIOLATED: `AllDelivered` |
| `resume_log` | 1 command, 1 worker, 2 kills | VIOLATED: `KeepsFinished` |
| `resume_stale` | commands of 3 and 2 chunks, 3 workers, 1 kill | VIOLATED: `OutputExact` |
| `resume_disk` | no kill, a write that fails | VIOLATED: `BookedIsWhole` |
| `tq_butter` | a metric where lower is better | VIOLATED: `ShipsClosest` |

Why these bounds are enough to be interesting.  Rings: two slots are the least
the numbering allows (with one, "full" and "empty" look alike); three or four
items in the SPMC and MPSC runs make the ring full and every slot be reused.  The
MPMC run has two items, one per producer, and is about wakes and ends of stream:
its `send` is the one of the MPSC run and its laps are covered, for safety, by
the proofs.  Two consumers are enough for a wake to reach the wrong one, three
buffers in two words for the scan to cross a word.  Resume: two kills allow a
kill during a resumed run, which is when the log is rewritten; two workers race
for the log's mutex, and three leave files of three unfinished chunks.  Target
quality: rings of one item and packets up to the number the cycle bears (one
more and it would hang: `TqAssumption`), chunks more than packets so that a
packet is used again; the code has rings of 128 and refuses nothing, so a `-w`
plus `-b` beyond 256 plus the workers would be the first to hang.  SVT-AV1: an
encoder that holds one frame and one packet blocks both sides at once.  Frames:
key frames before, at and after cuts, timebases that round up and down.  Layouts:
widths and heights that divide the kernels' chunks and ones that do not.
Muxer: the payloads of the movies go over the thresholds at which an EBML length grows,
from one octet up to five (2^7, 2^14, 2^21, 2^28), and positions and sizes over those at
which they grow to three and to four octets (2^16, 2^24); the last two also with frame
times that vary and beside audio and subtitles.  Above that, which is files of 4 GiB (positions of five octets) and elements of 32 GiB, TLC's
integers do not reach; the code's formula is the same there, but nothing is checked.
Blocks more than 32.767 s behind their cluster are not claimed to have their times.
`LayoutExact` speaks of the finished file; that the fixpoint of the plan is reached is
`Ends`, of these movies.  What does not depend on the bounds is said by the proofs.

The `View`s of `MCSeqRing` and `MCWorkers` drop from a state what no later step
reads (a register before its next load; the absolute value of a futex word, of
which only "changed since I loaded it" matters); they merge states with the same
future.  Symmetry is not used.  `workers` and `media` do not check for deadlock:
each of their parts stops when its work is done; that it does not stop before is
what `ChunksEnd`, `BuffersReturn`, `SomebodyGetsIn` and `Ends` say.

### Fairness
Weak fairness of each thread's steps: the operating system runs every runnable
thread.  No strong fairness: a thread that spins or retries is enabled all the
time.  `Close` is fair because the decoder and the coordinator run to their end.
A worker that has nothing to do but call `recv` again does so.  For the mutex
no thread is promised the lock, only that somebody gets it.  In `SvtDrain` the
two threads and the encoder are fair and the display is not: a chunk must end
without its ring.  In `Uring` the processor's store buffer drains, the poller
looks, the kernel completes, and the writer is fair in its steps that do not
fail; the end is claimed only where the machine keeps the store before the load
(`~relaxed`).  In `Muxer` some thread runs as long as there is something to do; in
`MCMedia` that is written without `ENABLED` (`MuxerRuns`), which costs TLC too much of
its long steps.  In `Resume` fairness also says that the user starts a killed
encode again, and the number of kills is bounded; kills themselves are never
owed.

## 5. Proofs

Each result holds for every value of the constants under the module's
`ASSUME`s.

`SeqRing_proofs` (the three rings, any finite sets of threads, any `Cap >= 2`).
`SlotExclusive` is not inductive: it says nothing about who may be let into a
slot next.  `RingInv` says what the number of a slot entitles a thread to: the
writer of position `p` is at a slot numbered `p`, a reader at one numbered
`p + 1`, so two threads in a slot would need one number to be two; and a slot
numbered `p + 1` holds the item of position `p`.  To it comes what differs between
the rings: with several senders tail and the history grow in one step (`Dense`),
a single one writes before it advances tail (`Owner`), and a single receiver
moves head after it has read (`Lone`).  Hence `MpmcExclusive`, `SpmcExclusive` and
`MpscExclusive`, and likewise `...Reads`, `...Types` and `...Waiters`: the words
of waiting threads count exactly those between their announcement and its
withdrawal.  The hypotheses `OneProducer` and `OneConsumer` are what these rings
are for: `enc_all` and the coordinator send alone, and the coordinator receives
alone.

In the second half of `SeqRing_proofs` the rings implement `Channel`, step by step (`MpmcIsChannel`,
`SpmcIsChannel`, `MpscIsChannel`).  `ChannelInv` adds the whole window to the one
slot: positions from head to the last sent are less than a lap, each numbered as
sent to or as full, so a free slot at the tail means room in the queue.  That an
end is told only when everything was taken needs a count of items.  It is claimed
when the ring is closed after everything was received (`DrainFirst`, as in
`enc_tq`); without it, it is false (section 6, 1).  The receiver of the MPSC ring
counts and looks for no close.  `SpmcWorkConserving`: with one producer no worker sleeps beside a
published item.  `FlowInv` needs the order of publication (`InOrder`) and a
balance (`Attended`): the items ready are no more than the consumers that will
look again and the wakes under way, and what was published since a consumer
loaded the word it sleeps on still has its bump to come.

`Workers_proofs` is about the parts of `MCWorkers`: a step of `MCWorkers` is a step of
the part that runs or changes nothing of it (`...Moves`), so an invariant of a part
is one of `MCWorkers`.

Mutex (any set of threads).  `MutexInv` ties the word to the holder and to the
threads between their steps: if anyone sleeps, the word is 2, or a wake is due,
or somebody awake in the slow path will write 2.  `Exclusive`,
`NoSleeperForgotten`.

Pool (any buffers, word size, workers).  `PoolInv` counts bits, permits and buffers
on the way from one to the other; the free bits never run behind the permits because
`give` comes before `release`.  `BuffersOwnedOnce`, `TakeFindsAtOnce`,
`PermitsMatchBits`, `DecoderNotForgotten`.

Encoders called as libraries (any chunks, frames, packets and capacity of the sink).
`FileExact` speaks of files when a chunk ends; `LibInv` says where the bytes are
before that: while no write has failed, file, vector and what VVenC put behind its
end are together the packets the encoder has let go of, in order and without a gap
(`LibWhole`); every one of them is of the worker's chunk, or of one in which a write
failed (`LibOwned`).  VVenC's packet lies within the vector's capacity (`PayloadFits`,
a part of `FilesAreExact`).  A number of bytes is stated as that of the places they
take, so that no sum over a sequence is needed.  `ForeignOnlyAfterFailure`: another chunk's bytes get into a file
only after a failed write.

Target quality.  `BookedAreBest` and `AllAreBooked` are those of `TqPipeline_proofs`,
for each of the three sizes of `MCWorkers`.  `WorkersTyped` is the types of all parts.

`Resume_proofs`, in two layers.  `ResumeInvariant` holds whatever is killed,
fails or is misread.  `OnePlace` alone is not inductive: that a chunk taken by a
worker is not book-kept needs that workers run in phase "encode" only
(`Structure`), that the mutex has the one holder between its labels "finish" and
"rewrite", and that the log on disk never lists more than the one in memory
(`Logged`).  From it `ChunksOncePlaced`, `LogNotOverwritten` and
`FinishedImmutable` follow.  On top of it, under `Reliable` (writes succeed, the
removal is not interrupted, commands are read back as saved), `Books` adds that
the command executed is the saved one and that what is logged, and what is about
to be, is whole: `BookedChunksWhole`, for commands of any sizes.  Under `SameCut`
(all commands make the same number of chunks) `Complete` adds that at the mux
everything is logged: `OutputIsExact`.  The violated runs are these
assumptions dropped one at a time.

`Media_proofs` is about the parts of `MCMedia`, in the same way.

SVT-AV1 (any number of chunks and frames, any capacity of the encoder).
That the drain thread uses only the chunk the worker has open (`DrainIsSafe`)
needs to know whose turn the stage is.  `HandOver` says it as a token: while the
worker encodes, exactly one of three holds: the chunk is given (`go` is 1, the
drain waits), taken (the drain is between its labels "pkt" and "release", on
this handle), or returned (`fin` is 1).  That the file is whole when the worker
leaves (`ChunkIsWhole`) needs where each frame is: `Stream` says that file,
packet queue and the encoder's input together are exactly the frames sent, in
order, that the flagged packet is the last, and that it is in the queue or taken
once the encoder is done.  `SvtInv` is the conjunction, with the types
(`DrainInvariant`).

Search (any grid of crfs, any scores that fall strictly, any tolerance).  That
what is shipped is closest needs to know what a bound stands for.  `SearchBelow` and
`SearchAbove`: a crf outside of the bounds is beyond a probe that missed the target
to the same side, so that probe is closer.  `SearchEnded`: the last probe is in
range, or no crf is closer than some probe.  No crf is probed twice as none of the
probes is within the bounds (`SearchSpent`).  An interpolated crf may be any of the interval: the argument does
not use where it falls.  `ShippedIsClosest` is for metrics where higher is better;
for the others it is false (section 6, 5), and that the metric is none of these is its hypothesis.
`CrfInTable`: a crf is on the grid, within the encoder's bounds.

Probe decoders, io_uring and frames: `FramesScored`, `BytesAreRight`,
`ChunksGetTheirFrames` and `ChunksArePieces` carry the results of `ProbeDec_proofs`,
`Uring_proofs` and `Frames_proofs` to `MCMedia`.

Layouts (all even sizes, crops and line sizes).  `LayInv` says of which choice each
derived value is the function, so that `PicturesArrive` is about a strategy at a
time: the rows it reads, with their padding, against those the crop asks for, and
the frame it writes against the one the encoder's kernel reads.  Only that 8 divides `PackChunk` is assumed of
the kernels, so it covers those of AVX2 and those of AVX-512.

Display order (any stream that keeps `NalAssumption`, any number of chunks).
`DisplayOrder` is about ranks, and a rank is right when the counts are.  `NalInv` says
that the counts recovered so far are those of the encoder, and that `msb` and `lsb`
are the count of the last anchor; from `WithinHalf` the carry is then the right one,
by arithmetic modulo the cycle.  Ranks of distinct counts are the positions in their
order, and sizes of sets of indices are the same before and after a chunk's blocks
are moved behind others'.  `PicturesInOrder`.

`TqPipeline_proofs` (any chunks, packets, workers, rounds, distances and capacity,
under `TqAssumption`).  `PipeInv`: a packet is in one place (`Apart`), the packets
in use have chunks of their own (`Chunked`), and in each place a packet's search
stands where that place says (`Searched`): before its probe, probed, or settled
with the best probe kept.  So the thread that gives a packet back leaves the best
probe, first of equals, or the final encode in its chunk's file (`BookedAreBest`),
and no file is written after it was book-kept (`BookedAreFinal`).  `complete_chnk`
tells the coordinator before it book-keeps, so `Counting` relates the messages sent
and counted to the chunks book-kept and those between the two; with the joins
of `enc_tq` all is book-kept when the log is read (`AllAreBooked`).

The second part is that the cycle of three bounded rings never fills
(`SomebodyMoves`): while the run is not over some thread can move.  `CanMove`
spells out the guards of the actions, since `ENABLED` is out of the prover's
reach; TLC found it equal to `ENABLED Next` in all states of three instances.  A
stuck state would need more packets than `TqAssumption` allows (`NotStuck`), given
that for each message in the coordinator's ring there is a packet that is free,
behind it in that ring, or still with the worker that sent it (`Behind`).  It says nobody is stuck, not that
every chunk ends: that is `ChunksEnd`, and TLC's.

`Uring_proofs` (any clusters and segment size, any buffers the queue has room for,
any short or failing writes; whether or not the processor reorders).
`BytesRight` is not inductive: it does not say what the kernel still has to
write.  `RingInv`: a buffer has at most one entry or completion under way
(`Apart`), none when its block is acknowledged (`Busy`), and what is under way is
what is left of the block (`Left`, `Results`); a submitted block is in a buffer or
in the file (`Described`, `Kept`).  `BuffersLeftAlone`: no buffer is refilled
while anything of it is under way.  `QueueNeverOverruns`: so there are no more
entries than buffers, and segments fit the buffers' size.  `BytesAreRight`
follows at the end, when no buffer is open.  `Grouped` and `Before` are recursive
functions; that they exist, and what they return for any input, is proved by
induction, which the library's theorems on well-founded orders give as a least
counterexample (`Inductive`, `Recursion`).

`ProbeDec_proofs` (any decoders, pictures, buffers and packets).  That a picture is
compared with its own frame is about what is hidden in the decoder.  `ProbeInv`:
what the decoder holds back are the frames of the worker's probe that were fed and
not yet got, in order, each still in the buffer it was decoded into (`HeldBack`,
`GivenOut`), and what was left of the last probe is gone before the next is fed
(`Turns`).  A buffer of `PinPool` is in one place: on the shared list, on the
worker's, with a thread that brings it back, or in use (`Pool`, `BuffersPlaced`),
though the decoder's threads push while the worker takes the list over.

`Frames_proofs` (any video, timebase, key frames, ranges and scenes).  `FrmInv`: the
chunks are consecutive pieces of what is kept (`Pieces`), each with the template of
its scene (`Marked`), and the decoder is at the next chunk or before it (`Placed`).
A frame lasts at least two ticks of the container, so that its rounded timestamp
tells which frame it is (`pts_frame` inverts).  What a script delivers is numbered by
`Rank`, the count of kept frames before.  A pipe
restarted behind ranges is left out, as it does not get its frames (section 6,
`PipeAligned`).

Only model-checked, and why:

- all liveness (`AllReceived`, `AllEof`, `StreamEnds`, `SomebodyGetsIn`,
  `BuffersReturn`, `ChunksEnd`, `Ends`, `Finishes`): beyond the prover, like `ENABLED`;
- `LayoutExact` (`Muxer`), `StreamsDecode` (`NalStream`) and `AudioExact` (`Audio`): they
  compare folds and flattened sequences of any length.  Each of these operators would
  need an induction of its own over the community modules' definitions, like the two
  of `Uring_proofs`, before the property itself;
- `PartsTyped` of `MCMedia`: the conjunction of the parts' types.  The theorems above
  hold those of the parts they are about; those of `Audio` and `Muxer` are not proved.

`WorkConserving` is false of the MPMC ring:
with two producers a wake can be spent on a consumer that looks at a position not
yet published while a later one already is; that consumer sleeps again and the
item waits for the first producer's wake.  Nothing is lost, and it is not claimed.

## 6. Where code and documentation part

Each with a run that shows it:

1. `ring_spmc_close`: `recv` finds the slot empty, then reads CLOSED
   (`asm/sync/ring_spmc.asm:75-82`, again 87-93).  If the last item is sent and
   the ring closed between these two reads, `recv` reports the end of the
   stream; with one worker (the default) that chunk is not encoded in this run.
   `enc_tq` closes only after everything was received and is not affected.
2. `resume_log`: the first `finish` of a resumed run truncates `done.txt`
   before it writes the lines back (`src/chunk.rs:99-109`); a kill in between
   forgets all finished chunks.
3. `resume_stale`: the mux takes all chunk files it finds
   (`src/chunk.rs:239-259`).  Files of a run that was killed before its first
   chunk was logged survive a change of the command line, and are muxed when
   the new command has fewer chunks.
4. `resume_disk`: results of writes are dropped (`src/enc.rs:2272`, `2794`,
   `src/io.rs:312`), so a chunk cut short by a full disk is logged as finished.
5. `tq_butter`: the test for contradicting probes (`src/enc.rs:1061`) takes
   higher scores for better.  With a Butteraugli target every two consistent
   probes look contradictory and the search ends at the second one, in range or
   not, while `guide.txt:397` and `870-871` promise to go on until the range is
   reached or the closest crf is found.

Stated in the modules, without a run (as an invariant of `MCMedia` with the name
of its instance in front, TLC finds each violated within seconds):

- `AudioMatches` (`Frames`): ranges are inclusive, but `acq_au`
  (`src/main.rs:715-734`) takes their end for exclusive: each range loses the
  audio of its last frame, and sound drifts by a frame per range.
  `guide.txt:660-662` promises a sample-accurate cut.
- `PipeAligned` (`Frames`): `vspipe_resume` (`src/y4m.rs:122`) passes the source's
  frame number to `-s`, but a script that trims as `guide.txt:1181-1196`
  asks numbers its output anew: a resumed chunk gets later frames.
- `ArmExists` (`Layouts`): a 10-bit pipe replaces the source's width and depth but
  not its line size (`src/main.rs:704-708`); beside an 8-bit source of the same
  width `get_dec_strat` then falls through to `assume_unreachable`
  (`src/ffms.rs:1589`), though `guide.txt:1167-1168` allows such a pipe.

Visible by changing a constant or by reading:

- with `KillInCleanup` a kill inside `rm_dir_all` can leave `done.txt` without
  chunk files, and `OutputExact` fails in the next run; with a `ReadBack` other
  than the identity a resumed run uses other parameters than the chunks it keeps
  were made with;
- `guide.txt:669-670` says out-of-order or overlapping ranges fail; `trans_scenes`
  sorts and merges them (`RangeArgs` of `MCMedia` has such lists, and
  `ChunksAreKept` holds);
- after a failed write the worker's vector keeps the bytes, and they lead the
  file of its next chunk (`src/enc.rs:2041`); `ForeignAfterFailure`
  (`LibEncoders`), which holds, says that nothing else gets there;
- `Uring` with `relaxed`: on a processor whose load of the poller's flag overtakes
  its store of the tail, poller and writer can both sleep for ever
  (`src/uring.rs:251`, `372`; no full barrier in between);
- a pipe that delivers fewer frames than were scanned leaves `tq_coord` waiting
  (`src/enc.rs:1475`): `frames < Todo` in `TqPipeline`, where `Done` asks that the chunks
  which arrived are book-kept, and not that the run ends;
- a scene longer than 32.767 s is one cluster, whose block times wrap at 16 bits
  (`src/mkv/mux.rs:58`; `I16` in `Muxer`).

## 7. Not modelled

- What is foreign: the encoders, decoders, libavformat and the metric library, of
  which only what they may hold back, refuse or fail at is in the modules; the
  kernel's futexes and io_uring likewise.
- `pthread`-like spawn and join (`src/thread.rs`), which a thread does once and
  before it shares anything; `src/process.rs`; `OnceLock`, which the main thread
  initialises before it starts others; the display of progress.
- Demuxing of copied streams (`src/copy.rs`), the signal processing of the audio,
  the statistics of scores and the interpolation (`src/tq.rs`, `src/interp`): the
  models let them give anything of their type.  A fraction of scores so small that
  none is left gives a NaN, which is outside of that.
- The contents of tracks, tags, chapters and attachments in the Matroska file
  (sizes only), and `src/mux_webm.rs`: one thread, lengths computed just before
  they are written, no position that depends on another.
- AV1 and AV2 parsers (`src/obu_parse.rs`, `src/av2_parse.rs`): a packet is one
  temporal unit, cut at one kind of header, in display order.
- Parameter tables, their validation and messages (`src/*err.rs`,
  `src/encoder.rs`, `src/lang.rs`), `build.rs`: tables and text.  Arguments are in
  `Resume` as far as they are saved and read back.
- SIMD kernels: what they read and write of a picture is in `Layouts`, their
  arithmetic is not.
- The Windows rings, which wait on an address with a value read after the recheck,
  and the SPSC ring, which only a test uses.
- Power loss: a kill in `Resume` is that of the process.
- The scene file and the audio's files under kills.
