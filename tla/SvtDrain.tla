------------------------------ MODULE SvtDrain ------------------------------
(***************************************************************************)
(* One SVT-AV1 encode worker and its drain thread: enc_svt_* of            *)
(* src/src/enc.rs and src/asm/sync/svt_drain.asm.  The worker sends the    *)
(* frames of a chunk to the encoder; the drain thread, one per worker and  *)
(* kept from chunk to chunk, takes the packets and writes them to the sink *)
(* of the worker, until the packet flagged end of stream.                  *)
(*                                                                         *)
(* The two meet in one stage of shared words: S_HANDLE, S_EOS and three    *)
(* semaphores.  S_GO starts a chunk, S_FIN ends it, S_TICK wakes the drain *)
(* from its nap: the worker after every frame and after S_EOS, the display *)
(* thread twice a second (svt_drain_tick).  The drain clears S_TICK after  *)
(* its nap, whatever was added in between.                                 *)
(*                                                                         *)
(* External: the encoder.  It holds at most InCap frames and OutCap        *)
(* packets, gives one packet per frame in the order of the frames, and     *)
(* flags the last one or an empty one after it.  A sender blocks while it  *)
(* holds InCap frames.                                                     *)
(***************************************************************************)
EXTENDS Naturals, Sequences

CONSTANTS Chunks,        \* chunks the worker encodes, one after the other
          MaxFrames,     \* bound of the frames of a chunk
          InCap, OutCap  \* what the encoder holds

SvtAssumption == {Chunks, MaxFrames, InCap, OutCap} \subseteq Nat \ {0}

VARIABLES wpc, chunk, frames, sent,   \* the worker
          handle, eos,                \* S_HANDLE (the chunk it encodes, 0 for null), S_EOS
          tick, go, fin,              \* the semaphores
          dpc, enc, sz,               \* the drain: label, its copy of the handle, r14
          enced,                      \* the counter of the display slot
          inq, ending, outq,          \* the encoder
          sink,                       \* frames written to the file of the chunk
          tpc                         \* the display thread

worker == <<wpc, chunk, frames, sent>>
drain == <<dpc, enc, sz, enced, sink>>
encoder == <<inq, ending, outq>>
vars == <<worker, handle, eos, tick, go, fin, drain, encoder, tpc>>

\* More than one pending wake of the drain is as good as one: it clears the word.
Wake(n) == IF n = 0 THEN 1 ELSE n

Init == /\ wpc = "next" /\ chunk = 0 /\ frames = 0 /\ sent = 0
        /\ handle = 0 /\ eos = FALSE
        /\ tick = 0 /\ go = 0 /\ fin = 0
        /\ dpc = "none" /\ enc = 0 /\ sz = 0 /\ enced = 0 /\ sink = <<>>
        /\ inq = 0 /\ ending = "no" /\ outq = <<>>
        /\ tpc = "sleep"

----------------------------------------------------------------------------
\* The worker.

WStep(from, to) == wpc = from /\ wpc' = to

\* init_svt, Tracker::new, and the stores of xav_svt_drain_go, S_HANDLE the last.
Open == /\ chunk < Chunks
        /\ WStep("next", "handle")
        /\ chunk' = chunk + 1
        /\ frames' \in 1 .. MaxFrames
        /\ sent' = 0 /\ sink' = <<>> /\ enced' = 0
        /\ inq' = 0 /\ ending' = "no" /\ outq' = <<>>
        /\ eos' = FALSE
        /\ UNCHANGED <<handle, tick, go, fin, dpc, enc, sz, tpc>>

StoreHandle == /\ WStep("handle", "go")
               /\ handle' = chunk
               /\ UNCHANGED <<chunk, frames, sent, eos, tick, go, fin, drain, encoder, tpc>>

\* The first chunk of a worker creates the thread.
Go == /\ WStep("go", "send")
      /\ dpc' = IF dpc = "none" THEN "job" ELSE dpc
      /\ go' = go + 1
      /\ UNCHANGED <<chunk, frames, sent, handle, eos, tick, fin, enc, sz, enced, sink, encoder, tpc>>

\* svt_av1_enc_send_picture: blocks while the encoder is full.
Send == /\ WStep("send", "poke")
        /\ sent < frames /\ inq < InCap
        /\ sent' = sent + 1
        /\ inq' = inq + 1
        /\ UNCHANGED <<chunk, frames, handle, eos, tick, go, fin, drain, ending, outq, tpc>>

Poke == /\ WStep("poke", "send")
        /\ tick' = Wake(tick)
        /\ UNCHANGED <<chunk, frames, sent, handle, eos, go, fin, drain, encoder, tpc>>

SendEos == /\ WStep("send", "mark")
           /\ sent = frames
           /\ ending' = "told"
           /\ UNCHANGED <<chunk, frames, sent, handle, eos, tick, go, fin, drain, inq, outq, tpc>>

\* xav_svt_drain_wait: S_EOS = 1, then S_TICK.
StopDrain == /\ wpc \in {"mark", "ring"}
             /\ wpc' = IF wpc = "mark" THEN "ring" ELSE "wait"
             /\ eos' = IF wpc = "mark" THEN TRUE ELSE eos
             /\ tick' = IF wpc = "mark" THEN tick ELSE Wake(tick)
             /\ UNCHANGED <<chunk, frames, sent, handle, go, fin, drain, encoder, tpc>>

\* S_FIN acquired; tracker.finish; svt_av1_enc_deinit and deinit_handle.
Close == /\ WStep("wait", "next")
         /\ fin > 0
         /\ fin' = fin - 1
         /\ UNCHANGED <<chunk, frames, sent, handle, eos, tick, go, drain, encoder, tpc>>

----------------------------------------------------------------------------
\* The drain thread.

DStep(from, to) == dpc = from /\ dpc' = to

Job == /\ DStep("job", "pkt")
       /\ go > 0
       /\ go' = go - 1
       /\ enc' = handle /\ sz' = 0 /\ enced' = 0
       /\ UNCHANGED <<worker, handle, eos, tick, fin, sink, encoder, tpc>>

\* PKTBODY: an empty packet is not written; the flag ends the chunk.
PktBody(more) == /\ outq # <<>>
                /\ LET p == Head(outq)
                       n == IF p.frame = 0 THEN 0 ELSE 1
                   IN  /\ sink' = IF n = 0 THEN sink ELSE Append(sink, p.frame)
                       /\ sz' = sz + n
                       /\ enced' = enced + n
                       /\ dpc' = IF p.eos THEN "done" ELSE more
                /\ outq' = Tail(outq)
                /\ UNCHANGED <<worker, handle, eos, tick, go, fin, enc, inq, ending, tpc>>

Take == dpc = "pkt" /\ PktBody("pkt")

Empty == /\ DStep("pkt", "idle")
         /\ outq = <<>>
         /\ UNCHANGED <<worker, handle, eos, tick, go, fin, enc, sz, enced, sink, encoder, tpc>>

\* Mutation of Idle: at the end of the stream there is nothing left to take.
IdleEnds == /\ DStep("idle", IF eos THEN "done" ELSE "nap")
            /\ UNCHANGED <<worker, handle, eos, tick, go, fin, enc, sz, enced, sink, encoder, tpc>>

Idle == /\ DStep("idle", IF eos THEN "flush" ELSE "nap")
        /\ UNCHANGED <<worker, handle, eos, tick, go, fin, enc, sz, enced, sink, encoder, tpc>>

Nap == /\ DStep("nap", "clear")
       /\ tick > 0
       /\ tick' = tick - 1
       /\ UNCHANGED <<worker, handle, eos, go, fin, enc, sz, enced, sink, encoder, tpc>>

\* mov dword [rbp], 0: the wakes that came since are lost.
Clear == /\ DStep("clear", "pkt")
         /\ tick' = 0
         /\ UNCHANGED <<worker, handle, eos, go, fin, enc, sz, enced, sink, encoder, tpc>>

\* svt_av1_enc_get_packet with pic_send_done: blocks for a packet.
Flush == dpc = "flush" /\ PktBody("flush")

\* Mutation of Done: the worker is let go before the handle is cleared.
DoneEarly == /\ dpc \in {"done", "release"}
             /\ dpc' = IF dpc = "done" THEN "release" ELSE "job"
             /\ fin' = IF dpc = "done" THEN fin + 1 ELSE fin
             /\ handle' = IF dpc = "done" THEN handle ELSE 0
             /\ UNCHANGED <<worker, eos, tick, go, enc, sz, enced, sink, encoder, tpc>>

\* S_SZ, S_HANDLE = 0, then S_FIN.
Done == /\ dpc \in {"done", "release"}
        /\ dpc' = IF dpc = "done" THEN "release" ELSE "job"
        /\ handle' = IF dpc = "done" THEN 0 ELSE handle
        /\ fin' = IF dpc = "done" THEN fin ELSE fin + 1
        /\ UNCHANGED <<worker, eos, tick, go, enc, sz, enced, sink, encoder, tpc>>

----------------------------------------------------------------------------
\* The display thread (display_loop): it looks at the handle and rings.

Look == /\ tpc = "sleep"
        /\ handle # 0
        /\ tpc' = "ring"
        /\ UNCHANGED <<worker, handle, eos, tick, go, fin, drain, encoder>>

Ring == /\ tpc = "ring"
        /\ tpc' = "sleep"
        /\ tick' = Wake(tick)
        /\ UNCHANGED <<worker, handle, eos, go, fin, drain, encoder>>

----------------------------------------------------------------------------
\* The encoder's own threads (external).

Emit(p) == /\ Len(outq) < OutCap
           /\ outq' = Append(outq, p)

EncodeFrame == /\ inq > 0
               /\ inq' = inq - 1
               /\ \E last \in {FALSE, inq = 1 /\ ending = "told"} :
                     /\ Emit([frame |-> sent - inq + 1, eos |-> last])
                     /\ ending' = IF last THEN "done" ELSE ending
               /\ UNCHANGED <<worker, handle, eos, tick, go, fin, drain, tpc>>

EncodeEnd == /\ inq = 0 /\ ending = "told"
             /\ Emit([frame |-> 0, eos |-> TRUE])
             /\ ending' = "done"
             /\ UNCHANGED <<worker, handle, eos, tick, go, fin, drain, inq, tpc>>

----------------------------------------------------------------------------
Worker == Open \/ StoreHandle \/ Go \/ Send \/ Poke \/ SendEos \/ StopDrain \/ Close
Drain == Job \/ Take \/ Empty \/ Idle \/ Nap \/ Clear \/ Flush \/ Done
Display == Look \/ Ring
Encoder == EncodeFrame \/ EncodeEnd

Next == Worker \/ Drain \/ Display \/ Encoder

\* The threads of the chunk run on.  Nothing is asked of the display thread: its ring
\* brings packets to the file earlier, no chunk depends on it.
Fairness == WF_vars(Worker) /\ WF_vars(Drain) /\ WF_vars(Encoder)

Spec == Init /\ [][Next]_vars /\ Fairness

----------------------------------------------------------------------------
TypeOK == /\ wpc \in {"next", "handle", "go", "send", "poke", "mark", "ring", "wait"}
          /\ dpc \in {"none", "job", "pkt", "idle", "nap", "clear", "flush", "done", "release"}
          /\ tpc \in {"sleep", "ring"}
          /\ chunk \in 0 .. Chunks /\ frames \in 0 .. MaxFrames /\ sent \in 0 .. frames
          /\ handle \in 0 .. Chunks /\ enc \in 0 .. Chunks
          /\ eos \in BOOLEAN /\ ending \in {"no", "told", "done"}
          /\ tick \in 0 .. 1 /\ go \in 0 .. 1 /\ fin \in 0 .. 1
          /\ inq \in 0 .. InCap
          /\ outq \in Seq([frame : 0 .. MaxFrames, eos : BOOLEAN]) /\ Len(outq) <= OutCap
          /\ sink \in Seq(1 .. MaxFrames)
          /\ sz \in Nat /\ enced \in Nat

\* The drain touches the encoder and the sink of a chunk only between S_GO and S_FIN
\* of this very chunk: never after the worker closed the encoder or the file, and never
\* with the handle of another chunk.
DrainsOwnChunk == dpc \in {"pkt", "idle", "nap", "clear", "flush", "done"} =>
                     /\ wpc \notin {"next", "handle", "go"}
                     /\ enc = chunk /\ handle = chunk

\* When the worker leaves, the file has every frame of the chunk once and in order, and
\* the size it reports and the counter of the display count every packet.
ChunkWhole == (wpc = "next" /\ chunk > 0) =>
                 /\ sink = [i \in 1 .. frames |-> i]
                 /\ sz = frames /\ enced = frames
=============================================================================
