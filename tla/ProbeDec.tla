------------------------------ MODULE ProbeDec ------------------------------
(***************************************************************************)
(* The decoder of a metric worker (dav1d.rs, vvdec.rs and annexb.rs of     *)
(* src/src, behind ProbeDec of tq.rs) and the pool its pictures live in    *)
(* (PinPool of vship.rs).  For each probe the worker loads the bitstream   *)
(* and takes as many pictures as the chunk has frames, one at a time.      *)
(*                                                                         *)
(* The pool is a stack of free buffers, linked through their first words:  *)
(* any thread of the decoder gives a buffer back with a compare-and-swap,  *)
(* only the worker, which is the thread that opens pictures, takes them:   *)
(* from a list of its own, or else the whole stack at once.                *)
(*                                                                         *)
(* External: the decoders.  dav1d holds Delay pictures back when it has    *)
(* more than one frame context, and gives the rest out only to a call that *)
(* follows one since the data; a VVdeC that is flushing does not decode    *)
(* until it said end of file; lavc holds AvDelay back until it is flushed. *)
(* A picture is kept as a reference until some thread lets go of it.       *)
(***************************************************************************)
EXTENDS Naturals, Sequences, FiniteSets

CONSTANTS Kinds,      \* a subset of {"dav1d", "vvdec", "annexb"}
          Probes,     \* probes the worker scores
          MaxFrames,  \* bound of the frames of a chunk
          Delay,      \* frame_delay of dav1d
          AvDelay,    \* pictures lavc holds back
          Dpb,        \* references the decoder keeps
          Releasers,  \* threads of the decoder
          MaxBufs     \* bound of the buffers

ProbeDecAssumption == /\ Kinds \subseteq {"dav1d", "vvdec", "annexb"}
                      /\ {Probes, MaxFrames, Delay, Dpb, MaxBufs} \subseteq Nat \ {0}
                      /\ AvDelay \in Nat
                      /\ 0 \notin Releasers

VARIABLES kind, mpc, probe, frames,
          fed, got,          \* pictures opened and pictures taken, of this probe
          low,               \* dav1d: the decoder without delay is the active one
          status,            \* what the decoder was last asked
          queue, cur, dpb,   \* pictures held back, the one taken, the references
          shared, local, next, data, made,   \* the pool; next and data are in the buffers
          tpc, base, head    \* the threads that give a buffer back

pics == <<queue, cur, dpb>>
pool == <<shared, local, next, data, made>>
givers == <<tpc, base, head>>
vars == <<kind, mpc, probe, frames, fed, got, low, status, pics, pool, givers>>

Bufs == 1 .. MaxBufs
Null == 0
Junk == MaxBufs + 1          \* the first word of a buffer that holds a picture
Threads == {0} \cup Releasers  \* 0 is the worker
NoPic == [probe |-> 0, frame |-> 0, buf |-> Null]

Init == /\ kind \in Kinds /\ mpc = "load" /\ probe = 0 /\ frames = 0 /\ fed = 0 /\ got = 0
        /\ low = FALSE /\ status = "new"
        /\ queue = <<>> /\ cur = NoPic /\ dpb = {}
        /\ shared = Null /\ local = Null /\ made = 0
        /\ next = [b \in Bufs |-> Junk] /\ data = [b \in Bufs |-> NoPic]
        /\ tpc = [t \in Threads |-> "idle"]
        /\ base = [t \in Threads |-> Null] /\ head = [t \in Threads |-> Null]

----------------------------------------------------------------------------
\* PinPool::put.

Release(t, b) == /\ tpc' = [tpc EXCEPT ![t] = "load"]
                 /\ base' = [base EXCEPT ![t] = b]
                 /\ UNCHANGED head

LoadHead(t) == /\ tpc[t] = "load"
               /\ tpc' = [tpc EXCEPT ![t] = "cas"]
               /\ head' = [head EXCEPT ![t] = shared]
               /\ UNCHANGED <<kind, mpc, probe, frames, fed, got, low, status, pics, pool, base>>

\* Mutation of Push: a plain store.
PushPlain(t) == /\ tpc[t] = "cas"
                /\ next' = [next EXCEPT ![base[t]] = head[t]]
                /\ shared' = base[t] /\ tpc' = [tpc EXCEPT ![t] = "idle"] /\ UNCHANGED head
                /\ UNCHANGED <<kind, mpc, probe, frames, fed, got, low, status, pics,
                               local, data, made, base>>

\* The link, then compare_exchange_weak, that reloads the head when it fails.
Push(t) == /\ tpc[t] = "cas"
           /\ next' = [next EXCEPT ![base[t]] = head[t]]
           /\ IF shared = head[t]
              THEN shared' = base[t] /\ tpc' = [tpc EXCEPT ![t] = "idle"] /\ UNCHANGED head
              ELSE head' = [head EXCEPT ![t] = shared] /\ UNCHANGED <<shared, tpc>>
           /\ UNCHANGED <<kind, mpc, probe, frames, fed, got, low, status, pics,
                          local, data, made, base>>

\* PinPool::get: the top of the worker's list, or of the stack it takes over whole.
Top == IF local # Null THEN local ELSE shared
Taken(b) == /\ IF Top = Null
               THEN b = made + 1 /\ made' = b /\ UNCHANGED <<local, shared>>
               ELSE /\ b = Top /\ local' = next[Top] /\ UNCHANGED made
                    /\ shared' = IF local # Null THEN shared ELSE Null

----------------------------------------------------------------------------
\* The worker.  It goes on when a buffer it gives back is on the stack.

Turn(from) == mpc = from /\ tpc[0] = "idle"
Held == {cur.buf} \cup {queue[i].buf : i \in DOMAIN queue}

Active(n) == n <= Delay

\* load: dav1d and lavc forget what they hold; a VVdeC in use is flushed first.
Load == /\ Turn("load") /\ probe < Probes
        /\ probe' = probe + 1
        /\ frames' \in 1 .. MaxFrames
        /\ fed' = 0 /\ got' = 0
        /\ low' = (kind = "dav1d" /\ Active(frames'))
        /\ status' = IF kind = "vvdec" THEN status ELSE "data"
        /\ mpc' = IF kind = "vvdec" /\ probe > 0 THEN "unref all" ELSE "unref"
        /\ UNCHANGED <<kind, pics, pool, givers>>

\* The picture before: its buffer goes back unless the decoder refers to it.
Unref == /\ \/ Turn("unref") /\ mpc' = "pull"
            \/ Turn("unref all") /\ mpc' = "drain"
         /\ cur' = NoPic
         /\ IF cur.buf # Null /\ cur.buf \notin dpb THEN Release(0, cur.buf) ELSE UNCHANGED givers
         /\ UNCHANGED <<kind, probe, frames, fed, got, low, status, queue, dpb, pool>>

\* VvdecDec::drain: flushed until it says end of file; it holds no picture.
Drain == /\ Turn("drain") /\ mpc' = "pull"
         /\ status' = "eof"
         /\ UNCHANGED <<kind, probe, frames, fed, got, low, pics, pool, givers>>

\* A picture is given out, from those held back and the one that was opened.
Show(held) == /\ mpc' = "show" /\ got' = got + 1
              /\ cur' = Head(held) /\ queue' = Tail(held)
Hold(held) == queue' = held /\ UNCHANGED <<mpc, got, cur>>

\* The next picture of the stream, in a buffer of the pool; lavc has its own.
Opened == \E b \in Bufs \cup {Null} :
             LET pic == [probe |-> probe, frame |-> fed + 1, buf |-> b] IN
             /\ fed < frames /\ Cardinality(dpb) < Dpb
             /\ fed' = fed + 1
             /\ IF kind = "annexb" THEN b = Null /\ UNCHANGED <<pool, dpb>>
                ELSE /\ Taken(b)
                     /\ next' = [next EXCEPT ![b] = Junk]
                     /\ data' = [data EXCEPT ![b] = pic]
                     /\ dpb' = dpb \cup {b}
             /\ UNCHANGED <<kind, probe, frames, low, givers>>
             /\ LET held == Append(queue, pic)
                    room == IF low \/ Delay = 1 THEN 0 ELSE Delay
                IN  CASE kind = "dav1d" ->
                            IF Len(held) > room THEN Show(held) /\ status' = "asked"
                            ELSE Hold(held) /\ UNCHANGED status
                      [] kind = "vvdec" ->
                            (Show(held) \/ Hold(held)) /\ status' = "run"
                      [] kind = "annexb" -> Hold(held) /\ UNCHANGED status

\* dec_next with data left: a VVdeC that is flushing refuses it.
Refused == kind = "vvdec" /\ status = "flush"
Ready == kind = "annexb" /\ queue # <<>> /\ (status = "flush" \/ Len(queue) > AvDelay)

Decode == Turn("pull") /\ ~Refused /\ ~Ready /\ Opened

\* Without data: the null packet of lavc, the end of the stream for the others.
Flush == /\ Turn("pull") /\ fed = frames /\ ~Ready
         /\ kind = "annexb" /\ status = "data"
         /\ status' = "flush"
         /\ UNCHANGED <<kind, mpc, probe, frames, fed, got, low, pics, pool, givers>>

Rest == /\ Turn("pull")
        /\ \/ Ready
           \/ fed = frames /\ queue # <<>> /\ (kind = "dav1d" => status = "asked")
              /\ kind # "annexb"
        /\ Show(queue)
        /\ status' = IF kind = "vvdec" THEN "flush" ELSE status
        /\ UNCHANGED <<kind, probe, frames, fed, low, dpb, pool, givers>>

\* Where dec_next ends the program: "decode error", "probe truncated".
Fatal == /\ mpc = "pull" /\ ~Ready
         /\ \/ fed < frames /\ Refused
            \/ fed = frames /\ IF kind = "annexb" THEN status = "flush"
                               ELSE queue = <<>> \/ (kind = "dav1d" /\ status = "data")

\* calc_metric: the next frame, or the score of the chunk.
Score == /\ Turn("show")
         /\ mpc' = IF got < frames THEN "unref" ELSE "load"
         /\ UNCHANGED <<kind, probe, frames, fed, got, low, status, pics, pool, givers>>

\* A thread of the decoder lets go of a reference.
DropRef(t) == \E b \in dpb :
                 /\ tpc[t] = "idle"
                 /\ dpb' = dpb \ {b}
                 /\ IF b \notin Held THEN Release(t, b) ELSE UNCHANGED givers
                 /\ UNCHANGED <<kind, mpc, probe, frames, fed, got, low, status, queue, cur, pool>>

----------------------------------------------------------------------------
Worker == Load \/ Unref \/ Drain \/ Decode \/ Flush \/ Rest \/ Score
Next == \/ Worker
        \/ \E t \in Threads : LoadHead(t) \/ Push(t)
        \/ \E t \in Releasers : DropRef(t)
Spec == Init /\ [][Next]_vars

----------------------------------------------------------------------------
TypeOK == /\ made \in 0 .. MaxBufs /\ {shared, local} \subseteq Bufs \cup {Null}
          /\ fed \in 0 .. frames /\ got \in 0 .. fed
          /\ dpb \subseteq Bufs /\ status \in {"new", "data", "asked", "run", "flush", "eof"}

\* What a metric compares is the frame of this probe whose turn it is, and nobody decodes into
\* its buffer meanwhile; no probe runs out of pictures before its frames are scored, as it
\* would with a decoder that holds back as many pictures as the probe has, or one that is
\* still flushing the probe before.
ScoresItsFrames == /\ mpc = "show" => /\ cur.probe = probe /\ cur.frame = got
                                      /\ cur.buf # Null => data[cur.buf] = cur
                   /\ ~Fatal
                   /\ mpc = "drain" => queue = <<>>

\* Every buffer is in one place: held by the decoder, on its way back, or on one of the lists,
\* whatever order the threads give them back in - none is lost, none is free twice, and no
\* list runs into a picture.
Chain(h) == LET node[i \in 0 .. MaxBufs] ==
                    IF i = 0 THEN h
                    ELSE IF node[i - 1] \in Bufs THEN next[node[i - 1]] ELSE Null
            IN  {node[i] : i \in 0 .. MaxBufs} \ {Null}
BufferInOnePlace ==
    LET used == (Held \cup dpb) \ {Null}
        coming == {base[t] : t \in {u \in Threads : tpc[u] # "idle"}}
    IN  /\ UNION {used, coming, Chain(local), Chain(shared)} = 1 .. made
        /\ Cardinality(used) + Cardinality({t \in Threads : tpc[t] # "idle"})
           + Cardinality(Chain(local)) + Cardinality(Chain(shared)) = made
=============================================================================
