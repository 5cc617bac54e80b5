---------------------------- MODULE Media_proofs ----------------------------
(***************************************************************************)
(* The parts that carry the data, for all their constants.                 *)
(*                                                                         *)
(* First the hand-over between an SVT-AV1 worker and its drain thread      *)
(* (SvtDrain).  HandOver: one token, S_GO before the chunk or S_FIN after  *)
(* it, says which thread has the encoder and the file; it is what keeps    *)
(* the drain from a chunk that is not its own.  Stream: the frames that    *)
(* left the encoder are those in the file followed by those in its queue,  *)
(* and only the last packet is flagged; so the chunk that ended is whole.  *)
(*                                                                         *)
(* Then the search for the crf of a chunk (TqSearch).  SearchClosing: what *)
(* left the range lies beyond a probe that was off on that side, so it is  *)
(* no closer to the target; SearchSpent: no probe is in what is left, so   *)
(* the search never meets a probe twice nor a contradiction.               *)
(*                                                                         *)
(* Then the layouts of frames (Layouts).  LayInv: the input as it was      *)
(* opened, and what get_dec_strat and the encoder derived from it; what a  *)
(* kernel leaves of a row after its chunks is decided by arithmetic on     *)
(* even sizes and crops, of which only that PackChunk is a multiple of 8   *)
(* is assumed, so AVX2 and AVX-512 are both covered.                       *)
(*                                                                         *)
(* Then the order of pictures (NalStream).  NalCurrent: a chunk that is    *)
(* being parsed has the first pictures of one of Orders behind it, and the *)
(* counts found for them are theirs, since a count lies within half a      *)
(* cycle of the one it is told from (WithinHalf); NalEarlier: the ranks of *)
(* the chunks before follow their counts, and lie where no later chunk     *)
(* writes.                                                                 *)
(*                                                                         *)
(* Last, what MCMedia composes: a step of it is a step of the part that    *)
(* runs and leaves the others alone, so that each part keeps the invariant *)
(* proved here or in its own module (Frames_proofs, Uring_proofs,          *)
(* ProbeDec_proofs).                                                       *)
(***************************************************************************)
EXTENDS MCMedia, FiniteSetTheorems, FunctionTheorems, SequenceTheorems, WellFoundedInduction, TLAPS

Encoding == {"send", "poke", "mark", "ring", "wait"}
SvtPkt == [frame : Nat, eos : BOOLEAN]
Running == {"pkt", "idle", "nap", "clear", "flush", "done", "release"}

SvtTypes == /\ wpc \in {"next", "handle", "go"} \cup Encoding
         /\ dpc \in {"none", "job"} \cup Running
         /\ chunk \in Nat /\ frames \in Nat /\ sent \in Nat /\ inq \in Nat
         /\ go \in Nat /\ fin \in Nat /\ sz \in Nat /\ enced \in Nat
         /\ ending \in {"no", "told", "done"}
         /\ outq \in Seq(SvtPkt)
         /\ sink \in Seq(Nat)

Given == go = 1 /\ fin = 0 /\ dpc = "job" /\ handle = chunk
Taken == /\ go = 0 /\ fin = 0 /\ dpc \in Running /\ enc = chunk
         /\ dpc # "release" => handle = chunk
Returned == go = 0 /\ fin = 1 /\ dpc = "job"

HandOver == /\ wpc \in {"next", "handle", "go"} => go = 0 /\ fin = 0 /\ dpc \in {"none", "job"}
            /\ wpc = "go" => handle = chunk
            /\ wpc \in Encoding => Given \/ Taken \/ Returned

\* The drain has seen the last packet.
Drained == dpc \in {"done", "release"} \/ fin = 1
EndQueued == outq # <<>> /\ outq[Len(outq)].eos
EmptyEnd == outq # <<>> /\ outq[Len(outq)].frame = 0

Packets == \A i \in 1 .. Len(outq) :
              /\ outq[i].eos => i = Len(outq) /\ ending = "done"
              /\ outq[i].frame = 0 => outq[i].eos
              /\ outq[i].frame # 0 => outq[i].frame = Len(sink) + i
Counted == sent + (IF EmptyEnd THEN 1 ELSE 0) = inq + Len(sink) + Len(outq)

Ending == /\ wpc \in {"send", "poke"} => ending = "no"
          /\ ending # "no" => sent = frames
          /\ ending = "done" => inq = 0
          /\ wpc \in Encoding => (ending = "done" <=> EndQueued \/ Drained)
          /\ Drained => outq = <<>>

Written == /\ \A i \in 1 .. Len(sink) : sink[i] = i
           /\ dpc \in Running \/ fin = 1 => sz = Len(sink) /\ enced = Len(sink)
           /\ wpc \in {"handle", "go"} \/ go = 1 => sink = <<>>
           /\ wpc \in {"handle", "go"} => outq = <<>> /\ inq = 0 /\ sent = 0 /\ ending = "no"

Closed == wpc = "next" /\ chunk > 0 =>
             /\ ending = "done" /\ outq = <<>> /\ Len(sink) = frames
             /\ sz = Len(sink) /\ enced = Len(sink)
Unopened == chunk = 0 => wpc = "next" /\ ending = "no" /\ inq = 0 /\ outq = <<>> /\ sent = 0

Stream == Packets /\ Counted /\ Ending /\ Written /\ Closed /\ Unopened /\ sent <= frames

SvtInv == SvtTypes /\ HandOver /\ Stream

LEMMA QueueFacts == ASSUME SvtTypes
                    PROVE  /\ Len(outq) \in Nat /\ Len(sink) \in Nat
                           /\ outq # <<>> <=> Len(outq) \in 1 .. Len(outq)
                           /\ outq # <<>> <=> Len(outq) # 0
                           /\ \A i \in 1 .. Len(outq) : outq[i].frame \in Nat /\ outq[i].eos \in BOOLEAN
<1>1. Len(outq) \in Nat /\ Len(sink) \in Nat
  BY LenProperties DEF SvtTypes
<1>2. outq # <<>> => Len(outq) # 0
  BY <1>1, EmptySeq DEF SvtTypes
<1>3. outq = <<>> => Len(outq) = 0
  OBVIOUS
<1>4. \A i \in 1 .. Len(outq) : outq[i].frame \in Nat /\ outq[i].eos \in BOOLEAN
  <2> SUFFICES ASSUME NEW i \in 1 .. Len(outq)
               PROVE  outq[i].frame \in Nat /\ outq[i].eos \in BOOLEAN
    OBVIOUS
  <2>1. outq[i] \in SvtPkt
    BY ElementOfSeq DEF SvtTypes
  <2> QED BY <2>1 DEF SvtPkt
<1> QED BY <1>1, <1>2, <1>3, <1>4

LEMMA SvtStart == Init => SvtInv
  BY EmptySeq DEF Init, SvtInv, SvtTypes, Encoding, Running, HandOver, Stream, Packets, Ending, Written,
         Closed, Unopened, Drained, EndQueued,
           EmptyEnd, Counted

----------------------------------------------------------------------------
\* The worker.

LEMMA WorkerStep == ASSUME SvtInv, Open \/ StoreHandle \/ Go \/ Send \/ Poke \/ SendEos \/ StopDrain \/ Close
                    PROVE SvtInv'
<1> USE DEF SvtInv, SvtTypes, Encoding, Running, WStep
<1>1. CASE Open
  <2> USE <1>1 DEF Open
  <2>0. frames' \in Nat
    OBVIOUS
  <2>1. SvtTypes'
    BY <2>0
  <2>2. HandOver'
    BY DEF HandOver, Given, Taken, Returned
  <2>3. Stream'
    BY <2>0 DEF HandOver, Stream, Packets, Ending, Written, Closed, Unopened, Drained, EndQueued,
           EmptyEnd, Counted
  <2> QED BY <2>1, <2>2, <2>3
<1>2. CASE StoreHandle
  <2> USE <1>2 DEF StoreHandle, drain, encoder
  <2>1. SvtTypes' /\ HandOver'
    BY DEF HandOver, Given, Taken, Returned
  <2>2. Stream'
    BY DEF Stream, Packets, Ending, Written, Closed, Unopened, Drained, EndQueued,
           EmptyEnd, Counted
  <2> QED BY <2>1, <2>2
<1>3. CASE Go
  <2> USE <1>3 DEF Go, encoder
  <2>1. SvtTypes' /\ HandOver'
    BY DEF HandOver, Given, Taken, Returned
  <2>2. Stream'
    BY DEF HandOver, Stream, Packets, Ending, Written, Closed, Unopened, Drained, EndQueued,
           EmptyEnd, Counted
  <2> QED BY <2>1, <2>2
<1>4. CASE Send
  <2> USE <1>4 DEF Send, drain
  <2>1. SvtTypes' /\ HandOver'
    BY DEF HandOver, Given, Taken, Returned
  <2>2. Len(outq) \in Nat /\ Len(sink) \in Nat
    BY QueueFacts
  <2>3. Packets' /\ Ending' /\ Written' /\ Closed' /\ Unopened'
    BY DEF Stream, Packets, Ending, Written, Closed, Unopened, Drained, EndQueued
  <2>4. Counted' /\ (sent <= frames)'
    BY <2>2 DEF Stream, Counted, EmptyEnd
  <2> QED BY <2>1, <2>3, <2>4 DEF Stream
<1>5. CASE Poke
  <2> USE <1>5 DEF Poke, drain, encoder
  <2>1. SvtTypes' /\ HandOver'
    BY DEF HandOver, Given, Taken, Returned
  <2>2. Stream'
    BY DEF Stream, Packets, Ending, Written, Closed, Unopened, Drained, EndQueued,
           EmptyEnd, Counted
  <2> QED BY <2>1, <2>2
<1>6. CASE SendEos
  <2> USE <1>6 DEF SendEos, drain
  <2>1. SvtTypes' /\ HandOver'
    BY DEF HandOver, Given, Taken, Returned
  <2>2. Stream'
    BY DEF Stream, Packets, Ending, Written, Closed, Unopened, Drained, EndQueued,
           EmptyEnd, Counted
  <2> QED BY <2>1, <2>2
<1>7. CASE StopDrain
  <2> USE <1>7 DEF StopDrain, drain, encoder
  <2>1. SvtTypes' /\ HandOver'
    BY DEF HandOver, Given, Taken, Returned
  <2>2. Stream'
    BY DEF Stream, Packets, Ending, Written, Closed, Unopened, Drained, EndQueued,
           EmptyEnd, Counted
  <2> QED BY <2>1, <2>2
<1>8. CASE Close
  <2> USE <1>8 DEF Close, drain, encoder
  <2>1. SvtTypes' /\ HandOver'
    BY DEF HandOver, Given, Taken, Returned
  <2>2. Returned /\ Drained
    BY DEF HandOver, Given, Taken, Returned, Drained
  <2>3. ending = "done" /\ outq = <<>> /\ inq = 0 /\ sent = frames
    BY <2>2 DEF Stream, Ending
  <2>4. Len(sink) = frames /\ sz = Len(sink) /\ enced = Len(sink)
    BY <2>2, <2>3, QueueFacts DEF Returned, Stream, Counted, EmptyEnd, Written
  <2>5. Packets' /\ Counted' /\ Unopened' /\ (sent <= frames)'
    BY DEF Stream, Packets, Counted, EmptyEnd, Unopened
  <2>6. Ending' /\ Written' /\ Closed'
    BY <2>2, <2>3, <2>4 DEF Returned, Stream, Ending, Drained, Written, Closed
  <2> QED BY <2>1, <2>5, <2>6 DEF Stream
<1> QED BY <1>1, <1>2, <1>3, <1>4, <1>5, <1>6, <1>7, <1>8

----------------------------------------------------------------------------
\* The drain thread.

LEMMA DrainStep == ASSUME SvtInv, Drain
                   PROVE SvtInv'
<1> USE DEF SvtInv, SvtTypes, Encoding, Running, DStep
<1>1. CASE Job
  <2> USE <1>1 DEF Job, worker, encoder
  <2>1. SvtTypes' /\ HandOver'
    BY DEF HandOver, Given, Taken, Returned
  <2>2. Given /\ wpc \in Encoding /\ sink = <<>>
    BY DEF HandOver, Given, Taken, Returned, Stream, Written
  <2>3. Packets' /\ Counted' /\ Closed' /\ Unopened' /\ (sent <= frames)'
    BY <2>2 DEF Stream, Packets, Counted, EmptyEnd, Closed, Unopened
  <2>4. Ending' /\ Written'
    BY <2>2 DEF Given, Stream, Ending, Drained, EndQueued, Written
  <2> QED BY <2>1, <2>3, <2>4 DEF Stream
<1>2. CASE Empty \/ Idle \/ Nap \/ Clear
  <2> USE <1>2 DEF Empty, Idle, Nap, Clear, worker, encoder
  <2>1. SvtTypes' /\ HandOver'
    BY DEF HandOver, Given, Taken, Returned
  <2>2. Packets' /\ Counted' /\ Closed' /\ Unopened' /\ (sent <= frames)'
    BY Zenon DEF Stream, Packets, Counted, EmptyEnd, Closed, Unopened
  <2>3. Taken
    BY DEF HandOver, Given, Taken, Returned
  <2>4. (Drained' <=> Drained) /\ (EndQueued' <=> EndQueued)
    BY <2>1 DEF Drained, EndQueued
  <2>5. Ending' /\ Written'
    BY <2>3, <2>4 DEF Taken, Stream, Ending, Written
  <2> QED BY <2>1, <2>2, <2>5 DEF Stream
<1>3. CASE Done
  <2> USE <1>3 DEF Done, worker, encoder
  <2>1. SvtTypes' /\ HandOver'
    BY DEF HandOver, Given, Taken, Returned
  <2>2. Stream'
    BY DEF HandOver, Given, Taken, Returned, Stream, Packets, Ending, Written, Closed,
           Unopened, Drained, EndQueued, EmptyEnd, Counted
  <2> QED BY <2>1, <2>2
<1>4. CASE Take \/ Flush
  <2>1. PICK more \in {"pkt", "flush"} : dpc = more /\ PktBody(more)
    BY <1>4 DEF Take, Flush
  <2> DEFINE p == Head(outq)
  <2>a. /\ outq # <<>> /\ outq' = Tail(outq)
        /\ UNCHANGED <<worker, go, fin, handle, enc, inq, ending>>
        /\ dpc' = IF p.eos THEN "done" ELSE more
        /\ p.frame = 0 => sink' = sink /\ sz' = sz /\ enced' = enced
        /\ p.frame # 0 => sink' = Append(sink, p.frame) /\ sz' = sz + 1 /\ enced' = enced + 1
    BY <2>1 DEF PktBody
  <2>2. /\ p = outq[1] /\ p \in SvtPkt
        /\ outq' \in Seq(SvtPkt) /\ Len(outq') = Len(outq) - 1
        /\ \A i \in 1 .. Len(outq') : outq'[i] = outq[i + 1]
    BY <2>a, HeadTailProperties
  <2>b. p.frame \in Nat /\ p.eos \in BOOLEAN
    BY <2>2 DEF SvtPkt
  <2>d. sent' = sent /\ inq' = inq /\ frames' = frames /\ wpc' = wpc /\ chunk' = chunk
    BY <2>a DEF worker
  <2> HIDE DEF p
  <2>3. Len(outq) \in Nat /\ Len(outq) >= 1 /\ Len(sink) \in Nat
    BY <2>a, QueueFacts
  <2>4. /\ p.frame # 0 => p.frame = Len(sink) + 1
        /\ p.frame = 0 => p.eos
        /\ p.eos => Len(outq) = 1 /\ ending = "done"
    BY <2>2, <2>3 DEF Stream, Packets
  <2>5. /\ sink' \in Seq(Nat)
        /\ Len(sink') = Len(sink) + (IF p.frame = 0 THEN 0 ELSE 1)
        /\ \A i \in 1 .. Len(sink) : sink'[i] = sink[i]
        /\ p.frame # 0 => sink'[Len(sink) + 1] = p.frame
    <3>1. CASE p.frame = 0
      BY <3>1, <2>a, <2>3
    <3>2. CASE p.frame # 0
      <4>1. sink \in Seq(Nat) /\ sink' = Append(sink, p.frame)
        BY <3>2, <2>a
      <4> QED BY <4>1, <3>2, <2>b, <2>3, AppendProperties
    <3> QED BY <3>1, <3>2
  <2>6. Taken /\ wpc \in Encoding /\ fin = 0
    BY <2>1 DEF HandOver, Given, Taken, Returned
  <2>7. SvtTypes'
    BY <2>1, <2>a, <2>2, <2>5, <2>6, <2>b DEF worker
  <2>8. HandOver'
    BY <2>a, <2>1, <2>6, <2>b DEF HandOver, Taken, worker
  <2>c. outq' # <<>> <=> Len(outq') # 0
    BY <2>2, <2>3, EmptySeq
  <2>9. Packets'
    <3> SUFFICES ASSUME NEW i \in 1 .. Len(outq')
                 PROVE  /\ outq'[i].eos => i = Len(outq') /\ ending' = "done"
                        /\ outq'[i].frame = 0 => outq'[i].eos
                        /\ outq'[i].frame # 0 => outq'[i].frame = Len(sink') + i
      BY DEF Packets
    <3>1. outq'[i] = outq[i + 1] /\ i + 1 \in 1 .. Len(outq) /\ i \in Nat
      BY <2>2, <2>3
    <3>2. Len(outq) # 1 /\ p.frame # 0
      BY <3>1, <2>3, <2>4
    <3>3. /\ outq[i + 1].eos => i + 1 = Len(outq) /\ ending = "done"
          /\ outq[i + 1].frame = 0 => outq[i + 1].eos
          /\ outq[i + 1].frame # 0 => outq[i + 1].frame = Len(sink) + i + 1
      BY <3>1, <2>3 DEF Stream, Packets
    <3>4. Len(sink') = Len(sink) + 1 /\ Len(outq') = Len(outq) - 1 /\ ending' = ending
      BY <3>2, <2>2, <2>5, <2>a
    <3>5. (i + 1 = Len(outq) => i = Len(outq')) /\ Len(sink) + i + 1 = Len(sink') + i
      BY <3>1, <3>4, <2>3
    <3> HIDE DEF SvtInv, SvtTypes
    <3> QED BY <3>1, <3>3, <3>4, <3>5
  <2>10. Counted'
    <3>1. CASE Len(outq) = 1
      <4>1. outq' = <<>>
        BY <3>1, <2>2, <2>c
      <4>2. EmptyEnd <=> p.frame = 0
        BY <3>1, <2>2, <2>a DEF EmptyEnd
      <4>3. ~EmptyEnd' /\ Len(outq') = 0
        BY <4>1 DEF EmptyEnd
      <4>4. sent + (IF p.frame = 0 THEN 1 ELSE 0) = inq + Len(sink) + 1
        BY <3>1, <4>2 DEF Stream, Counted
      <4> QED BY <4>3, <4>4, <2>3, <2>5, <2>d DEF Counted
    <3>2. CASE Len(outq) # 1
      <4>1. outq' # <<>> /\ Len(outq') \in 1 .. Len(outq')
        BY <3>2, <2>2, <2>3, <2>c
      <4>2. outq'[Len(outq')] = outq[Len(outq)]
        BY <4>1, <2>2, <2>3
      <4>3. p.frame # 0
        BY <3>2, <2>4
      <4>4. EmptyEnd' <=> EmptyEnd
        BY <4>1, <4>2, <2>a DEF EmptyEnd
      <4>5. Len(sink') = Len(sink) + 1 /\ Len(outq') = Len(outq) - 1
        BY <4>3, <2>2, <2>5
      <4>6. /\ Counted /\ sent' = sent /\ inq' = inq /\ sent \in Nat /\ inq \in Nat
            /\ Len(sink) \in Nat /\ Len(outq) \in Nat
        BY <2>3, <2>d DEF Stream, SvtTypes
      <4> QED BY <4>4, <4>5, <4>6 DEF Counted
    <3> QED BY <3>1, <3>2
  <2>11. Written'
    <3>1. \A i \in 1 .. Len(sink') : sink'[i] = i
      BY <2>3, <2>4, <2>5 DEF Stream, Written
    <3>2. sz' = Len(sink') /\ enced' = Len(sink')
      BY <2>a, <2>3, <2>5, <2>6 DEF Stream, Written, Taken
    <3> QED BY <3>1, <3>2, <2>a, <2>d, <2>6 DEF Written, Taken
  <2>12. Ending'
    <3>1. Drained' <=> p.eos
      BY <2>a, <2>b, <2>1, <2>6 DEF Drained
    <3>2. ~Drained
      BY <2>1, <2>6 DEF Drained
    <3>3. CASE p.eos
      <4>1. outq' = <<>>
        BY <3>3, <2>2, <2>4, <2>c
      <4> QED BY <4>1, <3>1, <3>3, <2>a, <2>4, <2>6 DEF Stream, Ending, worker
    <3>4. CASE ~p.eos
      <4>1. EndQueued' <=> EndQueued
        <5>1. CASE Len(outq) = 1
          BY <5>1, <3>4, <2>2, <2>c DEF EndQueued
        <5>2. CASE Len(outq) # 1
          <6>1. outq' # <<>> /\ Len(outq') \in 1 .. Len(outq')
            BY <5>2, <2>2, <2>3, <2>c
          <6> QED BY <6>1, <2>2, <2>3, <2>a DEF EndQueued
        <5> QED BY <5>1, <5>2
      <4> QED BY <4>1, <3>1, <3>2, <3>4, <2>a, <2>6 DEF Stream, Ending, worker
    <3> QED BY <3>3, <3>4
  <2>13. Closed' /\ Unopened' /\ (sent <= frames)'
    BY <2>a, <2>6 DEF Stream, Closed, Unopened, worker
  <2> QED BY <2>7, <2>8, <2>9, <2>10, <2>11, <2>12, <2>13 DEF Stream
<1> QED BY <1>1, <1>2, <1>3, <1>4 DEF Drain

----------------------------------------------------------------------------
\* The display thread and the encoder.

LEMMA DisplayStep == ASSUME SvtInv, Display
                     PROVE SvtInv'
<1>1. UNCHANGED <<worker, handle, eos, go, fin, drain, encoder>>
  BY DEF Display, Look, Ring
<1> QED BY <1>1 DEF worker, drain, encoder, SvtInv, SvtTypes, HandOver, Given, Taken, Returned,
                Stream, Packets, Counted, Ending, Written, Closed, Unopened, Drained,
                EndQueued, EmptyEnd

\* A packet p joins the queue of a chunk whose last packet is still to come.
LEMMA EmitStep == ASSUME SvtInv, NEW p \in SvtPkt, outq' = Append(outq, p),
                         UNCHANGED <<worker, handle, go, fin, drain>>,
                         wpc \in Encoding, ending \in {"no", "told"}, ending' \in {ending, "done"},
                         inq' \in Nat, ending' = "done" <=> p.eos,
                         p.eos => ending = "told" /\ sent = frames /\ inq' = 0,
                         p.frame = 0 => p.eos /\ inq' = inq,
                         p.frame # 0 => p.frame = Len(sink) + Len(outq) + 1 /\ inq' = inq - 1
                  PROVE SvtInv'
<1> USE DEF SvtInv, SvtTypes, Encoding, Running, worker, drain
<1>1. Len(outq) \in Nat /\ Len(sink) \in Nat /\ p.frame \in Nat /\ p.eos \in BOOLEAN
  BY QueueFacts DEF SvtPkt
<1>2. /\ outq' \in Seq(SvtPkt) /\ Len(outq') = Len(outq) + 1 /\ outq'[Len(outq')] = p
      /\ \A i \in 1 .. Len(outq) : outq'[i] = outq[i]
      /\ outq' # <<>>
  BY <1>1, AppendProperties
<1>3. ~Drained /\ ~EndQueued
  BY DEF Stream, Ending
<1>4. ~EmptyEnd
  BY <1>3, QueueFacts DEF Stream, Packets, EmptyEnd, EndQueued
<1>5. SvtTypes' /\ HandOver'
  BY <1>2 DEF HandOver, Given, Taken, Returned
<1>6. Packets'
  <2> SUFFICES ASSUME NEW i \in 1 .. Len(outq')
               PROVE  /\ outq'[i].eos => i = Len(outq') /\ ending' = "done"
                      /\ outq'[i].frame = 0 => outq'[i].eos
                      /\ outq'[i].frame # 0 => outq'[i].frame = Len(sink') + i
    BY DEF Packets
  <2>1. CASE i = Len(outq')
    BY <2>1, <1>1, <1>2
  <2>2. CASE i # Len(outq')
    <3>1. i \in 1 .. Len(outq) /\ outq'[i] = outq[i]
      BY <2>2, <1>1, <1>2
    <3> QED BY <3>1, <1>1 DEF Stream, Packets
  <2> QED BY <2>1, <2>2
<1>7. Counted'
  <2>1. sent' = sent /\ sink' = sink /\ sent = inq + Len(sink) + Len(outq)
    BY <1>4 DEF Stream, Counted
  <2>2. EmptyEnd' <=> p.frame = 0
    BY <1>2 DEF EmptyEnd
  <2>3. CASE p.frame = 0
    BY <2>3, <1>1, <1>2, <2>1, <2>2 DEF Counted
  <2>4. CASE p.frame # 0
    <3>1. sent \in Nat /\ inq \in Nat /\ inq' = inq - 1
      BY <2>4
    <3>2. sent = inq' + Len(sink) + (Len(outq) + 1)
      BY <3>1, <1>1, <2>1
    <3>3. ~EmptyEnd' /\ Len(outq') = Len(outq) + 1 /\ Len(sink') = Len(sink) /\ sent' = sent
      BY <2>4, <2>1, <2>2, <1>2
    <3> HIDE DEF SvtInv, SvtTypes
    <3> QED BY <3>1, <3>2, <3>3 DEF Counted
  <2> QED BY <2>3, <2>4
<1>8. Ending'
  <2>1. EndQueued' <=> p.eos
    BY <1>2 DEF EndQueued
  <2>2. ~Drained'
    BY <1>3 DEF Drained
  <2>3. wpc' = wpc /\ sent' = sent /\ frames' = frames
    OBVIOUS
  <2>4. wpc \in {"send", "poke"} => ending' = "no"
    BY DEF Stream, Ending
  <2> QED BY <2>1, <2>2, <2>3, <2>4 DEF Stream, Ending
<1>9. Written' /\ Closed' /\ Unopened' /\ (sent <= frames)'
  BY DEF Stream, Written, Closed, Unopened
<1> QED BY <1>5, <1>6, <1>7, <1>8, <1>9 DEF Stream

LEMMA EncoderStep == ASSUME SvtInv, Encoder
                     PROVE SvtInv'
<1>1. CASE EncodeFrame
  <2> USE <1>1 DEF EncodeFrame, Emit
  <2>1. PICK last \in {FALSE, inq = 1 /\ ending = "told"} :
             /\ outq' = Append(outq, [frame |-> sent - inq + 1, eos |-> last])
             /\ ending' = IF last THEN "done" ELSE ending
    OBVIOUS
  <2> DEFINE p == [frame |-> sent - inq + 1, eos |-> last]
  <2>2. inq > 0 /\ wpc \in Encoding /\ ending \in {"no", "told"} /\ inq \in Nat /\ sent \in Nat
    BY DEF SvtInv, SvtTypes, Encoding, Stream, Ending, Written, Closed, Unopened
  <2>3. last \in BOOLEAN /\ (last => inq = 1 /\ ending = "told")
    BY <2>1
  <2>4. ~EmptyEnd
    BY <2>2, QueueFacts DEF SvtInv, Stream, Packets, EmptyEnd
  <2>5. sent - inq = Len(sink) + Len(outq) /\ Len(sink) \in Nat /\ Len(outq) \in Nat
    BY <2>2, <2>4, QueueFacts DEF SvtInv, SvtTypes, Stream, Counted
  <2>6. p \in SvtPkt /\ p.frame = Len(sink) + Len(outq) + 1 /\ p.frame # 0 /\ p.eos = last
    BY <2>3, <2>5 DEF SvtPkt
  <2>7. last => sent = frames
    BY <2>3 DEF SvtInv, Stream, Ending
  <2>8. inq' = inq - 1 /\ inq' \in Nat /\ UNCHANGED <<worker, handle, go, fin, drain>>
    BY <2>2
  <2>9. outq' = Append(outq, p) /\ ending' \in {ending, "done"} /\ (ending' = "done" <=> p.eos)
    BY <2>1, <2>2, <2>3, <2>6
  <2> HIDE <1>1 DEF p, EncodeFrame
  <2> QED BY EmitStep, <2>2, <2>3, <2>6, <2>7, <2>8, <2>9
<1>2. CASE EncodeEnd
  <2> DEFINE p == [frame |-> 0, eos |-> TRUE]
  <2>1. /\ inq = 0 /\ inq' = inq /\ ending = "told" /\ ending' = "done" /\ outq' = Append(outq, p)
        /\ UNCHANGED <<worker, handle, go, fin, drain>>
    BY <1>2 DEF EncodeEnd, Emit
  <2>2. p \in SvtPkt /\ p.frame = 0 /\ p.eos
    BY DEF SvtPkt
  <2>3. wpc \in Encoding /\ sent = frames
    BY <2>1 DEF SvtInv, SvtTypes, Encoding, Stream, Ending, Written, Closed, Unopened
  <2> HIDE DEF p
  <2> QED BY EmitStep, <2>1, <2>2, <2>3
<1> QED BY <1>1, <1>2 DEF Encoder

----------------------------------------------------------------------------
LEMMA SvtStep == ASSUME SvtInv, [Next]_vars PROVE SvtInv'
<1>1. CASE Worker
  BY <1>1, WorkerStep DEF Worker
<1>2. CASE UNCHANGED vars
  BY <1>2 DEF vars, worker, drain, encoder, SvtInv, SvtTypes, HandOver, Given, Taken, Returned,
              Stream, Packets, Ending, Written, Closed, Unopened, Drained, EndQueued,
              EmptyEnd, Counted
<1> QED BY <1>1, <1>2, DrainStep, DisplayStep, EncoderStep DEF Next

\* The state of the hand-over and of the stream is invariant: for any number of chunks
\* and frames, however the two threads, the display and the encoder interleave.
THEOREM DrainInvariant == Spec => []SvtInv
<1>1. SvtInv /\ [Next]_vars => SvtInv'
  BY SvtStep
<1> QED BY SvtStart, <1>1, PTL DEF Spec

\* The drain reads packets and writes the file only between S_GO and S_FIN of the chunk
\* the worker has open, with the handle of this chunk.
THEOREM DrainIsSafe == Spec => []DrainsOwnChunk
<1>1. SvtInv => DrainsOwnChunk
  BY DEF SvtInv, SvtTypes, Encoding, Running, HandOver, Given, Taken, Returned, DrainsOwnChunk
<1> QED BY <1>1, DrainInvariant, PTL

\* When the worker takes S_FIN, the file holds every frame of the chunk once, in order,
\* and the size and the count reported are the number of frames.
THEOREM ChunkIsWhole == Spec => []ChunkWhole
<1>1. SvtInv => ChunkWhole
  <2> SUFFICES ASSUME SvtInv, wpc = "next", chunk > 0
               PROVE sink = [i \in 1 .. frames |-> i] /\ sz = frames /\ enced = frames
    BY DEF ChunkWhole
  <2>1. Len(sink) = frames /\ sz = frames /\ enced = frames /\ sink \in Seq(Nat)
    BY DEF SvtInv, SvtTypes, Stream, Closed
  <2>2. \A i \in 1 .. Len(sink) : sink[i] = i
    BY DEF SvtInv, Stream, Written
  <2> QED BY <2>1, <2>2
<1> QED BY <1>1, DrainInvariant, PTL

----------------------------------------------------------------------------
LEMMA Inductive ==
    ASSUME NEW S, 0 \in S, \A n \in Nat : n \in S => n + 1 \in S
    PROVE Nat \subseteq S
<1> SUFFICES ASSUME Nat \ S # {} PROVE FALSE
  OBVIOUS
<1>1. PICK m \in Nat \ S : \A x \in Nat \ S : ~(<<x, m>> \in OpToRel(<, Nat))
  <2>1. IsWellFoundedOn(OpToRel(<, Nat), Nat)
    BY NatLessThanWellFounded
  <2>2. Nat \ S \subseteq Nat
    OBVIOUS
  <2> QED BY <2>1, <2>2, WFMin
<1>2. m - 1 \in Nat \ S
  <2>1. m # 0 /\ m \in Nat
    BY <1>1
  <2>2. m - 1 \in Nat /\ (m - 1) + 1 = m
    BY <2>1
  <2> QED BY <1>1, <2>2
<1>3. <<m - 1, m>> \in OpToRel(<, Nat)
  <2>0. m \in Nat
    BY <1>1
  <2>3. m - 1 \in Nat
    BY <1>2
  <2>1. m \in Nat /\ m - 1 \in Nat /\ m - 1 < m
    BY <2>0, <2>3
  <2>2. <<m - 1, m>> \in Nat \X Nat
    BY <2>1
  <2> QED BY <2>1, <2>2 DEF OpToRel
<1> QED BY <1>1, <1>2, <1>3

\* What a probe at d says of the crfs on its far side.
SearchGood(d) == search_score[d] > search_target + search_tolerance
SearchBad(d) == search_score[d] < search_target - search_tolerance

SearchTypes ==
    /\ search_score \in [Search!Grid -> Int] /\ search_target \in Int /\ search_tolerance \in Nat
    /\ ~SearchSize.butter => \A c, d \in Search!Grid : c < d => search_score[c] > search_score[d]
    /\ search_searchMin \in SearchSize.qpMin .. SearchSize.qpMax + 1
    /\ search_searchMax \in SearchSize.qpMin - 1 .. SearchSize.qpMax
    /\ search_lastCrf \in Search!Grid /\ search_probes \in Seq(Search!Grid) /\ search_round \in Nat
    /\ search_phase \in {"search", "score", "done"}

\* The crfs that left the range are no closer to the target than some probe.
SearchBelow == \A c \in Search!Grid : c < search_searchMin =>
            \E i \in 1 .. Len(search_probes) : c <= search_probes[i] /\ SearchGood(search_probes[i])
SearchAbove == \A c \in Search!Grid : c > search_searchMax =>
            \E i \in 1 .. Len(search_probes) : search_probes[i] <= c /\ SearchBad(search_probes[i])

\* No probe is in what is left of the range.
SearchSpent == \A i \in 1 .. Len(search_probes) :
                  search_probes[i] < search_searchMin \/ search_searchMax < search_probes[i]
SearchDistinct == \A i, k \in 1 .. Len(search_probes) : search_probes[i] = search_probes[k] => i = k

SearchEnded ==
    /\ search_probes # <<>>
    /\ \/ Search!Diff(search_probes[Len(search_probes)]) <= search_tolerance
       \/ \A c \in Search!Grid : \E i \in 1 .. Len(search_probes) :
             Search!Diff(search_probes[i]) <= Search!Diff(c)

SearchClosing ==
    /\ search_phase # "done" => SearchBelow /\ SearchAbove
    /\ search_phase = "done" => SearchEnded

SearchInv ==
    /\ SearchTypes /\ SearchDistinct
    /\ search_phase # "done" => SearchSpent
    /\ search_phase = "search" => search_searchMin <= search_searchMax
    /\ search_phase = "score"
          => search_searchMin <= search_lastCrf /\ search_lastCrf <= search_searchMax
    /\ ~SearchSize.butter => SearchClosing

----------------------------------------------------------------------------
\* A metric that falls from each crf to the next falls over any distance.
LEMMA SearchFalls ==
    ASSUME Search!SearchAssumption, NEW f \in Search!Monotone
    PROVE /\ f \in [Search!Grid -> Int]
          /\ ~SearchSize.butter => \A c, d \in Search!Grid : c < d => f[c] > f[d]
<1>1. f \in [Search!Grid -> Int]
  BY DEF Search!SearchAssumption, Search!Monotone
<1> SUFFICES ASSUME ~SearchSize.butter PROVE \A c, d \in Search!Grid : c < d => f[c] > f[d]
  BY <1>1
<1> DEFINE S == {n \in Nat : \A c \in Search!Grid : c + n + 1 \in Search!Grid
       => f[c] > f[c + n + 1]}
<1>2. ASSUME NEW c \in Search!Grid, c + 1 \in Search!Grid PROVE f[c] > f[c + 1]
  <2>1. c + 1 \in Search!Grid \ {SearchSize.qpMin} /\ (c + 1) - 1 = c
    BY <1>2 DEF Search!SearchAssumption, Search!Grid
  <2>2. Search!Worse(f[c + 1], f[c])
    BY <2>1 DEF Search!Monotone
  <2> QED BY <1>1, <1>2, <2>2 DEF Search!Worse
<1>3. 0 \in S
  BY <1>2 DEF Search!SearchAssumption, Search!Grid
<1>4. ASSUME NEW n \in Nat, n \in S PROVE n + 1 \in S
  <2> SUFFICES ASSUME NEW c \in Search!Grid, c + (n + 1) + 1 \in Search!Grid
         PROVE f[c] > f[c + (n + 1) + 1]
    OBVIOUS
  <2>1. c + n + 1 \in Search!Grid /\ (c + n + 1) + 1 = c + (n + 1) + 1
    BY DEF Search!SearchAssumption, Search!Grid
  <2>2. f[c] > f[c + n + 1]
    BY <1>4, <2>1
  <2>3. f[c + n + 1] > f[(c + n + 1) + 1]
    BY <1>2, <2>1
  <2> QED BY <1>1, <2>1, <2>2, <2>3
<1>5. Nat \subseteq S
  <2> HIDE DEF S
  <2> QED BY <1>3, <1>4, Inductive
<1>6. ASSUME NEW c \in Search!Grid, NEW d \in Search!Grid, c < d PROVE f[c] > f[d]
  <2>1. d - c - 1 \in Nat /\ c + (d - c - 1) + 1 = d
    BY <1>6 DEF Search!SearchAssumption, Search!Grid
  <2>2. d - c - 1 \in S
    BY <1>5, <2>1
  <2> QED BY <2>1, <2>2
<1> QED BY <1>1, <1>6

LEMMA SearchProbeTypes ==
    ASSUME SearchTypes, Search!SearchAssumption
    PROVE /\ \A c \in Search!Grid : c \in Int /\ search_score[c] \in Int /\ Search!Diff(c) \in Nat
          /\ search_lastCrf \in Search!Grid /\ search_searchMin \in Int /\ search_searchMax \in Int
          /\ Len(search_probes) \in Nat
          /\ \A i \in 1 .. Len(search_probes) : search_probes[i] \in Search!Grid
<1>1. \A c \in Search!Grid :
         c \in Int /\ search_score[c] \in Int /\ search_score[c] - search_target \in Int
  BY DEF SearchTypes, Search!Grid, Search!SearchAssumption
<1>2. \A n \in Int : Search!Abs(n) \in Nat
  BY DEF Search!Abs
<1>3. \A c \in Search!Grid : Search!Diff(c) \in Nat
  BY <1>1, <1>2 DEF Search!Diff
<1>4. search_lastCrf \in Search!Grid /\ search_searchMin \in Int /\ search_searchMax \in Int
         /\ search_probes \in Seq(Search!Grid)
  BY DEF SearchTypes, Search!SearchAssumption
<1> QED BY <1>1, <1>3, <1>4

\* The distance of a crf beyond a probe that is off on that side.
LEMMA SearchFarther ==
    ASSUME SearchTypes, Search!SearchAssumption, ~SearchSize.butter, NEW c \in Search!Grid,
       NEW d \in Search!Grid
    PROVE /\ c <= d /\ SearchGood(d) => Search!Diff(d) <= Search!Diff(c)
          /\ d <= c /\ SearchBad(d) => Search!Diff(d) <= Search!Diff(c)
<1>1. /\ search_score[c] \in Int /\ search_score[d] \in Int /\ search_target \in Int
            /\ search_tolerance \in Nat
      /\ c \in Int /\ d \in Int
  BY DEF SearchTypes, Search!Grid, Search!SearchAssumption
<1>2. (c < d => search_score[c] > search_score[d]) /\ (d < c => search_score[d] > search_score[c])
  BY DEF SearchTypes
<1>3. c = d => search_score[c] = search_score[d]
  OBVIOUS
<1> QED BY <1>1, <1>2, <1>3 DEF Search!Diff, Search!Abs, SearchGood, SearchBad

\* Two probes never contradict each other.
LEMMA SearchNoContradiction ==
    ASSUME SearchInv, Search!SearchAssumption, ~SearchSize.butter, search_phase = "score"
    PROVE ~Search!NonMonotone
<1> SUFFICES ASSUME NEW i \in 1 .. Len(search_probes)
             PROVE ~((search_probes[i] - search_lastCrf) * (search_score[search_probes[i]] - search_score[search_lastCrf]) >= 0)
  BY DEF Search!NonMonotone
<1>1. search_probes[i] < search_searchMin \/ search_searchMax < search_probes[i]
  BY DEF SearchInv, SearchSpent
<1>2. search_searchMin <= search_lastCrf /\ search_lastCrf <= search_searchMax
  BY DEF SearchInv
<1>4. /\ search_probes[i] \in Search!Grid /\ search_lastCrf \in Search!Grid
            /\ search_probes[i] \in Int /\ search_lastCrf \in Int
      /\ search_searchMin \in Int /\ search_searchMax \in Int
      /\ search_score[search_probes[i]] \in Int /\ search_score[search_lastCrf] \in Int
  BY SearchProbeTypes DEF SearchInv
<1>5. search_probes[i] < search_lastCrf \/ search_lastCrf < search_probes[i]
  BY <1>1, <1>2, <1>4
<1>6. /\ search_probes[i] < search_lastCrf
            => search_score[search_probes[i]] > search_score[search_lastCrf]
      /\ search_lastCrf < search_probes[i]
            => search_score[search_lastCrf] > search_score[search_probes[i]]
  BY <1>4 DEF SearchInv, SearchTypes
<1> DEFINE a == search_probes[i] - search_lastCrf
           b == search_score[search_probes[i]] - search_score[search_lastCrf]
<1>7. /\ a \in Int /\ b \in Int
      /\ (a < 0 /\ b > 0) \/ (a > 0 /\ b < 0)
  BY <1>4, <1>5, <1>6
<1>3. \A x, y \in Int : (x < 0 /\ y > 0) \/ (x > 0 /\ y < 0) => ~(x * y >= 0)
  OBVIOUS
<1> HIDE DEF a, b
<1>8. ~(a * b >= 0)
  BY <1>3, <1>7
<1> QED BY <1>8 DEF a, b

LEMMA SearchClampType ==
    ASSUME SearchTypes, Search!SearchAssumption, search_searchMin <= search_searchMax, NEW d \in Int
    PROVE Search!Clamp(d) \in Search!Grid /\ search_searchMin <= Search!Clamp(d)
       /\ Search!Clamp(d) <= search_searchMax
  BY DEF SearchTypes, Search!SearchAssumption, Search!Clamp, Search!Grid

LEMMA SearchStart == ASSUME Search!SearchAssumption, Search!Init PROVE SearchInv
<1>1. search_score \in [Search!Grid -> Int]
         /\ (~SearchSize.butter => \A c, d \in Search!Grid : c < d
               => search_score[c] > search_score[d])
  BY SearchFalls DEF Search!Init
<1> QED BY <1>1
       DEF Search!Init, SearchInv, SearchClosing, SearchTypes, SearchDistinct, SearchBelow,
          SearchAbove, SearchSpent, Search!Grid, Search!SearchAssumption

LEMMA SearchCrfStep ==
    ASSUME SearchInv, Search!SearchAssumption, Search!SearchCrf
    PROVE SearchInv'
<1>0. /\ UNCHANGED <<search_score, search_target, search_tolerance, search_searchMin,
            search_searchMax, search_probes>>
      /\ search_phase' = "score" /\ search_phase = "search" /\ search_round' = search_round + 1
  BY DEF Search!SearchCrf
<1>1. PICK d \in Search!Guesses : search_lastCrf' = Search!Clamp(d)
  BY DEF Search!SearchCrf
<1>2. d \in Int
  BY DEF Search!Guesses, SearchInv, SearchTypes, Search!SearchAssumption
<1>3. /\ search_lastCrf' \in Search!Grid /\ search_searchMin <= search_lastCrf'
      /\ search_lastCrf' <= search_searchMax
  BY <1>0, <1>1, <1>2, SearchClampType DEF SearchInv
<1>4. SearchTypes'
  BY <1>0, <1>3 DEF SearchInv, SearchTypes, Search!Grid
<1>5. (SearchDistinct /\ SearchSpent)' /\ (~SearchSize.butter => (SearchBelow /\ SearchAbove)')
  BY <1>0 DEF SearchInv, SearchClosing, SearchDistinct, SearchBelow, SearchAbove, SearchSpent,
     SearchGood, SearchBad, Search!Grid
<1> QED BY <1>0, <1>3, <1>4, <1>5 DEF SearchInv, SearchClosing

LEMMA SearchVerdictStep ==
    ASSUME SearchInv, Search!SearchAssumption, Search!Verdict
    PROVE SearchInv'
<1>0. /\ UNCHANGED <<search_score, search_target, search_tolerance, search_round, search_lastCrf>>
      /\ search_probes' = Append(search_probes, search_lastCrf) /\ search_phase = "score"
      /\ search_probes \in Seq(Search!Grid) /\ search_lastCrf \in Search!Grid
  BY DEF Search!Verdict, SearchInv, SearchTypes
<1>1. /\ Len(search_probes') = Len(search_probes) + 1 /\ search_probes' \in Seq(Search!Grid)
      /\ search_probes'[Len(search_probes) + 1] = search_lastCrf
      /\ \A i \in 1 .. Len(search_probes) : search_probes'[i] = search_probes[i]
      /\ Len(search_probes) \in Nat /\ search_probes' # <<>>
  BY <1>0
<1>2. SearchDistinct'
  <2>1. \A i \in 1 .. Len(search_probes) : search_probes[i] # search_lastCrf
    <3>1. \A i \in 1 .. Len(search_probes) : search_probes[i] \in Int
      BY SearchProbeTypes DEF SearchInv
    <3>2. search_searchMin \in Int /\ search_searchMax \in Int /\ search_lastCrf \in Int
      BY SearchProbeTypes DEF SearchInv
    <3>3. search_searchMin <= search_lastCrf /\ search_lastCrf <= search_searchMax
      BY <1>0 DEF SearchInv
    <3>4. \A i \in 1 .. Len(search_probes) :
             search_probes[i] < search_searchMin \/ search_searchMax < search_probes[i]
      BY <1>0 DEF SearchInv, SearchSpent
    <3> QED BY <3>1, <3>2, <3>3, <3>4
  <2> QED BY <1>1, <2>1 DEF SearchInv, SearchDistinct
<1>3. CASE Search!Converged \/ Search!NonMonotone
  <2>1. search_phase' = "done" /\ UNCHANGED <<search_searchMin, search_searchMax>>
    BY <1>3 DEF Search!Verdict
  <2>2. Search!Diff(search_lastCrf)' = Search!Diff(search_lastCrf)
    BY <1>0 DEF Search!Diff
  <2>3. ~SearchSize.butter => SearchEnded'
    BY <1>0, <1>1, <1>3, <2>2, SearchNoContradiction DEF SearchEnded, Search!Converged, Search!Diff
  <2>4. SearchTypes'
    BY <1>0, <1>1, <2>1 DEF SearchInv, SearchTypes, Search!Grid
  <2> QED BY <1>2, <2>1, <2>3, <2>4 DEF SearchInv, SearchClosing
<1>4. CASE ~(Search!Converged \/ Search!NonMonotone)
  <2>1. Search!UpBounds /\ search_phase' = IF search_searchMin' > search_searchMax' THEN "done"
           ELSE "search"
    BY <1>0, <1>4 DEF Search!Verdict
  <2>2. /\ search_score[search_lastCrf] \in Int /\ search_target \in Int /\ search_tolerance \in Nat
        /\ search_lastCrf \in Int /\ search_searchMin \in Int /\ search_searchMax \in Int
        /\ search_searchMin <= search_lastCrf /\ search_lastCrf <= search_searchMax
    BY <1>0 DEF SearchInv, SearchTypes, Search!Grid, Search!SearchAssumption
  <2>3. \/ /\ ~SearchSize.butter => SearchGood(search_lastCrf)
           /\ search_searchMin' = search_lastCrf + 1 /\ search_searchMax' = search_searchMax
        \/ /\ ~SearchSize.butter => SearchBad(search_lastCrf)
           /\ search_searchMin' = search_searchMin /\ search_searchMax' = search_lastCrf - 1
    BY <1>4, <2>1, <2>2
       DEF Search!UpBounds, Search!TooGood, Search!TooBad, SearchGood, SearchBad, Search!Converged,
          Search!Diff, Search!Abs
  <2>4. SearchTypes'
    <3>1. search_searchMin' \in SearchSize.qpMin .. SearchSize.qpMax + 1
             /\ search_searchMax' \in SearchSize.qpMin - 1 .. SearchSize.qpMax
      <4>1. /\ search_lastCrf \in SearchSize.qpMin .. SearchSize.qpMax
            /\ search_searchMin \in SearchSize.qpMin .. SearchSize.qpMax + 1
                  /\ search_searchMax \in SearchSize.qpMin - 1 .. SearchSize.qpMax
        BY <1>0 DEF SearchInv, SearchTypes, Search!Grid
      <4> QED BY <2>3, <4>1 DEF Search!SearchAssumption
    <3>2. search_phase' \in {"search", "score", "done"}
      BY <2>1
    <3> QED BY <1>0, <1>1, <3>1, <3>2 DEF SearchInv, SearchTypes, Search!Grid
  <2>5. ~SearchSize.butter => SearchBelow'
    <3> SUFFICES ASSUME ~SearchSize.butter, NEW c \in Search!Grid, c < search_searchMin'
                 PROVE \E i \in 1 .. Len(search_probes') :
                    c <= search_probes'[i] /\ SearchGood(search_probes[i])'
      BY DEF SearchBelow, Search!Grid
    <3>1. \A d \in Search!Grid : SearchGood(d)' <=> SearchGood(d)
      BY <1>0 DEF SearchGood
    <3>2. CASE c < search_searchMin
      <4>1. PICK i \in 1 .. Len(search_probes) :
               c <= search_probes[i] /\ SearchGood(search_probes[i])
        BY <1>0, <3>2 DEF SearchInv, SearchClosing, SearchBelow
      <4>2. i \in 1 .. Len(search_probes') /\ search_probes'[i] = search_probes[i]
        BY <1>1
      <4> QED BY <1>0, <4>1, <4>2 DEF SearchGood
    <3>3. CASE ~(c < search_searchMin)
      <4>1. SearchGood(search_lastCrf) /\ c <= search_lastCrf
        BY <2>2, <2>3, <3>3 DEF Search!Grid, Search!SearchAssumption
      <4>2. Len(search_probes) + 1 \in 1 .. Len(search_probes')
        BY <1>1
      <4> QED BY <1>0, <1>1, <4>1, <4>2 DEF SearchGood
    <3> QED BY <3>2, <3>3
  <2>6. ~SearchSize.butter => SearchAbove'
    <3> SUFFICES ASSUME ~SearchSize.butter, NEW c \in Search!Grid, c > search_searchMax'
                 PROVE \E i \in 1 .. Len(search_probes') :
                    search_probes'[i] <= c /\ SearchBad(search_probes[i])'
      BY DEF SearchAbove, Search!Grid
    <3>2. CASE c > search_searchMax
      <4>1. PICK i \in 1 .. Len(search_probes) :
               search_probes[i] <= c /\ SearchBad(search_probes[i])
        BY <1>0, <3>2 DEF SearchInv, SearchClosing, SearchAbove
      <4>2. i \in 1 .. Len(search_probes') /\ search_probes'[i] = search_probes[i]
        BY <1>1
      <4> QED BY <1>0, <4>1, <4>2 DEF SearchBad
    <3>3. CASE ~(c > search_searchMax)
      <4>1. SearchBad(search_lastCrf) /\ search_lastCrf <= c
        BY <2>2, <2>3, <3>3 DEF Search!Grid, Search!SearchAssumption
      <4>2. Len(search_probes) + 1 \in 1 .. Len(search_probes')
        BY <1>1
      <4> QED BY <1>0, <1>1, <4>1, <4>2 DEF SearchBad
    <3> QED BY <3>2, <3>3
  <2>7. SearchSpent'
    <3> SUFFICES ASSUME NEW i \in 1 .. Len(search_probes')
                 PROVE search_probes'[i] < search_searchMin'
                    \/ search_searchMax' < search_probes'[i]
      BY DEF SearchSpent
    <3>1. CASE i = Len(search_probes) + 1
      BY <1>1, <2>2, <2>3, <3>1
    <3>2. CASE i # Len(search_probes) + 1
      <4>1. i \in 1 .. Len(search_probes) /\ search_probes'[i] = search_probes[i]
               /\ search_probes[i] \in Int
        BY <1>0, <1>1, <3>2 DEF Search!Grid, Search!SearchAssumption
      <4>2. search_probes[i] < search_searchMin \/ search_searchMax < search_probes[i]
        BY <1>0, <4>1 DEF SearchInv, SearchSpent
      <4> QED BY <2>2, <2>3, <4>1, <4>2
    <3> QED BY <3>1, <3>2
  <2>8. ASSUME ~SearchSize.butter, search_searchMin' > search_searchMax' PROVE SearchEnded'
    <3> SUFFICES ASSUME NEW c \in Search!Grid
                 PROVE \E i \in 1 .. Len(search_probes') :
                    Search!Diff(search_probes[i])' <= Search!Diff(c)'
      BY <1>1 DEF SearchEnded, Search!Grid
    <3>1. c < search_searchMin' \/ c > search_searchMax'
      BY <2>2, <2>3, <2>8 DEF Search!Grid, Search!SearchAssumption
    <3>2. CASE c < search_searchMin'
      <4>1. PICK i \in 1 .. Len(search_probes') :
               c <= search_probes'[i] /\ SearchGood(search_probes[i])'
        BY <2>5, <2>8, <3>2 DEF SearchBelow, Search!Grid
      <4>2. search_probes'[i] \in Search!Grid /\ SearchGood(search_probes'[i])
        BY <1>0, <1>1, <4>1 DEF SearchGood
      <4>3. Search!Diff(search_probes'[i]) <= Search!Diff(c)
        BY <2>8, <4>1, <4>2, SearchFarther DEF SearchInv
      <4> QED BY <1>0, <4>3 DEF Search!Diff
    <3>3. CASE c > search_searchMax'
      <4>1. PICK i \in 1 .. Len(search_probes') :
               search_probes'[i] <= c /\ SearchBad(search_probes[i])'
        BY <2>6, <2>8, <3>3 DEF SearchAbove, Search!Grid
      <4>2. search_probes'[i] \in Search!Grid /\ SearchBad(search_probes'[i])
        BY <1>0, <1>1, <4>1 DEF SearchBad
      <4>3. Search!Diff(search_probes'[i]) <= Search!Diff(c)
        BY <2>8, <4>1, <4>2, SearchFarther DEF SearchInv
      <4> QED BY <1>0, <4>3 DEF Search!Diff
    <3> QED BY <3>1, <3>2, <3>3
  <2>9. /\ search_phase' \in {"search", "done"}
        /\ (search_phase' = "done" <=> search_searchMin' > search_searchMax')
        /\ search_searchMin' \in Int /\ search_searchMax' \in Int
    BY <2>1, <2>2, <2>3
  <2> QED BY <1>2, <2>4, <2>5, <2>6, <2>7, <2>8, <2>9 DEF SearchInv, SearchClosing
<1> QED BY <1>3, <1>4

LEMMA SearchStep == ASSUME SearchInv, Search!SearchAssumption, [Search!Next]_(Search!vars)
                       PROVE SearchInv'
<1>1. CASE Search!SearchCrf
  BY <1>1, SearchCrfStep
<1>2. CASE Search!Verdict
  BY <1>2, SearchVerdictStep
<1>3. CASE UNCHANGED Search!vars
  BY <1>3 DEF Search!vars, SearchInv, SearchTypes, SearchClosing, SearchDistinct, SearchBelow,
     SearchAbove, SearchSpent, SearchEnded,
              SearchGood, SearchBad, Search!Diff, Search!Grid
<1> QED BY <1>1, <1>2, <1>3 DEF Search!Next

\* best_probe returns one of the closest probes.
LEMMA SearchBestIsClosest ==
    ASSUME SearchTypes, Search!SearchAssumption, search_probes # <<>>
    PROVE /\ \E i \in 1 .. Len(search_probes) : Search!Best = search_probes[i]
          /\ \A i \in 1 .. Len(search_probes) :
                Search!Diff(Search!Best) <= Search!Diff(search_probes[i])
<1>1. \A i \in 1 .. Len(search_probes) :
         search_probes[i] \in Search!Grid /\ Search!Diff(search_probes[i]) \in Nat
  BY SearchProbeTypes
<1>2. Len(search_probes) \in Nat \ {0}
  BY DEF SearchTypes
<1> DEFINE D == {Search!Diff(search_probes[i]) : i \in 1 .. Len(search_probes)}
           C == {i \in 1 .. Len(search_probes) : \A k \in 1 .. Len(search_probes) :
                   Search!Diff(search_probes[i]) <= Search!Diff(search_probes[k])}
<1>3. ASSUME NEW S \in SUBSET Nat, S # {} PROVE \E m \in S : \A x \in S : m <= x
  <2>1. PICK m \in S : \A x \in S : ~(<<x, m>> \in OpToRel(<, Nat))
    BY <1>3, NatLessThanWellFounded, WFMin
  <2>2. \A x \in Nat : x < m => <<x, m>> \in OpToRel(<, Nat)
    BY DEF OpToRel
  <2>3. \A x \in S : x \in Nat /\ m \in Nat /\ ~(x < m)
    BY <2>1, <2>2
  <2>4. \A x \in S : m <= x
    BY <2>3
  <2> QED BY <2>4
<1>4. C \in SUBSET Nat /\ C # {}
  <2>1. D \in SUBSET Nat /\ D # {}
    BY <1>1, <1>2
  <2>2. PICK m \in D : \A x \in D : m <= x
    BY <1>3, <2>1, Zenon
  <2> QED BY <2>2
<1>5. PICK m \in C : \A x \in C : m <= x
  <2> HIDE DEF C
  <2> QED BY <1>3, <1>4
<1>6. Search!Min(C) \in C
  <2> HIDE DEF C
  <2> QED BY <1>5 DEF Search!Min
<1> QED BY <1>6 DEF Search!Best

LEMMA SearchShows == ASSUME SearchInv, Search!SearchAssumption, ~SearchSize.butter
                        PROVE Search!ShipsClosest
<1> SUFFICES ASSUME search_phase = "done"
             PROVE Search!Diff(Search!Best) <= search_tolerance \/ \A c \in Search!Grid :
                Search!Diff(Search!Best) <= Search!Diff(c)
  BY DEF Search!ShipsClosest
<1>0. SearchTypes /\ SearchEnded
  BY DEF SearchInv, SearchClosing
<1>1. \A i \in 1 .. Len(search_probes) : Search!Diff(Search!Best) <= Search!Diff(search_probes[i])
  BY <1>0, SearchBestIsClosest DEF SearchEnded
<1>2. /\ \A c \in Search!Grid : Search!Diff(c) \in Nat
      /\ \A i \in 1 .. Len(search_probes) : search_probes[i] \in Search!Grid
  BY <1>0, SearchProbeTypes
<1>3. Search!Best \in Search!Grid /\ search_tolerance \in Nat
  BY <1>0, <1>2, SearchBestIsClosest DEF SearchEnded, SearchTypes
<1>4. CASE Search!Diff(search_probes[Len(search_probes)]) <= search_tolerance
  <2>1. Len(search_probes) \in 1 .. Len(search_probes)
    BY <1>0 DEF SearchTypes, SearchEnded
  <2> QED BY <1>1, <1>2, <1>3, <1>4, <2>1
<1>5. ASSUME \A c \in Search!Grid : \E i \in 1 .. Len(search_probes) :
         Search!Diff(search_probes[i]) <= Search!Diff(c)
      PROVE \A c \in Search!Grid : Search!Diff(Search!Best) <= Search!Diff(c)
  BY <1>1, <1>2, <1>3, <1>5
<1> QED BY <1>0, <1>4, <1>5 DEF SearchEnded

LEMMA SearchTable == ASSUME SearchInv PROVE Search!TypeOK /\ Search!InTable
  BY DEF SearchInv, SearchTypes, SearchDistinct, Search!TypeOK, Search!InTable

----------------------------------------------------------------------------
LayChosen == IF lay_tool.hw THEN Lay!HwStrat ELSE Lay!SwStrat

\* The video, the pipe and the arguments, as Init leaves them.
LayInput ==
    /\ /\ lay_tool.enc \in Lay!Encoders /\ lay_tool.hw \in BOOLEAN /\ lay_tool.tq \in BOOLEAN
       /\ lay_tool.alone \in BOOLEAN /\ lay_tool.pipe \in {"none", "8", "10"}
       /\ lay_tool.hw => lay_tool.pipe = "none"
       /\ lay_tool.enc = "avm" => ~lay_tool.tq
    /\ lay_w \in Nat /\ lay_h \in Nat /\ lay_w % 2 = 0 /\ lay_h % 2 = 0
    /\ lay_crop \in Nat \X Nat /\ lay_crop[1] % 2 = 0 /\ lay_crop[2] % 2 = 0
    /\ 2 * lay_crop[1] < lay_h /\ 2 * lay_crop[2] < lay_w
    /\ lay_b10 \in BOOLEAN
    /\ lay_tool.pipe = "none" => lay_linesz \in Nat /\ lay_w * Lay!Pix <= lay_linesz

\* What was derived of it.
LayDerived ==
    /\ lay_pc \in {"choose", "enc", "run"}
    /\ lay_pc = "enc" => lay_strat = LayChosen
    /\ lay_pc = "run" =>
          /\ LayChosen # "unreachable"
          /\ lay_strat = IF ~lay_tool.tq /\ lay_b10 /\ lay_tool.alone THEN Lay!ToRaw(LayChosen)
                ELSE LayChosen
          /\ lay_isNv12 = (LayChosen \in {"HwNv12To10", "HwNv12To10Stride", "HwNv12CropTo10"})
          /\ lay_frameSz = Lay!FrameSz(lay_strat)
          /\ lay_kernel = Lay!Resolve(lay_strat, lay_isNv12, lay_frameSz)

LayInv ==
    LayInput /\ LayDerived

\* The narrowest row exists, and it is not narrower than the frame.
LEMMA LayPaddedWider ==
    ASSUME Lay!LayoutAssumption, NEW n \in Nat, NEW pix \in {1, 2}
    PROVE  Lay!Padded(n, pix) \in Nat /\ n <= Lay!Padded(n, pix)
<1> DEFINE A == 2 * LaySize.align
           Fit == {m \in Nat : n <= m /\ (m * pix) % A = 0}
           q == (n * pix + A - 1) \div A
<1>1. A \in Nat /\ A > 0 /\ A = 2 * LaySize.align /\ LaySize.align \in Nat /\ LaySize.align > 0
  BY DEF Lay!LayoutAssumption
<1> HIDE DEF A
<1>2. q \in Nat /\ n * pix <= q * A /\ q * A < n * pix + A
  <2>1. n * pix \in Nat
    OBVIOUS
  <2> QED BY <1>1, <2>1, Frm!DivBounds
<1> HIDE DEF q
<1>3. \E m \in Fit : m <= n + 4 * LaySize.align
  <2>1. CASE pix = 1
    <3>1. (q * A) % A = 0 /\ q * A \in Nat
      BY <1>1, <1>2, Frm!Multiple
    <3>2. q * A <= n + 4 * LaySize.align
      <4>1. q * A < n + A
        BY <1>2, <2>1
      <4> QED BY <4>1, <3>1, <1>1
    <3>3. n <= q * A /\ (q * A) * pix = q * A
      BY <1>2, <2>1, <3>1
    <3> QED BY <3>1, <3>2, <3>3
  <2>2. CASE pix = 2
    <3>1. (q * A) % A = 0 /\ q * A \in Nat
      BY <1>1, <1>2, Frm!Multiple
    <3>2. (q * LaySize.align) * pix = q * A /\ q * LaySize.align \in Nat
      BY <1>1, <1>2, <2>2
    <3>3. n <= q * LaySize.align /\ q * LaySize.align <= n + 4 * LaySize.align
      <4>1. n * 2 <= (q * LaySize.align) * 2 /\ (q * LaySize.align) * 2 < n * 2 + 2 * LaySize.align
        BY <1>1, <1>2, <2>2, <3>2
      <4> QED BY <4>1, <3>2, <1>1
    <3> QED BY <3>1, <3>2, <3>3
  <2> QED BY <2>1, <2>2
<1>4. PICK m \in Fit : \A k \in Fit : m <= k
  <2>1. Fit \subseteq Nat /\ Fit # {}
    BY <1>3
  <2> QED BY <2>1, Frm!Least
<1>5. m \in n .. n + 4 * LaySize.align /\ (m * pix) % A = 0
  <2>1. PICK k \in Fit : k <= n + 4 * LaySize.align
    BY <1>3
  <2>2. m <= k /\ m \in Nat /\ k \in Nat /\ n <= m /\ (m * pix) % A = 0
    BY <1>4, <2>1
  <2> QED BY <1>1, <2>1, <2>2
<1>6. \A k \in n .. m - 1 : (k * pix) % A # 0
  BY <1>4, <1>1
<1>7. Lay!Padded(n, pix) \in n .. n + 4 * LaySize.align
  BY <1>5, <1>6, <1>1 DEF Lay!Padded, A
<1> QED BY <1>7, <1>1

LEMMA LayStart == ASSUME Lay!LayoutAssumption, Lay!Init PROVE LayInv
<1>1. /\ lay_tool.enc \in Lay!Encoders /\ lay_tool.hw \in BOOLEAN /\ lay_tool.tq \in BOOLEAN
      /\ lay_tool.alone \in BOOLEAN /\ lay_tool.pipe \in {"none", "8", "10"}
      /\ lay_tool.hw => lay_tool.pipe = "none"
      /\ lay_tool.enc = "avm" => ~lay_tool.tq
  BY DEF Lay!LayoutAssumption, Lay!Init
<1>2. lay_w \in Nat /\ lay_h \in Nat /\ lay_w % 2 = 0 /\ lay_h % 2 = 0
  BY DEF Lay!LayoutAssumption, Lay!Init
<1>3. lay_crop \in Nat \X Nat /\ lay_crop[1] % 2 = 0 /\ lay_crop[2] % 2 = 0
  BY DEF Lay!LayoutAssumption, Lay!Init
<1>4. lay_b10 \in BOOLEAN
         /\ (lay_tool.pipe = "none" => lay_linesz \in Nat /\ lay_w * Lay!Pix <= lay_linesz)
  <2>1. PICK file10 \in BOOLEAN :
           /\ lay_b10 = IF lay_tool.pipe = "none" THEN file10 ELSE lay_tool.pipe = "10"
           /\ lay_linesz \in {lay_w * (IF file10 THEN 2 ELSE 1),
                 Lay!Padded(lay_w, IF file10 THEN 2 ELSE 1) * (IF file10 THEN 2 ELSE 1)}
    BY DEF Lay!Init
  <2>2. lay_b10 \in BOOLEAN
    BY <2>1, <1>1
  <2> SUFFICES ASSUME lay_tool.pipe = "none"
         PROVE lay_linesz \in Nat /\ lay_w * Lay!Pix <= lay_linesz
    BY <2>2
  <2>3. lay_b10 = file10 /\ Lay!Pix = (IF file10 THEN 2 ELSE 1) /\ Lay!Pix \in {1, 2}
    BY <2>1 DEF Lay!Pix
  <2>4. Lay!Padded(lay_w, Lay!Pix) \in Nat /\ lay_w <= Lay!Padded(lay_w, Lay!Pix)
    BY <1>2, <2>3, LayPaddedWider
  <2>5. lay_linesz = lay_w * Lay!Pix \/ lay_linesz = Lay!Padded(lay_w, Lay!Pix) * Lay!Pix
    BY <2>1, <2>3
  <2> HIDE DEF Lay!Pix
  <2> QED BY <2>3, <2>4, <2>5, <1>2
<1>5. 2 * lay_crop[1] < lay_h /\ 2 * lay_crop[2] < lay_w
  BY DEF Lay!Init
<1> QED BY <1>1, <1>2, <1>3, <1>4, <1>5 DEF LayInv, LayInput, LayDerived, Lay!Init

LEMMA LayStep == ASSUME LayInv, [Lay!Next]_(Lay!vars) PROVE LayInv'
<1>1. UNCHANGED <<lay_tool, lay_w, lay_h, lay_b10, lay_crop, lay_linesz>>
  BY DEF Lay!Next, Lay!Choose, Lay!EncAll, Lay!vars
<1>2. LayInput'
  BY <1>1 DEF LayInv, LayInput, Lay!Pix
<1>3. /\ Lay!HasCrop' = Lay!HasCrop /\ Lay!HasPad' = Lay!HasPad /\ Lay!Quarter' = Lay!Quarter
      /\ Lay!NewW' = Lay!NewW /\ Lay!NewH' = Lay!NewH
  BY <1>1 DEF Lay!HasCrop, Lay!HasPad, Lay!Quarter, Lay!NewW, Lay!NewH, Lay!Pix
<1>4. Lay!FinalW' = Lay!FinalW /\ Lay!FinalH' = Lay!FinalH
  BY <1>1, <1>3 DEF Lay!FinalW, Lay!FinalH
<1>5. Lay!HwStrat' = Lay!HwStrat
  BY <1>1, <1>3, Zenon DEF Lay!HwStrat, Lay!Divides
<1>6. Lay!SwStrat' = Lay!SwStrat
  BY <1>1, <1>3, <1>4, Zenon DEF Lay!SwStrat, Lay!HasRem, Lay!Divides
<1>7. LayChosen' = LayChosen
  BY <1>1, <1>5, <1>6 DEF LayChosen
<1>8. Lay!FrameSz(lay_strat)' = Lay!FrameSz(lay_strat')
  BY <1>1, <1>4 DEF Lay!FrameSz, Lay!Raw, Lay!PackedSz, Lay!PackedRow, Lay!Sz8
<1>9. Lay!Resolve(lay_strat, lay_isNv12, lay_frameSz)' = Lay!Resolve(lay_strat', lay_isNv12',
         lay_frameSz')
  BY <1>1, <1>4, Zenon
     DEF Lay!Resolve, Lay!AvmEnc, Lay!VvencEnc, Lay!X265Enc, Lay!X264Enc, Lay!SvtCrf, Lay!SvtEnc,
        Lay!Raw,
                           Lay!Nv12Exact, Lay!UnpackExact, Lay!Divides
<1>10. Lay!ToRaw(LayChosen)' = Lay!ToRaw(LayChosen)
  BY <1>7 DEF Lay!ToRaw
<1>11. CASE Lay!Choose
  BY <1>2, <1>7, <1>11 DEF LayInv, LayDerived, Lay!Choose, LayChosen
<1>12. CASE Lay!EncAll
  <2>1. lay_strat = LayChosen
    BY <1>12 DEF Lay!EncAll, LayInv, LayDerived
  <2>2. /\ lay_pc' = "run" /\ lay_strat # "unreachable"
        /\ lay_strat' = IF ~lay_tool.tq /\ lay_b10 /\ lay_tool.alone THEN Lay!ToRaw(lay_strat)
              ELSE lay_strat
        /\ lay_isNv12' = (lay_strat \in {"HwNv12To10", "HwNv12To10Stride", "HwNv12CropTo10"})
        /\ lay_frameSz' = Lay!FrameSz(lay_strat')
        /\ lay_kernel' = Lay!Resolve(lay_strat', lay_isNv12', lay_frameSz')
    BY <1>12 DEF Lay!EncAll
  <2>3. LayDerived'
    BY <1>1, <1>7, <1>8, <1>9, <1>10, <2>1, <2>2 DEF LayDerived
  <2> QED BY <1>2, <2>3 DEF LayInv
<1>13. CASE UNCHANGED Lay!vars
  <2>1. UNCHANGED <<lay_pc, lay_strat, lay_isNv12, lay_frameSz, lay_kernel>>
    BY <1>13 DEF Lay!vars
  <2>2. LayDerived'
    BY <1>1, <1>7, <1>8, <1>9, <1>10, <2>1 DEF LayDerived, LayInv
  <2> QED BY <1>2, <2>2 DEF LayInv
<1> QED BY <1>11, <1>12, <1>13 DEF Lay!Next

----------------------------------------------------------------------------
\* The arms of get_dec_strat, with what each was chosen by.
LEMMA LayArmsHw8 == ASSUME LayInput, lay_tool.hw, ~lay_b10
    PROVE  /\ LayChosen \in {"HwNv12Crop", "HwNv12CropTo10", "HwNv12Stride", "HwNv12To10Stride",
                          "HwNv12To10", "HwNv12", "HwNv12Rem"}
           /\ LayChosen \in {"HwNv12To10", "HwNv12", "HwNv12Rem"} => ~Lay!HasCrop /\ ~Lay!HasPad
           /\ LayChosen \in {"HwNv12To10", "HwNv12To10Stride", "HwNv12CropTo10"} => ~lay_tool.tq
           /\ LayChosen = "HwNv12" => Lay!Divides(2 * LaySize.shift, Lay!Quarter)
  BY DEF LayChosen, Lay!HwStrat, LayInput

LEMMA LayArmsHw10 == ASSUME LayInput, lay_tool.hw, lay_b10
    PROVE  /\ LayChosen \in {"HwP010CropPack", "HwP010CropPackPkRem", "HwP010PackRemPkRemStride",
                          "HwP010Pack", "HwP010PackPkRem", "HwP010PackRem", "HwP010PackRemPkRem"}
           /\ LayChosen \in {"HwP010Pack", "HwP010PackPkRem", "HwP010PackRem", "HwP010PackRemPkRem"}
                 => ~Lay!HasCrop /\ ~Lay!HasPad
           /\ LayChosen \in {"HwP010Pack", "HwP010PackPkRem"}
                 => Lay!Divides(LaySize.shift, Lay!Quarter)
           /\ LayChosen \in {"HwP010CropPack", "HwP010Pack", "HwP010PackRem"}
                 => Lay!Divides(LaySize.pack, Lay!FinalW)
  BY DEF LayChosen, Lay!HwStrat, LayInput, Lay!FinalW

LEMMA LayArmsSw8 == ASSUME LayInput, ~lay_tool.hw, ~lay_b10
    PROVE  /\ LayChosen \in {"B8Fast", "B8Stride", "B8CropFast", "B8Crop"}
           /\ LayChosen \in {"B8Fast", "B8CropFast"}
                 => ~Lay!HasPad /\ (Lay!HasCrop => lay_crop[2] = 0)
  BY DEF LayChosen, Lay!SwStrat, LayInput

LEMMA LayArmsSw10 == ASSUME LayInput, ~lay_tool.hw, lay_b10, LayChosen # "unreachable"
    PROVE  /\ LayChosen \in {"B10Fast", "B10FastRem", "B10StrideRem", "B10CropFast",
                          "B10CropFastRem", "B10Crop", "B10CropRem"}
           /\ LayChosen \in {"B10Fast", "B10FastRem", "B10CropFast", "B10CropFastRem"}
                 => ~Lay!HasPad /\ (Lay!HasCrop => lay_crop[2] = 0)
           /\ LayChosen \in {"B10Fast", "B10CropFast", "B10Crop"}
                 => Lay!Divides(LaySize.pack, Lay!FinalW)
  BY DEF LayChosen, Lay!SwStrat, Lay!HasRem, LayInput

\* A frame fits the kernels of d, and d stores the format that was settled.
LayFormat == IF ~lay_b10 THEN IF lay_isNv12 THEN "nv12" ELSE "planar8"
          ELSE IF lay_strat \in Lay!Raw THEN "planar16" ELSE "packed"

LayPacks == lay_b10 /\ Lay!Divides(LaySize.pack, Lay!FinalW)

LayFits(d) ==
    /\ d.whole => ~Lay!HasPad /\ (Lay!HasCrop => lay_crop[2] = 0 /\ ~lay_tool.hw)
    /\ \/ d.y = 1
       \/ d.y = LaySize.pack /\ LayPacks
       \/ d.y = 2 * LaySize.shift /\ d.whole /\ ~Lay!HasCrop /\ lay_b10
             /\ Lay!Divides(LaySize.shift, Lay!Quarter)
    /\ \/ d.c = 1
       \/ d.c = LaySize.pack /\ LayPacks
       \/ d.c = 2 * LaySize.shift /\ d.whole /\ ~Lay!HasCrop /\ lay_b10
             /\ Lay!Divides(LaySize.shift, Lay!Quarter)
       \/ d.c = 2 * LaySize.shift /\ d.whole /\ ~Lay!HasCrop /\ ~lay_b10
             /\ Lay!Divides(2 * LaySize.shift, Lay!Quarter)
    /\ d.pack # 1 => d.pack = LaySize.pack /\ LayPacks
    /\ d.fmt = LayFormat

\* The table that a strategy is looked up in.
LEMMA LayDomains ==
    /\ DOMAIN Lay!ExtrRaw = {"B10Raw", "B10RawCropFast", "B8Fast", "B8CropFast"}
    /\ DOMAIN Lay!ExtrRawRows = {"B10RawStride", "B10RawCrop", "B8Stride", "B8Crop"}
    /\ DOMAIN Lay!ExtrNv12 = {"HwNv12", "HwNv12Rem", "HwNv12Stride", "HwNv12Crop"}
    /\ DOMAIN Lay!ExtrNv12To10 = {"HwNv12To10", "HwNv12To10Stride", "HwNv12CropTo10"}
    /\ DOMAIN Lay!ExtrP010 = {"HwP010Raw", "HwP010RawRem", "HwP010RawRemStride", "HwP010RawCrop"}
    /\ DOMAIN Lay!HwPack = {"HwP010Pack", "HwP010PackPkRem", "HwP010PackRem", "HwP010PackRemPkRem",
                        "HwP010CropPack", "HwP010CropPackPkRem", "HwP010PackRemPkRemStride"}
    /\ DOMAIN Lay!Extr10 = {"B10Fast", "B10CropFast", "B10Crop"}
  BY DEF Lay!ExtrRaw, Lay!ExtrRawRows, Lay!ExtrNv12, Lay!ExtrNv12To10, Lay!ExtrP010, Lay!HwPack,
     Lay!Extr10
LEMMA LayDispatched ==
    /\ lay_strat \in {"B10Raw", "B10RawCropFast", "B8Fast", "B8CropFast"}
          => Lay!Dispatch = Lay!ExtrRaw
    /\ lay_strat \in {"B10RawStride", "B10RawCrop", "B8Stride", "B8Crop"}
          => Lay!Dispatch = Lay!ExtrRawRows
    /\ lay_strat \in {"HwNv12", "HwNv12Rem", "HwNv12Stride", "HwNv12Crop"}
          => Lay!Dispatch = Lay!ExtrNv12
    /\ lay_strat \in {"HwNv12To10", "HwNv12To10Stride", "HwNv12CropTo10"}
          => Lay!Dispatch = Lay!ExtrNv12To10
    /\ lay_strat \in {"HwP010Raw", "HwP010RawRem", "HwP010RawRemStride", "HwP010RawCrop"}
          => Lay!Dispatch = Lay!ExtrP010
    /\ lay_strat \in {"HwP010Pack", "HwP010PackPkRem", "HwP010PackRem", "HwP010PackRemPkRem",
                  "HwP010CropPack", "HwP010CropPackPkRem", "HwP010PackRemPkRemStride"}
          => Lay!Dispatch = Lay!HwPack
    /\ lay_strat \in {"B10Fast", "B10CropFast", "B10Crop"} => Lay!Dispatch = Lay!Extr10
    /\ lay_strat \in {"B10FastRem", "B10CropFastRem", "B10StrideRem", "B10CropRem"}
          => Lay!Dispatch = Lay!Extr10Rem
  BY LayDomains DEF Lay!Dispatch

\* What the tables say of them.
LEMMA LayRowsNv12 ==
    ASSUME NEW s \in {"HwNv12", "HwNv12Rem", "HwNv12Stride", "HwNv12Crop"}
    PROVE  LET d == Lay!ExtrNv12[s]
           IN  /\ d.fmt = "planar8" /\ d.y = 1 /\ d.pack = 1
               /\ d.c # 1 => d.c = 2 * LaySize.shift /\ s = "HwNv12"
               /\ d.whole => s \in {"HwNv12", "HwNv12Rem"}
               /\ s = "HwNv12" => d.whole
<1>1. CASE s = "HwNv12"
  BY <1>1 DEF Lay!ExtrNv12, Lay!Does
<1>2. CASE s = "HwNv12Rem"
  BY <1>2 DEF Lay!ExtrNv12, Lay!Does
<1>3. CASE s = "HwNv12Stride"
  BY <1>3 DEF Lay!ExtrNv12, Lay!Does
<1>4. CASE s = "HwNv12Crop"
  BY <1>4 DEF Lay!ExtrNv12, Lay!Does
<1> QED BY <1>1, <1>2, <1>3, <1>4

LEMMA LayRowsRaw ==
    ASSUME NEW s \in {"B10Raw", "B10RawCropFast", "B8Fast", "B8CropFast"}
    PROVE  LET d == Lay!ExtrRaw[s]
           IN  /\ s \in {"B8Fast", "B8CropFast"} => d.fmt = "planar8"
               /\ s \in {"B10Raw", "B10RawCropFast"} => d.fmt = "planar16"
               /\ d.y = 1 /\ d.c = 1 /\ d.pack = 1
  BY DEF Lay!ExtrRaw, Lay!Does

LEMMA LayRowsRawRows ==
    ASSUME NEW s \in {"B10RawStride", "B10RawCrop", "B8Stride", "B8Crop"}
    PROVE  LET d == Lay!ExtrRawRows[s]
           IN  /\ s \in {"B8Stride", "B8Crop"} => d.fmt = "planar8"
               /\ s \in {"B10RawStride", "B10RawCrop"} => d.fmt = "planar16"
               /\ d.y = 1 /\ d.c = 1 /\ d.pack = 1
               /\ ~d.whole
  BY DEF Lay!ExtrRawRows, Lay!Does

LEMMA LayRowsNv12To10 ==
    ASSUME NEW s \in {"HwNv12To10", "HwNv12To10Stride", "HwNv12CropTo10"}
    PROVE  LET d == Lay!ExtrNv12To10[s]
           IN  /\ d.fmt = "nv12"
               /\ d.y = 1 /\ d.c = 1 /\ d.pack = 1
               /\ d.whole => s = "HwNv12To10"
  BY DEF Lay!ExtrNv12To10, Lay!Does

LEMMA LayRowsP010 ==
    ASSUME NEW s \in {"HwP010Raw", "HwP010RawRem", "HwP010RawRemStride", "HwP010RawCrop"}
    PROVE  LET d == Lay!ExtrP010[s]
           IN  /\ d.fmt = "planar16" /\ d.pack = 1 /\ d.y = d.c
               /\ d.c # 1 => d.c = 2 * LaySize.shift /\ s = "HwP010Raw"
               /\ d.whole => s \in {"HwP010Raw", "HwP010RawRem"}
               /\ s = "HwP010Raw" => d.whole
  BY DEF Lay!ExtrP010, Lay!Does

LEMMA LayRowsPack ==
    ASSUME NEW s \in {"HwP010Pack", "HwP010PackPkRem", "HwP010PackRem", "HwP010PackRemPkRem",
                  "HwP010CropPack", "HwP010CropPackPkRem", "HwP010PackRemPkRemStride"}
    PROVE  LET d == Lay!HwPack[s]
           IN  /\ d.fmt = "packed" /\ d.y = d.c
               /\ d.c # 1 => d.c = 2 * LaySize.shift /\ s \in {"HwP010Pack", "HwP010PackPkRem"}
               /\ d.pack # 1
                     => d.pack = LaySize.pack
                        /\ s \in {"HwP010Pack", "HwP010PackRem", "HwP010CropPack"}
               /\ d.whole => s \in {"HwP010Pack", "HwP010PackPkRem", "HwP010PackRem",
                     "HwP010PackRemPkRem"}
               /\ s \in {"HwP010Pack", "HwP010PackPkRem"} => d.whole
<1>1. CASE s = "HwP010Pack"
  BY <1>1, Zenon DEF Lay!HwPack, Lay!ExtrP010, Lay!Does
<1>2. CASE s = "HwP010PackPkRem"
  BY <1>2, Zenon DEF Lay!HwPack, Lay!ExtrP010, Lay!Does
<1>3. CASE s = "HwP010PackRem"
  BY <1>3, Zenon DEF Lay!HwPack, Lay!ExtrP010, Lay!Does
<1>4. CASE s = "HwP010PackRemPkRem"
  BY <1>4, Zenon DEF Lay!HwPack, Lay!ExtrP010, Lay!Does
<1>5. CASE s = "HwP010CropPack"
  BY <1>5, Zenon DEF Lay!HwPack, Lay!ExtrP010, Lay!Does
<1>6. CASE s = "HwP010CropPackPkRem"
  BY <1>6, Zenon DEF Lay!HwPack, Lay!ExtrP010, Lay!Does
<1>7. CASE s = "HwP010PackRemPkRemStride"
  BY <1>7, Zenon DEF Lay!HwPack, Lay!ExtrP010, Lay!Does
<1> QED BY <1>1, <1>2, <1>3, <1>4, <1>5, <1>6, <1>7

LEMMA LayRowsTen ==
    ASSUME NEW s \in {"B10Fast", "B10CropFast", "B10Crop"}
    PROVE  LET d == Lay!Extr10[s]
           IN  /\ d.fmt = "packed" /\ d.y = LaySize.pack /\ d.c = LaySize.pack /\ d.pack = 1
               /\ d.whole => s # "B10Crop"
  BY DEF Lay!Extr10, Lay!Does

LEMMA LayRowsTenRem ==
    ASSUME NEW s \in {"B10FastRem", "B10CropFastRem", "B10StrideRem", "B10CropRem"}
    PROVE  LET d == Lay!Extr10Rem[s]
           IN  /\ d.fmt = "packed"
               /\ d.y = 1 /\ d.c = 1 /\ d.pack = 1
               /\ d.whole => s \in {"B10FastRem", "B10CropFastRem"}
  BY DEF Lay!Extr10Rem, Lay!Does

LEMMA LayFileFits == ASSUME LayInv, lay_pc = "run" PROVE LayFits(Lay!DecodesFile)
<1>0. /\ LayInput /\ LayChosen # "unreachable"
      /\ lay_strat = IF ~lay_tool.tq /\ lay_b10 /\ lay_tool.alone THEN Lay!ToRaw(LayChosen)
            ELSE LayChosen
      /\ lay_isNv12 = (LayChosen \in {"HwNv12To10", "HwNv12To10Stride", "HwNv12CropTo10"})
      /\ lay_tool.hw \in BOOLEAN /\ lay_tool.tq \in BOOLEAN /\ lay_tool.alone \in BOOLEAN
            /\ lay_b10 \in BOOLEAN
  BY DEF LayInv, LayDerived, LayInput
<1>1. CASE lay_tool.hw /\ ~lay_b10
  <2>1. lay_strat = LayChosen
    BY <1>0, <1>1
  <2>2. CASE LayChosen \in {"HwNv12", "HwNv12Rem", "HwNv12Stride", "HwNv12Crop"}
    <3>1. Lay!Dispatch = Lay!ExtrNv12 /\ ~lay_isNv12
      BY <1>0, <2>1, <2>2, LayDispatched
    <3>2. /\ lay_strat \in {"HwNv12", "HwNv12Rem"} => ~Lay!HasCrop /\ ~Lay!HasPad
          /\ lay_strat = "HwNv12" => Lay!Divides(2 * LaySize.shift, Lay!Quarter)
      BY <1>1, <2>1, <2>2, LayArmsHw8, <1>0
    <3>3. LayFits(Lay!ExtrNv12[lay_strat])
      BY <1>1, <2>1, <2>2, <3>1, <3>2, LayRowsNv12 DEF LayFits, LayFormat
    <3> QED BY <3>1, <3>3 DEF Lay!DecodesFile
  <2>3. CASE LayChosen \in {"HwNv12To10", "HwNv12To10Stride", "HwNv12CropTo10"}
    <3>1. Lay!Dispatch = Lay!ExtrNv12To10 /\ lay_isNv12
      BY <1>0, <2>1, <2>3, LayDispatched
    <3> QED BY <1>1, <2>1, <2>3, <3>1, LayArmsHw8, <1>0, LayRowsNv12To10
           DEF LayFits, LayFormat, LayPacks, Lay!Divides, Lay!DecodesFile
  <2> QED BY <1>0, <1>1, <2>2, <2>3, LayArmsHw8
<1>2. CASE ~lay_tool.hw /\ ~lay_b10
  <2>1. lay_strat = LayChosen /\ ~lay_isNv12
    BY <1>0, <1>2, LayArmsSw8
  <2>2. CASE LayChosen \in {"B8Fast", "B8CropFast"}
    <3>1. Lay!Dispatch = Lay!ExtrRaw
      BY <2>1, <2>2, LayDispatched
    <3> QED BY <1>2, <2>1, <2>2, <3>1, LayArmsSw8, <1>0, LayRowsRaw
           DEF LayFits, LayFormat, LayPacks, Lay!Divides, Lay!DecodesFile
  <2>3. CASE LayChosen \in {"B8Stride", "B8Crop"}
    <3>1. Lay!Dispatch = Lay!ExtrRawRows
      BY <2>1, <2>3, LayDispatched
    <3> QED BY <1>2, <2>1, <2>3, <3>1, LayArmsSw8, <1>0, LayRowsRawRows
           DEF LayFits, LayFormat, LayPacks, Lay!Divides, Lay!DecodesFile
  <2> QED BY <1>0, <1>2, <2>2, <2>3, LayArmsSw8
<1>3. CASE lay_tool.hw /\ lay_b10
  <2>1. CASE lay_strat = LayChosen
    <3>1. Lay!Dispatch = Lay!HwPack /\ lay_strat \notin Lay!Raw
      BY <1>0, <1>3, <2>1, LayArmsHw10, LayDispatched DEF Lay!Raw
    <3> QED BY <1>3, <2>1, <3>1, LayArmsHw10, <1>0, LayRowsPack
           DEF LayFits, LayFormat, LayPacks, Lay!Divides, Lay!DecodesFile
  <2>2. CASE lay_strat = Lay!ToRaw(LayChosen)
    <3>1. /\ lay_strat \in {"HwP010Raw", "HwP010RawRem", "HwP010RawRemStride", "HwP010RawCrop"}
          /\ lay_strat \in {"HwP010Raw", "HwP010RawRem"} => ~Lay!HasCrop /\ ~Lay!HasPad
          /\ lay_strat = "HwP010Raw" => Lay!Divides(LaySize.shift, Lay!Quarter)
      BY <1>0, <1>3, <2>2, LayArmsHw10 DEF Lay!ToRaw
    <3>2. Lay!Dispatch = Lay!ExtrP010 /\ lay_strat \in Lay!Raw
      BY <3>1, LayDispatched DEF Lay!Raw
    <3> QED BY <1>3, <3>1, <3>2, LayRowsP010
           DEF LayFits, LayFormat, LayPacks, Lay!Divides, Lay!DecodesFile
  <2> QED BY <1>0, <2>1, <2>2
<1>4. CASE ~lay_tool.hw /\ lay_b10
  <2>1. CASE lay_strat = LayChosen
    <3>1. CASE lay_strat \in {"B10Fast", "B10CropFast", "B10Crop"}
      <4>1. Lay!Dispatch = Lay!Extr10 /\ lay_strat \notin Lay!Raw
        BY <3>1, LayDispatched DEF Lay!Raw
      <4> QED BY <1>0, <1>4, <2>1, <3>1, <4>1, LayArmsSw10, LayRowsTen
             DEF LayFits, LayFormat, LayPacks, Lay!Divides, Lay!DecodesFile
    <3>2. CASE lay_strat \in {"B10FastRem", "B10CropFastRem", "B10StrideRem", "B10CropRem"}
      <4>1. Lay!Dispatch = Lay!Extr10Rem /\ lay_strat \notin Lay!Raw
        BY <3>2, LayDispatched DEF Lay!Raw
      <4> QED BY <1>0, <1>4, <2>1, <3>2, <4>1, LayArmsSw10, LayRowsTenRem
             DEF LayFits, LayFormat, LayPacks, Lay!Divides, Lay!DecodesFile
    <3> QED BY <1>0, <1>4, <2>1, <3>1, <3>2, LayArmsSw10
  <2>2. CASE lay_strat = Lay!ToRaw(LayChosen)
    <3>1. /\ lay_strat \in {"B10Raw", "B10RawCropFast", "B10RawStride", "B10RawCrop"}
          /\ lay_strat \in {"B10Raw", "B10RawCropFast"}
                => ~Lay!HasPad /\ (Lay!HasCrop => lay_crop[2] = 0)
      BY <1>0, <1>4, <2>2, LayArmsSw10 DEF Lay!ToRaw
    <3>2. CASE lay_strat \in {"B10Raw", "B10RawCropFast"}
      <4>1. Lay!Dispatch = Lay!ExtrRaw /\ lay_strat \in Lay!Raw
        BY <3>2, LayDispatched DEF Lay!Raw
      <4> QED BY <1>0, <1>4, <3>1, <3>2, <4>1, LayRowsRaw
             DEF LayFits, LayFormat, LayPacks, Lay!Divides, Lay!DecodesFile
    <3>3. CASE lay_strat \in {"B10RawStride", "B10RawCrop"}
      <4>1. Lay!Dispatch = Lay!ExtrRawRows /\ lay_strat \in Lay!Raw
        BY <3>3, LayDispatched DEF Lay!Raw
      <4> QED BY <1>0, <1>4, <3>1, <3>3, <4>1, LayRowsRawRows
             DEF LayFits, LayFormat, LayPacks, Lay!Divides, Lay!DecodesFile
    <3> QED BY <3>1, <3>2, <3>3
  <2> QED BY <1>0, <2>1, <2>2
<1> QED BY <1>0, <1>1, <1>2, <1>3, <1>4

----------------------------------------------------------------------------
\* The sizes that follow from even ones.
LEMMA LayShape == ASSUME Lay!LayoutAssumption, LayInput
    PROVE  /\ Lay!FinalW \in Nat /\ Lay!FinalH \in Nat /\ Lay!FinalW + 2 * lay_crop[2] = lay_w
           /\ Lay!FinalW \div 2 \in Nat /\ Lay!FinalW \div 2 > 0
                 /\ Lay!FinalW = 2 * (Lay!FinalW \div 2)
           /\ Lay!FinalH \div 2 \in Nat /\ Lay!FinalH \div 2 > 0
                 /\ Lay!FinalH = 2 * (Lay!FinalH \div 2)
           /\ lay_w \div 2 \in Nat /\ lay_w = 2 * (lay_w \div 2)
           /\ lay_crop[1] \in Nat /\ lay_crop[1] \div 2 \in Nat
                 /\ lay_crop[1] = 2 * (lay_crop[1] \div 2)
           /\ lay_crop[2] \in Nat /\ lay_crop[2] \div 2 \in Nat
                 /\ lay_crop[2] = 2 * (lay_crop[2] \div 2)
           /\ Lay!Pix \in {1, 2} /\ (lay_b10 => Lay!Pix = 2) /\ (~lay_b10 => Lay!Pix = 1)
           /\ ~Lay!HasCrop
                 => lay_crop[1] = 0 /\ lay_crop[2] = 0 /\ Lay!FinalW = lay_w /\ Lay!FinalH = lay_h
<1>1. /\ lay_w \in Nat /\ lay_h \in Nat /\ lay_w % 2 = 0 /\ lay_h % 2 = 0
      /\ lay_crop \in Nat \X Nat /\ lay_crop[1] \in Nat /\ lay_crop[2] \in Nat
      /\ lay_crop[1] % 2 = 0 /\ lay_crop[2] % 2 = 0 /\ 2 * lay_crop[1] < lay_h
            /\ 2 * lay_crop[2] < lay_w
  BY DEF LayInput
<1>2. ~Lay!HasCrop => lay_crop[1] = 0 /\ lay_crop[2] = 0 /\ Lay!FinalW = lay_w /\ Lay!FinalH = lay_h
  BY <1>1 DEF Lay!HasCrop, Lay!FinalW, Lay!FinalH
<1>3. Lay!FinalW = lay_w - 2 * lay_crop[2] /\ Lay!FinalH = lay_h - 2 * lay_crop[1]
  BY <1>1, <1>2 DEF Lay!FinalW, Lay!FinalH, Lay!NewW, Lay!NewH
<1>4. Lay!FinalW \in Nat /\ Lay!FinalH \in Nat /\ Lay!FinalW > 0 /\ Lay!FinalH > 0
         /\ Lay!FinalW % 2 = 0 /\ Lay!FinalH % 2 = 0
  BY <1>1, <1>3
<1>5. Lay!Pix \in {1, 2} /\ (lay_b10 => Lay!Pix = 2) /\ (~lay_b10 => Lay!Pix = 1)
  BY DEF Lay!Pix
<1> QED BY <1>1, <1>2, <1>3, <1>4, <1>5

\* A row and its crop, in luma and in chroma.
LEMMA LayRows == ASSUME Lay!LayoutAssumption, LayInput, lay_tool.pipe = "none"
    PROVE  /\ lay_linesz \in Nat /\ lay_linesz > 0 /\ lay_crop[2] * Lay!Pix < lay_linesz
           /\ lay_crop[2] * Lay!Pix + Lay!FinalW * Lay!Pix <= lay_linesz
           /\ Lay!LineUv \in Nat
           /\ LET u == IF Lay!Semi THEN lay_crop[2] * Lay!Pix ELSE (lay_crop[2] \div 2) * Lay!Pix
              IN  /\ u \in Nat /\ u < Lay!LineUv
                  /\ u + (Lay!FinalW \div 2) * Lay!Pix * (IF Lay!Semi THEN 2 ELSE 1) <= Lay!LineUv
<1> USE LayShape DEF LayInput
<1>1. CASE lay_b10
  BY <1>1 DEF Lay!LineUv, Lay!Semi
<1>2. CASE ~lay_b10
  BY <1>2 DEF Lay!LineUv, Lay!Semi
<1> QED BY <1>1, <1>2

\* Where the crop begins, by row and within it.
LEMMA LayStarts == ASSUME Lay!LayoutAssumption, LayInput, lay_tool.pipe = "none", NEW d, LayFits(d)
    PROVE  /\ Lay!Start(d.whole) = lay_crop[1] * lay_linesz + lay_crop[2] * Lay!Pix
           /\ Lay!StartUv(d.whole) = (lay_crop[1] \div 2) * Lay!LineUv
                                 + (IF Lay!Semi THEN lay_crop[2] * Lay!Pix
                                    ELSE (lay_crop[2] \div 2) * Lay!Pix)
<1>1. CASE d.whole
  <2>1. lay_linesz = lay_w * Lay!Pix /\ (Lay!HasCrop => lay_crop[2] = 0 /\ ~lay_tool.hw)
    BY <1>1 DEF LayFits, Lay!HasPad
  <2>2. CASE ~Lay!HasCrop
    <3>1. lay_crop[1] = 0 /\ lay_crop[2] = 0 /\ lay_crop[1] \div 2 = 0 /\ lay_crop[2] \div 2 = 0
      BY <2>2, LayShape
    <3>2. lay_w \in Nat /\ lay_linesz \in Nat /\ Lay!LineUv \in Nat /\ Lay!Pix \in Nat
      BY LayRows, LayShape DEF LayInput
    <3> QED BY <1>1, <3>1, <3>2 DEF Lay!Start, Lay!StartUv
  <2>3. CASE Lay!HasCrop
    <3>1. lay_crop[2] = 0 /\ ~Lay!Semi
      BY <2>1, <2>3 DEF Lay!Semi
    <3>2. lay_w \in Nat /\ lay_crop[1] \in Nat /\ Lay!Pix \in {1, 2} /\ lay_crop[1] \div 2 \in Nat
             /\ lay_w \div 2 \in Nat
      BY LayShape DEF LayInput
    <3>3. (lay_crop[1] * lay_w + 0) * Lay!Pix
             = lay_crop[1] * (lay_w * Lay!Pix) + 0 * Lay!Pix
      <4>1. (lay_crop[1] * lay_w) * Lay!Pix = lay_crop[1] * (lay_w * Lay!Pix) /\ Lay!Pix \in Nat
        BY <3>2, Frm!Times
      <4>2. lay_crop[1] * lay_w \in Nat
        BY <3>2
      <4> QED BY <4>1, <4>2
    <3>4. ((lay_crop[1] \div 2) * lay_w) \div 2 = (lay_crop[1] \div 2) * (lay_w \div 2)
      <4>1. PICK x \in Nat : lay_w = 2 * x /\ lay_w \div 2 = x
        BY LayShape
      <4>2. (lay_crop[1] \div 2) * lay_w = 2 * ((lay_crop[1] \div 2) * x)
               /\ (lay_crop[1] \div 2) * x \in Nat
        BY <4>1, <3>2
      <4> QED BY <4>1, <4>2
    <3>5. Lay!LineUv = (lay_w \div 2) * Lay!Pix
      BY <2>1, <3>1, <3>2, LayShape DEF Lay!LineUv
    <3>6. ((lay_crop[1] \div 2) * (lay_w \div 2) + 0) * Lay!Pix
             = (lay_crop[1] \div 2) * ((lay_w \div 2) * Lay!Pix) + 0 * Lay!Pix
      BY <3>2
    <3> QED BY <1>1, <2>1, <3>1, <3>3, <3>4, <3>5, <3>6 DEF Lay!Start, Lay!StartUv
  <2> QED BY <2>2, <2>3
<1>2. CASE ~d.whole
  <2>1. (lay_crop[2] * Lay!Pix) \div 2 = (lay_crop[2] \div 2) * Lay!Pix
    BY LayShape
  <2> QED BY <1>2, <2>1 DEF Lay!Start, Lay!StartUv
<1> QED BY <1>1, <1>2

LEMMA LayBegins == ASSUME Lay!LayoutAssumption, LayInput, lay_tool.pipe = "none", NEW d, LayFits(d)
    PROVE  /\ <<Lay!Start(d.whole) \div lay_linesz, Lay!Start(d.whole) % lay_linesz>> =
                 <<lay_crop[1], lay_crop[2] * Lay!Pix>>
           /\ <<Lay!StartUv(d.whole) \div Lay!LineUv, Lay!StartUv(d.whole) % Lay!LineUv>> =
                 <<lay_crop[1] \div 2, IF Lay!Semi THEN lay_crop[2] * Lay!Pix
                    ELSE (lay_crop[2] \div 2) * Lay!Pix>>
<1>1. /\ lay_crop[1] \in Nat /\ lay_linesz \in Nat /\ lay_crop[2] * Lay!Pix \in Nat
            /\ lay_crop[2] * Lay!Pix < lay_linesz
      /\ lay_crop[1] \div 2 \in Nat /\ Lay!LineUv \in Nat
  BY LayShape, LayRows
<1>2. /\ (lay_crop[1] * lay_linesz + lay_crop[2] * Lay!Pix) \div lay_linesz = lay_crop[1]
      /\ (lay_crop[1] * lay_linesz + lay_crop[2] * Lay!Pix) % lay_linesz = lay_crop[2] * Lay!Pix
  BY <1>1, Frm!Divide
<1> DEFINE u == IF Lay!Semi THEN lay_crop[2] * Lay!Pix ELSE (lay_crop[2] \div 2) * Lay!Pix
<1>3. u \in Nat /\ u < Lay!LineUv
  BY LayRows
<1> HIDE DEF u
<1>4. /\ ((lay_crop[1] \div 2) * Lay!LineUv + u) \div Lay!LineUv = lay_crop[1] \div 2
      /\ ((lay_crop[1] \div 2) * Lay!LineUv + u) % Lay!LineUv = u
  BY <1>1, <1>3, Frm!Divide
<1> QED BY <1>2, <1>4, LayStarts DEF u

\* The kernels of whole chunks end where the plane or the row does.
LEMMA LayWholeChunks == ASSUME Lay!LayoutAssumption, LayInput, NEW d, LayFits(d)
    PROVE  /\ Lay!Divides(d.y, IF d.whole THEN Lay!YSz ELSE Lay!FinalW * Lay!Pix)
           /\ Lay!Divides(d.c, IF d.whole THEN Lay!UvSz ELSE (Lay!FinalW \div 2) * Lay!Pix)
           /\ Lay!Divides(d.pack, Lay!YSz) /\ Lay!Divides(d.pack, Lay!UvSz)
<1> DEFINE fw == Lay!FinalW \div 2
           fh == Lay!FinalH \div 2
<1>1. /\ fw \in Nat /\ fh \in Nat /\ Lay!FinalW = 2 * fw /\ Lay!FinalH = 2 * fh
      /\ fw = Lay!FinalW \div 2 /\ fh = Lay!FinalH \div 2
      /\ Lay!Pix \in {1, 2} /\ (lay_b10 => Lay!Pix = 2) /\ (~lay_b10 => Lay!Pix = 1)
      /\ Lay!FinalW \in Nat /\ Lay!FinalH \in Nat
  BY LayShape
<1>c. LaySize.pack \in Nat /\ LaySize.pack > 0 /\ LaySize.shift \in Nat /\ LaySize.shift > 0
  BY DEF Lay!LayoutAssumption
<1>2. /\ Lay!YSz = Lay!FinalW * Lay!FinalH * Lay!Pix /\ Lay!UvSz = fw * Lay!Pix * fh
      /\ Lay!YSz \in Nat /\ Lay!UvSz \in Nat /\ Lay!FinalW * Lay!Pix \in Nat /\ fw * Lay!Pix \in Nat
  BY <1>1 DEF Lay!YSz, Lay!UvSz
<1> HIDE DEF fw, fh
<1>3. ASSUME LayPacks
      PROVE  /\ Lay!Divides(LaySize.pack, Lay!YSz) /\ Lay!Divides(LaySize.pack, Lay!UvSz)
             /\ Lay!Divides(LaySize.pack, Lay!FinalW * Lay!Pix)
                   /\ Lay!Divides(LaySize.pack, fw * Lay!Pix)
  <2>1. Lay!FinalW % LaySize.pack = 0 /\ Lay!Pix = 2
    BY <1>1, <1>3 DEF LayPacks, Lay!Divides
  <2>2. /\ Lay!FinalW * Lay!Pix = Lay!FinalW * 2 /\ fw * Lay!Pix = Lay!FinalW * 1
        /\ Lay!YSz = Lay!FinalW * (Lay!FinalH * 2) /\ Lay!UvSz = Lay!FinalW * fh
    BY <1>1, <1>2, <2>1
  <2>3. \A k \in Nat : (Lay!FinalW * k) % LaySize.pack = 0
    BY <1>1, <1>c, <2>1, Frm!Divided
  <2>4. Lay!FinalH * 2 \in Nat
    BY <1>1
  <2>5. /\ (Lay!FinalW * (Lay!FinalH * 2)) % LaySize.pack = 0
              /\ (Lay!FinalW * fh) % LaySize.pack = 0
        /\ (Lay!FinalW * 2) % LaySize.pack = 0 /\ (Lay!FinalW * 1) % LaySize.pack = 0
    BY <1>1, <2>3, <2>4
  <2> QED BY <2>2, <2>5 DEF Lay!Divides
<1>4. ASSUME ~Lay!HasCrop, lay_b10, Lay!Divides(LaySize.shift, Lay!Quarter)
      PROVE  Lay!Divides(2 * LaySize.shift, Lay!YSz) /\ Lay!Divides(2 * LaySize.shift, Lay!UvSz)
  <2>1. Lay!Quarter = fw * fh
    BY <1>1, <1>4, LayShape DEF Lay!Quarter
  <2>2. PICK q \in Nat : fw * fh = q * LaySize.shift
    <3>1. fw * fh \in Nat /\ (fw * fh) % LaySize.shift = 0
      BY <1>1, <1>4, <2>1 DEF Lay!Divides
    <3> QED BY <1>c, <3>1, Frm!Quotient, Zenon
  <2>3. Lay!UvSz = 2 * (fw * fh) /\ Lay!YSz = 8 * (fw * fh)
    BY <1>1, <1>2, <1>4
  <2>4. Lay!UvSz = q * (2 * LaySize.shift) /\ Lay!YSz = (4 * q) * (2 * LaySize.shift)
    BY <1>c, <2>2, <2>3
  <2>5. /\ (q * (2 * LaySize.shift)) % (2 * LaySize.shift) = 0
        /\ ((4 * q) * (2 * LaySize.shift)) % (2 * LaySize.shift) = 0
    <3>1. 2 * LaySize.shift \in Nat /\ 2 * LaySize.shift > 0 /\ 4 * q \in Nat
      BY <1>c
    <3> QED BY <3>1, Frm!Multiple
  <2> QED BY <2>4, <2>5 DEF Lay!Divides
<1>5. ASSUME ~Lay!HasCrop, ~lay_b10, Lay!Divides(2 * LaySize.shift, Lay!Quarter)
      PROVE  Lay!Divides(2 * LaySize.shift, Lay!UvSz)
  <2>1. Lay!Quarter = fw * fh /\ Lay!UvSz = fw * fh
    BY <1>1, <1>2, <1>5, LayShape DEF Lay!Quarter
  <2> QED BY <2>1, <1>5
<1>6. \A n \in Nat : Lay!Divides(1, n)
  BY DEF Lay!Divides
<1>7. fw * Lay!Pix = (Lay!FinalW \div 2) * Lay!Pix
  BY <1>1
<1> QED BY <1>2, <1>3, <1>4, <1>5, <1>6, <1>7 DEF LayFits

LEMMA LayCropDecoded == ASSUME Lay!LayoutAssumption, LayInv PROVE Lay!DecodesCrop
<1> SUFFICES ASSUME lay_pc = "run", lay_tool.pipe = "none" PROVE Lay!DecodesCrop
  BY DEF Lay!DecodesCrop
<1>1. LayInput /\ LayFits(Lay!DecodesFile) /\ Lay!Decodes = Lay!DecodesFile
  BY LayFileFits DEF LayInv, Lay!Decodes
<1>2. Lay!DecodesFile.whole => ~Lay!HasPad /\ Lay!FinalW = lay_w
  BY <1>1, LayShape DEF LayFits
<1> QED BY <1>1, <1>2, LayBegins, LayWholeChunks, LayRows DEF Lay!DecodesCrop

----------------------------------------------------------------------------
\* Every encoder resolves its function the same way.
LEMMA LayResolved == ASSUME LayInput
    PROVE  Lay!Resolve(lay_strat, lay_isNv12, lay_frameSz) =
              IF lay_tool.tq THEN Lay!SvtCrf(lay_frameSz)
                 ELSE Lay!SvtEnc(lay_strat, lay_isNv12, lay_frameSz)
  BY DEF LayInput, Lay!Encoders, Lay!Resolve, Lay!AvmEnc, Lay!VvencEnc, Lay!X265Enc, Lay!X264Enc

LEMMA LayReaders == ASSUME LayInput PROVE Lay!Reads[lay_tool.enc] = Lay!SvtReads
  BY DEF LayInput, Lay!Encoders, Lay!Reads, Lay!AvmReads, Lay!VvencReads, Lay!X265Reads,
     Lay!X264Reads

\* Raw frames are of 10 bits, NV12 ones of 8, and neither is searched a crf for.
LEMMA LaySettled == ASSUME LayInv, lay_pc = "run"
    PROVE  (lay_strat \in Lay!Raw => lay_b10 /\ ~lay_tool.tq)
       /\ (lay_isNv12 => lay_tool.hw /\ ~lay_b10 /\ ~lay_tool.tq)
<1>0. /\ LayInput /\ LayChosen # "unreachable"
      /\ lay_strat = IF ~lay_tool.tq /\ lay_b10 /\ lay_tool.alone THEN Lay!ToRaw(LayChosen)
            ELSE LayChosen
      /\ lay_isNv12 = (LayChosen \in {"HwNv12To10", "HwNv12To10Stride", "HwNv12CropTo10"})
      /\ lay_tool.hw \in BOOLEAN /\ lay_tool.tq \in BOOLEAN /\ lay_tool.alone \in BOOLEAN
            /\ lay_b10 \in BOOLEAN
  BY DEF LayInv, LayDerived, LayInput
<1>1. LayChosen \notin Lay!Raw
  BY <1>0, LayArmsHw8, LayArmsHw10, LayArmsSw8, LayArmsSw10 DEF Lay!Raw
<1>2. lay_strat \in Lay!Raw => lay_b10 /\ ~lay_tool.tq
  BY <1>0, <1>1
<1>3. lay_isNv12 => lay_tool.hw /\ ~lay_b10 /\ ~lay_tool.tq
  BY <1>0, LayArmsHw8, LayArmsHw10, LayArmsSw8, LayArmsSw10
<1> QED BY <1>2, <1>3

\* The function that is chosen reads the format that was settled, and was chosen by the sizes.
LEMMA LayKernelReads == ASSUME LayInv, lay_pc = "run"
    PROVE  /\ Lay!Reads[lay_tool.enc][lay_kernel] = LayFormat
           /\ lay_kernel = "nv12" => ~lay_b10 /\ Lay!Nv12Exact
           /\ lay_kernel = "conv"
                 => ~lay_b10 /\ ~lay_isNv12 /\ Lay!Divides(LaySize.shift, lay_frameSz)
           /\ lay_kernel = "unpack"
                 => lay_b10 /\ lay_strat \notin Lay!Raw /\ Lay!UnpackExact(lay_frameSz)
<1>0. /\ LayInput /\ lay_b10 \in BOOLEAN /\ lay_isNv12 \in BOOLEAN /\ lay_tool.tq \in BOOLEAN
      /\ lay_kernel = IF lay_tool.tq THEN Lay!SvtCrf(lay_frameSz)
            ELSE Lay!SvtEnc(lay_strat, lay_isNv12, lay_frameSz)
      /\ Lay!Reads[lay_tool.enc] = Lay!SvtReads
  BY LayResolved, LayReaders DEF LayInv, LayDerived, LayInput
<1>1. CASE lay_strat \in Lay!Raw
  <2>1. lay_b10 /\ ~lay_tool.tq /\ lay_kernel = "direct"
    BY <1>0, <1>1, LaySettled DEF Lay!SvtEnc
  <2> QED BY <1>0, <1>1, <2>1 DEF Lay!SvtReads, LayFormat
<1>2. CASE lay_strat \notin Lay!Raw /\ lay_isNv12
  <2>1. ~lay_b10 /\ ~lay_tool.tq /\ lay_kernel = IF Lay!Nv12Exact THEN "nv12" ELSE "nv12_rem"
    BY <1>0, <1>2, LaySettled DEF Lay!SvtEnc
  <2>2. LayFormat = "nv12"
    BY <1>2, <2>1 DEF LayFormat
  <2>3. CASE Lay!Nv12Exact
    BY <1>0, <2>1, <2>2, <2>3 DEF Lay!SvtReads
  <2>4. CASE ~Lay!Nv12Exact
    BY <1>0, <2>1, <2>2, <2>4 DEF Lay!SvtReads
  <2> QED BY <2>3, <2>4
<1>3. CASE lay_strat \notin Lay!Raw /\ ~lay_isNv12 /\ lay_b10
  <2>1. lay_kernel = IF Lay!UnpackExact(lay_frameSz) THEN "unpack" ELSE "unpack_rem"
    BY <1>0, <1>3 DEF Lay!SvtEnc, Lay!SvtCrf
  <2> QED BY <1>0, <1>3, <2>1 DEF Lay!SvtReads, LayFormat
<1>4. CASE lay_strat \notin Lay!Raw /\ ~lay_isNv12 /\ ~lay_b10
  <2>1. lay_kernel = IF Lay!Divides(LaySize.shift, lay_frameSz) THEN "conv" ELSE "conv_rem"
    BY <1>0, <1>4 DEF Lay!SvtEnc, Lay!SvtCrf
  <2> QED BY <1>0, <1>4, <2>1 DEF Lay!SvtReads, LayFormat
<1> QED BY <1>0, <1>1, <1>2, <1>3, <1>4

\* A frame from a file or from a pipe is stored in the format that was settled.
LEMMA LayDecoded == ASSUME LayInv, lay_pc = "run" PROVE Lay!Decodes.fmt = LayFormat
<1>1. CASE lay_tool.pipe = "none"
  BY <1>1, LayFileFits DEF Lay!Decodes, LayFits
<1>2. CASE lay_tool.pipe # "none"
  <2>1. LayInput /\ ~lay_tool.hw /\ lay_b10 \in BOOLEAN
    BY <1>2 DEF LayInv, LayInput
  <2>2. ~lay_isNv12 /\ (lay_strat \in Lay!Raw => lay_b10)
    BY <2>1, LaySettled DEF LayInv, LayDerived
  <2>3. Lay!Decodes = Lay!DecodesPipe
    BY <1>2 DEF Lay!Decodes
  <2>4. CASE lay_strat \in Lay!Raw
    BY <2>2, <2>3, <2>4 DEF Lay!DecodesPipe, Lay!Does, LayFormat
  <2>5. CASE lay_strat \notin Lay!Raw /\ ~lay_b10
    BY <2>2, <2>3, <2>5 DEF Lay!DecodesPipe, Lay!Does, LayFormat
  <2>6. CASE lay_strat \notin Lay!Raw /\ lay_b10
    <3>1. Lay!Decodes.fmt = "packed"
      <4>1. CASE Lay!HasCrop
        BY <2>3, <2>6, <4>1 DEF Lay!DecodesPipe, Lay!Does
      <4>2. CASE ~Lay!HasCrop
        BY <2>3, <2>6, <4>2 DEF Lay!DecodesPipe, Lay!Does
      <4> QED BY <4>1, <4>2
    <3> QED BY <2>6, <3>1 DEF LayFormat
  <2> QED BY <2>1, <2>4, <2>5, <2>6
<1> QED BY <1>1, <1>2

\* What is stored is as long as what the encoder advances by.
LEMMA LayStoredSize == ASSUME Lay!LayoutAssumption, LayInv, lay_pc = "run", NEW d, d.fmt = LayFormat
                    PROVE  Lay!Stored(d) = lay_frameSz
<1> DEFINE fw == Lay!FinalW \div 2
           fh == Lay!FinalH \div 2
           n == fw * fh
<1>0. LayInput /\ lay_frameSz = Lay!FrameSz(lay_strat) /\ lay_b10 \in BOOLEAN
  BY DEF LayInv, LayDerived, LayInput
<1>1. /\ fw \in Nat /\ fh \in Nat /\ Lay!FinalW = 2 * fw /\ Lay!FinalH = 2 * fh
      /\ fw = Lay!FinalW \div 2 /\ fh = Lay!FinalH \div 2
      /\ (lay_b10 => Lay!Pix = 2) /\ (~lay_b10 => Lay!Pix = 1)
  BY <1>0, LayShape
<1> HIDE DEF fw, fh
<1>2. n \in Nat /\ Lay!FinalW * Lay!FinalH = 4 * n
  BY <1>1
<1>3. CASE lay_strat \in Lay!Raw
  <2>1. lay_b10 /\ d.fmt = "planar16"
    BY <1>0, <1>3, LaySettled DEF LayFormat
  <2>2. Lay!YSz = 8 * n /\ Lay!UvSz = 2 * n
    BY <1>1, <1>2, <2>1 DEF Lay!YSz, Lay!UvSz
  <2>3. Lay!FrameSz(lay_strat) = 12 * n
    BY <1>2, <1>3 DEF Lay!FrameSz
  <2> QED BY <1>0, <1>2, <2>1, <2>2, <2>3 DEF Lay!Stored
<1>4. CASE lay_strat \notin Lay!Raw /\ lay_b10
  <2>1. d.fmt = "packed"
    BY <1>4 DEF LayFormat
  <2>2. Lay!FrameSz(lay_strat) = Lay!PackedRow(Lay!FinalW) * (2 * fh) + Lay!PackedRow(fw) * (2 * fh)
    BY <1>1, <1>4 DEF Lay!FrameSz, Lay!PackedSz
  <2>3. Lay!Stored(d) = Lay!PackedRow(Lay!FinalW) * (2 * fh) + 2 * Lay!PackedRow(fw) * fh
    BY <1>1, <2>1 DEF Lay!Stored
  <2>4. Lay!PackedRow(fw) \in Nat
    BY <1>1 DEF Lay!PackedRow
  <2>5. Lay!PackedRow(fw) * (2 * fh) = 2 * Lay!PackedRow(fw) * fh
    BY <1>1, <2>4
  <2> QED BY <1>0, <2>2, <2>3, <2>5
<1>5. CASE lay_strat \notin Lay!Raw /\ ~lay_b10
  <2>1. d.fmt # "packed"
    BY <1>5 DEF LayFormat
  <2>2. Lay!YSz = 4 * n /\ Lay!UvSz = n
    BY <1>1, <1>2, <1>5 DEF Lay!YSz, Lay!UvSz
  <2>3. Lay!FrameSz(lay_strat) = 6 * n
    <3>1. Lay!FrameSz(lay_strat) = (Lay!FinalW * Lay!FinalH * 3) \div 2
      BY <1>5 DEF Lay!FrameSz, Lay!Sz8
    <3>2. Lay!FinalW * Lay!FinalH * 3 = 12 * n
      BY <1>2
    <3> HIDE DEF n
    <3> QED BY <1>2, <3>1, <3>2
  <2> QED BY <1>0, <1>2, <2>1, <2>2, <2>3 DEF Lay!Stored
<1> QED BY <1>0, <1>3, <1>4, <1>5

\* A row of whole packing chunks has no filler.
LEMMA LayNoFiller == ASSUME Lay!LayoutAssumption, LayInput, Lay!Divides(LaySize.pack, Lay!FinalW)
    PROVE  4 * Lay!PackedRow(Lay!FinalW) = 5 * Lay!FinalW
       /\ 8 * Lay!PackedRow(Lay!FinalW \div 2) = 5 * Lay!FinalW
<1>1. PICK k \in Nat : Lay!FinalW = 8 * k
  <2>1. LaySize.pack \in Nat /\ LaySize.pack > 0 /\ LaySize.pack % 8 = 0
    BY DEF Lay!LayoutAssumption
  <2>2. PICK p \in Nat : LaySize.pack = p * 8
    BY <2>1, Frm!Quotient
  <2>3. Lay!FinalW \in Nat /\ Lay!FinalW % LaySize.pack = 0
    BY LayShape DEF Lay!Divides
  <2>4. PICK q \in Nat : Lay!FinalW = q * LaySize.pack
    BY <2>1, <2>3, Frm!Quotient, Zenon
  <2>5. Lay!FinalW = 8 * (q * p) /\ q * p \in Nat
    BY <2>2, <2>4
  <2> QED BY <2>5
<1>2. Lay!FinalW \div 2 = 4 * k
  BY <1>1
<1>3. Lay!PackedRow(8 * k) = 10 * k
  BY DEF Lay!PackedRow
<1>4. Lay!PackedRow(4 * k) = 5 * k
  BY DEF Lay!PackedRow
<1> QED BY <1>1, <1>2, <1>3, <1>4

LEMMA LayoutRead == ASSUME Lay!LayoutAssumption, LayInv PROVE Lay!EncoderReadsLayout
<1> SUFFICES ASSUME lay_pc = "run" PROVE Lay!EncoderReadsLayout
  BY DEF Lay!EncoderReadsLayout
<1>0. LayInput /\ lay_b10 \in BOOLEAN
  BY DEF LayInv, LayInput
<1>1. Lay!Decodes.fmt = LayFormat /\ Lay!Stored(Lay!Decodes) = lay_frameSz
  BY LayDecoded, LayStoredSize
<1>2. Lay!Decodes.fmt = Lay!Reads[lay_tool.enc][lay_kernel]
  BY <1>1, LayKernelReads
<1>3. lay_kernel = "nv12"
         => Lay!Divides(LaySize.shift, Lay!YSz) /\ Lay!Divides(2 * LaySize.shift, Lay!UvSz)
  <2> SUFFICES ASSUME lay_kernel = "nv12"
         PROVE Lay!Divides(LaySize.shift, Lay!YSz) /\ Lay!Divides(2 * LaySize.shift, Lay!UvSz)
    OBVIOUS
  <2>1. ~lay_b10 /\ Lay!Divides(LaySize.shift, Lay!FinalW * Lay!FinalH)
           /\ Lay!Divides(2 * LaySize.shift, (Lay!FinalW \div 2) * (Lay!FinalH \div 2))
    BY LayKernelReads DEF Lay!Nv12Exact
  <2>2. Lay!YSz = Lay!FinalW * Lay!FinalH /\ Lay!UvSz = (Lay!FinalW \div 2) * (Lay!FinalH \div 2)
    BY <1>0, <2>1, LayShape DEF Lay!YSz, Lay!UvSz
  <2> QED BY <2>1, <2>2
<1>4. lay_kernel = "conv" => Lay!Divides(LaySize.shift, Lay!YSz + 2 * Lay!UvSz)
  <2> SUFFICES ASSUME lay_kernel = "conv" PROVE Lay!Divides(LaySize.shift, Lay!YSz + 2 * Lay!UvSz)
    OBVIOUS
  <2>1. Lay!Decodes.fmt # "packed" /\ Lay!Divides(LaySize.shift, lay_frameSz)
    BY <1>1, LayKernelReads DEF LayFormat
  <2>2. Lay!Stored(Lay!Decodes) = Lay!YSz + 2 * Lay!UvSz
    BY <2>1 DEF Lay!Stored
  <2> QED BY <1>1, <2>1, <2>2
<1>5. lay_kernel = "unpack" => /\ Lay!Divides(LaySize.unpack, Lay!Stored(Lay!Decodes))
                           /\ 4 * Lay!PackedRow(Lay!FinalW) = 5 * Lay!FinalW
                           /\ 8 * Lay!PackedRow(Lay!FinalW \div 2) = 5 * Lay!FinalW
  BY <1>0, <1>1, LayKernelReads, LayNoFiller DEF Lay!UnpackExact
<1> QED BY <1>1, <1>2, <1>3, <1>4, <1>5 DEF Lay!EncoderReadsLayout


----------------------------------------------------------------------------
\* One cardinality, by the names of three modules.
LEMMA NalCards == ASSUME NEW S
                  PROVE  /\ Nal!Cardinality(S) = Cardinality(S)
                         /\ Frm!Cardinality(S) = Cardinality(S)
                         /\ Frm!IsFiniteSet(S) = IsFiniteSet(S)
  BY DEF Nal!Cardinality, Frm!Cardinality, Cardinality, Frm!IsFiniteSet, IsFiniteSet

\* The order of pictures: a chunk is open while it is parsed.
NalOpen == nal_pc \in {"sps", "pps", "pics"}
NalSet == [k : {"sps", "pps", "prefix", "vcl"}, v : Nat]
NalPics == [poc : Nat, ref : BOOLEAN, tid : Nat]
NalLayered == nal_codec # "x264"

NalTypes ==
    /\ nal_codec \in {"x264", "x265", "vvenc"} /\ nal_vary \in BOOLEAN
    /\ nal_pc \in {"next", "sps", "pps", "pics", "done"}
    /\ nal_ci \in 0 .. NalSize.maxChunks /\ nal_varies \subseteq Nal!Kinds
    /\ nal_rec \in [Nal!Kinds -> Nat]
    /\ nal_source \in Seq(Seq(NalSet)) /\ Len(nal_source) = nal_ci
    /\ nal_ranges \in Seq(Nat \X Nat) /\ Len(nal_ranges) = nal_ci
    /\ nal_displays \in Seq(Nat) /\ Len(nal_arena) = Len(nal_displays)
    /\ \E S : nal_arena \in Seq(S)
    /\ nal_order \in Seq(NalPics) /\ nal_msb \in Int /\ nal_lsb \in Nat

\* A chunk whose pictures have their ranks, in places of its own.
NalEnds(c) == nal_ranges[c][1] + nal_ranges[c][2]
NalShown(c) ==
    /\ nal_ranges[c][2] = Cardinality(Nal!Slices(c))
    /\ \A n \in Nal!Slices(c) : nal_displays[nal_ranges[c][1] + Nal!Nth(c, n)] =
           Cardinality({m \in Nal!Slices(c) : nal_source[c][m].v < nal_source[c][n].v})
NalBounded(c) == NalEnds(c) <= (IF NalOpen THEN nal_ranges[nal_ci][1] ELSE Len(nal_displays))
NalEarlier == \A c \in 1 .. nal_ci : c < nal_ci \/ ~NalOpen => NalShown(c) /\ NalBounded(c)

\* The last picture the next count may refer to, and what is kept of its count.
NalCounting(o, k) ==
    k > 0 => \E j \in 1 .. k :
        /\ j = 1 \/ Nal!Anchor(o[j], NalLayered)
        /\ \A m \in j + 1 .. k : ~Nal!Anchor(o[m], NalLayered)
        /\ nal_lsb = o[j].poc % NalSize.cycle /\ nal_msb = o[j].poc - nal_lsb

\* The chunk that is parsed: k pictures of o are behind, under their own counts.
NalParsed(o, k) ==
    /\ Len(nal_order) = Len(o) - k /\ \A i \in 1 .. Len(nal_order) : nal_order[i] = o[k + i]
    /\ nal_pc # "pics" => k = 0
    /\ Cardinality(Nal!Slices(nal_ci)) = k /\ Len(nal_displays) = nal_ranges[nal_ci][1] + k
    /\ \A n \in Nal!Slices(nal_ci) : nal_source[nal_ci][n].v = o[Nal!Nth(nal_ci, n)].poc
    /\ \A i \in 1 .. k : nal_displays[nal_ranges[nal_ci][1] + i] = o[i].poc
    /\ NalCounting(o, k)
NalCurrent == nal_ci > 0 /\ \E o \in NalSize.orders : \E k \in 0 .. Len(o) : NalParsed(o, k)

NalInv == NalTypes /\ NalEarlier /\ (NalOpen => NalCurrent)

----------------------------------------------------------------------------
LEMMA NalOrderIs == ASSUME Nal!NalAssumption, NEW o \in NalSize.orders
                 PROVE  /\ o \in Seq(NalPics) /\ Len(o) \in Nat /\ DOMAIN o = 1 .. Len(o)
                        /\ \A i \in 1 .. Len(o) : o[i] \in NalPics /\ o[i].poc < NalSize.u32
                        /\ Len(o) > 0 => o[1].poc = 0
                        /\ \A i, j \in 1 .. Len(o) : o[i].poc = o[j].poc => i = j
<1> DEFINE P == [poc : 0 .. NalSize.u32 - 1, ref : BOOLEAN, tid : Nat]
<1>1. o \in Seq(P) /\ NalSize.u32 \in Nat
  BY DEF Nal!NalAssumption
<1>2. DOMAIN o = 1 .. Len(o) /\ Len(o) \in Nat
  BY <1>1
<1>3. \A i \in 1 .. Len(o) : o[i] \in NalPics /\ o[i].poc < NalSize.u32
  <2> TAKE i \in 1 .. Len(o)
  <2>1. o[i] \in P
    <3> HIDE DEF P
    <3> QED BY <1>1, <1>2
  <2>2. o[i].poc \in Nat /\ o[i].poc < NalSize.u32
    BY <1>1, <2>1
  <2> QED BY <2>1, <2>2 DEF NalPics
<1>4. o \in [1 .. Len(o) -> NalPics]
  BY <1>1, <1>2, <1>3
<1>5. o \in Seq(NalPics)
  BY <1>2, <1>4, Frm!OfLength
<1>6. Len(o) > 0 => o[1].poc = 0
  <2>1. Len(o) > 0 => o # <<>>
    OBVIOUS
  <2>2. o # <<>> => o[1].poc = 0
    BY DEF Nal!NalAssumption
  <2> QED BY <2>1, <2>2
<1>7. \A i, j \in 1 .. Len(o) : o[i].poc = o[j].poc => i = j
  BY <1>2 DEF Nal!NalAssumption
<1> QED BY <1>2, <1>3, <1>5, <1>6, <1>7

\* A count within half a cycle C of r is recovered from its low bits and r.
NalCarried(C, r, x, l) == IF l < x /\ x - l >= C \div 2 THEN (r - x) + C
                       ELSE IF l > x /\ l - x > C \div 2 THEN (r - x) - C ELSE r - x

LEMMA NalHalfCycle == ASSUME NEW C \in Nat, C > 0, C % 2 = 0, NEW r \in Nat, NEW p \in Nat,
                          2 * (p - r) \in 1 - C .. C
                   PROVE  NalCarried(C, r, r % C, p % C) + (p % C) = p
<1>a. PICK x, l, half, high :
         x = r % C /\ l = p % C /\ half = C \div 2 /\ high = NalCarried(C, r, x, l)
  OBVIOUS
<1>b. high = IF l < x /\ x - l >= half THEN (r - x) + C
             ELSE IF l > x /\ l - x > half THEN (r - x) - C ELSE r - x
  BY <1>a DEF NalCarried
<1>1. half \in Nat /\ C = half * 2
  <2>1. PICK h \in Nat : C = h * 2
    BY Frm!Quotient
  <2>2. (h * 2 + 0) \div 2 = h
    BY Frm!Divide
  <2> QED BY <1>a, <2>1, <2>2
<1>2. PICK a \in Nat : r = a * C + x /\ x \in 0 .. C - 1
  <2>1. r \div C \in Nat /\ r % C \in 0 .. C - 1 /\ r = (r \div C) * C + (r % C)
    OBVIOUS
  <2> QED BY <1>a, <2>1
<1>3. PICK b \in Nat : p = b * C + l /\ l \in 0 .. C - 1
  <2>1. p \div C \in Nat /\ p % C \in 0 .. C - 1 /\ p = (p \div C) * C + (p % C)
    OBVIOUS
  <2> QED BY <1>a, <2>1
<1>4. PICK A \in Nat : A = a * C
  OBVIOUS
<1>5. PICK B \in Nat : B = b * C
  OBVIOUS
<1>6. /\ r = A + x /\ p = B + l /\ x \in Nat /\ l \in Nat /\ x < C /\ l < C
      /\ 2 * (p - r) > -C /\ 2 * (p - r) <= C
  BY <1>2, <1>3, <1>4, <1>5
<1>7. CASE b = a
  <2>1. B = A
    BY <1>4, <1>5, <1>7
  <2>2. p - r = l - x
    BY <1>6, <2>1
  <2>3. ~(l < x /\ x - l >= half) /\ ~(l > x /\ l - x > half)
    BY <1>1, <1>6, <2>2
  <2>4. high + l = p
    BY <1>6, <1>b, <2>1, <2>3
  <2> QED BY <1>a, <2>4
<1>8. CASE b = a + 1
  <2>1. B = A + C
    BY <1>4, <1>5, <1>8
  <2>2. high + l = p
    BY <1>1, <1>6, <1>b, <2>1
  <2> QED BY <1>a, <2>2
<1>9. CASE a = b + 1
  <2>1. A = B + C
    BY <1>4, <1>5, <1>9
  <2>2. high + l = p
    BY <1>1, <1>6, <1>b, <2>1
  <2> QED BY <1>a, <2>2
<1>10. ASSUME NEW i \in Nat, NEW j \in Nat, j >= i + 2 PROVE j * C >= i * C + 2 * C
  <2>1. PICK d \in Nat : j = (i + 2) + d
    BY <1>10
  <2>2. j * C = i * C + 2 * C + d * C /\ d * C \in Nat /\ i * C \in Nat
    BY <2>1
  <2> QED BY <2>2
<1>11. ~(b >= a + 2)
  <2> SUFFICES ASSUME b >= a + 2 PROVE FALSE
    OBVIOUS
  <2>1. B >= A + 2 * C
    BY <1>4, <1>5, <1>10
  <2> QED BY <1>6, <2>1
<1>12. ~(a >= b + 2)
  <2> SUFFICES ASSUME a >= b + 2 PROVE FALSE
    OBVIOUS
  <2>1. A >= B + 2 * C
    BY <1>4, <1>5, <1>10
  <2> QED BY <1>6, <2>1
<1> QED BY <1>7, <1>8, <1>9, <1>11, <1>12

\* Poc::full: a count within half a cycle of the one that is kept comes back from its low bits.
LEMMA NalCountBack == ASSUME Nal!NalAssumption, NEW r \in Nat, NEW p \in Nat, nal_lsb \in Nat,
                          nal_lsb = r % NalSize.cycle, nal_msb = r - nal_lsb,
                             2 * (p - r) \in 1 - NalSize.cycle .. NalSize.cycle
                   PROVE  Nal!Msb(p % NalSize.cycle) + (p % NalSize.cycle) = p
<1>1. NalSize.cycle \in Nat /\ NalSize.cycle > 0 /\ NalSize.cycle % 2 = 0
  BY DEF Nal!NalAssumption
<1>2. NalCarried(NalSize.cycle, r, r % NalSize.cycle, p % NalSize.cycle) + (p % NalSize.cycle) = p
  BY <1>1, NalHalfCycle
<1>3. Nal!Msb(p % NalSize.cycle) = NalCarried(NalSize.cycle, r, r % NalSize.cycle,
         p % NalSize.cycle)
  BY DEF Nal!Msb, NalCarried
<1> QED BY <1>2, <1>3

----------------------------------------------------------------------------
\* The slices of a chunk are counted by Nth.
LEMMA NalSlicesIn == ASSUME NalTypes, NEW c \in 1 .. nal_ci
                  PROVE  Nal!Slices(c) \subseteq Nat /\ IsFiniteSet(Nal!Slices(c))
                            /\ Cardinality(Nal!Slices(c)) \in Nat
<1>1. nal_source[c] \in Seq(NalSet) /\ c \in DOMAIN nal_source
  BY DEF NalTypes
<1>2. DOMAIN nal_source[c] = 1 .. Len(nal_source[c]) /\ Len(nal_source[c]) \in Nat
  BY <1>1
<1>3. IsFiniteSet(1 .. Len(nal_source[c]))
  BY <1>2, FS_Interval
<1>4. Nal!Slices(c) \subseteq 1 .. Len(nal_source[c])
  BY <1>2 DEF Nal!Slices
<1>5. Nal!Slices(c) \subseteq Nat
  BY <1>2, <1>4
<1>6. IsFiniteSet(Nal!Slices(c))
  BY <1>3, <1>4, FS_Subset
<1> QED BY <1>5, <1>6, FS_CardinalityType

LEMMA NalNthIs == ASSUME NalTypes, NEW c \in 1 .. nal_ci
               PROVE  /\ \A n \in Nal!Slices(c) : Nal!Nth(c, n) \in 1 .. Cardinality(Nal!Slices(c))
                      /\ \A m, n \in Nal!Slices(c) : Nal!Nth(c, m) = Nal!Nth(c, n) => m = n
                      /\ \A i \in 1 .. Cardinality(Nal!Slices(c)) : \E n \in Nal!Slices(c) :
                            Nal!Nth(c, n) = i
<1> DEFINE S == Nal!Slices(c)
           N == Cardinality(S)
<1>1. S \subseteq Nat /\ IsFiniteSet(S) /\ N \in Nat
  BY NalSlicesIn
<1>2. \A n : Nal!Nth(c, n) = Frm!Rank(S, n) + 1
  <2> TAKE n
  <2>1. Nal!Nth(c, n) = Cardinality({m \in S : m < n}) + 1
    BY NalCards DEF Nal!Nth
  <2> QED BY <2>1, NalCards DEF Frm!Rank
<1>3. /\ \A x \in S : Frm!Rank(S, x) \in 0 .. N - 1
      /\ \A x, z \in S : Frm!Rank(S, x) = Frm!Rank(S, z) => x = z
      /\ \A i \in 0 .. N - 1 : \E x \in S : Frm!Rank(S, x) = i
  <2> HIDE DEF S
  <2> QED BY <1>1, NalCards, Frm!RankIs, Zenon
<1> HIDE DEF S, N
<1>4. \A n \in S : Nal!Nth(c, n) \in 1 .. N
  BY <1>1, <1>2, <1>3
<1>5. \A m, n \in S : Nal!Nth(c, m) = Nal!Nth(c, n) => m = n
  BY <1>1, <1>2, <1>3
<1>6. ASSUME NEW i \in 1 .. N PROVE \E n \in S : Nal!Nth(c, n) = i
  <2>1. i - 1 \in 0 .. N - 1
    BY <1>1
  <2>2. PICK n \in S : Frm!Rank(S, n) = i - 1
    BY <1>3, <2>1
  <2> QED BY <1>2, <2>2
<1> QED BY <1>4, <1>5, <1>6 DEF S, N

\* What is added to the chunk that is parsed.
LEMMA NalWrites == ASSUME NalTypes, nal_ci > 0, NEW x \in NalSet, Nal!Wrote(x)
                PROVE  /\ nal_source' \in Seq(Seq(NalSet)) /\ Len(nal_source') = nal_ci
                       /\ \A c \in 1 .. nal_ci : c # nal_ci => nal_source'[c] = nal_source[c]
                       /\ nal_source'[nal_ci] = Append(nal_source[nal_ci], x)
                       /\ nal_source[nal_ci] \in Seq(NalSet)
<1>1. nal_source \in Seq(Seq(NalSet)) /\ nal_ci \in 1 .. Len(nal_source) /\ Len(nal_source) = nal_ci
  BY DEF NalTypes
<1>2. nal_source[nal_ci] \in Seq(NalSet)
  BY <1>1
<1>3. Append(nal_source[nal_ci], x) \in Seq(NalSet)
  BY <1>2
<1>4. nal_source' = [nal_source EXCEPT ![nal_ci] = Append(nal_source[nal_ci], x)]
  BY DEF Nal!Wrote
<1> QED BY <1>1, <1>2, <1>3, <1>4

LEMMA NalWritesOther == ASSUME NalTypes, nal_ci > 0, NEW x \in NalSet, Nal!Wrote(x), x.k # "vcl"
                     PROVE  \A c \in 1 .. nal_ci :
                                /\ Nal!Slices(c)' = Nal!Slices(c)
                                /\ \A n \in Nal!Slices(c) : nal_source'[c][n].v = nal_source[c][n].v
<1> SUFFICES ASSUME NEW c \in 1 .. nal_ci
             PROVE  /\ Nal!Slices(c)' = Nal!Slices(c)
                    /\ \A n \in Nal!Slices(c) : nal_source'[c][n].v = nal_source[c][n].v
  OBVIOUS
<1>1. CASE c # nal_ci
  <2>1. nal_source'[c] = nal_source[c]
    BY <1>1, NalWrites
  <2> QED BY <2>1 DEF Nal!Slices
<1>2. CASE c = nal_ci
  <2> DEFINE s == nal_source[nal_ci]
             t == nal_source'[nal_ci]
  <2>1. t = Append(s, x) /\ s \in Seq(NalSet)
    BY NalWrites
  <2>2. /\ Len(s) \in Nat /\ DOMAIN s = 1 .. Len(s) /\ DOMAIN t = 1 .. Len(s) + 1
        /\ t[Len(s) + 1] = x /\ \A n \in 1 .. Len(s) : t[n] = s[n]
    BY <2>1
  <2>3. Nal!Slices(c)' = {n \in DOMAIN t : t[n].k = "vcl"}
           /\ Nal!Slices(c) = {n \in DOMAIN s : s[n].k = "vcl"}
    BY <1>2 DEF Nal!Slices
  <2> HIDE DEF s, t
  <2>4. {n \in DOMAIN t : t[n].k = "vcl"} = {n \in DOMAIN s : s[n].k = "vcl"}
    BY <2>2
  <2>5. \A n \in Nal!Slices(c) : t[n].v = s[n].v
    BY <2>2, <2>3
  <2> QED BY <1>2, <2>3, <2>4, <2>5 DEF s, t
<1> QED BY <1>1, <1>2

LEMMA NalWritesSlice == ASSUME NalTypes, nal_ci > 0, nal_ci' = nal_ci, NEW x \in NalSet,
                                  Nal!Wrote(x), x.k = "vcl",
                            NEW N \in Nat, N = Len(nal_source[nal_ci]) + 1
                     PROVE  /\ Nal!Slices(nal_ci)' = Nal!Slices(nal_ci) \cup {N}
                            /\ N \notin Nal!Slices(nal_ci)
                            /\ Cardinality(Nal!Slices(nal_ci))' = Cardinality(Nal!Slices(nal_ci)) + 1
                            /\ nal_source'[nal_ci][N].v = x.v
                            /\ \A n \in Nal!Slices(nal_ci) :
                                  nal_source'[nal_ci][n].v = nal_source[nal_ci][n].v
                            /\ Nal!Nth(nal_ci, N)' = Cardinality(Nal!Slices(nal_ci)) + 1
                            /\ \A n \in Nal!Slices(nal_ci) :
                                  Nal!Nth(nal_ci, n)' = Nal!Nth(nal_ci, n)
<1> DEFINE s == nal_source[nal_ci]
           t == nal_source'[nal_ci]
           V == Nal!Slices(nal_ci)
           W == Nal!Slices(nal_ci)'
<1>1. t = Append(s, x) /\ s \in Seq(NalSet)
  BY NalWrites
<1>2. /\ Len(s) \in Nat /\ DOMAIN s = 1 .. Len(s) /\ DOMAIN t = 1 .. Len(s) + 1
      /\ N = Len(s) + 1 /\ t[N] = x /\ \A n \in 1 .. Len(s) : t[n] = s[n]
  BY <1>1
<1>3. W = {n \in DOMAIN t : t[n].k = "vcl"} /\ V = {n \in DOMAIN s : s[n].k = "vcl"}
  BY DEF Nal!Slices
<1>4. V \subseteq 1 .. Len(s) /\ IsFiniteSet(V) /\ Cardinality(V) \in Nat
  <2>1. nal_ci \in 1 .. nal_ci
    BY DEF NalTypes
  <2> QED BY <1>2, <1>3, <2>1, NalSlicesIn
<1>5. \A n : /\ Nal!Nth(nal_ci, n)' = Cardinality({m \in W : m < n}) + 1
             /\ Nal!Nth(nal_ci, n) = Cardinality({m \in V : m < n}) + 1
  BY NalCards DEF Nal!Nth
<1> HIDE DEF s, t, V, W
<1>6. W = V \cup {N} /\ N \notin V
  BY <1>2, <1>3
<1>7. Cardinality(W) = Cardinality(V) + 1
  BY <1>4, <1>6, FS_AddElement
<1>8. {m \in W : m < N} = V /\ \A n \in V : {m \in W : m < n} = {m \in V : m < n}
  <2>1. \A n \in V : n \in Nat /\ n < N
    BY <1>2, <1>4
  <2>2. ~(N < N) /\ \A n \in V : ~(N < n)
    BY <1>2, <2>1
  <2> QED BY <1>6, <2>1, <2>2
<1>9. t[N].v = x.v /\ \A n \in V : t[n].v = s[n].v
  BY <1>2, <1>4
<1>10. Nal!Nth(nal_ci, N)' = Cardinality(V) + 1 /\ \A n \in V :
          Nal!Nth(nal_ci, n)' = Nal!Nth(nal_ci, n)
  <2>1. Nal!Nth(nal_ci, N)' = Cardinality(V) + 1
    <3>1. Nal!Nth(nal_ci, N)' = Cardinality({m \in W : m < N}) + 1
      BY <1>5
    <3> QED BY <1>8, <3>1, Zenon
  <2>2. ASSUME NEW n \in V PROVE Nal!Nth(nal_ci, n)' = Nal!Nth(nal_ci, n)
    <3>1. /\ Nal!Nth(nal_ci, n)' = Cardinality({m \in W : m < n}) + 1
          /\ Nal!Nth(nal_ci, n) = Cardinality({m \in V : m < n}) + 1
      BY <1>5
    <3>2. {m \in W : m < n} = {m \in V : m < n}
      BY <1>8
    <3> QED BY <3>1, <3>2
  <2> QED BY <2>1, <2>2
<1>11. Cardinality(Nal!Slices(nal_ci))' = Cardinality(W)
  BY DEF W
<1> QED BY <1>6, <1>7, <1>9, <1>10, <1>11 DEF s, t, V, W

\* A chunk keeps its ranks while what they rest on is left alone.
LEMMA NalShownStill ==
    ASSUME NalTypes, NEW c \in 1 .. nal_ci, NalShown(c), Nal!Slices(c)' = Nal!Slices(c),
           \A n \in Nal!Slices(c) :
              nal_source'[c][n].v = nal_source[c][n].v, nal_ranges'[c] = nal_ranges[c],
           \A i \in 1 .. NalEnds(c) : nal_displays'[i] = nal_displays[i]
    PROVE NalShown(c)' /\ NalEnds(c)' = NalEnds(c) /\ NalEnds(c) \in Nat
<1> DEFINE V == Nal!Slices(c)
<1>1. nal_ranges[c] \in Nat \X Nat
  BY DEF NalTypes
<1>2. NalEnds(c)' = NalEnds(c) /\ NalEnds(c) \in Nat
  BY <1>1 DEF NalEnds
<1>3. ASSUME NEW n \in V
      PROVE nal_displays'[nal_ranges[c][1] + Nal!Nth(c, n)] = Cardinality({m \in V :
               nal_source'[c][m].v < nal_source'[c][n].v})
  <2>1. Nal!Nth(c, n) \in 1 .. nal_ranges[c][2]
    BY NalNthIs DEF NalShown
  <2>2. nal_ranges[c][1] + Nal!Nth(c, n) \in 1 .. NalEnds(c)
    BY <1>1, <2>1 DEF NalEnds
  <2>3. {m \in V : nal_source'[c][m].v < nal_source'[c][n].v} = {m \in V :
           nal_source[c][m].v < nal_source[c][n].v}
    OBVIOUS
  <2>4. nal_displays[nal_ranges[c][1] + Nal!Nth(c, n)] = Cardinality({m \in V :
           nal_source[c][m].v < nal_source[c][n].v})
    BY DEF NalShown
  <2> QED BY <2>2, <2>3, <2>4
<1>4. \A n : Nal!Nth(c, n)' = Nal!Nth(c, n)
  BY DEF Nal!Nth
<1>5. NalShown(c)'
  BY <1>3, <1>4 DEF NalShown
<1> QED BY <1>2, <1>5

----------------------------------------------------------------------------
LEMMA NalStart == ASSUME Nal!NalAssumption, Nal!Init PROVE NalInv
<1>1. /\ nal_codec \in {"x264", "x265", "vvenc"} /\ nal_vary \in BOOLEAN /\ nal_pc = "next"
      /\ nal_ci = 0
      /\ nal_order = <<>> /\ nal_arena = <<>> /\ nal_displays = <<>> /\ nal_rec = Nal!NoSets
      /\ nal_varies = {}
      /\ nal_ranges = <<>> /\ nal_source = <<>> /\ nal_msb = 0 /\ nal_lsb = 0
  BY DEF Nal!Init
<1>2. nal_arena \in Seq({}) /\ nal_rec \in [Nal!Kinds -> Nat] /\ NalSize.maxChunks \in Nat
  BY <1>1 DEF Nal!NoSets, Nal!NalAssumption
<1>3. NalTypes
  BY <1>1, <1>2 DEF NalTypes
<1>4. 1 .. nal_ci = {} /\ ~NalOpen
  BY <1>1 DEF NalOpen
<1> QED BY <1>3, <1>4 DEF NalInv, NalEarlier

LEMMA NalStartStep == ASSUME Nal!NalAssumption, NalInv, Nal!StartChunk PROVE NalInv'
<1>1. /\ nal_pc = "next" /\ nal_ci \in Nat /\ nal_ci + 1 <= NalSize.maxChunks
      /\ nal_ci' = nal_ci + 1 /\ nal_pc' = "sps"
      /\ nal_order' \in NalSize.orders
      /\ nal_ranges' = Append(nal_ranges, <<Len(nal_arena), 0>>)
      /\ nal_source' = Append(nal_source, <<>>)
      /\ nal_msb' = 0 /\ nal_lsb' = 0
      /\ UNCHANGED <<nal_codec, nal_vary, nal_arena, nal_displays, nal_rec, nal_varies>>
  <2>1. nal_ci \in Nat /\ NalSize.maxChunks \in Nat
    BY DEF NalInv, NalTypes, Nal!NalAssumption
  <2> QED BY <2>1 DEF Nal!StartChunk
<1>2. NalTypes
  BY DEF NalInv
<1> DEFINE L == Len(nal_displays)
<1>3. L \in Nat /\ Len(nal_arena) = L /\ Len(nal_ranges) = nal_ci /\ Len(nal_source) = nal_ci
  BY <1>2 DEF NalTypes
<1>4. /\ nal_ranges' \in Seq(Nat \X Nat) /\ Len(nal_ranges') = nal_ci + 1
      /\ nal_ranges'[nal_ci + 1] = <<L, 0>>
      /\ \A c \in 1 .. nal_ci : nal_ranges'[c] = nal_ranges[c]
  BY <1>1, <1>2, <1>3 DEF NalTypes
<1>5. /\ nal_source' \in Seq(Seq(NalSet)) /\ Len(nal_source') = nal_ci + 1
      /\ nal_source'[nal_ci + 1] = <<>>
      /\ \A c \in 1 .. nal_ci : nal_source'[c] = nal_source[c]
  <2>1. <<>> \in Seq(NalSet) /\ nal_source \in Seq(Seq(NalSet))
    BY <1>2 DEF NalTypes
  <2> DEFINE T == Seq(NalSet)
             z == <<>>
  <2>2. z \in T /\ nal_source \in Seq(T) /\ nal_source' = Append(nal_source, z)
    BY <1>1, <2>1
  <2> HIDE DEF T, z
  <2>3. /\ nal_source' \in Seq(T) /\ Len(nal_source') = nal_ci + 1 /\ nal_source'[nal_ci + 1] = z
        /\ \A c \in 1 .. nal_ci : nal_source'[c] = nal_source[c]
    BY <1>1, <1>3, <2>2
  <2> QED BY <2>3 DEF T, z
<1>6. PICK o \in NalSize.orders : nal_order' = o
  BY <1>1
<1>7. o \in Seq(NalPics) /\ Len(o) \in Nat
  BY NalOrderIs
<1>8. NalTypes'
  <2>1. nal_ci' \in 0 .. NalSize.maxChunks
    BY <1>1
  <2>2. \E S : nal_arena' \in Seq(S)
    BY <1>1, <1>2 DEF NalTypes
  <2>3. /\ nal_codec' \in {"x264", "x265", "vvenc"} /\ nal_vary' \in BOOLEAN
        /\ nal_varies' \subseteq Nal!Kinds
        /\ nal_rec' \in [Nal!Kinds -> Nat] /\ nal_displays' \in Seq(Nat)
        /\ Len(nal_arena') = Len(nal_displays')
    BY <1>1, <1>2 DEF NalTypes
  <2> QED BY <1>1, <1>4, <1>5, <1>6, <1>7, <2>1, <2>2, <2>3 DEF NalTypes
<1>9. NalEarlier'
  <2> SUFFICES ASSUME NEW c \in 1 .. nal_ci PROVE NalShown(c)' /\ NalBounded(c)'
    <3>1. \A c \in 1 .. nal_ci' : c < nal_ci' \/ ~NalOpen' => c \in 1 .. nal_ci
      BY <1>1 DEF NalOpen
    <3> QED BY <3>1 DEF NalEarlier
  <2>1. NalShown(c) /\ NalEnds(c) <= L
    BY <1>1 DEF NalInv, NalEarlier, NalBounded, NalOpen
  <2>2. Nal!Slices(c)' = Nal!Slices(c) /\ \A n \in Nal!Slices(c) :
           nal_source'[c][n].v = nal_source[c][n].v
    BY <1>5 DEF Nal!Slices
  <2>3. NalShown(c)' /\ NalEnds(c)' = NalEnds(c)
    BY <1>1, <1>2, <1>4, <2>1, <2>2, NalShownStill
  <2>4. nal_ranges'[nal_ci'][1] = L /\ NalOpen'
    BY <1>1, <1>4 DEF NalOpen
  <2> QED BY <2>1, <2>3, <2>4 DEF NalBounded
<1>10. NalCurrent'
  <2>1. Nal!Slices(nal_ci)' = {}
    BY <1>1, <1>5 DEF Nal!Slices
  <2>2. Cardinality(Nal!Slices(nal_ci))' = 0
    <3>1. Cardinality({}) = 0
      BY FS_EmptySet
    <3> QED BY <2>1, <3>1
  <2>3. /\ Len(nal_order') = Len(o) - 0 /\ \A i \in 1 .. Len(nal_order') : nal_order'[i] = o[0 + i]
        /\ 0 \in 0 .. Len(o)
    BY <1>6, <1>7
  <2>4. Len(nal_displays') = nal_ranges'[nal_ci'][1] + 0
    BY <1>1, <1>3, <1>4
  <2>5. NalParsed(o, 0)'
    <3>1. NalCounting(o, 0)'
      BY DEF NalCounting
    <3>2. 1 .. 0 = {}
      OBVIOUS
    <3> QED BY <2>1, <2>2, <2>3, <2>4, <3>1, <3>2 DEF NalParsed
  <2>6. nal_ci' > 0
    BY <1>1
  <2> QED BY <2>3, <2>5, <2>6 DEF NalCurrent
<1> QED BY <1>8, <1>9, <1>10 DEF NalInv

\* A step that adds no picture: the parameter sets and the prefixes.
LEMMA NalQuietStep ==
    ASSUME Nal!NalAssumption, NalInv, NalOpen, nal_pc' \in {"sps", "pps", "pics"}, nal_pc = "pics"
              => nal_pc' = "pics",
           UNCHANGED <<nal_codec, nal_vary, nal_ci, nal_order, nal_arena, nal_displays, nal_ranges,
              nal_msb, nal_lsb>>,
           nal_varies' \subseteq Nal!Kinds, nal_rec' \in [Nal!Kinds -> Nat],
           UNCHANGED nal_source \/ \E x \in NalSet : x.k # "vcl" /\ Nal!Wrote(x)
    PROVE NalInv'
<1>1. NalTypes /\ nal_ci > 0 /\ nal_ci \in Nat /\ NalOpen'
  BY DEF NalInv, NalTypes, NalCurrent, NalOpen
<1>2. /\ nal_source' \in Seq(Seq(NalSet)) /\ Len(nal_source') = nal_ci
      /\ \A c \in 1 .. nal_ci : Nal!Slices(c)' = Nal!Slices(c) /\ \A n \in Nal!Slices(c) :
            nal_source'[c][n].v = nal_source[c][n].v
  <2>1. CASE UNCHANGED nal_source
    BY <1>1, <2>1 DEF Nal!Slices, NalTypes
  <2>2. CASE \E x \in NalSet : x.k # "vcl" /\ Nal!Wrote(x)
    BY <1>1, <2>2, NalWrites, NalWritesOther
  <2> QED BY <2>1, <2>2
<1>3. NalTypes'
  <2>1. \E S : nal_arena' \in Seq(S)
    BY <1>1 DEF NalTypes
  <2> QED BY <1>1, <1>2, <2>1 DEF NalTypes
<1>4. NalEarlier'
  <2> SUFFICES ASSUME NEW c \in 1 .. nal_ci, c < nal_ci PROVE NalShown(c)' /\ NalBounded(c)'
    BY <1>1 DEF NalEarlier
  <2>1. NalShown(c) /\ NalBounded(c)
    BY DEF NalInv, NalEarlier
  <2>2. NalShown(c)' /\ NalEnds(c)' = NalEnds(c)
    BY <1>1, <1>2, <2>1, NalShownStill
  <2> QED BY <1>1, <2>1, <2>2 DEF NalBounded
<1>5. NalCurrent'
  <2>1. PICK o \in NalSize.orders : \E k \in 0 .. Len(o) : NalParsed(o, k)
    BY DEF NalInv, NalCurrent
  <2>7. PICK k \in 0 .. Len(o) : NalParsed(o, k)
    BY <2>1
  <2>2. nal_ci \in 1 .. nal_ci
    BY <1>1
  <2> DEFINE V == Nal!Slices(nal_ci)
  <2>3. Nal!Slices(nal_ci)' = V /\ \A n \in V : nal_source'[nal_ci'][n].v = nal_source[nal_ci][n].v
    <3>1. \A c \in 1 .. nal_ci : c = nal_ci => Nal!Slices(nal_ci)' = Nal!Slices(c)'
      BY DEF Nal!Slices
    <3> QED BY <1>2, <2>2, <3>1
  <2>4. \A n : Nal!Nth(nal_ci, n)' = Nal!Nth(nal_ci, n)
    BY <2>3 DEF Nal!Nth
  <2>5. NalCounting(o, k)'
    BY <2>7 DEF NalParsed, NalCounting, NalLayered
  <2>6. NalParsed(o, k)'
    BY <1>1, <2>3, <2>4, <2>5, <2>7 DEF NalParsed, NalOpen
  <2> QED BY <1>1, <2>6 DEF NalCurrent
<1> QED BY <1>3, <1>4, <1>5 DEF NalInv

LEMMA NalParamSteps == ASSUME Nal!NalAssumption, NalInv, Nal!HeadSet("sps", "pps")
                                 \/ Nal!HeadSet("pps", "pics") \/ Nal!LaterSet
                    PROVE  NalInv'
<1>1. /\ NalOpen /\ nal_pc' \in {"sps", "pps", "pics"} /\ (nal_pc = "pics" => nal_pc' = "pics")
      /\ UNCHANGED <<nal_codec, nal_vary, nal_ci, nal_order, nal_arena, nal_displays, nal_ranges,
            nal_msb, nal_lsb>>
  BY DEF Nal!HeadSet, Nal!LaterSet, NalOpen, Nal!poc, Nal!spans
<1>2. PICK k \in Nal!Kinds, v \in NalSize.values : Nal!PushParam(k, v) /\ Nal!Wrote(Nal!Nal(k, v))
  BY DEF Nal!HeadSet, Nal!LaterSet, Nal!Kinds
<1>3. v \in Nat /\ k \in {"sps", "pps"} /\ NalTypes
  BY DEF Nal!NalAssumption, Nal!Kinds, NalInv
<1>4. nal_varies' \subseteq Nal!Kinds /\ nal_rec' \in [Nal!Kinds -> Nat]
  <2>1. /\ nal_varies' = nal_varies \/ nal_varies' = nal_varies \cup {k}
        /\ nal_rec' = nal_rec \/ nal_rec' = [nal_rec EXCEPT ![k] = v]
    BY <1>2 DEF Nal!PushParam
  <2> QED BY <1>3, <2>1 DEF NalTypes, Nal!Kinds
<1>5. Nal!Nal(k, v) \in NalSet /\ Nal!Nal(k, v).k # "vcl"
  BY <1>3 DEF Nal!Nal, NalSet
<1> QED BY <1>1, <1>2, <1>4, <1>5, NalQuietStep

LEMMA NalPrefixStep == ASSUME Nal!NalAssumption, NalInv, Nal!Prefix PROVE NalInv'
<1>1. /\ NalOpen /\ nal_pc' \in {"sps", "pps", "pics"} /\ (nal_pc = "pics" => nal_pc' = "pics")
      /\ UNCHANGED <<nal_codec, nal_vary, nal_ci, nal_order, nal_arena, nal_displays, nal_ranges,
            nal_msb, nal_lsb, nal_rec, nal_varies>>
  BY DEF Nal!Prefix, NalOpen, Nal!poc, Nal!spans, Nal!params
<1>2. UNCHANGED nal_source \/ Nal!Wrote(Nal!Nal("prefix", 0))
  BY DEF Nal!Prefix
<1>3. Nal!Nal("prefix", 0) \in NalSet /\ Nal!Nal("prefix", 0).k # "vcl"
  BY DEF Nal!Nal, NalSet
<1>4. nal_varies' \subseteq Nal!Kinds /\ nal_rec' \in [Nal!Kinds -> Nat]
  BY <1>1 DEF NalInv, NalTypes
<1> QED BY <1>1, <1>2, <1>3, <1>4, NalQuietStep

LEMMA NalVclStep == ASSUME Nal!NalAssumption, NalInv, Nal!Vcl PROVE NalInv'
<1> DEFINE p == Head(nal_order)
           low == p.poc % NalSize.cycle
           irap == Len(nal_arena) = Nal!Last(nal_ranges)[1]
           high == IF irap THEN 0 ELSE Nal!Msb(low)
           from == nal_ranges[nal_ci][1]
<1>1. /\ nal_pc = "pics" /\ nal_order # <<>> /\ nal_order' = Tail(nal_order)
      /\ UNCHANGED <<nal_codec, nal_vary, nal_pc, nal_ci, nal_rec, nal_varies, nal_ranges>>
      /\ nal_displays' = Append(nal_displays, (high + low) % NalSize.u32)
      /\ (irap \/ Nal!Updates(p) => nal_msb' = high /\ nal_lsb' = low)
      /\ (~irap /\ ~Nal!Updates(p) => nal_msb' = nal_msb /\ nal_lsb' = nal_lsb)
      /\ Nal!Wrote(Nal!Nal("vcl", p.poc))
      /\ \E z : nal_arena' = Append(nal_arena, z)
  BY DEF Nal!Vcl, Nal!params, Nal!spans, Nal!poc
<1>2. NalTypes /\ nal_ci \in Nat /\ nal_ci > 0 /\ NalOpen /\ nal_ci \in 1 .. nal_ci
  <2>1. NalTypes /\ NalOpen
    BY <1>1 DEF NalInv, NalOpen
  <2>2. nal_ci \in Nat
    BY <2>1 DEF NalTypes
  <2>3. nal_ci > 0
    BY <2>1 DEF NalInv, NalCurrent
  <2> QED BY <2>1, <2>2, <2>3
<1>3. PICK o \in NalSize.orders : \E k \in 0 .. Len(o) : NalParsed(o, k)
  BY <1>2 DEF NalInv, NalCurrent
<1>4. PICK k \in 0 .. Len(o) : NalParsed(o, k)
  BY <1>3
<1>5. /\ Len(o) \in Nat /\ \A i \in 1 .. Len(o) : o[i] \in NalPics /\ o[i].poc < NalSize.u32
      /\ (Len(o) > 0 => o[1].poc = 0) /\ DOMAIN o = 1 .. Len(o)
  BY NalOrderIs
<1>6. nal_order \in Seq(NalPics) /\ Len(nal_order) = Len(o) - k /\ \A i \in 1 .. Len(nal_order) :
         nal_order[i] = o[k + i]
  BY <1>2, <1>4 DEF NalTypes, NalParsed
<1> DEFINE rest == Tail(nal_order)
<1>7. /\ k \in Nat /\ k + 1 \in 1 .. Len(o) /\ p = o[k + 1] /\ p \in NalPics /\ p.poc \in Nat
      /\ rest \in Seq(NalPics) /\ Len(rest) = Len(o) - (k + 1)
      /\ \A i \in 1 .. Len(rest) : rest[i] = o[(k + 1) + i]
  <2>1. Len(nal_order) \in Nat /\ Len(nal_order) > 0
    BY <1>1, <1>6
  <2>2. k \in Nat /\ k + 1 \in 1 .. Len(o)
    BY <1>5, <1>6, <2>1
  <2>3. p = o[k + 1]
    <3>1. p = nal_order[1] /\ 1 \in 1 .. Len(nal_order)
      BY <1>6, <2>1
    <3> QED BY <1>6, <3>1
  <2>4. p \in NalPics
    BY <1>5, <2>2, <2>3
  <2>5. rest \in Seq(NalPics) /\ Len(rest) = Len(nal_order) - 1
        /\ \A i \in 1 .. Len(nal_order) - 1 : rest[i] = nal_order[i + 1]
    BY <1>1, <1>6, HeadTailProperties
  <2> HIDE DEF rest, p
  <2>6. ASSUME NEW i \in 1 .. Len(rest) PROVE rest[i] = o[(k + 1) + i]
    <3>1. i \in 1 .. Len(nal_order) - 1 /\ i + 1 \in 1 .. Len(nal_order)
      BY <2>1, <2>5
    <3>2. k + (i + 1) = (k + 1) + i
      BY <2>1, <2>2, <3>1
    <3> QED BY <1>6, <2>5, <3>1, <3>2
  <2>7. Len(rest) = Len(o) - (k + 1)
    BY <1>5, <1>6, <2>1, <2>2, <2>5
  <2>8. p.poc \in Nat
    BY <2>4 DEF NalPics
  <2> QED BY <2>2, <2>3, <2>4, <2>5, <2>6, <2>7, <2>8
<1>a. /\ irap \in BOOLEAN /\ low = p.poc % NalSize.cycle /\ high = IF irap THEN 0 ELSE Nal!Msb(low)
      /\ nal_order' = rest
  BY <1>1
<1>b. from = nal_ranges[nal_ci][1] /\ (irap <=> Len(nal_arena) = Nal!Last(nal_ranges)[1])
  OBVIOUS
<1> HIDE DEF p, low, irap, high, from, rest
<1>8. /\ nal_displays \in Seq(Nat) /\ Len(nal_displays) = from + k /\ from \in Nat
      /\ Len(nal_arena) = Len(nal_displays)
      /\ Cardinality(Nal!Slices(nal_ci)) = k /\ nal_ranges \in Seq(Nat \X Nat)
      /\ Len(nal_ranges) = nal_ci
  <2>1. nal_ranges[nal_ci] \in Nat \X Nat
    BY <1>2 DEF NalTypes
  <2> QED BY <1>2, <1>4, <1>b, <2>1 DEF NalTypes, NalParsed
<1>9. irap <=> k = 0
  <2>1. Nal!Last(nal_ranges)[1] = from
    BY <1>2, <1>8, <1>b DEF Nal!Last
  <2> QED BY <1>7, <1>8, <1>b, <2>1
<1>10. Nal!Updates(p) <=> Nal!Anchor(p, NalLayered)
  BY <1>2, <1>7
     DEF NalTypes, Nal!Updates, Nal!Updates264, Nal!Updates265, Nal!Updates266, Nal!Anchor,
        NalLayered
<1>11. /\ NalSize.cycle \in Nat /\ NalSize.cycle > 0 /\ NalSize.u32 \in Nat /\ NalSize.u32 > 0
       /\ \A l \in BOOLEAN : Nal!WithinHalf(o, l)
  <2>1. Nal!WithinHalf(o, TRUE) /\ Nal!WithinHalf(o, FALSE)
    BY DEF Nal!NalAssumption
  <2>2. \A l \in BOOLEAN : Nal!WithinHalf(o, l)
    <3> SUFFICES ASSUME NEW l \in BOOLEAN PROVE Nal!WithinHalf(o, l)
      OBVIOUS
    <3>1. CASE l = TRUE
      BY <2>1, <3>1, Zenon
    <3>2. CASE l = FALSE
      BY <2>1, <3>2
    <3> QED BY <3>1, <3>2
  <2>3. NalSize.cycle \in Nat /\ NalSize.cycle > 0 /\ NalSize.u32 \in Nat /\ NalSize.u32 > 0
    BY DEF Nal!NalAssumption
  <2> QED BY <2>2, <2>3
<1>c. low \in Nat /\ high \in Int /\ nal_msb \in Int /\ nal_lsb \in Nat
  <2>1. nal_msb \in Int /\ nal_lsb \in Nat
    BY <1>2 DEF NalTypes
  <2>2. low \in Nat
    BY <1>7, <1>11, <1>a
  <2> QED BY <1>11, <1>a, <2>1, <2>2 DEF Nal!Msb
<1>12. high + low = p.poc
  <2>1. CASE k = 0
    <3>1. p.poc = 0 /\ low = 0 /\ high = 0
      <4>1. p.poc = 0
        BY <1>5, <1>7, <2>1
      <4>2. 0 % NalSize.cycle = 0
        BY <1>11
      <4> QED BY <1>9, <1>a, <2>1, <4>1, <4>2
    <3> QED BY <3>1
  <2>2. CASE k > 0
    <3>1. PICK j \in 1 .. k : /\ j = 1 \/ Nal!Anchor(o[j], NalLayered)
                              /\ \A m \in j + 1 .. k : ~Nal!Anchor(o[m], NalLayered)
                              /\ nal_lsb = o[j].poc % NalSize.cycle /\ nal_msb = o[j].poc - nal_lsb
      BY <1>4, <2>2 DEF NalParsed, NalCounting
    <3>2. j \in DOMAIN o /\ k + 1 \in DOMAIN o /\ j < k + 1 /\ j + 1 .. (k + 1) - 1 = j + 1 .. k
      BY <1>5, <1>7, <3>1
    <3>3. NalLayered \in BOOLEAN
      BY DEF NalLayered
    <3>4. Nal!WithinHalf(o, NalLayered)
      BY <1>11, <3>3
    <3>5. 2 * (o[k + 1].poc - o[j].poc) \in 1 - NalSize.cycle .. NalSize.cycle
      BY <3>1, <3>2, <3>4 DEF Nal!WithinHalf
    <3>6. o[j].poc \in Nat
      BY <1>5, <3>2 DEF NalPics
    <3>7. Nal!Msb(p.poc % NalSize.cycle) + (p.poc % NalSize.cycle) = p.poc
      BY <1>7, <1>c, <3>1, <3>5, <3>6, NalCountBack
    <3>8. high = Nal!Msb(low)
      BY <1>9, <1>a, <2>2
    <3> QED BY <1>a, <3>7, <3>8
  <2> QED BY <1>7, <2>1, <2>2
<1>13. (high + low) % NalSize.u32 = p.poc
  <2>1. p.poc < NalSize.u32
    BY <1>5, <1>7
  <2>2. (0 * NalSize.u32 + p.poc) % NalSize.u32 = p.poc
    BY <1>7, <1>11, <2>1, Frm!Divide, Zenon
  <2>3. 0 * NalSize.u32 + p.poc = p.poc
    BY <1>7, <1>11
  <2> QED BY <1>12, <2>2, <2>3
<1> DEFINE x == Nal!Nal("vcl", p.poc)
<1>14. x \in NalSet /\ x.k = "vcl" /\ x.v = p.poc
  BY <1>7 DEF Nal!Nal, NalSet
<1>15. /\ nal_displays' \in Seq(Nat) /\ Len(nal_displays') = from + (k + 1)
       /\ nal_displays'[from + (k + 1)] = p.poc
       /\ \A i \in 1 .. Len(nal_displays) : nal_displays'[i] = nal_displays[i]
  <2>1. nal_displays' = Append(nal_displays, p.poc)
    BY <1>1, <1>13
  <2>2. Len(nal_displays) \in Nat /\ Len(nal_displays) + 1 = from + (k + 1)
    BY <1>7, <1>8
  <2>3. /\ nal_displays' \in Seq(Nat) /\ Len(nal_displays') = Len(nal_displays) + 1
        /\ nal_displays'[Len(nal_displays) + 1] = p.poc
        /\ \A i \in 1 .. Len(nal_displays) : nal_displays'[i] = nal_displays[i]
    <3> DEFINE q == p.poc
    <3>1. q \in Nat /\ nal_displays \in Seq(Nat) /\ nal_displays' = Append(nal_displays, q)
      BY <1>7, <1>8, <2>1
    <3> HIDE DEF q
    <3>2. /\ nal_displays' \in Seq(Nat) /\ Len(nal_displays') = Len(nal_displays) + 1
          /\ nal_displays'[Len(nal_displays) + 1] = q
          /\ \A i \in 1 .. Len(nal_displays) : nal_displays'[i] = nal_displays[i]
      BY <3>1, AppendProperties
    <3> QED BY <3>2 DEF q
  <2> QED BY <2>2, <2>3
<1>16. /\ nal_source' \in Seq(Seq(NalSet)) /\ Len(nal_source') = nal_ci
       /\ \A c \in 1 .. nal_ci : c # nal_ci => nal_source'[c] = nal_source[c]
  BY <1>1, <1>2, <1>14, NalWrites
<1>17. NalTypes'
  <2>1. PICK z : nal_arena' = Append(nal_arena, z)
    BY <1>1
  <2>2. PICK S : nal_arena \in Seq(S)
    BY <1>2 DEF NalTypes
  <2>3. nal_arena' \in Seq(S \cup {z}) /\ Len(nal_arena') = Len(nal_arena) + 1
    <3>1. nal_arena \in Seq(S \cup {z}) /\ z \in S \cup {z}
      BY <2>2, SeqMonotonic
    <3> QED BY <2>1, <3>1
  <2>4. \E T : nal_arena' \in Seq(T)
    BY <2>3
  <2>5. Len(nal_arena') = Len(nal_displays')
    <3>1. Len(nal_displays) + 1 = from + (k + 1) /\ Len(nal_arena) = Len(nal_displays)
      BY <1>7, <1>8
    <3> QED BY <1>15, <2>3, <3>1
  <2>6. nal_msb' \in Int /\ nal_lsb' \in Nat
    BY <1>1, <1>c
  <2> QED BY <1>1, <1>2, <1>7, <1>15, <1>16, <1>a, <2>4, <2>5, <2>6 DEF NalTypes
<1>18. NalEarlier'
  <2> SUFFICES ASSUME NEW c \in 1 .. nal_ci, c < nal_ci PROVE NalShown(c)' /\ NalBounded(c)'
    BY <1>1, <1>2 DEF NalEarlier, NalOpen
  <2>1. NalShown(c) /\ NalBounded(c) /\ NalEnds(c) <= from
    BY <1>2, <1>b DEF NalInv, NalEarlier, NalBounded
  <2>2. nal_source'[c] = nal_source[c] /\ nal_ranges'[c] = nal_ranges[c]
    BY <1>1, <1>16
  <2>3. Nal!Slices(c)' = Nal!Slices(c) /\ \A n \in Nal!Slices(c) :
           nal_source'[c][n].v = nal_source[c][n].v
    BY <2>2 DEF Nal!Slices
  <2>4. NalEnds(c) \in Nat
    <3>1. nal_ranges[c] \in Nat \X Nat
      BY <1>8
    <3> QED BY <3>1 DEF NalEnds
  <2>5. \A i \in 1 .. NalEnds(c) : nal_displays'[i] = nal_displays[i]
    BY <1>7, <1>8, <1>15, <2>1, <2>4
  <2>6. NalShown(c)' /\ NalEnds(c)' = NalEnds(c)
    BY <1>2, <2>1, <2>2, <2>3, <2>5, NalShownStill
  <2> QED BY <1>1, <1>2, <2>1, <2>6 DEF NalBounded, NalOpen
<1>19. NalCounting(o, k + 1)'
  <2>1. CASE irap \/ Nal!Updates(p)
    <3>1. /\ k + 1 \in 1 .. k + 1 /\ (k + 1 = 1 \/ Nal!Anchor(o[k + 1], NalLayered))
          /\ (k + 1) + 1 .. k + 1 = {}
      BY <1>7, <1>9, <1>10, <2>1
    <3>2. nal_lsb' = o[k + 1].poc % NalSize.cycle /\ nal_msb' = high
      BY <1>1, <1>7, <1>a, <2>1
    <3>4. nal_msb' = o[k + 1].poc - nal_lsb'
      BY <1>7, <1>12, <1>a, <1>c, <3>2
    <3>5. NalLayered' = NalLayered
      BY <1>1 DEF NalLayered
    <3> QED BY <1>7, <3>1, <3>2, <3>4, <3>5 DEF NalCounting
  <2>2. CASE ~irap /\ ~Nal!Updates(p)
    <3>1. k > 0 /\ UNCHANGED <<nal_msb, nal_lsb>>
      BY <1>1, <1>7, <1>9, <2>2
    <3>2. PICK j \in 1 .. k : /\ j = 1 \/ Nal!Anchor(o[j], NalLayered)
                              /\ \A m \in j + 1 .. k : ~Nal!Anchor(o[m], NalLayered)
                              /\ nal_lsb = o[j].poc % NalSize.cycle /\ nal_msb = o[j].poc - nal_lsb
      BY <1>4, <3>1 DEF NalParsed, NalCounting
    <3>3. j \in 1 .. k + 1 /\ \A m \in j + 1 .. k + 1 : m \in j + 1 .. k \/ m = k + 1
      BY <1>7, <3>2
    <3>4. \A m \in j + 1 .. k + 1 : ~Nal!Anchor(o[m], NalLayered)
      BY <1>7, <1>10, <2>2, <3>2, <3>3
    <3>5. NalLayered' = NalLayered
      BY <1>1 DEF NalLayered
    <3> QED BY <3>1, <3>2, <3>3, <3>4, <3>5 DEF NalCounting
  <2> QED BY <2>1, <2>2
<1>20. NalParsed(o, k + 1)'
  <2> DEFINE V == Nal!Slices(nal_ci)
  <2>0. nal_source[nal_ci] \in Seq(NalSet)
    BY <1>1, <1>2, <1>14, NalWrites
  <2>1. PICK N \in Nat : N = Len(nal_source[nal_ci]) + 1
    BY <2>0
  <2>2. /\ Nal!Slices(nal_ci)' = V \cup {N} /\ Cardinality(Nal!Slices(nal_ci))' = k + 1
        /\ nal_source'[nal_ci][N].v = p.poc /\ \A n \in V :
              nal_source'[nal_ci][n].v = nal_source[nal_ci][n].v
        /\ Nal!Nth(nal_ci, N)' = k + 1 /\ \A n \in V : Nal!Nth(nal_ci, n)' = Nal!Nth(nal_ci, n)
    <3>1. N = Len(nal_source[nal_ci]) + 1 /\ NalTypes /\ nal_ci > 0 /\ nal_ci' = nal_ci
             /\ Nal!Wrote(x)
      BY <1>1, <1>2, <2>1
    <3> HIDE DEF x, V
    <3>2. /\ Nal!Slices(nal_ci)' = Nal!Slices(nal_ci) \cup {N} /\ N \notin Nal!Slices(nal_ci)
          /\ Cardinality(Nal!Slices(nal_ci))' = Cardinality(Nal!Slices(nal_ci)) + 1
          /\ nal_source'[nal_ci][N].v = x.v
          /\ \A n \in Nal!Slices(nal_ci) : nal_source'[nal_ci][n].v = nal_source[nal_ci][n].v
          /\ Nal!Nth(nal_ci, N)' = Cardinality(Nal!Slices(nal_ci)) + 1
          /\ \A n \in Nal!Slices(nal_ci) : Nal!Nth(nal_ci, n)' = Nal!Nth(nal_ci, n)
      BY <1>14, <2>1, <3>1, NalWritesSlice
    <3> QED BY <1>8, <1>14, <3>2 DEF V
  <2>3. \A n \in V : nal_source[nal_ci][n].v = o[Nal!Nth(nal_ci, n)].poc
    BY <1>4 DEF NalParsed
  <2>4. \A n \in Nal!Slices(nal_ci)' : nal_source'[nal_ci][n].v = o[Nal!Nth(nal_ci, n)'].poc
    <3> SUFFICES ASSUME NEW n \in V \cup {N}
           PROVE nal_source'[nal_ci][n].v = o[Nal!Nth(nal_ci, n)'].poc
      BY <2>2
    <3>1. CASE n = N
      <4>1. nal_source'[nal_ci][N].v = p.poc /\ Nal!Nth(nal_ci, N)' = k + 1 /\ p = o[k + 1]
        BY <1>7, <2>2
      <4>2. nal_source'[nal_ci][N].v = o[Nal!Nth(nal_ci, N)'].poc
        BY <4>1
      <4> QED BY <3>1, <4>2
    <3>2. CASE n \in V
      BY <2>2, <2>3, <3>2
    <3> QED BY <3>1, <3>2
  <2>5. ASSUME NEW i \in 1 .. k + 1 PROVE nal_displays'[from + i] = o[i].poc
    <3>1. CASE i = k + 1
      BY <1>7, <1>15, <3>1
    <3>2. CASE i # k + 1
      <4>1. i \in 1 .. k /\ from + i \in 1 .. Len(nal_displays)
        <5>1. k \in Nat /\ from \in Nat /\ Len(nal_displays) = from + k
          BY <1>7, <1>8
        <5> QED BY <3>2, <5>1
      <4> QED BY <1>4, <1>15, <1>b, <4>1 DEF NalParsed
    <3> QED BY <3>1, <3>2
  <2>6. nal_ranges'[nal_ci'][1] = from /\ nal_ci' = nal_ci
    BY <1>1, <1>b
  <2> QED BY <1>1, <1>7, <1>15, <1>19, <1>a, <2>2, <2>4, <2>5, <2>6 DEF NalParsed
<1>21. NalCurrent'
  <2>1. k + 1 \in 0 .. Len(o) /\ nal_ci' > 0
    BY <1>1, <1>2, <1>7
  <2> QED BY <1>20, <2>1 DEF NalCurrent
<1> QED BY <1>17, <1>18, <1>21 DEF NalInv

----------------------------------------------------------------------------
LEMMA NalEndStep == ASSUME Nal!NalAssumption, NalInv, Nal!EndChunk PROVE NalInv'
<1>1. /\ nal_pc = "pics" /\ nal_order = <<>> /\ nal_pc' = "next"
      /\ UNCHANGED <<nal_codec, nal_vary, nal_ci, nal_order, nal_arena, nal_rec, nal_varies,
            nal_source, nal_msb, nal_lsb>>
      /\ nal_displays' = Nal!Ranked(nal_ranges[nal_ci][1])
      /\ nal_ranges' = [nal_ranges EXCEPT ![nal_ci] = <<nal_ranges[nal_ci][1],
            Len(nal_arena) - nal_ranges[nal_ci][1]>>]
  BY DEF Nal!EndChunk, Nal!params, Nal!poc
<1>2. NalTypes /\ nal_ci \in Nat /\ nal_ci > 0 /\ NalOpen /\ nal_ci \in 1 .. nal_ci /\ ~NalOpen'
  <2>1. NalTypes /\ NalOpen /\ ~NalOpen'
    BY <1>1 DEF NalInv, NalOpen
  <2>2. nal_ci \in Nat
    BY <2>1 DEF NalTypes
  <2>3. nal_ci > 0
    BY <2>1 DEF NalInv, NalCurrent
  <2> QED BY <2>1, <2>2, <2>3
<1>3. PICK o \in NalSize.orders : \E k \in 0 .. Len(o) : NalParsed(o, k)
  BY <1>2 DEF NalInv, NalCurrent
<1>4. PICK k \in 0 .. Len(o) : NalParsed(o, k)
  BY <1>3
<1>5. /\ Len(o) \in Nat /\ \A i \in 1 .. Len(o) : o[i] \in NalPics
      /\ \A i, j \in 1 .. Len(o) : o[i].poc = o[j].poc => i = j
  BY NalOrderIs
<1>6. k = Len(o) /\ k \in Nat
  <2>1. Len(nal_order) = 0 /\ Len(nal_order) = Len(o) - k
    BY <1>1, <1>4 DEF NalParsed
  <2> QED BY <1>5, <2>1
<1>r. PICK from \in Nat, z \in Nat :
         nal_ranges[nal_ci] = <<from, z>> /\ nal_ranges[nal_ci][1] = from
  <2>1. nal_ranges[nal_ci] \in Nat \X Nat
    BY <1>2 DEF NalTypes
  <2> QED BY <2>1
<1>7. /\ nal_displays \in Seq(Nat) /\ Len(nal_displays) = from + k /\ Len(nal_arena) = from + k
      /\ Cardinality(Nal!Slices(nal_ci)) = k /\ nal_ranges \in Seq(Nat \X Nat)
      /\ Len(nal_ranges) = nal_ci
      /\ Len(nal_displays) \in Nat /\ DOMAIN nal_displays = 1 .. from + k
  <2>1. /\ nal_displays \in Seq(Nat) /\ Len(nal_arena) = Len(nal_displays)
        /\ nal_ranges \in Seq(Nat \X Nat)
        /\ Len(nal_ranges) = nal_ci
    BY <1>2 DEF NalTypes
  <2>2. Len(nal_displays) = from + k /\ Cardinality(Nal!Slices(nal_ci)) = k
    BY <1>4, <1>r DEF NalParsed
  <2> QED BY <2>1, <2>2
<1>8. \A i \in 1 .. k : nal_displays[from + i] = o[i].poc
  BY <1>4, <1>r DEF NalParsed
<1>9. /\ nal_ranges' \in Seq(Nat \X Nat) /\ Len(nal_ranges') = nal_ci
      /\ nal_ranges'[nal_ci] = <<from, k>>
      /\ \A c \in 1 .. nal_ci : c # nal_ci => nal_ranges'[c] = nal_ranges[c]
  <2>1. Len(nal_arena) - from = k
    BY <1>6, <1>7
  <2>2. nal_ranges' = [nal_ranges EXCEPT ![nal_ci] = <<from, k>>]
    BY <1>1, <1>r, <2>1
  <2>3. <<from, k>> \in Nat \X Nat /\ nal_ci \in 1 .. Len(nal_ranges)
    BY <1>2, <1>6, <1>7
  <2> DEFINE P == Nat \X Nat
             q == <<from, k>>
  <2>4. q \in P /\ nal_ranges \in Seq(P) /\ nal_ranges' = [nal_ranges EXCEPT ![nal_ci] = q]
    BY <1>7, <2>2, <2>3
  <2> HIDE DEF P, q
  <2>5. /\ nal_ranges' \in Seq(P) /\ Len(nal_ranges') = nal_ci /\ nal_ranges'[nal_ci] = q
        /\ \A c \in 1 .. nal_ci : c # nal_ci => nal_ranges'[c] = nal_ranges[c]
    BY <1>7, <2>3, <2>4
  <2> QED BY <2>5 DEF P, q
<1>10. /\ DOMAIN nal_displays' = 1 .. from + k
       /\ \A i \in 1 .. from : nal_displays'[i] = nal_displays[i]
       /\ \A i \in from + 1 .. from + k : nal_displays'[i] =
              Cardinality({j \in from + 1 .. from + k :
                  nal_displays[j] < nal_displays[i]
                     \/ (nal_displays[j] = nal_displays[i] /\ j < i)})
  <2>1. nal_displays' = [i \in 1 .. from + k |->
            IF i <= from THEN nal_displays[i]
            ELSE Cardinality({j \in from + 1 .. from + k :
                nal_displays[j] < nal_displays[i] \/ (nal_displays[j] = nal_displays[i] /\ j < i)})]
    BY <1>1, <1>7, <1>r, NalCards DEF Nal!Ranked
  <2>2. \A i \in from + 1 .. from + k : ~(i <= from) /\ i \in 1 .. from + k
    BY <1>6
  <2>3. \A i \in 1 .. from : i <= from /\ i \in 1 .. from + k
    BY <1>6
  <2> QED BY <2>1, <2>2, <2>3
<1>11. nal_displays' \in Seq(Nat) /\ Len(nal_displays') = from + k
  <2>1. ASSUME NEW i \in 1 .. from + k PROVE nal_displays'[i] \in Nat
    <3>1. CASE i \in 1 .. from
      <4>1. nal_displays[i] \in Nat
        BY <1>7
      <4> QED BY <1>10, <3>1, <4>1
    <3>2. CASE i \notin 1 .. from
      <4> DEFINE B == {j \in from + 1 .. from + k :
                          nal_displays[j] < nal_displays[i]
                             \/ (nal_displays[j] = nal_displays[i] /\ j < i)}
      <4>1. i \in from + 1 .. from + k
        BY <1>6, <3>2
      <4>2. nal_displays'[i] = Cardinality(B)
        BY <1>10, <4>1
      <4>3. IsFiniteSet(from + 1 .. from + k)
        BY <1>6, FS_Interval
      <4>4. B \in SUBSET (from + 1 .. from + k)
        OBVIOUS
      <4>5. Cardinality(B) \in Nat
        <5> HIDE DEF B
        <5> QED BY <4>3, <4>4, FS_Subset, FS_CardinalityType
      <4> QED BY <4>2, <4>5
    <3> QED BY <3>1, <3>2
  <2>2. nal_displays' \in [1 .. from + k -> Nat]
    <3>1. nal_displays' = [i \in 1 .. from + k |-> nal_displays'[i]]
      BY <1>1, <1>7, <1>r DEF Nal!Ranked
    <3> QED BY <2>1, <3>1
  <2>3. from + k \in Nat
    BY <1>6
  <2> QED BY <2>2, <2>3, Frm!OfLength
<1>12. NalTypes'
  <2>1. \E S : nal_arena' \in Seq(S)
    BY <1>1, <1>2 DEF NalTypes
  <2>2. Len(nal_arena') = Len(nal_displays')
    BY <1>1, <1>7, <1>11
  <2> QED BY <1>1, <1>2, <1>9, <1>11, <2>1, <2>2 DEF NalTypes
<1>13. ASSUME NEW c \in 1 .. nal_ci, c # nal_ci PROVE NalShown(c)' /\ NalBounded(c)'
  <2>1. c < nal_ci
    BY <1>2, <1>13
  <2>2. NalShown(c) /\ NalEnds(c) <= from
    BY <1>2, <1>r, <2>1 DEF NalInv, NalEarlier, NalBounded
  <2>3. Nal!Slices(c)' = Nal!Slices(c) /\ \A n \in Nal!Slices(c) :
           nal_source'[c][n].v = nal_source[c][n].v
    BY <1>1 DEF Nal!Slices
  <2>4. NalEnds(c) \in Nat
    <3>1. nal_ranges[c] \in Nat \X Nat
      BY <1>7
    <3> QED BY <3>1 DEF NalEnds
  <2>5. \A i \in 1 .. NalEnds(c) : nal_displays'[i] = nal_displays[i]
    BY <1>10, <2>2, <2>4
  <2>6. NalShown(c)' /\ NalEnds(c)' = NalEnds(c)
    BY <1>2, <1>9, <1>13, <2>2, <2>3, <2>5, NalShownStill
  <2> QED BY <1>2, <1>6, <1>11, <2>2, <2>4, <2>6 DEF NalBounded
<1>14. NalShown(nal_ci)' /\ NalBounded(nal_ci)'
  <2> DEFINE V == Nal!Slices(nal_ci)
  <2>1. Nal!Slices(nal_ci)' = V /\ nal_source'[nal_ci'] = nal_source[nal_ci] /\ \A n :
           Nal!Nth(nal_ci, n)' = Nal!Nth(nal_ci, n)
    BY <1>1 DEF Nal!Slices, Nal!Nth
  <2>2. IsFiniteSet(V) /\ Cardinality(V) = k
    BY <1>2, <1>7, NalSlicesIn
  <2>3. /\ \A n \in V : Nal!Nth(nal_ci, n) \in 1 .. k
        /\ \A m, n \in V : Nal!Nth(nal_ci, m) = Nal!Nth(nal_ci, n) => m = n
        /\ \A i \in 1 .. k : \E n \in V : Nal!Nth(nal_ci, n) = i
    BY <1>2, <2>2, NalNthIs
  <2>4. \A n \in V : nal_source[nal_ci][n].v = o[Nal!Nth(nal_ci, n)].poc
    BY <1>4 DEF NalParsed
  <2> HIDE DEF V
  <2> DEFINE f == [n \in V |-> Nal!Nth(nal_ci, n)]
             w == [n \in V |-> nal_source[nal_ci][n].v]
  <2>5. f \in [V -> 1 .. k]
    BY <2>3
  <2>6. \A n \in V : f[n] = Nal!Nth(nal_ci, n) /\ w[n] = nal_source[nal_ci][n].v /\ f[n] \in 1 .. k
    BY <2>3
  <2>7. /\ \A m, n \in V : f[m] = f[n] => m = n
        /\ \A i \in 1 .. k : \E n \in V : f[n] = i
    BY <2>3, <2>6
  <2>8. \A n \in V : w[n] = nal_displays[from + f[n]]
    BY <1>8, <2>4, <2>6
  <2> HIDE DEF f, w
  <2>9. \A i \in from + 1 .. from + k :
            i - from \in 1 .. Len(o) /\ nal_displays[i] = o[i - from].poc /\ nal_displays[i] \in Nat
    <3> TAKE i \in from + 1 .. from + k
    <3>1. i - from \in 1 .. k /\ from + (i - from) = i /\ i \in 1 .. from + k
      BY <1>6
    <3>2. nal_displays[from + (i - from)] = o[i - from].poc
      BY <1>8, <3>1
    <3>3. nal_displays[i] \in Nat
      BY <1>7, <3>1
    <3> QED BY <1>6, <3>1, <3>2, <3>3
  <2>10. ASSUME NEW i \in from + 1 .. from + k, NEW j \in from + 1 .. from + k,
                   nal_displays[i] = nal_displays[j]
         PROVE i = j
    <3>1. /\ i - from \in 1 .. Len(o) /\ nal_displays[i] = o[i - from].poc
          /\ j - from \in 1 .. Len(o) /\ nal_displays[j] = o[j - from].poc
      BY <2>9
    <3>2. o[i - from].poc = o[j - from].poc
      BY <2>10, <3>1
    <3>3. i - from = j - from
      BY <1>5, <3>1, <3>2
    <3>4. i \in Int /\ j \in Int /\ from \in Int
      BY <1>6
    <3> QED BY <3>3, <3>4
  <2>11. ASSUME NEW n \in V
         PROVE nal_displays'[from + Nal!Nth(nal_ci, n)] = Cardinality({m \in V :
                  nal_source[nal_ci][m].v < nal_source[nal_ci][n].v})
    <3>1. PICK i \in from + 1 .. from + k : i = from + f[n]
      BY <1>6, <2>6
    <3>2. nal_displays'[i] = Cardinality({j \in from + 1 .. from + k :
              nal_displays[j] < nal_displays[i] \/ (nal_displays[j] = nal_displays[i] /\ j < i)})
      BY <1>10
    <3> DEFINE A == {m \in V : w[m] < w[n]}
               B == {j \in from + 1 .. from + k :
                        nal_displays[j] < nal_displays[i]
                           \/ (nal_displays[j] = nal_displays[i] /\ j < i)}
    <3>3. Cardinality(B) = Cardinality(A)
      <4> DEFINE g == [m \in A |-> from + f[m]]
      <4>1. ASSUME NEW m \in V
            PROVE  /\ f[m] \in Nat /\ from + f[m] \in from + 1 .. from + k
                   /\ w[m] = nal_displays[from + f[m]] /\ nal_displays[from + f[m]] \in Nat
        <5>1. f[m] \in 1 .. k
          BY <2>5
        <5>2. f[m] \in Nat /\ from + f[m] \in from + 1 .. from + k
          BY <1>6, <5>1
        <5> QED BY <2>8, <2>9, <5>2
      <4>2. i \in from + 1 .. from + k /\ i \in Nat /\ w[n] = nal_displays[i]
        BY <1>6, <2>8, <3>1
      <4>3. ASSUME NEW m \in A PROVE g[m] \in B
        <5>1. m \in V /\ w[m] < w[n]
          OBVIOUS
        <5>2. nal_displays[from + f[m]] < nal_displays[i] /\ from + f[m] \in from + 1 .. from + k
          BY <4>1, <4>2, <5>1
        <5> QED BY <5>2
      <4>4. ASSUME NEW m \in A, NEW l \in A, g[m] = g[l] PROVE m = l
        <5>1. f[m] \in Nat /\ f[l] \in Nat /\ m \in V /\ l \in V
          BY <4>1
        <5>2. f[m] = f[l]
          BY <1>6, <4>4, <5>1
        <5> QED BY <2>7, <5>1, <5>2
      <4>5. ASSUME NEW j \in B PROVE \E m \in A : g[m] = j
        <5>1. j \in from + 1 .. from + k /\ j \in Nat /\ j - from \in 1 .. k
                 /\ from + (j - from) = j
          BY <1>6
        <5>2. nal_displays[j] < nal_displays[i]
          <6>1. nal_displays[j] = nal_displays[i] => j = i
            BY <2>10, <4>2, <5>1
          <6>2. ~(j < j)
            BY <5>1
          <6> QED BY <6>1, <6>2
        <5>3. PICK m \in V : f[m] = j - from
          BY <2>7, <5>1
        <5>4. from + f[m] = j
          BY <5>1, <5>3
        <5>5. w[m] < w[n]
          BY <4>1, <4>2, <5>2, <5>4
        <5>6. m \in A
          BY <5>5
        <5> QED BY <5>4, <5>6
      <4>6. g \in Bijection(A, B)
        <5>1. g \in [A -> B]
          BY <4>3
        <5> HIDE DEF g, A, B
        <5> QED BY <4>4, <4>5, <5>1, Fun_IsBij
      <4>7. IsFiniteSet(A)
        <5>1. A \in SUBSET V
          OBVIOUS
        <5> QED BY <2>2, <5>1, FS_Subset
      <4>8. ExistsBijection(A, B)
        BY <4>6 DEF ExistsBijection
      <4> HIDE DEF A, B, g
      <4> QED BY <4>7, <4>8, FS_Bijection
    <3>4. {m \in V : w[m] < w[n]} = {m \in V : nal_source[nal_ci][m].v < nal_source[nal_ci][n].v}
      BY <2>6
    <3> QED BY <2>6, <3>1, <3>2, <3>3, <3>4, Zenon
  <2>12. nal_ranges'[nal_ci'] = <<from, k>> /\ nal_ci' = nal_ci
    BY <1>1, <1>9
  <2>13. Cardinality(Nal!Slices(nal_ci))' = k
    BY <2>1, <2>2
  <2>14. NalShown(nal_ci)'
    BY <2>1, <2>11, <2>12, <2>13 DEF NalShown
  <2>15. NalBounded(nal_ci)'
    BY <1>2, <1>6, <1>11, <2>12 DEF NalBounded, NalEnds
  <2> QED BY <2>14, <2>15
<1>15. NalEarlier'
  <2> SUFFICES ASSUME NEW c \in 1 .. nal_ci PROVE NalShown(c)' /\ NalBounded(c)'
    BY <1>1 DEF NalEarlier
  <2>1. CASE c = nal_ci
    <3>1. NalShown(c)' = NalShown(nal_ci)' /\ NalBounded(c)' = NalBounded(nal_ci)'
      BY <1>1, <2>1 DEF NalShown, NalBounded, NalEnds, Nal!Slices, Nal!Nth
    <3> QED BY <1>14, <3>1
  <2>2. CASE c # nal_ci
    BY <1>13, <2>2
  <2> QED BY <2>1, <2>2
<1> QED BY <1>2, <1>12, <1>15 DEF NalInv
----------------------------------------------------------------------------
\* What leaves the chunks, their ranks and the pictures alone.
LEMMA NalRestStep ==
    ASSUME Nal!NalAssumption, NalInv,
              UNCHANGED <<nal_codec, nal_vary, nal_ci, nal_order, nal_displays, nal_ranges,
                 nal_source, nal_varies, nal_rec>>,
           UNCHANGED <<nal_msb, nal_lsb>>, nal_pc' = nal_pc \/ (~NalOpen /\ nal_pc' = "done"),
           NEW S, nal_arena' \in Seq(S), Len(nal_arena') = Len(nal_arena)
    PROVE NalInv'
<1>1. NalTypes /\ (NalOpen <=> NalOpen') /\ (NalOpen => nal_pc' = nal_pc)
  BY DEF NalInv, NalOpen
<1>2. NalTypes'
  BY <1>1 DEF NalTypes
<1>3. NalEarlier'
  <2> SUFFICES ASSUME NEW c \in 1 .. nal_ci, c < nal_ci \/ ~NalOpen
         PROVE NalShown(c)' /\ NalBounded(c)'
    BY <1>1 DEF NalEarlier
  <2>1. NalShown(c) /\ NalBounded(c)
    BY DEF NalInv, NalEarlier
  <2>2. Nal!Slices(c)' = Nal!Slices(c) /\ \A n : Nal!Nth(c, n)' = Nal!Nth(c, n)
    BY DEF Nal!Slices, Nal!Nth
  <2>3. NalShown(c)'
    BY <2>1, <2>2 DEF NalShown
  <2>4. NalBounded(c)'
    BY <1>1, <2>1 DEF NalBounded, NalEnds
  <2> QED BY <2>3, <2>4
<1>4. NalOpen' => NalCurrent'
  <2> SUFFICES ASSUME NalOpen' PROVE NalCurrent'
    OBVIOUS
  <2>1. PICK o \in NalSize.orders : \E k \in 0 .. Len(o) : NalParsed(o, k)
    BY <1>1 DEF NalInv, NalCurrent
  <2>2. PICK k \in 0 .. Len(o) : NalParsed(o, k)
    BY <2>1
  <2>3. NalCounting(o, k)'
    BY <2>2 DEF NalParsed, NalCounting, NalLayered
  <2>4. Nal!Slices(nal_ci)' = Nal!Slices(nal_ci) /\ \A n : Nal!Nth(nal_ci, n)' = Nal!Nth(nal_ci, n)
    BY DEF Nal!Slices, Nal!Nth
  <2>5. NalParsed(o, k)'
    BY <1>1, <2>2, <2>3, <2>4 DEF NalParsed
  <2>6. nal_ci' > 0
    BY <1>1 DEF NalInv, NalCurrent
  <2> QED BY <2>5, <2>6 DEF NalCurrent
<1> QED BY <1>2, <1>3, <1>4 DEF NalInv

LEMMA NalStep == ASSUME Nal!NalAssumption, NalInv, [Nal!Next]_(Nal!vars) PROVE NalInv'
<1> USE Nal!NalAssumption, NalInv
<1>1. CASE Nal!StartChunk
  BY <1>1, NalStartStep
<1>2. CASE Nal!HeadSet("sps", "pps") \/ Nal!HeadSet("pps", "pics") \/ Nal!LaterSet
  BY <1>2, NalParamSteps
<1>3. CASE Nal!Prefix
  BY <1>3, NalPrefixStep
<1>4. CASE Nal!Vcl
  BY <1>4, NalVclStep
<1>5. CASE Nal!EndChunk
  BY <1>5, NalEndStep
<1>6. PICK S : nal_arena \in Seq(S)
  BY DEF NalInv, NalTypes
<1>7. CASE Nal!InlinePsets
  <2>1. /\ UNCHANGED <<nal_codec, nal_vary, nal_ci, nal_order, nal_displays, nal_ranges,
              nal_source, nal_varies, nal_rec, nal_msb, nal_lsb>>
        /\ ~NalOpen /\ nal_pc' = "done"
    BY <1>7 DEF Nal!InlinePsets, NalOpen, Nal!poc, Nal!params
  <2>2. Len(nal_arena) \in Nat /\ DOMAIN nal_arena = 1 .. Len(nal_arena)
    BY <1>6
  <2> DEFINE T == {Nal!Block(i) : i \in 1 .. Len(nal_arena)}
  <2>3. nal_arena' = [i \in (DOMAIN nal_arena) |-> Nal!Block(i)]
    BY <1>7 DEF Nal!InlinePsets
  <2>4. nal_arena' \in [1 .. Len(nal_arena) -> T]
    BY <2>2, <2>3
  <2> HIDE DEF T
  <2>5. nal_arena' \in Seq(T) /\ Len(nal_arena') = Len(nal_arena)
    BY <2>2, <2>4, Frm!OfLength
  <2> QED BY <2>1, <2>5, NalRestStep
<1>8. CASE Nal!NoInline
  <2>1. /\ UNCHANGED <<nal_codec, nal_vary, nal_ci, nal_order, nal_displays, nal_ranges,
              nal_source, nal_varies, nal_rec, nal_msb, nal_lsb, nal_arena>>
        /\ ~NalOpen /\ nal_pc' = "done"
    BY <1>8 DEF Nal!NoInline, NalOpen, Nal!poc, Nal!params, Nal!blocks, Nal!spans
  <2> QED BY <1>6, <2>1, NalRestStep
<1>9. CASE UNCHANGED Nal!vars
  <2>1. UNCHANGED <<nal_codec, nal_vary, nal_ci, nal_order, nal_displays, nal_ranges, nal_source,
           nal_varies, nal_rec, nal_msb, nal_lsb, nal_arena, nal_pc>>
    BY <1>9 DEF Nal!vars, Nal!poc, Nal!params, Nal!blocks, Nal!spans
  <2> QED BY <1>6, <2>1, NalRestStep
<1> QED BY <1>1, <1>2, <1>3, <1>4, <1>5, <1>7, <1>8, <1>9 DEF Nal!Next

LEMMA NalShows == ASSUME Nal!NalAssumption, NalInv PROVE Nal!DisplayOrder /\ Nal!TypeOK
<1>1. Nal!DisplayOrder
  <2> SUFFICES ASSUME NEW c \in 1 .. nal_ci, c < nal_ci \/ nal_pc \in {"next", "done"}
         PROVE NalShown(c)
    BY NalCards DEF Nal!DisplayOrder, NalShown
  <2>1. c < nal_ci \/ ~NalOpen
    BY DEF NalOpen
  <2> QED BY <2>1 DEF NalInv, NalEarlier
<1>2. Nal!TypeOK
  BY DEF NalInv, NalTypes, Nal!TypeOK
<1> QED BY <1>1, <1>2

----------------------------------------------------------------------------
\* What MCMedia composes.
LEMMA PartStays == [MCNext]_all => part' = part
  BY DEF MCNext, all, svtOnly, searchOnly, layOnly, frmOnly, auOnly, urOnly, nalOnly, muxOnly,
     probeOnly

LEMMA SvtMoves == [MCNext]_all => [Next]_vars
  BY DEF MCNext, all, svtOnly, searchOnly, layOnly, frmOnly, auOnly, urOnly, nalOnly, muxOnly,
     probeOnly

\* The invariant of the worker and its drain holds whatever part runs.
LEMMA SvtKept == MCSpec => []SvtInv
<1>1. MCInit => SvtInv
  BY SvtStart DEF MCInit
<1>2. SvtInv /\ [MCNext]_all => SvtInv'
  BY SvtMoves, SvtStep
<1> QED BY <1>1, <1>2, PTL DEF MCSpec

LEMMA SearchMoves == ASSUME part = "search", [MCNext]_all PROVE [Search!Next]_(Search!vars)
  BY DEF MCNext, all, searchVars, Search!vars, svtOnly, searchOnly, layOnly, frmOnly, auOnly,
     urOnly, nalOnly, muxOnly, probeOnly

\* The invariant of the search.
LEMMA SearchKept == MCSpec => [](part = "search" => SearchInv)
<1>1. MCInit => (part = "search" => SearchInv)
  BY PartsAssumption, SearchStart DEF MCInit, PartsAssumption
<1>2. (part = "search" => SearchInv) /\ [MCNext]_all => (part = "search" => SearchInv)'
  <2> SUFFICES ASSUME part = "search" => SearchInv, [MCNext]_all, part' = "search" PROVE SearchInv'
    OBVIOUS
  <2> QED BY PartStays, SearchMoves, PartsAssumption, SearchStep DEF PartsAssumption
<1> QED BY <1>1, <1>2, PTL DEF MCSpec

LEMMA LayMoves == ASSUME part = "lay", [MCNext]_all PROVE [Lay!Next]_(Lay!vars)
  BY DEF MCNext, all, layVars, Lay!vars, svtOnly, searchOnly, layOnly, frmOnly, auOnly, urOnly,
     nalOnly, muxOnly, probeOnly

\* The invariant of the layouts.
LEMMA LayKept == MCSpec => [](part = "lay" => LayInv)
<1>1. MCInit => (part = "lay" => LayInv)
  BY PartsAssumption, LayStart DEF MCInit, PartsAssumption
<1>2. (part = "lay" => LayInv) /\ [MCNext]_all => (part = "lay" => LayInv)'
  <2> SUFFICES ASSUME part = "lay" => LayInv, [MCNext]_all, part' = "lay" PROVE LayInv'
    OBVIOUS
  <2> QED BY PartStays, LayMoves, PartsAssumption, LayStep DEF PartsAssumption
<1> QED BY <1>1, <1>2, PTL DEF MCSpec

LEMMA FrmMoves == ASSUME part = "frm", [MCNext]_all PROVE [Frm!Next]_(Frm!vars)
  BY DEF MCNext, all, frmVars, Frm!vars, Frm!input, svtOnly, searchOnly, layOnly, frmOnly, auOnly,
     urOnly, nalOnly, muxOnly, probeOnly

\* The invariant of the frames of chunks.
LEMMA FrmKept == MCSpec => [](part = "frm" => Frm!FrmInv)
<1>1. MCInit => (part = "frm" => Frm!FrmInv)
  BY PartsAssumption, Frm!FrmStart DEF MCInit, PartsAssumption
<1>2. (part = "frm" => Frm!FrmInv) /\ [MCNext]_all => (part = "frm" => Frm!FrmInv)'
  <2> SUFFICES ASSUME part = "frm" => Frm!FrmInv, [MCNext]_all, part' = "frm" PROVE Frm!FrmInv'
    OBVIOUS
  <2> QED BY PartStays, FrmMoves, PartsAssumption, Frm!FrmStep DEF PartsAssumption
<1> QED BY <1>1, <1>2, PTL DEF MCSpec

LEMMA UrMoves == ASSUME part = "ur", [MCNext]_all PROVE [Ur!Next]_(Ur!vars)
  BY DEF MCNext, all, urVars, Ur!vars, Ur!writer, Ur!kernel, Ur!mem, svtOnly, searchOnly, layOnly,
     frmOnly, auOnly, urOnly, nalOnly, muxOnly, probeOnly

\* The invariant of the output writer.
LEMMA UrKept == MCSpec => [](part = "ur" => Ur!RingInv)
<1>1. MCInit => (part = "ur" => Ur!RingInv)
  BY PartsAssumption, Ur!InitRing DEF MCInit, PartsAssumption
<1>2. (part = "ur" => Ur!RingInv) /\ [MCNext]_all => (part = "ur" => Ur!RingInv)'
  <2> SUFFICES ASSUME part = "ur" => Ur!RingInv, [MCNext]_all, part' = "ur" PROVE Ur!RingInv'
    OBVIOUS
  <2> QED BY PartStays, UrMoves, PartsAssumption, Ur!RingStep DEF PartsAssumption
<1> QED BY <1>1, <1>2, PTL DEF MCSpec

LEMMA NalMoves == ASSUME part = "nal", [MCNext]_all PROVE [Nal!Next]_(Nal!vars)
  BY DEF MCNext, all, nalVars, Nal!vars, Nal!poc, Nal!blocks, Nal!params, Nal!spans, svtOnly,
     searchOnly, layOnly, frmOnly, auOnly, urOnly, nalOnly, muxOnly, probeOnly

\* The invariant of the parsed streams.
LEMMA NalKept == MCSpec => [](part = "nal" => NalInv)
<1>1. MCInit => (part = "nal" => NalInv)
  BY PartsAssumption, NalStart DEF MCInit, PartsAssumption
<1>2. (part = "nal" => NalInv) /\ [MCNext]_all => (part = "nal" => NalInv)'
  <2> SUFFICES ASSUME part = "nal" => NalInv, [MCNext]_all, part' = "nal" PROVE NalInv'
    OBVIOUS
  <2> QED BY PartStays, NalMoves, PartsAssumption, NalStep DEF PartsAssumption
<1> QED BY <1>1, <1>2, PTL DEF MCSpec

LEMMA ProbeMoves == ASSUME part = "probe", [MCNext]_all PROVE [Probe!Next]_(Probe!vars)
  BY DEF MCNext, all, probeVars, Probe!vars, Probe!pics, Probe!pool, Probe!givers, svtOnly,
     searchOnly, layOnly, frmOnly, auOnly, urOnly, nalOnly, muxOnly, probeOnly

\* The invariant of the probe decoders.
LEMMA ProbeKept == MCSpec => [](part = "probe" => Probe!ProbeInv)
<1>1. MCInit => (part = "probe" => Probe!ProbeInv)
  BY PartsAssumption, Probe!InitProbe DEF MCInit, PartsAssumption
<1>2. (part = "probe" => Probe!ProbeInv) /\ [MCNext]_all => (part = "probe" => Probe!ProbeInv)'
  <2> SUFFICES ASSUME part = "probe" => Probe!ProbeInv, [MCNext]_all, part' = "probe"
         PROVE Probe!ProbeInv'
    OBVIOUS
  <2> QED BY PartStays, ProbeMoves, PartsAssumption, Probe!ProbeStep DEF PartsAssumption
<1> QED BY <1>1, <1>2, PTL DEF MCSpec

----------------------------------------------------------------------------
\* A chunk is shipped in the target range or with the crf that comes closest to the target, for
\* every range of crfs, metric that falls with the crf and tolerance (tq_search_crf, up_bounds,
\* best_probe).  Where the metric rises with it, the run TqButter shows the opposite.
THEOREM ShippedIsClosest == ASSUME ~SearchSize.butter PROVE MCSpec => []ShipsClosest
<1>1. (part = "search" => SearchInv) => ShipsClosest
  BY PartsAssumption, SearchShows DEF ShipsClosest, PartsAssumption
<1> QED BY <1>1, SearchKept, PTL

\* The crf the encoder's table is indexed with is in the table, and none is probed twice, in
\* which direction the metric goes and whatever the interpolation gives (tq_search_crf).
THEOREM CrfInTable == MCSpec => [](part = "search" => Search!TypeOK /\ Search!InTable)
<1>1. (part = "search" => SearchInv) => (part = "search" => Search!TypeOK /\ Search!InTable)
  BY SearchTable
<1> QED BY <1>1, SearchKept, PTL

\* Every strategy delivers the cropped picture, in the layout the encoder reads: for all even sizes
\* and crops, line sizes, kernels' chunks and encoders, from a file or a pipe (get_dec_strat,
\* extr_*, CropCalc, Geom, Pipeline::new, resolve_*).
THEOREM PicturesArrive == MCSpec => []PictureArrives
<1>1. (part = "lay" => LayInv) => PictureArrives
  BY PartsAssumption, LayCropDecoded, LayoutRead DEF PictureArrives, PartsAssumption
<1> QED BY <1>1, LayKept, PTL

\* Every chunk is encoded from exactly its frames, with the parameters of the scene they are in: for
\* every scene file, ranges, key frames, timebase and rounding of the timestamps, from a file or a
\* pipe, after a resume (trans_scenes, zone_tmpls, skip_to, seek_near, pipe_loop).
THEOREM ChunksGetTheirFrames == MCSpec => []ChunkGetsItsFrames
<1>1. (part = "frm" => Frm!FrmInv) => ChunkGetsItsFrames
  BY Frm!FramesDelivered DEF ChunkGetsItsFrames
<1> QED BY <1>1, FrmKept, PTL

\* The chunks are what the ranges keep, each frame once and in the order of the video, for every
\* scene file and ranges, also such that overlap or are out of order (load_scenes, trans_scenes).
THEOREM ChunksArePieces == MCSpec => []ChunksAreKept
<1>1. (part = "frm" => Frm!FrmInv) => ChunksAreKept
  BY Frm!FramesDelivered DEF ChunksAreKept
<1> QED BY <1>1, FrmKept, PTL

\* The ranks that block times are taken from are those of the encoder's picture order counts, for
\* any pictures whose counts lie within half a cycle of their reference's, any parameter sets and
\* NALs in between, and each of the three codecs (Poc::full, rank).
THEOREM PicturesInOrder == MCSpec => []DisplayOrder
<1>1. (part = "nal" => NalInv) => DisplayOrder
  BY PartsAssumption, NalShows DEF DisplayOrder, PartsAssumption
<1> QED BY <1>1, NalKept, PTL

\* A metric compares the frames of its own probe, and every picture buffer is in one place: for
\* every set of decoders, number of probes, frames and buffers, delay and size of the decoded
\* picture buffer, and any number of threads that give buffers back (dav1d.rs, vvdec.rs,
\* annexb.rs, vship.rs).
THEOREM FramesScored == MCSpec => []ScoresItsFrames
<1>1. (part = "probe" => Probe!ProbeInv) => ScoresItsFrames
  BY PartsAssumption, Probe!ScoresNow, Probe!PlacedNow DEF ScoresItsFrames, PartsAssumption
<1> QED BY <1>1, ProbeKept, PTL

\* What reaches the disk is the file, and the submission queue has room, for any headers,
\* clusters, segments, buffers and depth of the queue (uring.rs, linux.rs).
THEOREM BytesAreRight == MCSpec => []BytesRight
<1>1. (part = "ur" => Ur!RingInv) => BytesRight
  BY PartsAssumption, Ur!ShowsBytes, Ur!ShowsQueue DEF BytesRight, PartsAssumption
<1> QED BY <1>1, UrKept, PTL
=============================================================================
