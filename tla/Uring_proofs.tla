---------------------------- MODULE Uring_proofs ----------------------------
(***************************************************************************)
(* What holds of ring_write and its kernel thread for any clusters, any    *)
(* segment size, any number of buffers that the queue has room for and any *)
(* number of short or failing writes, under UringAssumption.               *)
(*                                                                         *)
(* RingInv is the inductive invariant.  A buffer has at most one entry or  *)
(* completion under way (Apart), and none once its block is acknowledged   *)
(* (Busy), so acquire never hands out memory the kernel may read.  What is *)
(* under way is what is left of the block (Left, Results), hence a         *)
(* resubmitted entry continues where the short write stopped.  A submitted *)
(* block is in the file or in a buffer (Described, Kept): when no buffer   *)
(* is open, all of it is in the file.                                      *)
(*                                                                         *)
(* Grouped and Before are functions defined by recursion on the naturals.  *)
(* What they return is proved by induction on the least element (Inductive *)
(* and Recursion), in the lemmas of the blocks.                            *)
(***************************************************************************)
EXTENDS Uring, FiniteSetTheorems, WellFoundedInduction, TLAPS

Entry == [b : Bufs, off : Nat, at : Nat, len : Nat]
Slot == [off : Nat, len : Nat, acked : Nat]

Types ==
    /\ pc \in {"setup", "acquire", "build", "submit", "flags", "wait", "events", "reap",
               "rest", "done", "failed"}
    /\ blocks \in Seq(Nat \ {0}) /\ blocks # <<>> /\ ui \in 1 .. Len(blocks) + 1 /\ off \in Nat
    /\ slots \in [Bufs -> Slot] /\ buf \in [Bufs -> Nat] /\ relaxed \in BOOLEAN
    /\ store \in Seq(Entry) /\ sq \in Seq(Entry) /\ flight \subseteq Entry
    /\ cq \in Seq(Bufs \X Int) /\ batch \in 0 .. Len(cq)
    /\ file \in [0 .. End - 1 -> Nat \X Nat]

\* The block a buffer holds was submitted.
Held(b) == buf[b] # 0 /\ ~(pc = "submit" /\ idx = b)

\* What is under way of a buffer is one entry or one completion.
Elems(q) == {q[i] : i \in 1 .. Len(q)}
Queued(q) == {e.b : e \in Elems(q)}
Flying == {e.b : e \in flight}
Told(q) == {c[1] : c \in Elems(q)}
Reported == Told(cq)
Once(q) == \A i, j \in 1 .. Len(q) : q[i].b = q[j].b => i = j
ToldOnce(q) == \A i, j \in 1 .. Len(q) : q[i][1] = q[j][1] => i = j
Apart ==
    /\ Once(store) /\ Once(sq) /\ Queued(store) \cap Queued(sq) = {}
    /\ \A e, f \in flight : e.b = f.b => e = f
    /\ ToldOnce(cq)
    /\ (Queued(store) \cup Queued(sq)) \cap (Flying \cup Reported) = {}
    /\ Flying \cap Reported = {}

\* The kernel has nothing of a buffer whose block is written.
UnderWay == Queued(store) \cup Queued(sq) \cup Flying \cup Reported
Busy == \A b \in UnderWay : Open(b)

\* An entry is what is left of its block,
Rest(b) == [b |-> b, off |-> slots[b].off + slots[b].acked, at |-> slots[b].acked,
            len |-> slots[b].len - slots[b].acked]
Left == \A e \in Elems(store) \cup Elems(sq) \cup flight : e = Rest(e.b)

\* a completion tells of bytes that are in the file.
Stored(from, n) == \A p \in from .. from + n - 1 : file[p] # NoByte
Result(b, res) == \/ res = -1
                  \/ /\ res \in 0 .. slots[b].len - slots[b].acked
                     /\ Stored(slots[b].off + slots[b].acked, res)
Results == \A c \in Elems(cq) : Result(c[1], c[2])

\* A slot describes the block its buffer holds; the acknowledged bytes are in
\* the file.
Describes(b) == /\ buf[b] \in 1 .. ui - 1
                /\ slots[b].off = Before[buf[b]] /\ slots[b].len = blocks[buf[b]]
                /\ Stored(slots[b].off, slots[b].acked)
Described == \A b \in Bufs : /\ slots[b].acked <= slots[b].len
                             /\ Held(b) => Describes(b)
                             /\ ~Held(b) => slots[b].acked = slots[b].len

\* A block that was submitted is in a buffer or in the file.
Kept == \A k \in 1 .. ui - 1 : \/ Stored(Before[k], blocks[k])
                               \/ \E b \in Bufs : Held(b) /\ buf[b] = k

Turn == /\ off = Before[ui]
        /\ pc \in {"build", "submit"} => ui <= Len(blocks) /\ idx \in Bufs /\ ~Open(idx)
        /\ pc = "submit" => buf[idx] = ui
        /\ pc = "done" => ui = Len(blocks) + 1 /\ \A b \in Bufs : ~Open(b)

Bytes == \A p \in 0 .. End - 1 : file[p] = NoByte \/ Right(p)
Fits == \A k \in 1 .. Len(blocks) : blocks[k] <= Cap

RingInv == /\ Types /\ Apart /\ Busy /\ Left /\ Results /\ Described /\ Kept /\ Turn
           /\ Bytes /\ Fits
----------------------------------------------------------------------------

----------------------------------------------------------------------------
\* Induction and recursion on the naturals, by their least element.
LEMMA Inductive ==
    ASSUME NEW S, 0 \in S, \A n \in Nat : n \in S => n + 1 \in S
    PROVE Nat \subseteq S
<1> SUFFICES ASSUME Nat \ S # {} PROVE FALSE
  OBVIOUS
<1>1. PICK m \in Nat \ S : \A x \in Nat \ S : ~(<<x, m>> \in OpToRel(<, Nat))
  <2>1. IsWellFoundedOn(OpToRel(<, Nat), Nat)
    BY NatLessThanWellFounded
  <2>2. Nat \ S \subseteq Nat
    OBVIOUS
  <2> QED BY <2>1, <2>2, WFMin
<1>2. m - 1 \in Nat \ S
  <2>1. m # 0 /\ m \in Nat
    BY <1>1
  <2>2. m - 1 \in Nat /\ (m - 1) + 1 = m
    BY <2>1
  <2> QED BY <1>1, <2>2
<1>3. <<m - 1, m>> \in OpToRel(<, Nat)
  <2>0. m \in Nat
    BY <1>1
  <2>3. m - 1 \in Nat
    BY <1>2
  <2>1. m \in Nat /\ m - 1 \in Nat /\ m - 1 < m
    BY <2>0, <2>3
  <2>2. <<m - 1, m>> \in Nat \X Nat
    BY <2>1
  <2> QED BY <2>1, <2>2 DEF OpToRel
<1> QED BY <1>1, <1>2, <1>3

Recursive(f, S, s0, F) ==
    f \in [Nat -> S] /\ f[0] = s0 /\ \A n \in Nat : f[n + 1] = F[<<n, f[n]>>]

LEMMA Recursion ==
    ASSUME NEW S, NEW s0 \in S, NEW F \in [Nat \X S -> S]
    PROVE \E f : Recursive(f, S, s0, F)
<1> DEFINE Rec(g, n) == g[0] = s0 /\ \A i \in Nat : i < n => g[i + 1] = F[<<i, g[i]>>]
           Has == {n \in Nat : \E g \in [Nat -> S] : Rec(g, n)}
<1>1. Nat \subseteq Has
  <2>1. 0 \in Has
    <3>1. [i \in Nat |-> s0] \in [Nat -> S] /\ Rec([i \in Nat |-> s0], 0)
      OBVIOUS
    <3> QED BY <3>1
  <2>2. ASSUME NEW n \in Nat, n \in Has
        PROVE n + 1 \in Has
    <3>1. PICK g \in [Nat -> S] : Rec(g, n)
      BY <2>2
    <3> DEFINE h == [i \in Nat |-> IF i = n + 1 THEN F[<<n, g[n]>>] ELSE g[i]]
    <3>2. h \in [Nat -> S]
      OBVIOUS
    <3>3. h[0] = s0
      BY <3>1
    <3>4. ASSUME NEW i \in Nat, i < n + 1
          PROVE h[i + 1] = F[<<i, h[i]>>]
      <4>1. CASE i = n
        BY <4>1
      <4>2. CASE i < n
        BY <3>1, <4>2
      <4> QED BY <3>4, <4>1, <4>2
    <3> HIDE DEF h
    <3>5. Rec(h, n + 1)
      BY <3>3, <3>4
    <3> QED BY <3>2, <3>5
  <2> HIDE DEF Has
  <2> QED BY <2>1, <2>2, Inductive
<1>2. ASSUME NEW g \in [Nat -> S], NEW h \in [Nat -> S], NEW n \in Nat, NEW m \in Nat, Rec(g, n), Rec(h, m)
      PROVE \A i \in Nat : i <= n /\ i <= m => g[i] = h[i]
  <2> DEFINE Same == {i \in Nat : i <= n /\ i <= m => g[i] = h[i]}
  <2>1. 0 \in Same
    BY <1>2
  <2>2. ASSUME NEW i \in Nat, i \in Same
        PROVE i + 1 \in Same
    <3> SUFFICES ASSUME i + 1 <= n, i + 1 <= m PROVE g[i + 1] = h[i + 1]
      OBVIOUS
    <3>1. i < n /\ i < m /\ g[i] = h[i]
      BY <2>2
    <3> QED BY <1>2, <3>1
  <2>3. Nat \subseteq Same
    <3> HIDE DEF Same
    <3> QED BY <2>1, <2>2, Inductive
  <2> QED BY <2>3
<1> DEFINE G(n) == CHOOSE g \in [Nat -> S] : Rec(g, n)
           f == [n \in Nat |-> G(n)[n]]
<1>3. ASSUME NEW n \in Nat
      PROVE G(n) \in [Nat -> S] /\ Rec(G(n), n)
  <2>1. \E g \in [Nat -> S] : Rec(g, n)
    BY <1>1
  <2> HIDE DEF Rec
  <2> QED BY <2>1
<1> HIDE DEF G
<1>4. f \in [Nat -> S]
  BY <1>3
<1>5. f[0] = s0
  <2>1. Rec(G(0), 0)
    BY <1>3
  <2> QED BY <2>1
<1>6. ASSUME NEW n \in Nat
      PROVE f[n + 1] = F[<<n, f[n]>>]
  <2>1. G(n) \in [Nat -> S] /\ G(n + 1) \in [Nat -> S] /\ Rec(G(n), n) /\ Rec(G(n + 1), n + 1)
    BY <1>3
  <2>2. G(n + 1)[n + 1] = F[<<n, G(n + 1)[n]>>]
    BY <2>1
  <2>3. G(n + 1)[n] = G(n)[n]
    <3> HIDE DEF Rec
    <3>1. n + 1 \in Nat /\ n <= n /\ n <= n + 1
      OBVIOUS
    <3> QED BY <1>2, <2>1, <3>1
  <2> QED BY <2>2, <2>3
<1> HIDE DEF f
<1>7. Recursive(f, S, s0, F)
  BY <1>4, <1>5, <1>6 DEF Recursive
<1> QED BY <1>7
----------------------------------------------------------------------------

----------------------------------------------------------------------------
LEMMA Constants ==
    ASSUME UringAssumption
    PROVE /\ HeaderLen \in Nat \ {0} /\ SegBytes \in Nat \ {0} /\ QueueDepth \in Nat \ {0}
          /\ Clusters \in Seq(Nat \ {0}) /\ MaxShort \in Nat /\ MaxFails \in Nat
          /\ Bufs \subseteq Nat /\ 0 \in Bufs
          /\ IsFiniteSet(Bufs) /\ Cardinality(Bufs) <= QueueDepth
<1>1. /\ HeaderLen \in Nat \ {0} /\ SegBytes \in Nat \ {0} /\ QueueDepth \in Nat \ {0}
      /\ Clusters \in Seq(Nat \ {0}) /\ MaxShort \in Nat /\ MaxFails \in Nat
  BY DEF UringAssumption
<1>2. PICK n \in 0 .. QueueDepth - 1 : Bufs = 0 .. n
  BY DEF UringAssumption
<1>3. n \in Nat /\ n + 1 <= QueueDepth
  BY <1>1
<1>4. Bufs \subseteq Nat /\ 0 \in Bufs
  BY <1>2, <1>3
<1>5. IsFiniteSet(Bufs) /\ Cardinality(Bufs) = n + 1
  <2>1. 0 \in Int /\ n \in Int /\ ~(0 > n) /\ n - 0 + 1 = n + 1
    BY <1>3
  <2> QED BY <1>2, <2>1, FS_Interval
<1> QED BY <1>1, <1>3, <1>4, <1>5

\* Where the blocks go,
LEMMA BeforeIs ==
    ASSUME blocks \in Seq(Nat \ {0})
    PROVE /\ Before \in [1 .. Len(blocks) + 1 -> Nat] /\ Before[1] = 0
          /\ \A k \in 1 .. Len(blocks) : Before[k + 1] = Before[k] + blocks[k]
<1> DEFINE L == Len(blocks)
           F == [x \in Nat \X Nat |-> IF x[1] < L THEN x[2] + blocks[x[1] + 1] ELSE x[2]]
<1>1. L \in Nat /\ \A k \in 1 .. L : blocks[k] \in Nat
  OBVIOUS
<1> HIDE DEF L
<1>2. F \in [Nat \X Nat -> Nat]
  <2>1. \A n \in Nat : n < L => n + 1 \in 1 .. L
    BY <1>1
  <2>2. \A x \in Nat \X Nat : (IF x[1] < L THEN x[2] + blocks[x[1] + 1] ELSE x[2]) \in Nat
    BY <1>1, <2>1
  <2> QED BY <2>2
<1>3. PICK f \in [Nat -> Nat] : f[0] = 0 /\ \A n \in Nat : f[n + 1] = F[<<n, f[n]>>]
  <2> HIDE DEF F
  <2>1. 0 \in Nat
    OBVIOUS
  <2>2. \E f : Recursive(f, Nat, 0, F)
    BY <1>2, <2>1, Recursion
  <2> QED BY <2>2 DEF Recursive
<1> DEFINE g == [k \in 1 .. L + 1 |-> f[k - 1]]
<1>4. g = [k \in 1 .. L + 1 |-> IF k = 1 THEN 0 ELSE g[k - 1] + blocks[k - 1]]
  <2> SUFFICES ASSUME NEW k \in 1 .. L + 1
               PROVE f[k - 1] = IF k = 1 THEN 0 ELSE g[k - 1] + blocks[k - 1]
    OBVIOUS
  <2>1. CASE k = 1
    BY <1>3, <2>1
  <2>2. CASE k # 1
    <3>1. k - 2 \in Nat /\ k - 2 < L /\ k - 1 \in 1 .. L + 1 /\ (k - 2) + 1 = k - 1 /\ (k - 1) - 1 = k - 2
      BY <1>1, <2>2
    <3>2. f[k - 1] = F[<<k - 2, f[k - 2]>>]
      BY <1>3, <3>1
    <3>3. f[k - 2] \in Nat
      BY <3>1
    <3>4. F[<<k - 2, f[k - 2]>>] = f[k - 2] + blocks[k - 1]
      BY <3>1, <3>3
    <3>5. g[k - 1] = f[k - 2]
      BY <3>1
    <3> QED BY <2>2, <3>2, <3>4, <3>5
  <2> QED BY <2>1, <2>2
<1> HIDE DEF g, F
<1>5. Before = [k \in 1 .. L + 1 |-> IF k = 1 THEN 0 ELSE Before[k - 1] + blocks[k - 1]]
  BY <1>4 DEF Before, L
<1>6. Before[1] = 0
  BY <1>1, <1>5
<1>7. ASSUME NEW k \in 1 .. L
      PROVE Before[k + 1] = Before[k] + blocks[k]
  <2>1. k + 1 \in 1 .. L + 1 /\ k + 1 # 1 /\ (k + 1) - 1 = k
    BY <1>1
  <2> QED BY <1>5, <2>1
<1>8. Before \in [1 .. L + 1 -> Nat]
  <2> DEFINE S == {n \in Nat : n + 1 \in 1 .. L + 1 => Before[n + 1] \in Nat}
  <2>1. 0 \in S
    BY <1>6
  <2>2. ASSUME NEW n \in Nat, n \in S
        PROVE n + 1 \in S
    <3> SUFFICES ASSUME (n + 1) + 1 \in 1 .. L + 1 PROVE Before[(n + 1) + 1] \in Nat
      OBVIOUS
    <3>1. n + 1 \in 1 .. L /\ n + 1 \in 1 .. L + 1
      BY <1>1
    <3>2. Before[n + 1] \in Nat /\ blocks[n + 1] \in Nat
      BY <1>1, <2>2, <3>1
    <3>3. Before[(n + 1) + 1] = Before[n + 1] + blocks[n + 1]
      BY <1>7, <3>1
    <3>4. Before[n + 1] + blocks[n + 1] \in Nat
      <4>1. \A x, y \in Nat : x + y \in Nat
        OBVIOUS
      <4> QED BY <3>2, <4>1
    <3> QED BY <3>3, <3>4
  <2>3. Nat \subseteq S
    <3> HIDE DEF S
    <3> QED BY <2>1, <2>2, Inductive
  <2>4. \A k \in 1 .. L + 1 : Before[k] \in Nat
    <3> SUFFICES ASSUME NEW k \in 1 .. L + 1 PROVE Before[k] \in Nat
      OBVIOUS
    <3>1. k - 1 \in Nat /\ (k - 1) + 1 = k
      BY <1>1
    <3>2. k - 1 \in S
      BY <2>3, <3>1
    <3> QED BY <3>1, <3>2
  <2>5. Before = [k \in 1 .. L + 1 |-> Before[k]]
    BY <1>5
  <2> HIDE DEF S
  <2> QED BY <2>4, <2>5
<1> QED BY <1>6, <1>7, <1>8 DEF L

\* and that they fill the file: every position is in a block.
LEMMA InABlock ==
    ASSUME blocks \in Seq(Nat \ {0})
    PROVE \A p \in Nat : p < End =>
             \E k \in 1 .. Len(blocks) : p \in Before[k] .. Before[k] + blocks[k] - 1
<1> SUFFICES ASSUME NEW p \in Nat, p < End,
                    \A k \in 1 .. Len(blocks) : p \notin Before[k] .. Before[k] + blocks[k] - 1
             PROVE FALSE
  OBVIOUS
<1> DEFINE L == Len(blocks)
           S == {n \in Nat : n + 1 \in 1 .. L + 1 => Before[n + 1] <= p}
<1>1. /\ L \in Nat /\ Before \in [1 .. L + 1 -> Nat] /\ Before[1] = 0
      /\ \A k \in 1 .. L : Before[k + 1] = Before[k] + blocks[k] /\ blocks[k] \in Nat
  BY BeforeIs
<1>2. 0 \in S
  BY <1>1
<1>3. ASSUME NEW n \in Nat, n \in S
      PROVE n + 1 \in S
  <2> SUFFICES ASSUME (n + 1) + 1 \in 1 .. L + 1 PROVE Before[(n + 1) + 1] <= p
    OBVIOUS
  <2>1. n + 1 \in 1 .. L /\ n + 1 \in 1 .. L + 1
    BY <1>1
  <2>2. Before[n + 1] <= p /\ p \notin Before[n + 1] .. Before[n + 1] + blocks[n + 1] - 1
    BY <1>3, <2>1
  <2>3. /\ Before[n + 1] \in Nat /\ blocks[n + 1] \in Nat
        /\ Before[(n + 1) + 1] = Before[n + 1] + blocks[n + 1]
    BY <1>1, <2>1
  <2> QED BY <2>2, <2>3
<1>4. L \in S
  <2> HIDE DEF S
  <2> QED BY <1>1, <1>2, <1>3, Inductive
<1>5. Before[L + 1] <= p /\ Before[L + 1] \in Nat
  BY <1>1, <1>4
<1> QED BY <1>5 DEF End, L
----------------------------------------------------------------------------
\* The largest cluster.
LEMMA MaxSize ==
    ASSUME UringAssumption
    PROVE Max(Sizes) \in Nat /\ \A i \in 1 .. Len(Clusters) : Clusters[i] <= Max(Sizes)
<1> DEFINE L == Len(Clusters)
           Some(n) == {0} \cup {Clusters[i] : i \in 1 .. n}
           S == {n \in Nat : n <= L => \E m \in Some(n) : \A y \in Some(n) : m >= y}
<1>1. L \in Nat /\ \A i \in 1 .. L : Clusters[i] \in Nat
  BY Constants
<1>2. 0 \in S
  OBVIOUS
<1>3. ASSUME NEW n \in Nat, n \in S
      PROVE n + 1 \in S
  <2> SUFFICES ASSUME n + 1 <= L PROVE \E m \in Some(n + 1) : \A y \in Some(n + 1) : m >= y
    OBVIOUS
  <2>1. n <= L /\ n + 1 \in 1 .. L
    BY <1>1
  <2>2. PICK m \in Some(n) : \A y \in Some(n) : m >= y
    BY <1>3, <2>1
  <2>3. Clusters[n + 1] \in Nat /\ m \in Nat /\ \A y \in Some(n) : y \in Nat
    BY <1>1, <2>1
  <2>4. Some(n + 1) = Some(n) \cup {Clusters[n + 1]}
    <3>1. \A i \in 1 .. n + 1 : i \in 1 .. n \/ i = n + 1
      OBVIOUS
    <3>2. \A i \in 1 .. n : i \in 1 .. n + 1
      OBVIOUS
    <3>3. n + 1 \in 1 .. n + 1
      OBVIOUS
    <3> QED BY <3>1, <3>2, <3>3
  <2> HIDE DEF Some
  <2>5. CASE m >= Clusters[n + 1]
    BY <2>2, <2>4, <2>5
  <2>6. CASE ~(m >= Clusters[n + 1])
    <3>1. ASSUME NEW y \in Some(n)
          PROVE Clusters[n + 1] >= y
      <4>1. m >= y /\ y \in Nat /\ m \in Nat /\ Clusters[n + 1] \in Nat
        BY <2>2, <2>3
      <4> QED BY <2>6, <4>1
    <3>2. \A y \in Some(n + 1) : Clusters[n + 1] >= y
      BY <2>3, <2>4, <3>1
    <3>3. Clusters[n + 1] \in Some(n + 1)
      BY <2>4
    <3> QED BY <3>2, <3>3
  <2> QED BY <2>5, <2>6
<1>4. L \in S
  <2> HIDE DEF S
  <2> QED BY <1>1, <1>2, <1>3, Inductive
<1>5. Sizes = Some(L)
  BY DEF Sizes
<1>6. \E m \in Sizes : \A y \in Sizes : m >= y
  BY <1>1, <1>4, <1>5
<1>7. Max(Sizes) \in Sizes /\ \A y \in Sizes : Max(Sizes) >= y
  BY <1>6 DEF Max
<1>8. \A y \in Sizes : y \in Nat
  BY <1>1 DEF Sizes
<1>9. \A i \in 1 .. L : Clusters[i] \in Sizes
  BY DEF Sizes
<1> QED BY <1>7, <1>8, <1>9

\* What the segments are made of: none is empty, and none larger than one
\* cluster over SEG_BYTES.
LEMMA GroupedIs ==
    ASSUME UringAssumption
    PROVE Grouped \in [0 .. Len(Clusters) ->
                         [segs : Seq(1 .. SegBytes + Max(Sizes)), acc : 0 .. SegBytes - 1]]
<1> DEFINE L == Len(Clusters)
           M == SegBytes + Max(Sizes)
           G == [segs : Seq(1 .. M), acc : 0 .. SegBytes - 1]
           Step(g, n) == LET acc == g.acc + Clusters[n]
                         IN  IF acc >= SegBytes THEN [segs |-> Append(g.segs, acc), acc |-> 0]
                                                ELSE [segs |-> g.segs, acc |-> acc]
           F == [x \in Nat \X G |-> IF x[1] < L THEN Step(x[2], x[1] + 1) ELSE x[2]]
           g0 == [segs |-> <<>>, acc |-> 0]
<1>1. /\ L \in Nat /\ SegBytes \in Nat \ {0} /\ Max(Sizes) \in Nat
      /\ \A n \in 1 .. L : Clusters[n] \in Nat \ {0} /\ Clusters[n] <= Max(Sizes)
  BY Constants, MaxSize
<1> HIDE DEF L
<1>2. g0 \in G
  BY <1>1
<1>3. ASSUME NEW g \in G, NEW n \in 1 .. L
      PROVE Step(g, n) \in G
  <2> DEFINE acc == g.acc + Clusters[n]
  <2>1. g.segs \in Seq(1 .. M) /\ g.acc \in 0 .. SegBytes - 1
    OBVIOUS
  <2>0. Clusters[n] \in Nat \ {0} /\ Clusters[n] <= Max(Sizes)
    BY <1>1
  <2>2. acc \in 1 .. M
    BY <1>1, <2>0, <2>1
  <2>5. Step(g, n) = IF acc >= SegBytes THEN [segs |-> Append(g.segs, acc), acc |-> 0]
                                        ELSE [segs |-> g.segs, acc |-> acc]
    OBVIOUS
  <2> HIDE DEF Step, acc
  <2>3. CASE acc >= SegBytes
    <3>1. Append(g.segs, acc) \in Seq(1 .. M)
      BY <2>1, <2>2
    <3>2. 0 \in 0 .. SegBytes - 1
      BY <1>1
    <3> QED BY <2>3, <2>5, <3>1, <3>2
  <2>4. CASE ~(acc >= SegBytes)
    <3>1. acc \in 0 .. SegBytes - 1
      <4> HIDE DEF M
      <4>1. acc \in Nat
        BY <2>2
      <4> QED BY <1>1, <2>4, <4>1
    <3> QED BY <2>1, <2>4, <2>5, <3>1
  <2> QED BY <2>3, <2>4
<1> HIDE DEF G
<1>4. F \in [Nat \X G -> G]
  <2> SUFFICES ASSUME NEW x \in Nat \X G
               PROVE (IF x[1] < L THEN Step(x[2], x[1] + 1) ELSE x[2]) \in G
    OBVIOUS
  <2>1. x[1] \in Nat /\ x[2] \in G
    OBVIOUS
  <2>2. x[1] < L => x[1] + 1 \in 1 .. L
    BY <1>1, <2>1
  <2> HIDE DEF Step
  <2> QED BY <1>3, <2>1, <2>2
<1>5. PICK f : Recursive(f, G, g0, F)
  <2> HIDE DEF F, g0
  <2> QED BY <1>2, <1>4, Recursion
<1>6. f \in [Nat -> G] /\ f[0] = g0 /\ \A n \in Nat : f[n + 1] = F[<<n, f[n]>>]
  BY <1>5 DEF Recursive
<1> HIDE DEF Step
<1> DEFINE h == [n \in 0 .. L |-> f[n]]
<1>7. h = [n \in 0 .. L |-> IF n = 0 THEN g0 ELSE Step(h[n - 1], n)]
  <2> SUFFICES ASSUME NEW n \in 0 .. L
               PROVE f[n] = IF n = 0 THEN g0 ELSE Step(h[n - 1], n)
    OBVIOUS
  <2>1. CASE n = 0
    BY <1>6, <2>1
  <2>2. CASE n # 0
    <3>1. n - 1 \in Nat /\ n - 1 < L /\ n - 1 \in 0 .. L /\ (n - 1) + 1 = n
      BY <1>1, <2>2
    <3>2. f[n] = F[<<n - 1, f[n - 1]>>] /\ f[n - 1] \in G
      BY <1>6, <3>1
    <3>3. F[<<n - 1, f[n - 1]>>] = Step(f[n - 1], n)
      BY <3>1, <3>2
    <3>4. h[n - 1] = f[n - 1]
      BY <3>1
    <3> QED BY <2>2, <3>2, <3>3, <3>4
  <2> QED BY <2>1, <2>2
<1> HIDE DEF h, F
<1>8. Grouped = [n \in 0 .. L |-> IF n = 0 THEN g0 ELSE Step(Grouped[n - 1], n)]
  BY <1>7 DEF Grouped, L, Step, g0
<1>9. \A n \in 0 .. L : Grouped[n] \in G
  <2> DEFINE S == {n \in Nat : n \in 0 .. L => Grouped[n] \in G}
  <2>1. 0 \in S
    BY <1>2, <1>8
  <2>2. ASSUME NEW n \in Nat, n \in S
        PROVE n + 1 \in S
    <3> SUFFICES ASSUME n + 1 \in 0 .. L PROVE Grouped[n + 1] \in G
      OBVIOUS
    <3>1. n \in 0 .. L /\ n + 1 # 0 /\ (n + 1) - 1 = n /\ n + 1 \in 1 .. L
      BY <1>1
    <3>2. Grouped[n] \in G
      BY <2>2, <3>1
    <3>3. Grouped[n + 1] = Step(Grouped[n], n + 1)
      BY <1>8, <3>1
    <3> QED BY <1>3, <3>1, <3>2, <3>3
  <2>3. Nat \subseteq S
    <3> HIDE DEF S
    <3> QED BY <2>1, <2>2, Inductive
  <2> QED BY <1>1, <2>3
<1>10. Grouped \in [0 .. L -> G]
  BY <1>8, <1>9
<1> QED BY <1>10 DEF L, G, M

LEMMA AppendOf ==
    ASSUME NEW S, NEW s \in Seq(S), NEW x \in S
    PROVE Append(s, x) \in Seq(S)
  OBVIOUS

LEMMA ElementsOf ==
    ASSUME NEW S, NEW s \in Seq(S)
    PROVE Len(s) \in Nat /\ s \in [1 .. Len(s) -> S]
  OBVIOUS

\* The headers and the segments fit the buffers.
LEMMA BlocksFit ==
    ASSUME UringAssumption
    PROVE \A s : s = <<HeaderLen>> \o Segments =>
             /\ s \in Seq(Nat \ {0}) /\ s # <<>>
             /\ \A k \in 1 .. Len(s) : s[k] <= Cap
<1> DEFINE g == Grouped[Len(Clusters)]
           M == SegBytes + Max(Sizes)
<1>1. /\ HeaderLen \in Nat \ {0} /\ SegBytes \in Nat \ {0} /\ Max(Sizes) \in Nat
      /\ Len(Clusters) \in Nat
  BY Constants, MaxSize
<1>2. g.segs \in Seq(1 .. M) /\ g.acc \in 0 .. SegBytes - 1
  <2>1. g \in [segs : Seq(1 .. M), acc : 0 .. SegBytes - 1]
    BY <1>1, GroupedIs
  <2> QED BY <2>1
<1>0. M \in Nat /\ SegBytes <= M
  BY <1>1
<1>3. Segments = IF g.acc > 0 THEN Append(g.segs, g.acc) ELSE g.segs
  BY DEF Segments
<1> HIDE DEF g, M
<1>4. Segments \in Seq(1 .. M)
  <2>1. CASE g.acc > 0
    <3>1. g.acc \in 1 .. M
      <4>1. g.acc \in Nat /\ g.acc <= SegBytes - 1 /\ g.acc > 0
        BY <1>1, <1>2, <2>1
      <4>2. SegBytes \in Nat /\ M \in Nat /\ SegBytes <= M
        BY <1>0, <1>1
      <4> QED BY <4>1, <4>2
    <3>2. Append(g.segs, g.acc) \in Seq(1 .. M)
      BY <1>2, <3>1, AppendOf
    <3> QED BY <1>3, <2>1, <3>2
  <2>2. CASE ~(g.acc > 0)
    BY <1>2, <1>3, <2>2
  <2> QED BY <2>1, <2>2
<1>5. Cap = Max({HeaderLen, M})
  BY DEF Cap, M
<1>6. HeaderLen <= Cap /\ M <= Cap /\ Cap \in Nat
  <2>1. \E x \in {HeaderLen, M} : \A y \in {HeaderLen, M} : x >= y
    <3>1. CASE HeaderLen >= M
      BY <1>0, <1>1, <3>1
    <3>2. CASE M >= HeaderLen
      BY <1>0, <1>1, <3>2
    <3> QED BY <1>0, <1>1, <3>1, <3>2
  <2>2. Cap \in {HeaderLen, M} /\ \A y \in {HeaderLen, M} : Cap >= y
    BY <1>5, <2>1 DEF Max
  <2> QED BY <1>0, <1>1, <2>2
<1>7. <<HeaderLen>> \in Seq(Nat \ {0}) /\ Segments \in Seq(Nat \ {0})
  <2>1. \A x \in 1 .. M : x \in Nat \ {0}
    BY <1>0
  <2> HIDE DEF M
  <2>2. Segments \in [1 .. Len(Segments) -> 1 .. M] /\ Len(Segments) \in Nat
    BY <1>4, ElementsOf
  <2>3. Segments \in [1 .. Len(Segments) -> Nat \ {0}]
    BY <2>1, <2>2
  <2> QED BY <1>1, <2>2, <2>3
<1>8. SUFFICES ASSUME NEW s, s = <<HeaderLen>> \o Segments
               PROVE s \in Seq(Nat \ {0}) /\ s # <<>> /\ \A k \in 1 .. Len(s) : s[k] <= Cap
  OBVIOUS
<1>9. s \in Seq(Nat \ {0}) /\ Len(s) = 1 + Len(Segments)
  BY <1>7, <1>8
<1>10. ASSUME NEW k \in 1 .. Len(s)
       PROVE s[k] <= Cap
  <2>1. CASE k = 1
    BY <1>1, <1>6, <1>7, <1>8, <2>1
  <2>2. CASE k # 1
    <3>1. k - 1 \in 1 .. Len(Segments)
      BY <1>7, <1>9, <2>2
    <3>2. s[k] = Segments[k - 1]
      BY <1>7, <1>8, <1>9, <2>2
    <3>3. Segments[k - 1] \in 1 .. M
      BY <1>4, <3>1, ElementsOf
    <3> QED BY <1>0, <1>6, <3>2, <3>3
  <2> QED BY <2>1, <2>2
<1> QED BY <1>7, <1>9, <1>10
----------------------------------------------------------------------------
LEMMA Inside ==
    ASSUME blocks \in Seq(Nat \ {0})
    PROVE End \in Nat /\ \A k \in 1 .. Len(blocks) : Before[k] + blocks[k] <= End
<1> DEFINE L == Len(blocks)
           S == {n \in Nat : n <= L => Before[(L + 1) - n] <= End}
<1>1. /\ L \in Nat /\ Before \in [1 .. L + 1 -> Nat]
      /\ \A k \in 1 .. L : Before[k + 1] = Before[k] + blocks[k] /\ blocks[k] \in Nat
  BY BeforeIs
<1>2. End = Before[L + 1] /\ End \in Nat
  <2>1. L + 1 \in 1 .. L + 1
    BY <1>1
  <2> QED BY <1>1, <2>1 DEF End
<1> HIDE DEF L
<1>3. 0 \in S
  <2>1. (L + 1) - 0 = L + 1
    BY <1>1
  <2> QED BY <1>2, <2>1
<1>4. ASSUME NEW n \in Nat, n \in S
      PROVE n + 1 \in S
  <2> SUFFICES ASSUME n + 1 <= L PROVE Before[(L + 1) - (n + 1)] <= End
    OBVIOUS
  <2> DEFINE k == (L + 1) - (n + 1)
  <2>1. n <= L /\ k \in 1 .. L /\ k + 1 = (L + 1) - n /\ k + 1 \in 1 .. L + 1 /\ k \in 1 .. L + 1
    BY <1>1
  <2> HIDE DEF k
  <2>2. Before[k + 1] <= End
    BY <1>4, <2>1
  <2>3. Before[k + 1] = Before[k] + blocks[k]
    BY <1>1, <2>1
  <2>5. blocks[k] \in Nat
    BY <1>1, <2>1
  <2>6. Before[k] \in Nat
    BY <1>1, <2>1
  <2>4. \A x, y, z, w \in Nat : x = y + z /\ x <= w => y <= w
    OBVIOUS
  <2>7. Before[k + 1] \in Nat
    BY <1>1, <2>1
  <2>8. Before[k] <= End
    BY <1>2, <2>2, <2>3, <2>4, <2>5, <2>6, <2>7
  <2> QED BY <2>8 DEF k
<1>5. \A n \in Nat : n \in S
  <2> HIDE DEF S
  <2> QED BY <1>3, <1>4, Inductive
<1>6. ASSUME NEW k \in 1 .. L
      PROVE Before[k] + blocks[k] <= End
  <2>1. L - k \in Nat /\ L - k <= L /\ (L + 1) - (L - k) = k + 1
    BY <1>1
  <2>2. Before[k + 1] <= End
    BY <1>5, <2>1
  <2> QED BY <1>1, <2>2
<1> QED BY <1>2, <1>6 DEF L

LEMMA SameBlocks ==
    ASSUME blocks' = blocks
    PROVE Before' = Before /\ End' = End
<1>1. Before' = Before
  BY DEF Before
<1> QED BY <1>1 DEF End
----------------------------------------------------------------------------
\* The queues.
LEMMA AppendIs ==
    ASSUME NEW S, NEW q \in Seq(S), NEW x \in S
    PROVE /\ Append(q, x) \in Seq(S) /\ Len(q) \in Nat /\ Len(Append(q, x)) = Len(q) + 1
          /\ \A i \in 1 .. Len(q) : Append(q, x)[i] = q[i]
          /\ Append(q, x)[Len(q) + 1] = x
          /\ Elems(Append(q, x)) = Elems(q) \cup {x}
<1>1. /\ Append(q, x) \in Seq(S) /\ Len(q) \in Nat /\ Len(Append(q, x)) = Len(q) + 1
      /\ \A i \in 1 .. Len(q) : Append(q, x)[i] = q[i]
      /\ Append(q, x)[Len(q) + 1] = x
  OBVIOUS
<1>2. /\ \A i \in 1 .. Len(q) + 1 : i \in 1 .. Len(q) \/ i = Len(q) + 1
      /\ Len(q) + 1 \in 1 .. Len(q) + 1
      /\ \A i \in 1 .. Len(q) : i \in 1 .. Len(q) + 1
  BY <1>1
<1>3. Elems(Append(q, x)) = Elems(q) \cup {x}
  BY <1>1, <1>2, Zenon DEF Elems
<1> QED BY <1>1, <1>3

LEMMA TailIs ==
    ASSUME NEW S, NEW q \in Seq(S), q # <<>>
    PROVE /\ Tail(q) \in Seq(S) /\ Len(q) \in Nat \ {0} /\ Len(Tail(q)) = Len(q) - 1
          /\ \A i \in 1 .. Len(q) - 1 : Tail(q)[i] = q[i + 1]
          /\ Head(q) = q[1] /\ Head(q) \in S
          /\ Elems(q) = Elems(Tail(q)) \cup {Head(q)}
<1>1. /\ Tail(q) \in Seq(S) /\ Len(q) \in Nat \ {0} /\ Len(Tail(q)) = Len(q) - 1
      /\ \A i \in 1 .. Len(q) - 1 : Tail(q)[i] = q[i + 1]
      /\ Head(q) = q[1] /\ Head(q) \in S
  OBVIOUS
<1>2. /\ \A i \in 1 .. Len(q) : i = 1 \/ (i - 1 \in 1 .. Len(q) - 1 /\ (i - 1) + 1 = i)
      /\ 1 \in 1 .. Len(q)
      /\ \A i \in 1 .. Len(q) - 1 : i + 1 \in 1 .. Len(q)
  BY <1>1
<1>3. Elems(q) \subseteq Elems(Tail(q)) \cup {Head(q)}
  <2> SUFFICES ASSUME NEW i \in 1 .. Len(q), q[i] # Head(q)
               PROVE \E j \in 1 .. Len(Tail(q)) : q[i] = Tail(q)[j]
    BY DEF Elems
  <2>1. i - 1 \in 1 .. Len(q) - 1 /\ (i - 1) + 1 = i
    BY <1>1, <1>2
  <2> QED BY <1>1, <2>1
<1>4. Elems(Tail(q)) \cup {Head(q)} \subseteq Elems(q)
  <2>1. \A j \in 1 .. Len(Tail(q)) : \E i \in 1 .. Len(q) : Tail(q)[j] = q[i]
    BY <1>1, <1>2
  <2>2. \E i \in 1 .. Len(q) : Head(q) = q[i]
    BY <1>1, <1>2
  <2> QED BY <2>1, <2>2 DEF Elems
<1> QED BY <1>1, <1>3, <1>4

LEMMA EntryAdded ==
    ASSUME NEW q \in Seq(Entry), NEW x \in Entry, Once(q), x.b \notin Queued(q)
    PROVE /\ Append(q, x) \in Seq(Entry) /\ Once(Append(q, x))
          /\ Elems(Append(q, x)) = Elems(q) \cup {x}
          /\ Queued(Append(q, x)) = Queued(q) \cup {x.b}
<1> DEFINE a == Append(q, x)
<1>1. /\ a \in Seq(Entry) /\ Len(q) \in Nat /\ Len(a) = Len(q) + 1
      /\ \A i \in 1 .. Len(q) : a[i] = q[i]
      /\ a[Len(q) + 1] = x /\ Elems(a) = Elems(q) \cup {x}
  BY AppendIs
<1> HIDE DEF a
<1>2. Queued(a) = Queued(q) \cup {x.b}
  BY <1>1 DEF Queued
<1>3. \A i \in 1 .. Len(q) : q[i].b # x.b
  BY DEF Queued, Elems
<1>4. \A i \in 1 .. Len(a) : i \in 1 .. Len(q) \/ i = Len(q) + 1
  BY <1>1
<1>5. Once(a)
  BY <1>1, <1>3, <1>4 DEF Once
<1> QED BY <1>1, <1>2, <1>5 DEF a

LEMMA EntryTaken ==
    ASSUME NEW q \in Seq(Entry), q # <<>>, Once(q)
    PROVE /\ Tail(q) \in Seq(Entry) /\ Once(Tail(q)) /\ Head(q) \in Entry
          /\ Elems(q) = Elems(Tail(q)) \cup {Head(q)}
          /\ Queued(q) = Queued(Tail(q)) \cup {Head(q).b}
          /\ Head(q).b \notin Queued(Tail(q))
<1> DEFINE a == Tail(q)
           h == Head(q)
<1>1. /\ a \in Seq(Entry) /\ Len(q) \in Nat \ {0} /\ Len(a) = Len(q) - 1
      /\ \A i \in 1 .. Len(q) - 1 : a[i] = q[i + 1]
      /\ h = q[1] /\ h \in Entry /\ Elems(q) = Elems(a) \cup {h}
  BY TailIs
<1> HIDE DEF a, h
<1>2. Queued(q) = Queued(a) \cup {h.b}
  BY <1>1 DEF Queued
<1>3. /\ 1 \in 1 .. Len(q)
      /\ \A i \in 1 .. Len(q) - 1 : i \in Nat /\ i + 1 \in 1 .. Len(q) /\ i + 1 # 1
  BY <1>1
<1>4. \A i, j \in Nat : i + 1 = j + 1 => i = j
  OBVIOUS
<1>5. Once(a)
  BY <1>1, <1>3, <1>4 DEF Once
<1>6. \A i \in 1 .. Len(a) : a[i].b # h.b
  BY <1>1, <1>3 DEF Once
<1>7. h.b \notin Queued(a)
  BY <1>6 DEF Queued, Elems
<1> QED BY <1>1, <1>2, <1>5, <1>7 DEF a, h
----------------------------------------------------------------------------
LEMMA InitRing ==
    ASSUME UringAssumption, Init
    PROVE RingInv
<1>1. /\ blocks \in Seq(Nat \ {0}) /\ blocks # <<>> /\ Fits
      /\ pc = "setup" /\ ui = 1 /\ off = 0
      /\ slots = [b \in Bufs |-> [off |-> 0, len |-> 0, acked |-> 0]]
      /\ buf = [b \in Bufs |-> 0]
      /\ relaxed \in BOOLEAN /\ store = <<>> /\ sq = <<>> /\ flight = {} /\ cq = <<>>
      /\ file = [p \in 0 .. End - 1 |-> NoByte] /\ batch = 0
  <2>1. blocks = <<HeaderLen>> \o Segments
    BY DEF Init
  <2>2. blocks \in Seq(Nat \ {0}) /\ blocks # <<>> /\ Fits
    BY <2>1, BlocksFit DEF Fits
  <2> QED BY <2>2 DEF Init
<1>2. Before[1] = 0
  BY <1>1, BeforeIs
<1>3. Elems(store) = {} /\ Elems(sq) = {} /\ Elems(cq) = {}
  BY <1>1 DEF Elems
<1>4. Types
  <2>1. ui \in 1 .. Len(blocks) + 1
    BY <1>1
  <2>2. slots \in [Bufs -> Slot]
    BY <1>1 DEF Slot
  <2>3. store \in Seq(Entry) /\ sq \in Seq(Entry) /\ cq \in Seq(Bufs \X Int)
    BY <1>1
  <2>4. batch \in 0 .. Len(cq)
    BY <1>1
  <2>5. file \in [0 .. End - 1 -> Nat \X Nat]
    BY <1>1 DEF NoByte
  <2>6. buf \in [Bufs -> Nat] /\ off \in Nat /\ flight \subseteq Entry
    BY <1>1
  <2> QED BY <1>1, <2>1, <2>2, <2>3, <2>4, <2>5, <2>6 DEF Types
<1>5. Apart
  BY <1>1, <1>3 DEF Apart, Once, ToldOnce, Told, Queued, Flying, Reported
<1>6. Busy
  BY <1>1, <1>3 DEF Busy, UnderWay, Queued, Flying, Reported, Told
<1>7. Left /\ Results
  BY <1>1, <1>3 DEF Left, Results
<1>8. \A b \in Bufs : ~Held(b) /\ slots[b].acked = 0 /\ slots[b].len = 0
  BY <1>1 DEF Held
<1>9. Described
  BY <1>8 DEF Described
<1>10. Kept
  <2>1. \A k \in 1 .. ui - 1 : FALSE
    BY <1>1
  <2> QED BY <2>1 DEF Kept
<1>11. Turn
  BY <1>1, <1>2 DEF Turn
<1>12. Bytes
  BY <1>1 DEF Bytes
<1> QED BY <1>1, <1>4, <1>5, <1>6, <1>7, <1>9, <1>10, <1>11, <1>12 DEF RingInv

\* What a step leaves alone.
LEMMA Idle ==
    ASSUME RingInv,
           UNCHANGED <<blocks, ui, off, slots, buf, relaxed, store, sq, flight, cq, file>>,
           \A b \in Bufs : Held(b)' = Held(b),
           pc' \in {"setup", "acquire", "build", "submit", "flags", "wait", "events", "reap",
                    "rest", "done", "failed"},
           batch' \in 0 .. Len(cq), Turn'
    PROVE RingInv'
<1>1. Before' = Before /\ End' = End
  BY SameBlocks
<1>2. Types'
  BY <1>1 DEF RingInv, Types
<1>3. Apart' /\ Busy'
  <2>1. /\ Queued(store)' = Queued(store) /\ Queued(sq)' = Queued(sq)
        /\ Flying' = Flying /\ Reported' = Reported
        /\ Once(store)' = Once(store) /\ Once(sq)' = Once(sq)
    BY DEF Queued, Elems, Flying, Reported, Told, Once
  <2>2. Apart'
    BY <2>1 DEF RingInv, Apart, ToldOnce
  <2>3. Busy'
    BY <2>1 DEF RingInv, Busy, UnderWay, Open
  <2> QED BY <2>2, <2>3
<1>4. Left'
  BY DEF RingInv, Left, Elems, Rest
<1>5. Results'
  BY DEF RingInv, Results, Result, Elems, Stored
<1>6. Described'
  BY <1>1 DEF RingInv, Described, Describes, Stored
<1>7. Kept'
  BY <1>1 DEF RingInv, Kept, Stored
<1>8. Bytes'
  BY <1>1 DEF RingInv, Bytes, Right
<1>9. Fits'
  BY DEF RingInv, Fits
<1> QED BY <1>2, <1>3, <1>4, <1>5, <1>6, <1>7, <1>8, <1>9 DEF RingInv

\* The writer's own bookkeeping, and the kernel's thread.
LEMMA IdleSteps ==
    ASSUME UringAssumption, RingInv,
           Setup \/ Acquire \/ AfterPush \/ BeforeWait \/ AfterRest \/ GetEvents \/ Reaped
           \/ Drain \/ Doze
    PROVE RingInv'
<1>1. UNCHANGED <<blocks, ui, off, slots, buf, relaxed, store, sq, flight, cq, file>>
  BY DEF Setup, Acquire, AfterPush, BeforeWait, AfterRest, Flags, GetEvents, Reaped, Drain, Doze,
         writer, mem, kernel
<1>2. Before' = Before /\ End' = End
  BY <1>1, SameBlocks
<1>3. Types /\ Turn
  BY DEF RingInv
<1>4. \A b \in Bufs : Open(b)' = Open(b)
  BY <1>1 DEF Open
<1>5. CASE Setup \/ AfterPush \/ BeforeWait \/ AfterRest \/ GetEvents \/ Reaped
  <2>1. /\ pc \in {"setup", "flags", "wait", "rest", "events", "reap"}
        /\ pc' \in {"failed", "acquire", "events", "reap"}
    BY <1>5 DEF Setup, AfterPush, BeforeWait, AfterRest, Flags, GetEvents, Reaped, Fail
  <2>2. batch' \in 0 .. Len(cq)
    <3>1. batch' = batch \/ batch' = Len(cq)
      BY <1>5 DEF Setup, AfterPush, BeforeWait, AfterRest, Flags, GetEvents, Reaped
    <3>2. batch \in 0 .. Len(cq) /\ Len(cq) \in Nat
      BY <1>3 DEF Types
    <3> QED BY <3>1, <3>2
  <2>3. Turn'
    BY <1>1, <1>2, <1>3, <2>1 DEF Turn
  <2>4. \A b \in Bufs : Held(b)' = Held(b)
    BY <1>1, <2>1 DEF Held
  <2>5. pc' \in {"setup", "acquire", "build", "submit", "flags", "wait", "events", "reap",
                 "rest", "done", "failed"}
    BY <2>1
  <2> QED BY <1>1, <2>2, <2>3, <2>4, <2>5, Idle
<1>6. CASE Acquire
  <2>1. pc = "acquire" /\ ui <= Len(blocks) /\ batch' = batch
    BY <1>6 DEF Acquire
  <2>2. \/ pc' = "build" /\ idx' \in Bufs /\ ~Open(idx')
        \/ pc' = "wait"
    BY <1>6 DEF Acquire
  <2>3. Turn'
    BY <1>1, <1>2, <1>3, <1>4, <2>1, <2>2 DEF Turn, Open
  <2>4. \A b \in Bufs : Held(b)' = Held(b)
    BY <1>1, <2>1, <2>2 DEF Held
  <2>5. pc' \in {"setup", "acquire", "build", "submit", "flags", "wait", "events", "reap",
                 "rest", "done", "failed"}
    BY <2>2
  <2>6. batch' \in 0 .. Len(cq)
    BY <1>3, <2>1 DEF Types
  <2> QED BY <1>1, <2>3, <2>4, <2>5, <2>6, Idle
<1>7. CASE Drain
  <2>1. pc = "acquire" /\ ui > Len(blocks) /\ batch' = batch
    BY <1>7 DEF Drain
  <2>2. \/ pc' = "wait"
        \/ pc' = "done" /\ \A b \in Bufs : ~Open(b)
    BY <1>7 DEF Drain
  <2>0. ui = Len(blocks) + 1
    <3>1. ui \in 1 .. Len(blocks) + 1 /\ Len(blocks) \in Nat
      BY <1>3 DEF Types
    <3> QED BY <2>1, <3>1
  <2>3. Turn'
    BY <1>1, <1>2, <1>3, <1>4, <2>0, <2>2 DEF Turn
  <2>4. \A b \in Bufs : Held(b)' = Held(b)
    BY <1>1, <2>1, <2>2 DEF Held
  <2>5. pc' \in {"setup", "acquire", "build", "submit", "flags", "wait", "events", "reap",
                 "rest", "done", "failed"}
    BY <2>2
  <2>6. batch' \in 0 .. Len(cq)
    BY <1>3, <2>1 DEF Types
  <2> QED BY <1>1, <2>3, <2>4, <2>5, <2>6, Idle
<1>8. CASE Doze
  <2>1. UNCHANGED <<pc, idx, batch>>
    BY <1>8 DEF Doze, writer
  <2>2. Turn'
    BY <1>1, <1>2, <1>3, <1>4, <2>1 DEF Turn, Open
  <2>3. \A b \in Bufs : Held(b)' = Held(b)
    BY <1>1, <2>1 DEF Held
  <2>4. batch' \in 0 .. Len(cq) /\ pc' \in {"setup", "acquire", "build", "submit", "flags",
                 "wait", "events", "reap", "rest", "done", "failed"}
    BY <1>3, <2>1 DEF Types
  <2> QED BY <1>1, <2>2, <2>3, <2>4, Idle
<1> QED BY <1>5, <1>6, <1>7, <1>8

LEMMA StepStutter ==
    ASSUME RingInv, UNCHANGED vars
    PROVE RingInv'
<1>1. UNCHANGED <<pc, idx, batch, blocks, ui, off, slots, buf, relaxed, store, sq, flight, cq, file>>
  BY DEF vars, writer, mem, kernel
<1>2. Before' = Before
  BY <1>1, SameBlocks
<1>3. Turn'
  BY <1>1, <1>2 DEF RingInv, Turn, Open
<1>4. \A b \in Bufs : Held(b)' = Held(b)
  BY <1>1 DEF Held
<1>5. batch' \in 0 .. Len(cq) /\ pc' \in {"setup", "acquire", "build", "submit", "flags",
               "wait", "events", "reap", "rest", "done", "failed"}
  BY <1>1 DEF RingInv, Types
<1> QED BY <1>1, <1>3, <1>4, <1>5, Idle
----------------------------------------------------------------------------
LEMMA ReportAdded ==
    ASSUME NEW q \in Seq(Bufs \X Int), NEW b \in Bufs, NEW n \in Int,
           ToldOnce(q),
           b \notin Told(q)
    PROVE /\ Append(q, <<b, n>>) \in Seq(Bufs \X Int) /\ Len(Append(q, <<b, n>>)) = Len(q) + 1
          /\ ToldOnce(Append(q, <<b, n>>))
          /\ Elems(Append(q, <<b, n>>)) = Elems(q) \cup {<<b, n>>}
          /\ Told(Append(q, <<b, n>>)) = Told(q) \cup {b}
<1> DEFINE a == Append(q, <<b, n>>)
           S == Bufs \X Int
           x == <<b, n>>
<1>0. x \in S /\ x[1] = b
  OBVIOUS
<1>1. /\ a \in Seq(S) /\ Len(q) \in Nat /\ Len(a) = Len(q) + 1
      /\ \A i \in 1 .. Len(q) : a[i] = q[i]
      /\ a[Len(q) + 1] = x /\ Elems(a) = Elems(q) \cup {x}
  <2> HIDE DEF S, x
  <2>1. a = Append(q, x) /\ q \in Seq(S)
    BY DEF x, S
  <2> HIDE DEF a
  <2> QED BY <1>0, <2>1, AppendIs
<1> HIDE DEF a, x
<1>2. Told(a) = Told(q) \cup {b}
  BY <1>0, <1>1 DEF Told
<1>3. \A i \in 1 .. Len(q) : q[i][1] # b
  BY DEF Told, Elems
<1>4. \A i \in 1 .. Len(a) : i \in 1 .. Len(q) \/ i = Len(q) + 1
  BY <1>1
<1>5. ToldOnce(a)
  BY <1>0, <1>1, <1>3, <1>4 DEF ToldOnce
<1> QED BY <1>1, <1>2, <1>5 DEF a, x

LEMMA ReportTaken ==
    ASSUME NEW q \in Seq(Bufs \X Int), q # <<>>,
           ToldOnce(q)
    PROVE /\ Tail(q) \in Seq(Bufs \X Int) /\ Len(q) \in Nat \ {0} /\ Len(Tail(q)) = Len(q) - 1
          /\ ToldOnce(Tail(q))
          /\ Head(q) \in Bufs \X Int
          /\ Elems(q) = Elems(Tail(q)) \cup {Head(q)}
          /\ Told(q) = Told(Tail(q)) \cup {Head(q)[1]}
          /\ Head(q)[1] \notin Told(Tail(q))
<1> DEFINE a == Tail(q)
           h == Head(q)
           S == Bufs \X Int
<1>1. /\ a \in Seq(S) /\ Len(q) \in Nat \ {0} /\ Len(a) = Len(q) - 1
      /\ \A i \in 1 .. Len(q) - 1 : a[i] = q[i + 1]
      /\ h = q[1] /\ h \in S /\ Elems(q) = Elems(a) \cup {h}
  <2>1. q \in Seq(S)
    OBVIOUS
  <2> HIDE DEF S
  <2> QED BY <2>1, TailIs
<1> HIDE DEF a, h
<1>2. Told(q) = Told(a) \cup {h[1]}
  BY <1>1 DEF Told
<1>3. /\ 1 \in 1 .. Len(q)
      /\ \A i \in 1 .. Len(q) - 1 : i \in Nat /\ i + 1 \in 1 .. Len(q) /\ i + 1 # 1
  BY <1>1
<1>4. \A i, j \in Nat : i + 1 = j + 1 => i = j
  OBVIOUS
<1>5. ASSUME NEW i \in 1 .. Len(a), NEW j \in 1 .. Len(a), a[i][1] = a[j][1]
      PROVE i = j
  <2>1. i \in 1 .. Len(q) - 1 /\ j \in 1 .. Len(q) - 1
    BY <1>1
  <2>2. a[i] = q[i + 1] /\ a[j] = q[j + 1]
    BY <1>1, <2>1
  <2>3. i + 1 \in 1 .. Len(q) /\ j + 1 \in 1 .. Len(q) /\ i \in Nat /\ j \in Nat
    BY <1>3, <2>1
  <2>4. i + 1 = j + 1
    BY <1>5, <2>2, <2>3 DEF ToldOnce
  <2> QED BY <1>4, <2>3, <2>4
<1>6. ASSUME NEW i \in 1 .. Len(a), a[i][1] = h[1]
      PROVE FALSE
  <2>1. i \in 1 .. Len(q) - 1
    BY <1>1
  <2>2. a[i] = q[i + 1] /\ h = q[1]
    BY <1>1, <2>1
  <2>3. i + 1 \in 1 .. Len(q) /\ 1 \in 1 .. Len(q) /\ i + 1 # 1
    BY <1>3, <2>1
  <2> QED BY <1>6, <2>2, <2>3 DEF ToldOnce
<1>7. h[1] \notin Told(a)
  BY <1>6 DEF Told, Elems
<1>8. ToldOnce(a)
  BY <1>5 DEF ToldOnce
<1> QED BY <1>1, <1>2, <1>7, <1>8 DEF a, h

\* The queues and what they say, when only the writer's turn changes,
LEMMA Queues ==
    ASSUME RingInv, UNCHANGED <<slots, store, sq, flight, cq, file>>
    PROVE Apart' /\ Busy' /\ Left' /\ Results'
<1>1. /\ Queued(store)' = Queued(store) /\ Queued(sq)' = Queued(sq)
      /\ Flying' = Flying /\ Reported' = Reported
      /\ Once(store)' = Once(store) /\ Once(sq)' = Once(sq)
  BY DEF Queued, Elems, Flying, Reported, Told, Once
<1>2. Apart'
  BY <1>1 DEF RingInv, Apart, ToldOnce
<1>3. Busy'
  BY <1>1 DEF RingInv, Busy, UnderWay, Open
<1>4. Left'
  BY DEF RingInv, Left, Elems, Rest
<1>5. Results'
  BY DEF RingInv, Results, Result, Elems, Stored
<1> QED BY <1>2, <1>3, <1>4, <1>5

\* and the blocks, when only the queues do.
LEMMA Blocks ==
    ASSUME RingInv, UNCHANGED <<pc, idx, blocks, ui, off, slots, buf, file>>
    PROVE Described' /\ Kept' /\ Turn' /\ Bytes' /\ Fits' /\ Before' = Before /\ End' = End
<1>1. Before' = Before /\ End' = End
  BY SameBlocks
<1>2. \A b \in Bufs : Held(b)' = Held(b)
  BY DEF Held
<1>3. Described'
  BY <1>1, <1>2 DEF RingInv, Described, Describes, Stored
<1>4. Kept'
  BY <1>1, <1>2 DEF RingInv, Kept, Stored
<1>5. Turn'
  BY <1>1 DEF RingInv, Turn, Open
<1>6. Bytes'
  BY <1>1 DEF RingInv, Bytes, Right
<1>7. Fits'
  BY DEF RingInv, Fits
<1> QED BY <1>1, <1>3, <1>4, <1>5, <1>6, <1>7

LEMMA StepBuild ==
    ASSUME UringAssumption, RingInv, Build
    PROVE RingInv'
<1>1. /\ pc = "build" /\ buf' = [buf EXCEPT ![idx] = ui] /\ pc' = "submit"
      /\ UNCHANGED <<blocks, ui, off, idx, slots, relaxed, store, sq, flight, cq, file, batch>>
  BY DEF Build, kernel
<1>2. idx \in Bufs /\ ~Open(idx) /\ ui <= Len(blocks) /\ off = Before[ui]
  BY <1>1 DEF RingInv, Turn
<1>3. Types /\ Described /\ Kept
  BY DEF RingInv
<1>4. Before' = Before /\ End' = End
  BY <1>1, SameBlocks
<1>5. ui \in Nat /\ buf \in [Bufs -> Nat] /\ slots \in [Bufs -> Slot]
  BY <1>3 DEF Types
<1>6. buf' \in [Bufs -> Nat] /\ buf'[idx] = ui /\ \A b \in Bufs : b # idx => buf'[b] = buf[b]
  BY <1>1, <1>2, <1>5
<1>7. \A b \in Bufs : b # idx => Held(b)' = Held(b)
  BY <1>1, <1>6 DEF Held
<1>8. ~Held(idx)' /\ (Held(idx) <=> buf[idx] # 0)
  BY <1>1 DEF Held
<1>9. slots[idx].acked = slots[idx].len
  <2>1. slots[idx].acked \in Nat /\ slots[idx].len \in Nat
    BY <1>2, <1>5 DEF Slot
  <2>2. slots[idx].acked <= slots[idx].len /\ ~(slots[idx].acked < slots[idx].len)
    BY <1>2, <1>3 DEF Described, Open
  <2> QED BY <2>1, <2>2
<1>10. Types'
  BY <1>1, <1>3, <1>4, <1>6 DEF Types
<1>11. Apart' /\ Busy' /\ Left' /\ Results'
  BY <1>1, Queues
<1>12. \A from, n : Stored(from, n)' = Stored(from, n)
  BY <1>1 DEF Stored
<1>13. Described'
  <2> SUFFICES ASSUME NEW b \in Bufs
               PROVE /\ slots'[b].acked <= slots'[b].len
                     /\ Held(b)' => Describes(b)'
                     /\ ~Held(b)' => slots'[b].acked = slots'[b].len
    BY DEF Described
  <2>1. CASE b = idx
    BY <1>1, <1>3, <1>8, <1>9, <2>1 DEF Described
  <2>2. CASE b # idx
    <3>1. Describes(b) => Describes(b)'
      BY <1>1, <1>4, <1>6, <1>12, <2>2 DEF Describes
    <3> QED BY <1>1, <1>3, <1>7, <2>2, <3>1 DEF Described
  <2> QED BY <2>1, <2>2
<1>14. Kept'
  <2> SUFFICES ASSUME NEW k \in 1 .. ui - 1
               PROVE \/ Stored(Before[k], blocks[k])
                     \/ \E b \in Bufs : Held(b)' /\ buf'[b] = k
    BY <1>1, <1>4, <1>12 DEF Kept
  <2>1. CASE Stored(Before[k], blocks[k])
    BY <2>1
  <2>2. ASSUME NEW b \in Bufs, Held(b), buf[b] = k
        PROVE \/ Stored(Before[k], blocks[k])
              \/ Held(b)' /\ buf'[b] = k
    <3>1. CASE b # idx
      BY <1>6, <1>7, <2>2, <3>1
    <3>2. CASE b = idx
      <4>1. Describes(idx)
        BY <1>2, <1>3, <2>2, <3>2 DEF Described
      <4> QED BY <1>9, <2>2, <3>2, <4>1 DEF Describes
    <3> QED BY <3>1, <3>2
  <2> QED BY <1>3, <2>1, <2>2 DEF Kept
<1>15. Turn'
  BY <1>1, <1>2, <1>4, <1>6 DEF Turn, Open
<1>16. Bytes' /\ Fits'
  BY <1>1, <1>4 DEF RingInv, Bytes, Right, Fits
<1> QED BY <1>10, <1>11, <1>13, <1>14, <1>15, <1>16 DEF RingInv

LEMMA StepVisible ==
    ASSUME UringAssumption, RingInv, Visible
    PROVE RingInv'
<1>1. /\ store # <<>> /\ sq' = Append(sq, Head(store)) /\ store' = Tail(store)
      /\ UNCHANGED <<pc, blocks, ui, off, idx, slots, buf, relaxed, flight, cq, file, batch>>
  BY DEF Visible, writer, mem
<1>2. Types /\ Apart
  BY DEF RingInv
<1>3. store \in Seq(Entry) /\ sq \in Seq(Entry)
  BY <1>2 DEF Types
<1> DEFINE h == Head(store)
<1>4. /\ store' \in Seq(Entry) /\ Once(store') /\ h \in Entry
      /\ Elems(store) = Elems(store') \cup {h} /\ Queued(store) = Queued(store') \cup {h.b}
      /\ h.b \notin Queued(store')
  BY <1>1, <1>2, <1>3, EntryTaken DEF Apart
<1>5. sq' = Append(sq, h)
  BY <1>1
<1> HIDE DEF h
<1>6. h.b \notin Queued(sq)
  BY <1>2, <1>4 DEF Apart
<1>7. /\ sq' \in Seq(Entry) /\ Once(sq') /\ Elems(sq') = Elems(sq) \cup {h}
      /\ Queued(sq') = Queued(sq) \cup {h.b}
  BY <1>2, <1>3, <1>4, <1>5, <1>6, EntryAdded DEF Apart
<1>8. Described' /\ Kept' /\ Turn' /\ Bytes' /\ Fits' /\ Before' = Before /\ End' = End
  BY <1>1, Blocks
<1>9. Types'
  BY <1>1, <1>2, <1>4, <1>7, <1>8 DEF Types
<1>10. Flying' = Flying /\ Reported' = Reported
  BY <1>1 DEF Flying, Reported, Told, Elems
<1>11. Apart'
  BY <1>1, <1>2, <1>4, <1>6, <1>7, <1>10 DEF Apart, ToldOnce
<1>12. Busy'
  <2>1. UnderWay' = UnderWay
    BY <1>4, <1>7, <1>10 DEF UnderWay
  <2> QED BY <1>1, <2>1 DEF RingInv, Busy, Open
<1>13. Left'
  <2>1. Elems(store') \cup Elems(sq') \cup flight' = Elems(store) \cup Elems(sq) \cup flight
    BY <1>1, <1>4, <1>7
  <2> QED BY <1>1, <2>1 DEF RingInv, Left, Rest
<1>14. Results'
  BY <1>1 DEF RingInv, Results, Result, Stored, Elems
<1> QED BY <1>8, <1>9, <1>11, <1>12, <1>13, <1>14 DEF RingInv

LEMMA StepPoll ==
    ASSUME UringAssumption, RingInv, Poll
    PROVE RingInv'
<1>1. /\ sq # <<>> /\ sq' = Tail(sq) /\ flight' = flight \cup {Head(sq)}
      /\ UNCHANGED <<pc, blocks, ui, off, idx, slots, buf, relaxed, store, cq, file, batch>>
  BY DEF Poll, writer, mem
<1>2. Types /\ Apart
  BY DEF RingInv
<1>3. sq \in Seq(Entry) /\ flight \subseteq Entry
  BY <1>2 DEF Types
<1> DEFINE h == Head(sq)
<1>4. /\ sq' \in Seq(Entry) /\ Once(sq') /\ h \in Entry
      /\ Elems(sq) = Elems(sq') \cup {h} /\ Queued(sq) = Queued(sq') \cup {h.b}
      /\ h.b \notin Queued(sq')
  BY <1>1, <1>2, <1>3, EntryTaken DEF Apart
<1>5. flight' = flight \cup {h}
  BY <1>1
<1> HIDE DEF h
<1>6. h.b \notin Flying /\ h.b \notin Reported
  BY <1>2, <1>4 DEF Apart
<1>7. Flying' = Flying \cup {h.b}
  BY <1>5 DEF Flying
<1>8. Described' /\ Kept' /\ Turn' /\ Bytes' /\ Fits' /\ Before' = Before /\ End' = End
  BY <1>1, Blocks
<1>9. Types'
  BY <1>1, <1>2, <1>3, <1>4, <1>5, <1>8 DEF Types
<1>10. /\ Reported' = Reported /\ Queued(store)' = Queued(store) /\ Once(store)' = Once(store)
       /\ Elems(store)' = Elems(store)
  BY <1>1 DEF Reported, Told, Elems, Queued, Once
<1>11. Apart'
  <2>1. \A e, f \in flight' : e.b = f.b => e = f
    BY <1>2, <1>5, <1>6 DEF Apart, Flying
  <2>2. ToldOnce(cq')
    BY <1>1, <1>2 DEF Apart, ToldOnce
  <2> QED BY <1>2, <1>4, <1>6, <1>7, <1>10, <2>1, <2>2 DEF Apart
<1>12. Busy'
  <2>1. UnderWay' = UnderWay
    BY <1>4, <1>7, <1>10 DEF UnderWay
  <2> QED BY <1>1, <2>1 DEF RingInv, Busy, Open
<1>13. Left'
  <2>1. Elems(store)' \cup Elems(sq') \cup flight' = Elems(store) \cup Elems(sq) \cup flight
    BY <1>4, <1>5, <1>10
  <2> QED BY <1>1, <2>1 DEF RingInv, Left, Rest
<1>14. Results'
  BY <1>1 DEF RingInv, Results, Result, Stored, Elems
<1> QED BY <1>8, <1>9, <1>11, <1>12, <1>13, <1>14 DEF RingInv
----------------------------------------------------------------------------
\* A buffer of which anything is under way holds a submitted block.
LEMMA OfABlock ==
    ASSUME RingInv, NEW b \in Bufs, b \in UnderWay
    PROVE /\ Held(b) /\ Describes(b) /\ buf[b] \in 1 .. Len(blocks)
          /\ slots[b].acked \in Nat /\ slots[b].len \in Nat /\ slots[b].acked < slots[b].len
<1>1. Types /\ Described /\ Open(b)
  BY DEF RingInv, Busy
<1>2. slots[b].acked \in Nat /\ slots[b].len \in Nat
  BY <1>1 DEF Types, Slot
<1>3. slots[b].acked < slots[b].len
  BY <1>1 DEF Open
<1>4. Held(b)
  BY <1>1, <1>2, <1>3 DEF Described
<1>5. Describes(b)
  BY <1>1, <1>4 DEF Described
<1>6. buf[b] \in 1 .. Len(blocks)
  <2>1. buf[b] \in 1 .. ui - 1
    BY <1>5 DEF Describes
  <2>2. ui \in 1 .. Len(blocks) + 1 /\ Len(blocks) \in Nat
    BY <1>1 DEF Types
  <2> QED BY <2>1, <2>2
<1> QED BY <1>2, <1>3, <1>4, <1>5, <1>6

LEMMA InPlace ==
    ASSUME NEW B \in Nat, NEW K \in Nat, NEW A \in Nat, NEW X \in Nat, NEW n \in Nat, NEW p \in Int,
           B + K <= X, n <= K - A, B + A <= p, p < B + A + n
    PROVE p \in 0 .. X - 1 /\ A + p - (B + A) \in 0 .. K - 1 /\ B + (A + p - (B + A)) = p
  OBVIOUS

\* The bytes a kernel's write puts in the file are of the block, in their places.
LEMMA WriteIsRight ==
    ASSUME RingInv, NEW e \in flight, NEW n \in 0 .. e.len, Write(e, n), blocks' = blocks
    PROVE /\ file' \in [0 .. End - 1 -> Nat \X Nat]
          /\ \A p \in 0 .. End - 1 : file[p] # NoByte => file'[p] # NoByte
          /\ \A p \in e.off .. e.off + n - 1 : file'[p] # NoByte
          /\ Bytes'
<1>1. Types /\ Left /\ Bytes
  BY DEF RingInv
<1> DEFINE b == e.b
           k == buf[b]
<1>2. e \in Entry /\ b \in Bufs /\ b \in UnderWay /\ e = Rest(b)
  BY <1>1 DEF Types, Entry, UnderWay, Flying, Left
<1>3. /\ Describes(b) /\ k \in 1 .. Len(blocks)
      /\ slots[b].acked \in Nat /\ slots[b].len \in Nat /\ slots[b].acked < slots[b].len
  BY <1>2, OfABlock
<1>4. blocks \in Seq(Nat \ {0}) /\ blocks[k] \in Nat
  <2>1. blocks \in Seq(Nat \ {0})
    BY <1>1 DEF Types
  <2>2. k \in 1 .. Len(blocks)
    BY <1>3
  <2> HIDE DEF k
  <2> QED BY <2>1, <2>2
<1>5. Before[k] \in Nat /\ Before[k] + blocks[k] <= End /\ End \in Nat
  <2>1. Len(blocks) \in Nat
    BY <1>4
  <2>2. k \in 1 .. Len(blocks) + 1
    BY <1>3, <2>1
  <2> QED BY <1>3, <1>4, <2>2, BeforeIs, Inside
<1>6. /\ e.off = Before[k] + slots[b].acked /\ e.at = slots[b].acked
      /\ e.len = blocks[k] - slots[b].acked
  BY <1>2, <1>3 DEF Rest, Describes
<1>7. file' = [p \in DOMAIN file |-> IF p \in e.off .. e.off + n - 1
                                     THEN <<k, e.at + p - e.off>> ELSE file[p]]
  BY DEF Write
<1>8. file \in [0 .. End - 1 -> Nat \X Nat]
  BY <1>1 DEF Types
<1>9. Before' = Before /\ End' = End
  BY SameBlocks
<1> HIDE DEF k, b
<1>10. n \in Nat /\ n <= e.len /\ e.off \in Nat /\ e.len \in Nat
  BY <1>2 DEF Entry
<1>11. ASSUME NEW p \in e.off .. e.off + n - 1
       PROVE /\ p \in 0 .. End - 1 /\ e.at + p - e.off \in 0 .. blocks[k] - 1
             /\ Before[k] + (e.at + p - e.off) = p
  <2>1. p \in Int /\ e.off <= p /\ p < e.off + n
    BY <1>10
  <2>2. slots[b].acked \in Nat
    BY <1>3
  <2>3. n <= blocks[k] - slots[b].acked
    BY <1>6, <1>10
  <2>4. Before[k] + slots[b].acked <= p /\ p < Before[k] + slots[b].acked + n
    BY <1>6, <2>1
  <2>5. /\ p \in 0 .. End - 1 /\ slots[b].acked + p - (Before[k] + slots[b].acked) \in 0 .. blocks[k] - 1
        /\ Before[k] + (slots[b].acked + p - (Before[k] + slots[b].acked)) = p
    <3>1. /\ Before[k] \in Nat /\ blocks[k] \in Nat /\ End \in Nat /\ n \in Nat /\ p \in Int
          /\ Before[k] + blocks[k] <= End
      BY <1>4, <1>5, <1>10, <2>1
    <3> QED BY <2>2, <2>3, <2>4, <3>1, InPlace
  <2> QED BY <1>6, <2>5
<1>12. k \in Nat \ {0} /\ k \in DOMAIN blocks
  BY <1>3, <1>4
<1>13. ASSUME NEW p \in 0 .. End - 1
       PROVE /\ file'[p] \in Nat \X Nat
             /\ p \in e.off .. e.off + n - 1 => file'[p] = <<k, e.at + p - e.off>>
             /\ p \notin e.off .. e.off + n - 1 => file'[p] = file[p]
  <2>1. CASE p \in e.off .. e.off + n - 1
    <3>1. e.at + p - e.off \in Nat
      <4>1. e.at + p - e.off \in 0 .. blocks[k] - 1
        BY <1>11, <2>1
      <4> QED BY <4>1, <1>4
    <3>2. file'[p] = <<k, e.at + p - e.off>>
      BY <1>7, <1>8, <2>1
    <3> QED BY <1>12, <2>1, <3>1, <3>2
  <2>2. CASE p \notin e.off .. e.off + n - 1
    BY <1>7, <1>8, <2>2
  <2> QED BY <2>1, <2>2
<1>14. file' \in [0 .. End - 1 -> Nat \X Nat]
  <2>1. DOMAIN file = 0 .. End - 1
    BY <1>8
  <2>2. DOMAIN file' = 0 .. End - 1 /\ file' = [p \in 0 .. End - 1 |-> file'[p]]
    BY <1>7, <2>1
  <2> QED BY <1>13, <2>2
<1>15. \A p \in e.off .. e.off + n - 1 : p \in 0 .. End - 1 /\ file'[p] # NoByte
  <2> TAKE p \in e.off .. e.off + n - 1
  <2>1. p \in 0 .. End - 1
    BY <1>11
  <2>2. file'[p] = <<k, e.at + p - e.off>>
    BY <1>13, <2>1
  <2> QED BY <1>12, <2>1, <2>2 DEF NoByte
<1>16. \A p \in 0 .. End - 1 : file[p] # NoByte => file'[p] # NoByte
  BY <1>13, <1>15
<1>17. Bytes'
  <2> SUFFICES ASSUME NEW p \in 0 .. End - 1 PROVE file'[p] = NoByte \/ Right(p)'
    BY <1>9 DEF Bytes
  <2>1. CASE p \in e.off .. e.off + n - 1
    <3> DEFINE i == e.at + p - e.off
    <3>1. file'[p] = <<k, i>>
      BY <1>13, <2>1
    <3>2. i \in 0 .. blocks[k] - 1 /\ Before[k] + i = p
      BY <1>11, <2>1
    <3> HIDE DEF i
    <3> QED BY <1>9, <1>12, <3>1, <3>2 DEF Right
  <2>2. CASE p \notin e.off .. e.off + n - 1
    <3>1. file'[p] = file[p]
      BY <1>13, <2>2
    <3> QED BY <1>1, <1>9, <3>1 DEF Bytes, Right
  <2> QED BY <2>1, <2>2
<1> QED BY <1>14, <1>15, <1>16, <1>17

\* What was in the file of a block stays there.
LEMMA StoredStays ==
    ASSUME RingInv, \A p \in 0 .. End - 1 : file[p] # NoByte => file'[p] # NoByte,
           NEW k \in 1 .. Len(blocks), NEW from \in Nat, NEW n \in Nat,
           Before[k] <= from, from + n <= Before[k] + blocks[k], Stored(from, n)
    PROVE Stored(from, n)'
<1>1. blocks \in Seq(Nat \ {0})
  BY DEF RingInv, Types
<1>2. Before[k] \in Nat /\ blocks[k] \in Nat /\ End \in Nat /\ Before[k] + blocks[k] <= End
  <2>1. k \in 1 .. Len(blocks) + 1
    BY <1>1
  <2> QED BY <1>1, <2>1, BeforeIs, Inside
<1>3. \A p \in from .. from + n - 1 : p \in 0 .. End - 1
  BY <1>2
<1> QED BY <1>3 DEF Stored

LEMMA StepComplete ==
    ASSUME UringAssumption, RingInv, Complete
    PROVE RingInv'
<1>1. UNCHANGED <<pc, blocks, ui, off, idx, slots, buf, relaxed, store, sq, batch>>
  BY DEF Complete, writer, mem
<1>2. Types /\ Apart /\ Left /\ Results /\ Described /\ Kept /\ Turn /\ Bytes /\ Fits /\ Busy
  BY DEF RingInv
<1>3. flight \subseteq Entry /\ cq \in Seq(Bufs \X Int)
  BY <1>2 DEF Types
<1>4. PICK e \in flight, n \in Int :
         /\ flight' = flight \ {e} /\ cq' = Append(cq, <<e.b, n>>)
         /\ \/ n \in 0 .. e.len /\ Write(e, n)
            \/ n = -1 /\ file' = file
  <2>1. PICK e \in flight :
          /\ flight' = flight \ {e}
          /\ \/ Write(e, e.len)
             \/ \E n \in 0 .. e.len - 1 : Write(e, n)
             \/ cq' = Append(cq, <<e.b, -1>>) /\ file' = file
    BY DEF Complete
  <2>2. e.len \in Nat
    BY <1>3 DEF Entry
  <2>3. CASE Write(e, e.len)
    <3>1. e.len \in 0 .. e.len /\ e.len \in Int
      BY <2>2
    <3> QED BY <2>1, <2>3, <3>1 DEF Write
  <2>4. CASE \E n \in 0 .. e.len - 1 : Write(e, n)
    <3>1. PICK n \in 0 .. e.len - 1 : Write(e, n)
      BY <2>4
    <3>2. n \in 0 .. e.len /\ n \in Int
      BY <2>2
    <3> QED BY <2>1, <3>1, <3>2 DEF Write
  <2>5. CASE cq' = Append(cq, <<e.b, -1>>) /\ file' = file
    BY <2>1, <2>5
  <2> QED BY <2>1, <2>3, <2>4, <2>5
<1> DEFINE b == e.b
<1>5. e \in Entry /\ b \in Bufs /\ b \in Flying /\ b \in UnderWay /\ e = Rest(b)
  BY <1>2, <1>3 DEF Entry, Flying, UnderWay, Left
<1>6. Flying' = Flying \ {b}
  BY <1>2, <1>4 DEF Flying, Apart
<1>7. b \notin Reported
  BY <1>2, <1>5 DEF Apart
<1>8. /\ cq' \in Seq(Bufs \X Int) /\ Len(cq') = Len(cq) + 1
      /\ ToldOnce(cq')
      /\ Elems(cq') = Elems(cq) \cup {<<b, n>>}
      /\ Reported' = Reported \cup {b}
  <2>1. ToldOnce(cq)
    BY <1>2 DEF Apart
  <2>2. b \notin Told(cq)
    BY <1>7 DEF Reported
  <2> HIDE DEF b
  <2>3. cq' = Append(cq, <<b, n>>)
    BY <1>4 DEF b
  <2>4. b \in Bufs /\ n \in Int
    BY <1>4, <1>5
  <2> QED BY <1>3, <2>1, <2>2, <2>3, <2>4, ReportAdded DEF Reported
<1>9. /\ Queued(store)' = Queued(store) /\ Queued(sq)' = Queued(sq)
      /\ Once(store)' = Once(store) /\ Once(sq)' = Once(sq)
      /\ Elems(store)' = Elems(store) /\ Elems(sq)' = Elems(sq)
  BY <1>1 DEF Queued, Elems, Once
<1>10. Before' = Before /\ End' = End
  BY <1>1, SameBlocks
<1>11. /\ file' \in [0 .. End - 1 -> Nat \X Nat]
       /\ \A p \in 0 .. End - 1 : file[p] # NoByte => file'[p] # NoByte
       /\ Bytes'
       /\ n = -1 \/ (n \in 0 .. e.len /\ \A p \in e.off .. e.off + n - 1 : file'[p] # NoByte)
  <2>1. CASE n \in 0 .. e.len /\ Write(e, n)
    BY <1>1, <2>1, WriteIsRight
  <2>2. CASE n = -1 /\ file' = file
    <3>1. Bytes'
      BY <1>1, <1>2, <1>10, <2>2 DEF Bytes, Right
    <3>2. file \in [0 .. End - 1 -> Nat \X Nat]
      BY <1>2 DEF Types
    <3> QED BY <2>2, <3>1, <3>2
  <2> QED BY <1>4, <2>1, <2>2
<1>12. Types'
  <2>1. batch' \in 0 .. Len(cq')
    <3>1. batch \in 0 .. Len(cq) /\ Len(cq) \in Nat
      BY <1>2, <1>3 DEF Types
    <3> QED BY <1>1, <1>8, <3>1
  <2>2. flight' \subseteq Entry
    BY <1>3, <1>4
  <2> QED BY <1>1, <1>2, <1>8, <1>10, <1>11, <2>1, <2>2 DEF Types
<1>13. Apart'
  <2>1. \A x, y \in flight' : x.b = y.b => x = y
    BY <1>2, <1>4 DEF Apart
  <2>2. b \notin Queued(store) \cup Queued(sq)
    BY <1>2, <1>5 DEF Apart
  <2> HIDE DEF b
  <2> QED BY <1>2, <1>6, <1>7, <1>8, <1>9, <2>1, <2>2 DEF Apart
<1>14. Busy'
  <2>1. UnderWay' \subseteq UnderWay
    BY <1>5, <1>6, <1>8, <1>9 DEF UnderWay
  <2> QED BY <1>1, <1>2, <2>1 DEF Busy, Open
<1>15. Left'
  <2>1. Elems(store)' \cup Elems(sq)' \cup flight' \subseteq Elems(store) \cup Elems(sq) \cup flight
    BY <1>4, <1>9
  <2> QED BY <1>1, <1>2, <2>1 DEF Left, Rest
<1>16. ASSUME NEW x \in Bufs, Describes(x), slots[x].acked <= slots[x].len
       PROVE Describes(x)'
  <2>1. /\ buf[x] \in 1 .. ui - 1 /\ slots[x].off = Before[buf[x]]
        /\ slots[x].len = blocks[buf[x]] /\ Stored(slots[x].off, slots[x].acked)
    BY <1>16 DEF Describes
  <2>2. buf[x] \in 1 .. Len(blocks) /\ blocks[buf[x]] \in Nat
    <3>1. ui \in 1 .. Len(blocks) + 1 /\ blocks \in Seq(Nat \ {0}) /\ Len(blocks) \in Nat
      BY <1>2 DEF Types
    <3>2. buf[x] \in 1 .. Len(blocks)
      BY <2>1, <3>1
    <3> QED BY <3>1, <3>2
  <2>3. slots[x].off \in Nat /\ slots[x].acked \in Nat
    BY <1>2 DEF Types, Slot
  <2>4. slots[x].off <= slots[x].off /\ slots[x].off + slots[x].acked <= slots[x].off + blocks[buf[x]]
    BY <1>16, <2>1, <2>2, <2>3
  <2>5. Stored(slots[x].off, slots[x].acked)'
    <3>1. Stored(slots[x].off, slots[x].acked)'
            <=> \A p \in slots[x].off .. slots[x].off + slots[x].acked - 1 : file'[p] # NoByte
      BY <1>1 DEF Stored
    <3>2. \A from, m \in Nat :
             /\ Before[buf[x]] <= from /\ from + m <= Before[buf[x]] + blocks[buf[x]]
             /\ Stored(from, m)
             => \A p \in from .. from + m - 1 : file'[p] # NoByte
      BY <1>11, <2>2, StoredStays DEF Stored
    <3> QED BY <2>1, <2>3, <2>4, <3>1, <3>2
  <2> QED BY <1>1, <1>10, <2>1, <2>5 DEF Describes
<1>17. \A x \in Bufs : Held(x)' = Held(x)
  BY <1>1 DEF Held
<1>18. Described'
  BY <1>1, <1>2, <1>16, <1>17 DEF Described
<1>19. Results'
  <2> SUFFICES ASSUME NEW c \in Elems(cq') PROVE Result(c[1], c[2])'
    BY DEF Results
  <2>1. CASE c \in Elems(cq)
    <3> DEFINE x == c[1]
               m == c[2]
               from == slots[x].off + slots[x].acked
    <3>1. x \in Bufs /\ x \in UnderWay /\ Result(x, m)
      <4>1. \A s \in Elems(cq) : s \in Bufs \X Int
        BY <1>3 DEF Elems
      <4> QED BY <1>2, <2>1, <4>1 DEF UnderWay, Reported, Told, Results
    <3>2. CASE m = -1
      BY <3>2 DEF Result
    <3>3. CASE m \in 0 .. slots[x].len - slots[x].acked /\ Stored(from, m)
      <4> HIDE DEF x, m
      <4>1. /\ Describes(x) /\ buf[x] \in 1 .. Len(blocks)
            /\ slots[x].acked \in Nat /\ slots[x].len \in Nat
        BY <3>1, OfABlock
      <4>2. slots[x].off = Before[buf[x]] /\ slots[x].len = blocks[buf[x]]
        BY <4>1 DEF Describes
      <4>3. slots[x].off \in Nat
        BY <1>2, <3>1 DEF Types, Slot
      <4>4. m \in Nat /\ from \in Nat /\ Before[buf[x]] <= from /\ from + m <= Before[buf[x]] + blocks[buf[x]]
        BY <3>3, <4>1, <4>2, <4>3
      <4>5. Stored(from, m)
        BY <3>3
      <4> HIDE DEF from
      <4>6. \A p \in from .. from + m - 1 : file'[p] # NoByte
        BY <1>11, <4>1, <4>4, <4>5, StoredStays DEF Stored
      <4>7. Result(x, m)'
        BY <1>1, <3>3, <4>6 DEF Result, Stored, from
      <4> QED BY <4>7 DEF x, m
    <3> QED BY <3>1, <3>2, <3>3 DEF Result
  <2>2. CASE c \notin Elems(cq)
    <3>1. c = <<b, n>>
      BY <1>8, <2>2
    <3>2. e.off = slots[b].off + slots[b].acked /\ e.len = slots[b].len - slots[b].acked
      BY <1>5 DEF Rest
    <3> HIDE DEF b
    <3>3. Result(b, n)'
      BY <1>1, <1>11, <3>2 DEF Result, Stored
    <3> QED BY <3>1, <3>3
  <2> QED BY <2>1, <2>2
<1>20. Kept'
  <2> SUFFICES ASSUME NEW k \in 1 .. ui - 1
               PROVE \/ Stored(Before[k], blocks[k])'
                     \/ \E x \in Bufs : Held(x)' /\ buf'[x] = k
    BY <1>1, <1>10 DEF Kept, Stored
  <2>1. CASE Stored(Before[k], blocks[k])
    <3>1. blocks \in Seq(Nat \ {0}) /\ ui \in 1 .. Len(blocks) + 1 /\ Len(blocks) \in Nat
      BY <1>2 DEF Types
    <3>2. k \in 1 .. Len(blocks) /\ k \in 1 .. Len(blocks) + 1
      BY <3>1
    <3>3. Before[k] \in Nat /\ blocks[k] \in Nat
      BY <3>1, <3>2, BeforeIs
    <3>4. Before[k] <= Before[k] /\ Before[k] + blocks[k] <= Before[k] + blocks[k]
      BY <3>3
    <3>5. \A p \in Before[k] .. Before[k] + blocks[k] - 1 : file'[p] # NoByte
      BY <1>11, <2>1, <3>2, <3>3, <3>4, StoredStays DEF Stored
    <3> QED BY <1>1, <1>10, <3>5 DEF Stored
  <2>2. CASE \E x \in Bufs : Held(x) /\ buf[x] = k
    BY <1>1, <1>17, <2>2
  <2> QED BY <1>2, <2>1, <2>2 DEF Kept
<1>21. Turn' /\ Fits'
  BY <1>1, <1>2, <1>10 DEF Turn, Fits, Open
<1> QED BY <1>11, <1>12, <1>13, <1>14, <1>15, <1>18, <1>19, <1>20, <1>21 DEF RingInv
----------------------------------------------------------------------------
\* An entry for a buffer nothing is queued of.
LEMMA Pushed ==
    ASSUME Types, Apart, NEW x \in Entry, Push(x), x.b \notin Queued(store) \cup Queued(sq)
    PROVE /\ store' \in Seq(Entry) /\ sq' \in Seq(Entry) /\ Once(store') /\ Once(sq')
          /\ Queued(store') \cap Queued(sq') = {}
          /\ Queued(store') \cup Queued(sq') = Queued(store) \cup Queued(sq) \cup {x.b}
          /\ Elems(store') \cup Elems(sq') = Elems(store) \cup Elems(sq) \cup {x}
<1>1. store \in Seq(Entry) /\ sq \in Seq(Entry)
  BY DEF Types
<1>2. Once(store) /\ Once(sq) /\ Queued(store) \cap Queued(sq) = {}
  BY DEF Apart
<1>3. CASE store' = Append(store, x) /\ sq' = sq
  <2>1. /\ store' \in Seq(Entry) /\ Once(store') /\ Elems(store') = Elems(store) \cup {x}
        /\ Queued(store') = Queued(store) \cup {x.b}
    BY <1>1, <1>2, <1>3, EntryAdded
  <2> QED BY <1>1, <1>2, <1>3, <2>1
<1>4. CASE sq' = Append(sq, x) /\ store' = store
  <2>1. /\ sq' \in Seq(Entry) /\ Once(sq') /\ Elems(sq') = Elems(sq) \cup {x}
        /\ Queued(sq') = Queued(sq) \cup {x.b}
    BY <1>1, <1>2, <1>4, EntryAdded
  <2> QED BY <1>1, <1>2, <1>4, <2>1
<1> QED BY <1>3, <1>4 DEF Push

\* What the queues hold.
LEMMA Contents ==
    ASSUME Types
    PROVE /\ \A e \in Elems(store) \cup Elems(sq) \cup flight :
                e \in Entry /\ e.b \in Bufs /\ e.b \in Queued(store) \cup Queued(sq) \cup Flying
          /\ \A c \in Elems(cq) : c \in Bufs \X Int /\ c[1] \in Bufs
          /\ UnderWay \subseteq Bufs
<1>1. /\ store \in Seq(Entry) /\ sq \in Seq(Entry) /\ flight \subseteq Entry
      /\ cq \in Seq(Bufs \X Int)
  BY DEF Types
<1>2. \A S : \A q \in Seq(S) : Elems(q) \subseteq S
  BY ElementsOf DEF Elems
<1>3. Elems(store) \subseteq Entry /\ Elems(sq) \subseteq Entry /\ Elems(cq) \subseteq Bufs \X Int
  BY <1>1, <1>2
<1>4. \A e \in Entry : e.b \in Bufs
  BY DEF Entry
<1>5. \A c \in Bufs \X Int : c[1] \in Bufs
  OBVIOUS
<1> HIDE DEF Entry
<1>6. \A e \in Elems(store) \cup Elems(sq) \cup flight :
         e \in Entry /\ e.b \in Bufs /\ e.b \in Queued(store) \cup Queued(sq) \cup Flying
  BY <1>1, <1>3, <1>4 DEF Queued, Flying
<1>7. UnderWay \subseteq Bufs
  BY <1>1, <1>3, <1>4, <1>5 DEF UnderWay, Queued, Flying, Reported, Told
<1> QED BY <1>3, <1>5, <1>6, <1>7

LEMMA StepSubmit ==
    ASSUME UringAssumption, RingInv, Submit
    PROVE RingInv'
<1> DEFINE x == [b |-> idx, off |-> off, at |-> 0, len |-> blocks[ui]]
<1>1. /\ pc = "submit" /\ pc' = "flags" /\ ui' = ui + 1 /\ off' = off + blocks[ui]
      /\ slots' = [slots EXCEPT ![idx] = [off |-> off, len |-> blocks[ui], acked |-> 0]]
      /\ Push(x)
      /\ UNCHANGED <<blocks, idx, buf, relaxed, flight, cq, file, batch>>
  BY DEF Submit
<1>2. /\ Types /\ Apart /\ Left /\ Results /\ Described /\ Kept /\ Turn /\ Bytes /\ Fits /\ Busy
  BY DEF RingInv
<1>3. idx \in Bufs /\ ~Open(idx) /\ ui <= Len(blocks) /\ off = Before[ui] /\ buf[idx] = ui
  BY <1>1, <1>2 DEF Turn
<1>4. /\ blocks \in Seq(Nat \ {0}) /\ Len(blocks) \in Nat /\ ui \in 1 .. Len(blocks)
      /\ blocks[ui] \in Nat /\ ui \in Nat /\ off \in Nat
  <2>1. blocks \in Seq(Nat \ {0}) /\ ui \in 1 .. Len(blocks) + 1 /\ off \in Nat
    BY <1>2 DEF Types
  <2>2. Len(blocks) \in Nat /\ ui \in Nat
    BY <2>1
  <2>3. ui \in 1 .. Len(blocks)
    BY <1>3, <2>1, <2>2
  <2> QED BY <2>1, <2>2, <2>3
<1>5. Before' = Before /\ End' = End /\ Before[ui + 1] = off + blocks[ui]
  BY <1>1, <1>3, <1>4, SameBlocks, BeforeIs
<1>6. slots \in [Bufs -> Slot]
  BY <1>2 DEF Types
<1>7. /\ slots'[idx] = [off |-> off, len |-> blocks[ui], acked |-> 0]
      /\ \A b \in Bufs : b # idx => slots'[b] = slots[b]
      /\ slots' \in [Bufs -> Slot]
  <2>1. [off |-> off, len |-> blocks[ui], acked |-> 0] \in Slot
    BY <1>4 DEF Slot
  <2> QED BY <1>1, <1>3, <1>6, <2>1
<1>8. x \in Entry /\ x.b = idx
  BY <1>3, <1>4 DEF Entry
<1> HIDE DEF x
<1>9. idx \notin UnderWay
  BY <1>2, <1>3 DEF Busy
<1>10. /\ store' \in Seq(Entry) /\ sq' \in Seq(Entry) /\ Once(store') /\ Once(sq')
       /\ Queued(store') \cap Queued(sq') = {}
       /\ Queued(store') \cup Queued(sq') = Queued(store) \cup Queued(sq) \cup {idx}
       /\ Elems(store') \cup Elems(sq') = Elems(store) \cup Elems(sq) \cup {x}
  <2>1. x.b \notin Queued(store) \cup Queued(sq)
    BY <1>8, <1>9 DEF UnderWay
  <2> QED BY <1>1, <1>2, <1>8, <2>1, Pushed
<1>11. Flying' = Flying /\ Reported' = Reported /\ Elems(cq') = Elems(cq)
  BY <1>1 DEF Flying, Reported, Told, Elems
<1>12. Types'
  <2>1. ui' \in 1 .. Len(blocks') + 1 /\ off' \in Nat
    BY <1>1, <1>4
  <2> QED BY <1>1, <1>2, <1>5, <1>7, <1>10, <2>1 DEF Types
<1>13. Apart'
  <2>1. ToldOnce(cq') /\ \A e, f \in flight' : e.b = f.b => e = f
    BY <1>1, <1>2 DEF Apart, ToldOnce
  <2>2. idx \notin Flying \cup Reported
    BY <1>9 DEF UnderWay
  <2> QED BY <1>2, <1>10, <1>11, <2>1, <2>2 DEF Apart
<1>14. Busy'
  <2> SUFFICES ASSUME NEW b \in UnderWay' PROVE Open(b)'
    BY DEF Busy
  <2>1. UnderWay' = UnderWay \cup {idx}
    BY <1>10, <1>11 DEF UnderWay
  <2>2. CASE b = idx
    <3>1. blocks[ui] > 0 /\ slots'[idx].acked = 0 /\ slots'[idx].len = blocks[ui]
      BY <1>4, <1>7
    <3> QED BY <2>2, <3>1 DEF Open
  <2>3. CASE b # idx
    <3>1. b \in UnderWay /\ Open(b)
      BY <1>2, <2>1, <2>3 DEF Busy
    <3>2. b \in Bufs
      BY <1>2, <3>1, Contents
    <3> QED BY <1>7, <2>3, <3>1, <3>2 DEF Open
  <2> QED BY <2>2, <2>3
<1>15. Left'
  <2> SUFFICES ASSUME NEW e \in Elems(store') \cup Elems(sq') \cup flight'
               PROVE e = Rest(e.b)'
    BY DEF Left
  <2>1. CASE e = x
    <3>2. off + 0 = off /\ blocks[ui] - 0 = blocks[ui]
      BY <1>4
    <3>4. e.b = idx
      BY <1>8, <2>1
    <3>5. e = [b |-> idx, off |-> off, at |-> 0, len |-> blocks[ui]]
      BY <2>1 DEF x
    <3>6. e = [b |-> e.b, off |-> slots'[e.b].off + slots'[e.b].acked, at |-> slots'[e.b].acked,
               len |-> slots'[e.b].len - slots'[e.b].acked]
      BY <1>7, <3>2, <3>4, <3>5
    <3> QED BY <3>6 DEF Rest
  <2>2. CASE e # x
    <3>1. e \in Elems(store) \cup Elems(sq) \cup flight
      BY <1>1, <1>10, <2>2
    <3>2. e.b \in Bufs /\ e.b \in UnderWay
      BY <1>2, <3>1, Contents DEF UnderWay
    <3>3. e.b # idx
      BY <1>9, <3>2
    <3> QED BY <1>2, <1>7, <3>1, <3>2, <3>3 DEF Left, Rest
  <2> QED BY <2>1, <2>2
<1>16. \A from, n : Stored(from, n)' = Stored(from, n)
  BY <1>1 DEF Stored
<1>17. Results'
  <2> SUFFICES ASSUME NEW c \in Elems(cq) PROVE Result(c[1], c[2])'
    BY <1>11 DEF Results
  <2>1. c[1] \in Bufs /\ c[1] # idx
    BY <1>2, <1>9, Contents DEF UnderWay, Reported, Told
  <2> QED BY <1>2, <1>7, <1>16, <2>1 DEF Results, Result
<1>18. \A b \in Bufs : b # idx => (Held(b)' <=> Held(b))
  BY <1>1 DEF Held
<1>19. Held(idx)' /\ ~Held(idx)
  BY <1>1, <1>3, <1>4 DEF Held
<1>20. Described'
  <2> SUFFICES ASSUME NEW b \in Bufs
               PROVE /\ slots'[b].acked <= slots'[b].len
                     /\ Held(b)' => Describes(b)'
                     /\ ~Held(b)' => slots'[b].acked = slots'[b].len
    BY DEF Described
  <2>1. CASE b = idx
    <3>1. slots'[idx].acked = 0 /\ slots'[idx].len = blocks[ui] /\ slots'[idx].off = off
      BY <1>7
    <3>2. ui \in 1 .. ui' - 1
      BY <1>1, <1>4
    <3>3. \A p \in off .. off + 0 - 1 : FALSE
      BY <1>4
    <3>5. Stored(off, 0)
      BY <3>3 DEF Stored
    <3>6. buf'[b] = ui /\ slots'[b].off = Before[ui] /\ slots'[b].len = blocks[ui]
          /\ slots'[b].acked = 0 /\ slots'[b].off = off
      BY <1>1, <1>3, <2>1, <3>1
    <3>4. Describes(b)'
      BY <1>1, <1>5, <1>16, <3>2, <3>5, <3>6 DEF Describes
    <3>7. Held(b)'
      BY <1>1, <1>19, <2>1
    <3> QED BY <1>4, <3>4, <3>6, <3>7
  <2>2. CASE b # idx
    <3>1. slots'[b] = slots[b] /\ (Held(b)' <=> Held(b))
      BY <1>7, <1>18, <2>2
    <3>2. ui' - 1 = ui /\ \A i \in 1 .. ui - 1 : i \in 1 .. ui
      BY <1>1, <1>4
    <3>3. Describes(b) => Describes(b)'
      BY <1>1, <1>5, <1>16, <3>1, <3>2 DEF Describes
    <3> QED BY <1>2, <3>1, <3>3 DEF Described
  <2> QED BY <2>1, <2>2
<1>21. Kept'
  <2> SUFFICES ASSUME NEW k \in 1 .. ui' - 1
               PROVE \/ Stored(Before[k], blocks[k])
                     \/ \E b \in Bufs : Held(b)' /\ buf'[b] = k
    BY <1>1, <1>5, <1>16 DEF Kept
  <2>1. k = ui \/ k \in 1 .. ui - 1
    BY <1>1, <1>4
  <2>2. CASE k = ui
    BY <1>1, <1>3, <1>19, <2>2
  <2>3. ASSUME k \in 1 .. ui - 1, NEW b \in Bufs, Held(b), buf[b] = k
        PROVE Held(b)' /\ buf'[b] = k
    BY <1>1, <1>18, <1>19, <2>3
  <2> QED BY <1>2, <2>1, <2>2, <2>3 DEF Kept
<1>22. Turn' /\ Bytes' /\ Fits'
  BY <1>1, <1>2, <1>5 DEF Turn, Bytes, Right, Fits
<1> QED BY <1>12, <1>13, <1>14, <1>15, <1>17, <1>20, <1>21, <1>22 DEF RingInv

LEMMA StepReap ==
    ASSUME UringAssumption, RingInv, Reap
    PROVE RingInv'
<1>0. PICK b, res : b = Head(cq)[1] /\ res = Head(cq)[2]
  OBVIOUS
<1> DEFINE s == [slots[b] EXCEPT !.acked = @ + res]
           x == [b |-> b, off |-> s.off + s.acked, at |-> s.acked, len |-> s.len - s.acked]
<1>1. /\ pc = "reap" /\ batch > 0 /\ cq' = Tail(cq) /\ batch' = batch - 1
      /\ UNCHANGED <<blocks, ui, off, idx, buf, relaxed, flight, file>>
  BY DEF Reap
<1>2. \/ res < 0 /\ pc' = "failed" /\ UNCHANGED <<slots, store, sq>>
      \/ /\ ~(res < 0) /\ slots' = [slots EXCEPT ![b] = s] /\ pc' \in {"rest", "reap"}
         /\ \/ s.acked < s.len /\ Push(x)
            \/ ~(s.acked < s.len) /\ UNCHANGED <<store, sq>>
  BY <1>0 DEF Reap
<1>3. Types /\ Apart /\ Left /\ Results /\ Described /\ Kept /\ Turn /\ Bytes /\ Fits /\ Busy
  BY DEF RingInv
<1>4. cq \in Seq(Bufs \X Int) /\ cq # <<>> /\ batch \in 0 .. Len(cq)
  <2>1. cq \in Seq(Bufs \X Int) /\ batch \in 0 .. Len(cq)
    BY <1>3 DEF Types
  <2>2. Len(cq) # 0
    BY <1>1, <2>1
  <2> QED BY <2>1, <2>2
<1>5. /\ cq' \in Seq(Bufs \X Int) /\ Len(cq) \in Nat \ {0} /\ Len(cq') = Len(cq) - 1
      /\ ToldOnce(cq') /\ Head(cq) \in Bufs \X Int
      /\ Elems(cq) = Elems(cq') \cup {Head(cq)}
      /\ Told(cq) = Told(cq') \cup {b} /\ b \notin Told(cq')
  <2>1. ToldOnce(cq)
    BY <1>3 DEF Apart
  <2> QED BY <1>0, <1>1, <1>4, <2>1, ReportTaken
<1>6. batch' \in 0 .. Len(cq')
  <2>1. batch > 0 /\ batch' = batch - 1 /\ batch \in 0 .. Len(cq) /\ Len(cq) \in Nat
        /\ Len(cq') = Len(cq) - 1
    BY <1>1, <1>4, <1>5
  <2> QED BY <2>1
<1>7. b \in Bufs /\ res \in Int /\ b \in UnderWay /\ b \in Reported /\ Result(b, res)
  BY <1>0, <1>3, <1>5 DEF UnderWay, Reported, Results
<1>8. Before' = Before /\ End' = End
  BY <1>1, SameBlocks
<1>9. Flying' = Flying /\ Reported = Reported' \cup {b} /\ b \notin Reported'
  BY <1>1, <1>5 DEF Flying, Reported
<1>10. \A y \in Bufs : Held(y)' = Held(y)
  BY <1>1, <1>2 DEF Held
<1>11. \A from, n : Stored(from, n)' = Stored(from, n)
  BY <1>1 DEF Stored
<1>12. Turn'
  <2>1. pc' \in {"failed", "rest", "reap"}
    BY <1>2
  <2> QED BY <1>1, <1>3, <1>8, <2>1 DEF Turn
<1>13. Bytes' /\ Fits' /\ Kept'
  <2>1. Kept'
    BY <1>1, <1>3, <1>8, <1>10, <1>11 DEF Kept
  <2> QED BY <1>1, <1>3, <1>8, <2>1 DEF Bytes, Right, Fits
<1>14. \A e, f \in flight' : e.b = f.b => e = f
  BY <1>1, <1>3 DEF Apart
<1>15. CASE res < 0 /\ pc' = "failed" /\ UNCHANGED <<slots, store, sq>>
  <2>1. Types'
    BY <1>1, <1>3, <1>5, <1>6, <1>8, <1>15 DEF Types
  <2>2. /\ Queued(store)' = Queued(store) /\ Queued(sq)' = Queued(sq)
        /\ Once(store)' = Once(store) /\ Once(sq)' = Once(sq)
        /\ Elems(store)' = Elems(store) /\ Elems(sq)' = Elems(sq)
    BY <1>15 DEF Queued, Elems, Once
  <2>3. Apart'
    BY <1>3, <1>5, <1>9, <1>14, <2>2 DEF Apart
  <2>4. Busy'
    <3>1. UnderWay' \subseteq UnderWay
      BY <1>9, <2>2 DEF UnderWay
    <3> QED BY <1>3, <1>15, <3>1 DEF Busy, Open
  <2>5. Left'
    BY <1>1, <1>3, <1>15, <2>2 DEF Left, Rest
  <2>6. Results'
    BY <1>3, <1>5, <1>11, <1>15 DEF Results, Result
  <2>7. Described'
    BY <1>1, <1>3, <1>8, <1>10, <1>11, <1>15 DEF Described, Describes
  <2> QED BY <1>12, <1>13, <2>1, <2>3, <2>4, <2>5, <2>6, <2>7 DEF RingInv
<1>16. CASE /\ ~(res < 0) /\ slots' = [slots EXCEPT ![b] = s] /\ pc' \in {"rest", "reap"}
            /\ \/ s.acked < s.len /\ Push(x)
               \/ ~(s.acked < s.len) /\ UNCHANGED <<store, sq>>
  <2>1. /\ Held(b) /\ Describes(b) /\ slots[b].acked \in Nat /\ slots[b].len \in Nat
    BY <1>7, OfABlock
  <2>2. slots[b] \in Slot /\ slots[b].off \in Nat /\ slots \in [Bufs -> Slot]
    BY <1>3, <1>7 DEF Types, Slot
  <2>3. /\ res \in Nat /\ res <= slots[b].len - slots[b].acked
        /\ Stored(slots[b].off + slots[b].acked, res)
    <3>1. res # -1
      BY <1>16
    <3>2. res \in 0 .. slots[b].len - slots[b].acked
      BY <1>7, <3>1 DEF Result
    <3>3. res \in Nat /\ res <= slots[b].len - slots[b].acked
      BY <2>1, <3>2
    <3> QED BY <1>7, <3>1, <3>3 DEF Result
  <2>4. /\ s.off = slots[b].off /\ s.len = slots[b].len /\ s.acked = slots[b].acked + res
        /\ s.acked \in Nat /\ s.acked <= s.len
    <3>1. s.off = slots[b].off /\ s.len = slots[b].len /\ s.acked = slots[b].acked + res
      BY <2>2 DEF Slot
    <3> HIDE DEF s
    <3> QED BY <2>1, <2>3, <3>1
  <2>5. s \in Slot /\ s.off \in Nat /\ s.len \in Nat
    <3>1. s = [off |-> s.off, len |-> s.len, acked |-> s.acked]
      BY <2>2 DEF Slot
    <3> HIDE DEF s
    <3> QED BY <2>1, <2>2, <2>4, <3>1 DEF Slot
  <2> HIDE DEF s
  <2>6. slots'[b] = s /\ slots' \in [Bufs -> Slot] /\ \A y \in Bufs : y # b => slots'[y] = slots[y]
    BY <1>7, <1>16, <2>2, <2>5
  <2>7. b \notin Queued(store) \cup Queued(sq) /\ b \notin Flying
    BY <1>3, <1>7 DEF Apart
  <2>8. s.acked < s.len => x \in Entry
    <3>1. s.acked < s.len => s.off + s.acked \in Nat /\ s.len - s.acked \in Nat
      BY <2>4, <2>5
    <3> QED BY <1>7, <2>4, <3>1 DEF Entry
  <2>9. x.b = b /\ x = Rest(b)'
    <3>1. Rest(b)' = [b |-> b, off |-> s.off + s.acked, at |-> s.acked, len |-> s.len - s.acked]
      BY <2>6 DEF Rest
    <3> QED BY <3>1
  <2> HIDE DEF x
  <2>10. /\ store' \in Seq(Entry) /\ sq' \in Seq(Entry) /\ Once(store') /\ Once(sq')
         /\ Queued(store') \cap Queued(sq') = {}
         /\ Queued(store') \cup Queued(sq') \subseteq Queued(store) \cup Queued(sq) \cup {b}
         /\ Elems(store') \cup Elems(sq') \subseteq Elems(store) \cup Elems(sq) \cup {x}
         /\ s.acked < s.len \/ b \notin Queued(store') \cup Queued(sq')
    <3>1. CASE s.acked < s.len /\ Push(x)
      <4>1. x \in Entry /\ x.b \notin Queued(store) \cup Queued(sq)
        BY <2>7, <2>8, <2>9, <3>1
      <4>2. /\ store' \in Seq(Entry) /\ sq' \in Seq(Entry) /\ Once(store') /\ Once(sq')
            /\ Queued(store') \cap Queued(sq') = {}
            /\ Queued(store') \cup Queued(sq') = Queued(store) \cup Queued(sq) \cup {x.b}
            /\ Elems(store') \cup Elems(sq') = Elems(store) \cup Elems(sq) \cup {x}
        BY <1>3, <3>1, <4>1, Pushed
      <4> QED BY <2>9, <3>1, <4>2
    <3>2. CASE ~(s.acked < s.len) /\ UNCHANGED <<store, sq>>
      <4>1. /\ store \in Seq(Entry) /\ sq \in Seq(Entry) /\ Once(store) /\ Once(sq)
            /\ Queued(store) \cap Queued(sq) = {}
        BY <1>3 DEF Types, Apart
      <4>2. store' = store /\ sq' = sq
        BY <3>2
      <4>3. Queued(store') = Queued(store) /\ Queued(sq') = Queued(sq)
            /\ Elems(store') = Elems(store) /\ Elems(sq') = Elems(sq)
        BY <4>2
      <4> QED BY <2>7, <4>1, <4>2, <4>3
    <3> QED BY <1>16, <3>1, <3>2
  <2>11. Types'
    <3>1. pc' \in {"setup", "acquire", "build", "submit", "flags", "wait", "events", "reap",
                   "rest", "done", "failed"}
      BY <1>16
    <3> QED BY <1>1, <1>3, <1>5, <1>6, <1>8, <2>6, <2>10, <3>1 DEF Types
  <2>12. Apart'
    BY <1>3, <1>5, <1>9, <1>14, <2>7, <2>10 DEF Apart
  <2>13. Busy'
    <3> SUFFICES ASSUME NEW y \in UnderWay' PROVE Open(y)'
      BY DEF Busy
    <3>1. y \in UnderWay \cup {b}
      BY <1>9, <2>10 DEF UnderWay
    <3>2. CASE y = b
      <4>1. s.acked < s.len
        BY <1>9, <2>7, <2>10, <3>2 DEF UnderWay
      <4> QED BY <2>6, <3>2, <4>1 DEF Open
    <3>3. CASE y # b
      <4>1. y \in UnderWay /\ Open(y)
        BY <1>3, <3>1, <3>3 DEF Busy
      <4>2. y \in Bufs
        BY <1>3, <4>1, Contents
      <4> QED BY <2>6, <3>3, <4>1, <4>2 DEF Open
    <3> QED BY <3>2, <3>3
  <2>14. Left'
    <3> SUFFICES ASSUME NEW e \in Elems(store') \cup Elems(sq') \cup flight'
                 PROVE e = Rest(e.b)'
      BY DEF Left
    <3>1. CASE e = x
      BY <2>9, <3>1
    <3>2. CASE e # x
      <4>1. e \in Elems(store) \cup Elems(sq) \cup flight
        BY <1>1, <2>10, <3>2
      <4>2. e.b \in Bufs /\ e.b \in Queued(store) \cup Queued(sq) \cup Flying
        BY <1>3, <4>1, Contents
      <4>3. e.b # b /\ e.b \in Bufs
        BY <2>7, <4>2
      <4> QED BY <1>3, <2>6, <4>1, <4>3 DEF Left, Rest
    <3> QED BY <3>1, <3>2
  <2>15. Results'
    <3> SUFFICES ASSUME NEW c \in Elems(cq') PROVE Result(c[1], c[2])'
      BY DEF Results
    <3>1. c[1] # b
      BY <1>5 DEF Told
    <3>2. c \in Elems(cq) /\ c[1] \in Bufs
      BY <1>3, <1>5, Contents
    <3> QED BY <1>3, <1>11, <2>6, <3>1, <3>2 DEF Results, Result
  <2>16. Described'
    <3> SUFFICES ASSUME NEW y \in Bufs
                 PROVE /\ slots'[y].acked <= slots'[y].len
                       /\ Held(y)' => Describes(y)'
                       /\ ~Held(y)' => slots'[y].acked = slots'[y].len
      BY DEF Described
    <3>1. CASE y = b
      <4>1. Stored(s.off, s.acked)
        <5>1. Stored(slots[b].off, slots[b].acked)
          BY <2>1 DEF Describes
        <5>2. \A p \in s.off .. s.off + s.acked - 1 :
                 \/ p \in slots[b].off .. slots[b].off + slots[b].acked - 1
                 \/ p \in slots[b].off + slots[b].acked .. slots[b].off + slots[b].acked + res - 1
          BY <2>1, <2>2, <2>3, <2>4
        <5> QED BY <2>3, <5>1, <5>2 DEF Stored
      <4>2. Describes(b)'
        BY <1>1, <1>8, <1>11, <2>1, <2>4, <2>6, <4>1 DEF Describes
      <4> QED BY <1>10, <2>1, <2>4, <2>6, <3>1, <4>2
    <3>2. CASE y # b
      <4>1. slots'[y] = slots[y] /\ (Held(y)' <=> Held(y))
        BY <1>10, <2>6, <3>2
      <4>2. Describes(y) => Describes(y)'
        BY <1>1, <1>8, <1>11, <4>1 DEF Describes
      <4> QED BY <1>3, <4>1, <4>2 DEF Described
    <3> QED BY <3>1, <3>2
  <2> QED BY <1>12, <1>13, <2>11, <2>12, <2>13, <2>14, <2>15, <2>16 DEF RingInv
<1> QED BY <1>2, <1>15, <1>16
----------------------------------------------------------------------------
LEMMA RingStep ==
    ASSUME UringAssumption, RingInv, [Next]_vars
    PROVE RingInv'
<1>1. CASE UNCHANGED vars
  BY <1>1, StepStutter
<1>2. CASE Writer
  BY <1>2, IdleSteps, StepBuild, StepSubmit, StepReap DEF Writer
<1>3. CASE Visible \/ Poll \/ Doze \/ Complete
  BY <1>3, IdleSteps, StepVisible, StepPoll, StepComplete
<1> QED BY <1>1, <1>2, <1>3 DEF Next

\* The invariant of the writer and the kernel, for any clusters, segment size,
\* buffers and queue, and any number of short or failing writes.
THEOREM RingInvariant == ASSUME UringAssumption PROVE Spec => []RingInv
<1>1. Init => RingInv
  BY InitRing
<1>2. RingInv /\ [Next]_vars => RingInv'
  BY RingStep
<1> QED BY <1>1, <1>2, PTL DEF Spec

\* Type correctness.
THEOREM RingTypes == ASSUME UringAssumption PROVE Spec => []TypeOK
<1>1. Init => idx \in Bufs
  BY Constants DEF Init
<1>2. idx \in Bufs /\ [Next]_vars => (idx \in Bufs)'
  <2> SUFFICES ASSUME idx \in Bufs, [Next]_vars PROVE idx' \in Bufs
    OBVIOUS
  <2>1. CASE Acquire
    BY <2>1 DEF Acquire
  <2>2. CASE ~Acquire
    BY <2>2 DEF Next, Writer, Setup, Build, Submit, AfterPush, BeforeWait, AfterRest, Flags,
                GetEvents, Reap, Reaped, Drain, Visible, Poll, Doze, Complete, writer, vars
  <2> QED BY <2>1, <2>2
<1>3. RingInv /\ idx \in Bufs => TypeOK
  <2> SUFFICES ASSUME RingInv, idx \in Bufs, NEW b \in Bufs
               PROVE slots[b].acked \in 0 .. slots[b].len
    BY DEF RingInv, Types, TypeOK
  <2>1. slots[b].acked \in Nat /\ slots[b].len \in Nat
    BY DEF RingInv, Types, Slot
  <2>2. slots[b].acked <= slots[b].len
    BY DEF RingInv, Described
  <2> QED BY <2>1, <2>2
<1> QED BY <1>1, <1>2, <1>3, RingInvariant, PTL DEF Spec

\* The invariant says what the file holds.
LEMMA ShowsBytes == ASSUME UringAssumption PROVE RingInv => BytesRight
<1> SUFFICES ASSUME RingInv, NEW p \in DOMAIN file
             PROVE Right(p) \/ (file[p] = NoByte /\ pc # "done")
  BY DEF BytesRight
<1>1. /\ blocks \in Seq(Nat \ {0}) /\ Len(blocks) \in Nat /\ ui \in 1 .. Len(blocks) + 1
      /\ p \in 0 .. End - 1
  BY DEF RingInv, Types
<1>2. file[p] = NoByte \/ Right(p)
  BY <1>1 DEF RingInv, Bytes
<1>3. ASSUME pc = "done"
      PROVE file[p] # NoByte
  <2>1. p \in Nat /\ p < End
    <3>1. End \in Nat
      BY <1>1, Inside
    <3> QED BY <1>1, <3>1
  <2>2. PICK k \in 1 .. Len(blocks) : p \in Before[k] .. Before[k] + blocks[k] - 1
    BY <1>1, <2>1, InABlock
  <2>3. ui = Len(blocks) + 1 /\ \A b \in Bufs : ~Open(b)
    BY <1>3 DEF RingInv, Turn
  <2>4. k \in 1 .. ui - 1
    BY <1>1, <2>3
  <2>5. Stored(Before[k], blocks[k])
    <3>1. ASSUME NEW b \in Bufs, Held(b), buf[b] = k
          PROVE Stored(Before[k], blocks[k])
      <4>1. Describes(b) /\ slots[b].acked <= slots[b].len /\ ~(slots[b].acked < slots[b].len)
        BY <2>3, <3>1 DEF RingInv, Described, Open
      <4>2. slots[b].acked \in Nat /\ slots[b].len \in Nat
        BY DEF RingInv, Types, Slot
      <4>3. slots[b].acked = slots[b].len
        BY <4>1, <4>2
      <4> QED BY <3>1, <4>1, <4>3 DEF Describes
    <3> QED BY <2>4, <3>1 DEF RingInv, Kept
  <2> QED BY <2>2, <2>5 DEF Stored
<1> QED BY <1>2, <1>3

\* Every byte the kernel puts in the file is the one that belongs there, and
\* ring_segments returns only when all of them are: whatever was short.
THEOREM BytesAreRight == ASSUME UringAssumption PROVE Spec => []BytesRight
<1>1. RingInv => BytesRight
  BY ShowsBytes
<1> QED BY <1>1, RingInvariant, PTL

\* A queue has as many entries as it has buffers.
LEMMA QueueCount ==
    ASSUME NEW q \in Seq(Entry), Once(q)
    PROVE IsFiniteSet(Queued(q)) /\ Cardinality(Queued(q)) = Len(q)
<1> DEFINE f == [i \in 1 .. Len(q) |-> q[i].b]
<1>1. Len(q) \in Nat
  OBVIOUS
<1>2. Queued(q) = {q[i].b : i \in 1 .. Len(q)}
  BY DEF Queued, Elems
<1>3. f \in [1 .. Len(q) -> Queued(q)]
  BY <1>2
<1>4. \A i, j \in 1 .. Len(q) : f[i] = f[j] => i = j
  BY DEF Once
<1>5. \A x \in Queued(q) : \E i \in 1 .. Len(q) : f[i] = x
  BY <1>2
<1> HIDE DEF f
<1>6. f \in Bijection(1 .. Len(q), Queued(q))
  BY <1>3, <1>4, <1>5 DEF Bijection, Injection, Surjection, IsInjective
<1>7. IsFiniteSet(1 .. Len(q)) /\ Cardinality(1 .. Len(q)) = Len(q)
  BY <1>1, FS_Interval
<1>8. ExistsBijection(1 .. Len(q), Queued(q))
  BY <1>6 DEF ExistsBijection
<1> QED BY <1>7, <1>8, FS_Bijection

\* The invariant bounds the queue.
LEMMA ShowsQueue == ASSUME UringAssumption PROVE RingInv => QueueFits
<1> SUFFICES ASSUME RingInv PROVE Len(store) + Len(sq) <= QueueDepth
  BY DEF RingInv, Fits, QueueFits
<1> DEFINE A == Queued(store)
           B == Queued(sq)
<1>1. store \in Seq(Entry) /\ sq \in Seq(Entry) /\ Once(store) /\ Once(sq) /\ A \cap B = {}
  BY DEF RingInv, Types, Apart
<1>2. /\ IsFiniteSet(A) /\ Cardinality(A) = Len(store) /\ IsFiniteSet(B) /\ Cardinality(B) = Len(sq)
  BY <1>1, QueueCount
<1>3. A \cup B \subseteq Bufs
  BY Contents DEF RingInv, UnderWay
<1> HIDE DEF A, B
<1>4. Cardinality(A \cup B) = Cardinality(A) + Cardinality(B) - Cardinality({})
  BY <1>1, <1>2, FS_Union
<1>5. Cardinality({}) = 0
  BY FS_EmptySet
<1>6. /\ Cardinality(A \cup B) <= Cardinality(Bufs) /\ Cardinality(Bufs) \in Nat
      /\ Cardinality(Bufs) <= QueueDepth /\ QueueDepth \in Nat
  BY <1>3, Constants, FS_Subset, FS_CardinalityType
<1>7. Len(store) \in Nat /\ Len(sq) \in Nat
  BY <1>1
<1>8. Len(store) + Len(sq) <= Cardinality(Bufs)
  BY <1>2, <1>4, <1>5, <1>6, <1>7
<1> QED BY <1>6, <1>7, <1>8

\* push asks for no room and needs none, and no block is larger than a buffer.
THEOREM QueueNeverOverruns == ASSUME UringAssumption PROVE Spec => []QueueFits
<1>1. RingInv => QueueFits
  BY ShowsQueue
<1> QED BY <1>1, RingInvariant, PTL

\* No buffer is refilled while the kernel may still read it: while an entry or
\* a completion of it is under way (the unsafe reuse acquire's test prevents).
LeftAlone == [][\A b \in UnderWay : buf'[b] = buf[b]]_vars

\* LeftAlone holds: acquire hands out only buffers whose block is acknowledged,
\* and of those nothing is under way (Busy).
THEOREM BuffersLeftAlone == ASSUME UringAssumption PROVE Spec => LeftAlone
<1>1. RingInv /\ [Next]_vars => [\A b \in UnderWay : buf'[b] = buf[b]]_vars
  <2> SUFFICES ASSUME RingInv, Next, NEW b \in UnderWay PROVE buf'[b] = buf[b]
    OBVIOUS
  <2>1. CASE Build
    <3>1. buf' = [buf EXCEPT ![idx] = ui] /\ ~Open(idx) /\ buf \in [Bufs -> Nat]
      BY <2>1 DEF Build, RingInv, Turn, Types
    <3>2. b # idx /\ b \in Bufs
      BY <3>1, Contents DEF RingInv, Busy
    <3> QED BY <3>1, <3>2
  <2>2. CASE ~Build
    BY <2>2 DEF Next, Writer, Setup, Acquire, Submit, AfterPush, BeforeWait, AfterRest, Flags,
                GetEvents, Reap, Reaped, Drain, Visible, Poll, Doze, Complete, writer, mem, vars
  <2> QED BY <2>1, <2>2
<1> QED BY <1>1, RingInvariant, PTL DEF Spec, LeftAlone
=============================================================================
