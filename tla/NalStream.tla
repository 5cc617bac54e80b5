----------------------------- MODULE NalStream -----------------------------
(***************************************************************************)
(* What the muxer makes of the H.264, H.265 and H.266 chunks: prep_nal and *)
(* inline_psets of src/src/mkv_mux.rs over src/src/nal_parse.rs.  A block  *)
(* is an access unit (the prefix NALs and the slice), its display rank in  *)
(* the chunk comes from the picture order count, whose low bits the slice  *)
(* carries.  The first parameter set of each kind goes to the codec's      *)
(* private data; where the sets may differ between chunks (vary) the first *)
(* ones of a chunk are held back and put in front of its first block if it *)
(* turns out that some chunk differs.                                      *)
(*                                                                         *)
(* The encoder's stream is any of Orders, each chunk led by an IRAP and by *)
(* its parameter sets, with further sets, prefixes and dropped NALs in     *)
(* between.  A NAL is a record; the value of a set stands for its bytes.   *)
(***************************************************************************)
EXTENDS Integers, Sequences, FiniteSets, Lists

CONSTANTS Orders,      \* decode order of a chunk: sequences of [poc, ref, tid]
          Cycle,       \* 1 << log2_poc, the counts that pic_order_cnt_lsb tells apart
          Values,      \* parameter sets, as their lengths
          MaxChunks, MaxExtra,  \* bounds: chunks, NALs that are not slices
          U32          \* 2^32, in small

\* What later pictures' counts may refer to: a reference, of the lowest layer where there are some.
Anchor(p, layered) == p.ref /\ (layered => p.tid = 0)

\* H.264 8.2.1, H.265 and H.266 8.3.1: a count lies within half a cycle of the one it refers to,
\* which is that of the last anchor before the picture, or of the chunk's first picture.
WithinHalf(o, layered) ==
    \A i, j \in DOMAIN o :
        /\ j < i /\ (j = 1 \/ Anchor(o[j], layered))
        /\ \A m \in j + 1 .. i - 1 : ~Anchor(o[m], layered)
        => 2 * (o[i].poc - o[j].poc) \in 1 - Cycle .. Cycle

NalAssumption ==
    /\ {MaxChunks, Cycle, U32} \subseteq Nat \ {0} /\ MaxExtra \in Nat
    /\ Cycle % 2 = 0
    /\ Values \subseteq Nat \ {0}
    \* A chunk is a stream of its own: it begins with an IRAP, whose count is 0.
    /\ \A o \in Orders :
          /\ o \in Seq([poc : 0 .. U32 - 1, ref : BOOLEAN, tid : Nat])
          /\ o # <<>> => o[1].poc = 0
          /\ \A i, j \in DOMAIN o : o[i].poc = o[j].poc => i = j
          /\ WithinHalf(o, FALSE) /\ WithinHalf(o, TRUE)

VARIABLES codec, vary,    \* the encoder; whether chunks may differ
          pc, ci, order,  \* the chunk, the pictures still to come
          extra,          \* NALs spent
          msb, lsb,       \* Poc
          arena, ranges,  \* blocks [n, len]; per chunk <<first, count>>
          nals, nalRanges, nal0, size,  \* NALs of the blocks; the access unit's first, its octets
          displays,
          rec, varies, first, psets,    \* ParamSets; per chunk its first sets
          source          \* what the encoder wrote: per chunk its NALs

poc == <<msb, lsb>>
blocks == <<arena, nals, nal0, size, displays>>
params == <<rec, varies, first>>
spans == <<ranges, nalRanges, psets>>
vars == <<codec, vary, pc, ci, order, extra, poc, blocks, params, spans, source>>

Kinds == {"sps", "pps"}
NoSets == [k \in Kinds |-> 0]
Nal(k, v) == [k |-> k, v |-> v]
NalLen(x) == IF x.k \in Kinds THEN x.v ELSE IF x.k = "vcl" THEN 5 ELSE 1

Init == /\ codec \in {"x264", "x265", "vvenc"} /\ vary \in BOOLEAN
        /\ pc = "next" /\ ci = 0 /\ order = <<>> /\ extra = 0
        /\ msb = 0 /\ lsb = 0
        /\ arena = <<>> /\ nals = <<>> /\ nal0 = 0 /\ size = 0 /\ displays = <<>>
        /\ rec = NoSets /\ varies = {} /\ first = NoSets
        /\ ranges = <<>> /\ nalRanges = <<>> /\ psets = <<>> /\ source = <<>>

----------------------------------------------------------------------------
\* Poc::full and Poc::reset.

\* Mutation of Msb: the carry into the high bits is missed.
MsbNoCarry(l) == IF l > lsb /\ l - lsb > Cycle \div 2 THEN msb - Cycle ELSE msb
Msb(l) == IF l < lsb /\ lsb - l >= Cycle \div 2 THEN msb + Cycle
          ELSE IF l > lsb /\ l - lsb > Cycle \div 2 THEN msb - Cycle ELSE msb

\* Whether the picture is the reference of the next ones' counts.
Updates264(p) == p.ref
Updates265(p) == p.tid = 0 /\ p.ref
Updates266(p) == p.tid = 0 /\ p.ref
Updates(p) == CASE codec = "x264" -> Updates264(p) [] codec = "x265" -> Updates265(p)
                [] OTHER -> Updates266(p)

----------------------------------------------------------------------------
\* run: a chunk, NAL by NAL.

StartChunk == /\ pc = "next" /\ ci < MaxChunks
              /\ \E o \in Orders : order' = o
              /\ ci' = ci + 1 /\ pc' = "sps"
              /\ first' = IF vary THEN NoSets ELSE first
              /\ msb' = 0 /\ lsb' = 0 /\ nal0' = Len(nals) /\ size' = 0
              /\ ranges' = Append(ranges, <<Len(arena), 0>>)
              /\ nalRanges' = Append(nalRanges, <<Len(nals), 0>>)
              /\ source' = Append(source, <<>>)
              /\ UNCHANGED <<codec, vary, extra, arena, nals, displays, rec, varies, psets>>

Wrote(x) == source' = [source EXCEPT ![ci] = Append(@, x)]
Add(x) == nals' = Append(nals, x) /\ size' = size + 4 + NalLen(x)

\* Mutation of PushParam: a set is compared with the codec's private data only once per chunk, and
\* a second one is dropped.
PushParamOnce(k, v) ==
    /\ IF ~vary \/ first[k] # 0 THEN UNCHANGED <<varies, first>>
       ELSE /\ first' = [first EXCEPT ![k] = v]
            /\ varies' = IF rec[k] \in {0, v} THEN varies ELSE varies \cup {k}
    /\ rec' = IF rec[k] = 0 THEN [rec EXCEPT ![k] = v] ELSE rec
    /\ UNCHANGED <<nals, size>>

PushParam(k, v) ==
    \/ /\ ~vary /\ rec' = IF rec[k] = 0 THEN [rec EXCEPT ![k] = v] ELSE rec
       /\ UNCHANGED <<nals, size, varies, first>>
    \/ /\ vary /\ first[k] # 0
       /\ varies' = varies \cup {k} /\ Add(Nal(k, v))
       /\ UNCHANGED <<rec, first>>
    \/ /\ vary /\ first[k] = 0
       /\ first' = [first EXCEPT ![k] = v]
       /\ rec' = IF rec[k] = 0 THEN [rec EXCEPT ![k] = v] ELSE rec
       /\ varies' = IF rec[k] \in {0, v} THEN varies ELSE varies \cup {k}
       /\ UNCHANGED <<nals, size>>

\* The sets that lead a chunk; without vary they are those of the first chunk.
HeadSet(k, next) ==
    /\ pc = k
    /\ \E v \in Values : /\ vary \/ rec[k] \in {0, v}
                         /\ PushParam(k, v) /\ Wrote(Nal(k, v))
    /\ pc' = next
    /\ UNCHANGED <<codec, vary, ci, order, extra, poc, arena, nal0, displays, spans>>

\* A set later in the chunk: with vary any, without it the same again.
LaterSet == /\ pc = "pics" /\ order # <<>> /\ extra < MaxExtra
            /\ \E k \in Kinds, v \in Values : /\ vary \/ v = rec[k]
                                              /\ PushParam(k, v) /\ Wrote(Nal(k, v))
            /\ extra' = extra + 1
            /\ UNCHANGED <<codec, vary, pc, ci, order, poc, arena, nal0, displays, spans>>

\* H.266 adaptation sets and picture headers; AUD, SEI and the like are dropped.
Prefix == /\ pc = "pics" /\ extra < MaxExtra /\ extra' = extra + 1
          /\ \/ codec = "vvenc" /\ Add(Nal("prefix", 0)) /\ Wrote(Nal("prefix", 0))
             \/ UNCHANGED <<nals, size, source>>
          /\ UNCHANGED <<codec, vary, pc, ci, order, poc, arena, nal0, displays, params, spans>>

\* The slice ends the access unit.  The chunk's first picture is an IRAP: its count is 0 (x264,
\* x265) or its low bits.
Vcl == /\ pc = "pics" /\ order # <<>>
       /\ LET p == Head(order)
              low == p.poc % Cycle
              irap == Len(arena) = Last(ranges)[1]
              high == IF irap THEN 0 ELSE Msb(low)
          IN  /\ displays' = Append(displays, (high + low) % U32)
              /\ IF irap \/ Updates(p) THEN msb' = high /\ lsb' = low ELSE UNCHANGED poc
              /\ Wrote(Nal("vcl", p.poc))
              /\ nals' = Append(nals, Nal("vcl", p.poc))
              /\ arena' = Append(arena, [n |-> Len(nals) + 1 - nal0, len |-> size + 4 + 5])
       /\ nal0' = Len(nals) + 1 /\ size' = 0
       /\ order' = Tail(order)
       /\ UNCHANGED <<codec, vary, pc, ci, extra, params, spans>>

\* rank: the displays of the chunk become 0 .. n - 1.
Ranked(from) == [i \in DOMAIN displays |->
    IF i <= from THEN displays[i]
    ELSE Cardinality({j \in from + 1 .. Len(displays) :
             displays[j] < displays[i] \/ (displays[j] = displays[i] /\ j < i)})]

EndChunk == /\ pc = "pics" /\ order = <<>>
            /\ displays' = Ranked(ranges[ci][1])
            /\ ranges' = [ranges EXCEPT ![ci] = <<@[1], Len(arena) - @[1]>>]
            /\ nalRanges' = [nalRanges EXCEPT ![ci] = <<@[1], Len(nals) - @[1]>>]
            /\ psets' = IF vary THEN Append(psets, first) ELSE psets
            /\ pc' = "next"
            /\ UNCHANGED <<codec, vary, ci, order, extra, poc, arena, nals, nal0, size, params, source>>

----------------------------------------------------------------------------
\* inline_psets, once every chunk is parsed.

Slice(s, span) == SubSeq(s, span[1] + 1, span[1] + span[2])
Held(c) == SelectSeq(<<Nal("sps", psets[c]["sps"]), Nal("pps", psets[c]["pps"])>>,
                     LAMBDA x : x.k \in varies /\ x.v # 0)
Inlined(c) == Held(c) \o Slice(nals, nalRanges[c])
Before[c \in Nat] == IF c <= 1 THEN 0 ELSE Before[c - 1] + Len(Inlined(c - 1))

\* The i-th block, with the sets put in front of it if it is the first of a chunk.
Block(i) == LET cs == {c \in 1 .. ci : ranges[c][1] + 1 = i}
                held == IF cs = {} THEN <<>> ELSE Held(CHOOSE c \in cs : TRUE)
            IN  [n |-> arena[i].n + Len(held),
                 len |-> FoldLeft(LAMBDA n, x : n + 4 + NalLen(x), arena[i].len, held)]

InlinePsets ==
    /\ pc = "next" /\ ci > 0 /\ vary /\ varies # {}
    /\ nals' = FlattenSeq([c \in 1 .. ci |-> Inlined(c)])
    /\ nalRanges' = [c \in 1 .. ci |-> <<Before[c], Len(Inlined(c))>>]
    /\ arena' = [i \in DOMAIN arena |-> Block(i)]
    /\ pc' = "done"
    /\ UNCHANGED <<codec, vary, ci, order, extra, poc, nal0, size, displays, params, ranges, psets,
                   source>>

NoInline == /\ pc = "next" /\ ci > 0 /\ (~vary \/ varies = {}) /\ pc' = "done"
            /\ UNCHANGED <<codec, vary, ci, order, extra, poc, blocks, params, spans, source>>

Next == \/ StartChunk \/ HeadSet("sps", "pps") \/ HeadSet("pps", "pics") \/ LaterSet \/ Prefix
        \/ Vcl \/ EndChunk \/ InlinePsets \/ NoInline
Spec == Init /\ [][Next]_vars

----------------------------------------------------------------------------
TypeOK == /\ pc \in {"next", "sps", "pps", "pics", "done"} /\ ci \in 0 .. MaxChunks
          /\ varies \subseteq Kinds /\ Len(displays) = Len(arena)

\* The slices of a chunk, by their place in what the encoder wrote; the place of one among them.
Slices(c) == {n \in DOMAIN source[c] : source[c][n].k = "vcl"}
Nth(c, n) == Cardinality({m \in Slices(c) : m < n}) + 1

\* The counts recovered from their low bits put a chunk's pictures in display order: the ranks the
\* block times are taken from are those of the encoder's counts (Poc::full, rank).
DisplayOrder == \A c \in 1 .. ci : (c < ci \/ pc \in {"next", "done"}) =>
    /\ ranges[c][2] = Cardinality(Slices(c))
    /\ \A n \in Slices(c) : displays[ranges[c][1] + Nth(c, n)] =
           Cardinality({m \in Slices(c) : source[c][m].v < source[c][n].v})

Pictures(c) == SelectSeq(source[c], LAMBDA x : x.k = "vcl")

\* The parameter sets in force after the NALs of a sequence.
InForce(sets, s) == FoldLeft(LAMBDA st, x : IF x.k \in Kinds THEN [st EXCEPT ![x.k] = x.v] ELSE st,
                             sets, s)
Upto(s, i) == \* the NALs up to the i-th slice
    LET at == CHOOSE n \in 1 .. Len(s) :
                  /\ s[n].k = "vcl"
                  /\ Cardinality({m \in 1 .. n : s[m].k = "vcl"}) = i
    IN  SubSeq(s, 1, at)
NalsBefore(c, i) == FoldLeft(LAMBDA n, b : n + b.n, 0, SubSeq(Slice(arena, ranges[c]), 1, i - 1))

\* From the start of any cluster on, with the private data and what is inline, every picture is
\* decoded with the sets it was encoded with; and a block's count and octets are those of the NALs
\* emit_nal copies for it, the slice the last of them (Emit::push, inline_psets).
StreamsDecode == pc = "done" => \A c \in 1 .. ci :
    LET out == Slice(nals, nalRanges[c]) IN
        \A i \in 1 .. ranges[c][2] :
            LET b == arena[ranges[c][1] + i]
                own == SubSeq(out, NalsBefore(c, i) + 1, NalsBefore(c, i) + b.n)
            IN  /\ InForce(rec, Upto(out, i)) = InForce(NoSets, Upto(source[c], i))
                /\ Last(own) = Pictures(c)[i]
                /\ b.len = FoldLeft(LAMBDA n, x : n + 4 + NalLen(x), 0, own)
=============================================================================
