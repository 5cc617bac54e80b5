------------------------- MODULE TqPipeline_proofs -------------------------
(***************************************************************************)
(* What holds of the target-quality pipeline for any number of chunks,     *)
(* packets, workers and rounds, any capacity of the rings and any          *)
(* distances, under TqAssumption.                                          *)
(*                                                                         *)
(* PipeInv is the inductive invariant.  A packet is in one place (Apart)   *)
(* and the packets in use have chunks of their own (Chunked), so a thread  *)
(* works alone on its packet and on the file of its chunk; Searched says   *)
(* where the search of a packet stands in each place.  Counting relates    *)
(* the messages of tq_coord to the chunks that are book-kept, though a     *)
(* message leaves before its chunk is.  From it: what is book-kept is the  *)
(* best probe, all is book-kept at the end, and no file is written after.  *)
(*                                                                         *)
(* The second part is about progress: with MoveInv, some thread can go on  *)
(* while there is something to do (SomebodyMoves).  The cycle of the rings *)
(* cannot fill up (NotStuck) because of the bound on the packets, and      *)
(* because of Behind: while a message is in coord there is a packet that   *)
(* is neither in enc, in met, nor with a thread that waits to send.        *)
(***************************************************************************)
EXTENDS TqPipeline, FiniteSetTheorems, TLAPS

Probes == (0 .. Todo) \X (0 .. MaxRounds)

Packet == [chunk : 0 .. Todo, armed : BOOLEAN, round : 0 .. MaxRounds, final : BOOLEAN,
           diffs : Seq(Diffs), probe : Probes, kept : Probes, keptDiff : Diffs \cup {Inf}]

Types ==
    /\ alt \in BOOLEAN /\ frames \in 0 .. Todo /\ next \in 1 .. Todo + 1
    /\ dpc \in {"acquire", "send", "done"} /\ (dpc = "send" => next <= Todo)
    /\ permits \in Nat /\ free \subseteq Slots
    /\ coord \in Seq(Slots \cup {One}) /\ enc \in Seq(Slots) /\ met \in Seq(Slots)
    /\ closed \subseteq {"enc", "met"}
    /\ held \in Slots \cup {None} /\ counted \in 0 .. Todo
    /\ pkt \in [Slots -> Packet]
    /\ epc \in [Encoders -> {"recv", "send", "done"}]
    /\ eslot \in [Encoders -> Slots \cup {None}]
    /\ mpc \in [Metrics -> {"recv", "score", "again", "tell", "book", "give", "done"}]
    /\ mslot \in [Metrics -> Slots \cup {None}]
    /\ file \in [Chunks -> Probes] /\ booked \subseteq Chunks /\ log \in Seq(Chunks)
    /\ main \in {"join coord", "join encoders", "join metrics", "log written"}
    /\ Len(coord) <= Cap /\ Len(enc) <= Cap /\ Len(met) <= Cap

\* A worker has a packet exactly while it works.
Hands ==
    /\ \A e \in Encoders : eslot[e] = None <=> epc[e] # "send"
    /\ \A m \in Metrics : mslot[m] = None <=> mpc[m] \in {"recv", "done"}

On(q) == {q[i] : i \in 1 .. Len(q)}
Once(q) == \A i, j \in 1 .. Len(q) : q[i] = q[j] /\ q[i] # One => i = j
Encoding(s) == \E e \in Encoders : eslot[e] = s
Judged(s) == \E m \in Metrics : mslot[m] = s

\* A packet is in one place: free, in a ring once, or with one thread.
Apart ==
    /\ Once(coord) /\ Once(enc) /\ Once(met)
    /\ \A e, f \in Encoders : eslot[e] = eslot[f] /\ eslot[e] # None => e = f
    /\ \A m, n \in Metrics : mslot[m] = mslot[n] /\ mslot[m] # None => m = n
    /\ \A s \in Slots :
          /\ s \in free => /\ s \notin On(coord) /\ held # s /\ s \notin On(enc)
                           /\ ~Encoding(s) /\ s \notin On(met) /\ ~Judged(s)
          /\ s \in On(coord) => /\ held # s /\ s \notin On(enc)
                                /\ ~Encoding(s) /\ s \notin On(met) /\ ~Judged(s)
          /\ held = s => s \notin On(enc) /\ ~Encoding(s) /\ s \notin On(met) /\ ~Judged(s)
          /\ s \in On(enc) => ~Encoding(s) /\ s \notin On(met) /\ ~Judged(s)
          /\ Encoding(s) => s \notin On(met) /\ ~Judged(s)
          /\ s \in On(met) => ~Judged(s)

\* The decoder's permit is for a packet that is free.
Permitted == /\ permits <= Cardinality(free)
             /\ dpc = "send" => permits + 1 <= Cardinality(free)

\* Packets in use have chunks of their own, decoded before and book-kept only
\* just before the packet is given back.
Chunked ==
    /\ booked \subseteq 1 .. next - 1
    /\ \A s \in Slots \ free :
          /\ pkt[s].chunk \in 1 .. next - 1
          /\ \A t \in Slots \ free : pkt[s].chunk = pkt[t].chunk => s = t
          /\ pkt[s].chunk \in booked => \E m \in Metrics : mslot[m] = s /\ mpc[m] = "give"

\* The first of the smallest distances of d is the r-th.
FirstBest(d, r) == \A k \in 1 .. Len(d) : d[r] <= d[k] /\ (k < r => d[r] < d[k])

\* The probe kept aside is the first of the best so far.
KeepsBest(pk) ==
    IF pk.diffs = <<>> THEN pk.keptDiff = Inf
    ELSE \E r \in 1 .. Len(pk.diffs) :
            pk.kept = <<pk.chunk, r>> /\ pk.keptDiff = pk.diffs[r] /\ FirstBest(pk.diffs, r)

\* A packet to be encoded: as decoded, or with a probe for each distance.
Ready(pk) == pk.armed => /\ pk.round = Len(pk.diffs)
                         /\ ~alt => KeepsBest(pk)
                         /\ IF pk.final THEN alt ELSE pk.round < MaxRounds

\* A packet that was encoded: the file is written if that was the final encode,
\* otherwise there is one probe more than distances.
Tried(pk) ==
    /\ pk.armed
    /\ IF pk.final THEN alt /\ file[pk.chunk] = <<pk.chunk, 0>>
       ELSE /\ pk.probe = <<pk.chunk, pk.round>> /\ pk.round = Len(pk.diffs) + 1
            /\ ~alt => KeepsBest(pk)

\* A packet whose search is over.
Settled(pk) == IF alt THEN file[pk.chunk] = <<pk.chunk, 0>>
               ELSE KeepsBest(pk) /\ pk.diffs # <<>> /\ file[pk.chunk] = pk.kept

Searched ==
    /\ \A s \in Slots : s \in On(coord) \/ held = s \/ s \in On(enc) => Ready(pkt[s])
    /\ \A s \in Slots : Encoding(s) \/ s \in On(met) => Tried(pkt[s])
    /\ \A m \in Metrics :
          /\ mpc[m] = "score" => Tried(pkt[mslot[m]]) /\ ~pkt[mslot[m]].final
          /\ mpc[m] = "again" => Ready(pkt[mslot[m]])
          /\ mpc[m] \in {"tell", "book", "give"} => Settled(pkt[mslot[m]])

\* Messages on their way, and the chunks they are or were about.
Ones(q) == {i \in 1 .. Len(q) : q[i] = One}
Booking == {m \in Metrics : mpc[m] = "book"}
Told == booked \cup {pkt[mslot[m]].chunk : m \in Booking}

Counting == counted + Cardinality(Ones(coord)) = Cardinality(Told)

Logged == /\ Len(log) = Cardinality(booked)
          /\ \A c \in booked : \E i \in 1 .. Len(log) : log[i] = c

Closing ==
    /\ "enc" \in closed => counted = Todo
    /\ main # "join coord" => "enc" \in closed
    /\ main = "log written" => Joined

\* The packet a message is about has not been sent ahead of it.
Behind == \A i \in Ones(coord) : \E s \in Slots :
    \/ s \in free
    \/ \E j \in i + 1 .. Len(coord) : coord[j] = s
    \/ \E m \in Metrics : mslot[m] = s /\ mpc[m] \in {"book", "give"}

PipeInv == /\ Types /\ Hands /\ Apart /\ Permitted /\ Chunked /\ Searched /\ Counting /\ Logged
           /\ Closing /\ Behind

----------------------------------------------------------------------------
LEMMA Constants ==
    ASSUME TqAssumption
    PROVE /\ Todo \in Nat \ {0} /\ Cap \in Nat \ {0} /\ MaxRounds \in Nat \ {0}
          /\ One \notin Slots /\ None \notin Slots /\ One # None /\ Slots \subseteq Nat
          /\ IsFiniteSet(Slots) /\ IsFiniteSet(Encoders) /\ IsFiniteSet(Metrics)
  BY DEF TqAssumption, One, None

\* Infinity is more than any distance.
LEMMA Infinite ==
    ASSUME TqAssumption
    PROVE Inf \in Nat /\ \A d \in Diffs : d \in Nat /\ d < Inf
<1> DEFINE m == CHOOSE d \in Diffs : \A x \in Diffs : x <= d
<1>1. m \in Diffs /\ \A x \in Diffs : x <= m
  BY DEF TqAssumption
<1>2. Inf = 1 + m /\ Diffs \subseteq Nat
  BY DEF Inf, TqAssumption
<1> HIDE DEF m
<1> QED BY <1>1, <1>2

\* What is in a ring after a send,
LEMMA OnAppend ==
    ASSUME NEW T, NEW q \in Seq(T), NEW x \in T
    PROVE /\ On(Append(q, x)) = On(q) \cup {x}
          /\ Once(q) /\ (x \notin On(q) \/ x = One) => Once(Append(q, x))
<1> DEFINE r == Append(q, x)
<1>1. Len(r) = Len(q) + 1 /\ r[Len(q) + 1] = x /\ \A i \in 1 .. Len(q) : r[i] = q[i]
  OBVIOUS
<1>2. Len(q) \in Nat
  OBVIOUS
<1> HIDE DEF r
<1>3. On(r) = On(q) \cup {x}
  BY <1>1, <1>2 DEF On
<1>4. ASSUME Once(q), x \notin On(q) \/ x = One
      PROVE Once(r)
  <2> SUFFICES ASSUME NEW i \in 1 .. Len(r), NEW j \in 1 .. Len(r), r[i] = r[j], r[i] # One
               PROVE i = j
    BY DEF Once
  <2>1. CASE i \in 1 .. Len(q) /\ j \in 1 .. Len(q)
    BY <1>1, <1>4, <2>1 DEF Once
  <2>2. CASE i = Len(q) + 1 \/ j = Len(q) + 1
    BY <1>1, <1>2, <1>4, <2>2 DEF On
  <2> QED BY <1>1, <1>2, <2>1, <2>2
<1> QED BY <1>3, <1>4 DEF r

\* and before a receive.
LEMMA OnTail ==
    ASSUME NEW T, NEW q \in Seq(T), q # <<>>
    PROVE /\ On(q) = On(Tail(q)) \cup {Head(q)}
          /\ Once(q) => Once(Tail(q)) /\ (Head(q) # One => Head(q) \notin On(Tail(q)))
<1> DEFINE r == Tail(q)
<1>1. /\ Len(q) \in Nat \ {0} /\ Len(r) = Len(q) - 1 /\ Head(q) = q[1]
      /\ \A i \in 1 .. Len(r) : r[i] = q[i + 1]
  OBVIOUS
<1> HIDE DEF r
<1>2. \A i \in 2 .. Len(q) : i - 1 \in 1 .. Len(r) /\ r[i - 1] = q[i]
  BY <1>1
<1>3. On(q) \subseteq On(r) \cup {q[1]}
  BY <1>1, <1>2 DEF On
<1>4. On(r) \cup {q[1]} \subseteq On(q)
  BY <1>1 DEF On
<1>5. ASSUME Once(q)
      PROVE Once(r) /\ (q[1] # One => q[1] \notin On(r))
  BY <1>1, <1>5 DEF On, Once
<1> QED BY <1>1, <1>3, <1>4, <1>5 DEF r

LEMMA OnEmpty == On(<<>>) = {} /\ Once(<<>>)
  BY DEF On, Once

----------------------------------------------------------------------------
\* The best of the probes, and the best with one more.
LEMMA BestAppend ==
    ASSUME TqAssumption, NEW pk \in Packet, NEW d \in Diffs,
           pk.round = Len(pk.diffs) + 1, pk.probe = <<pk.chunk, pk.round>>,
           ~alt, KeepsBest(pk)
    PROVE KeepsBest([Retain(pk, d) EXCEPT !.diffs = Append(@, d)])
<1> DEFINE D == pk.diffs
           E == Append(D, d)
           q == [Retain(pk, d) EXCEPT !.diffs = Append(@, d)]
<1> SUFFICES KeepsBest(q)
  OBVIOUS
<1>1. D \in Seq(Diffs) /\ Len(D) \in Nat
  BY DEF Packet
<1>2. /\ E \in Seq(Diffs) /\ Len(E) = Len(D) + 1 /\ E[Len(D) + 1] = d /\ E # <<>>
      /\ \A i \in 1 .. Len(D) : E[i] = D[i]
  BY <1>1
<1>3. \A i \in 1 .. Len(D) : D[i] \in Diffs
  BY <1>1
<1>4. q.diffs = E /\ q.chunk = pk.chunk
  BY DEF Retain, Packet
<1>5. \A e \in Diffs : e \in Nat /\ e < Inf
  BY Infinite
<1> HIDE DEF D, E
<1>6. CASE d < pk.keptDiff
  <2>1. q.kept = <<pk.chunk, Len(D) + 1>> /\ q.keptDiff = E[Len(D) + 1]
    BY <1>2, <1>6 DEF Retain, Packet, D
  <2>2. \A i \in 1 .. Len(D) : d < D[i]
    <3> SUFFICES ASSUME NEW i \in 1 .. Len(D) PROVE d < D[i]
      OBVIOUS
    <3>1. D # <<>>
      BY <1>1
    <3>2. PICK r \in 1 .. Len(D) : pk.keptDiff = D[r] /\ D[r] <= D[i]
      BY <3>1 DEF KeepsBest, FirstBest, D
    <3> QED BY <1>3, <1>5, <1>6, <3>2
  <2>3. FirstBest(E, Len(D) + 1)
    <3> SUFFICES ASSUME NEW k \in 1 .. Len(E)
                 PROVE E[Len(D) + 1] <= E[k] /\ (k < Len(D) + 1 => E[Len(D) + 1] < E[k])
      BY DEF FirstBest
    <3>1. CASE k \in 1 .. Len(D)
      BY <1>1, <1>2, <1>3, <1>5, <2>2, <3>1
    <3>2. CASE k = Len(D) + 1
      BY <1>1, <1>2, <1>5, <3>2
    <3> QED BY <1>1, <1>2, <3>1, <3>2
  <2>4. Len(D) + 1 \in 1 .. Len(E)
    BY <1>1, <1>2
  <2> HIDE DEF q
  <2> QED BY <1>2, <1>4, <2>1, <2>3, <2>4 DEF KeepsBest
<1>7. CASE ~(d < pk.keptDiff)
  <2>1. q.kept = pk.kept /\ q.keptDiff = pk.keptDiff
    BY <1>7 DEF Retain, Packet
  <2>2. D # <<>>
    BY <1>5, <1>7 DEF KeepsBest, D
  <2>3. PICK r \in 1 .. Len(D) : /\ pk.kept = <<pk.chunk, r>> /\ pk.keptDiff = D[r]
                                 /\ FirstBest(D, r)
    BY <2>2 DEF KeepsBest, D
  <2>4. D[r] <= d /\ r \in 1 .. Len(E) /\ E[r] = D[r]
    BY <1>1, <1>2, <1>3, <1>5, <1>7, <2>3
  <2>5. FirstBest(E, r)
    <3> SUFFICES ASSUME NEW k \in 1 .. Len(E)
                 PROVE E[r] <= E[k] /\ (k < r => E[r] < E[k])
      BY DEF FirstBest
    <3>1. CASE k \in 1 .. Len(D)
      BY <1>2, <2>3, <2>4, <3>1 DEF FirstBest
    <3>2. CASE k = Len(D) + 1
      BY <1>1, <1>2, <2>3, <2>4, <3>2
    <3> QED BY <1>1, <1>2, <3>1, <3>2
  <2> HIDE DEF q
  <2> QED BY <1>2, <1>4, <2>1, <2>3, <2>4, <2>5 DEF KeepsBest
<1> QED BY <1>6, <1>7

\* One turn of a packet: encoded,
LEMMA EncodeTurn ==
    ASSUME TqAssumption, NEW pk \in Packet, Ready(pk)
    PROVE LET q == Probed(IF pk.armed THEN pk ELSE Arm(pk))
          IN  /\ q \in Packet /\ q.chunk = pk.chunk /\ q.armed
              /\ q.final => alt /\ q.probe = <<pk.chunk, 0>>
              /\ ~q.final => /\ q.probe = <<pk.chunk, q.round>> /\ q.round = Len(q.diffs) + 1
                             /\ ~alt => KeepsBest(q)
<1> DEFINE a == IF pk.armed THEN pk ELSE Arm(pk)
           q == Probed(a)
<1>1. /\ a \in Packet /\ a.chunk = pk.chunk /\ a.armed /\ a.round = Len(a.diffs)
      /\ ~alt => KeepsBest(a)
      /\ a.final => alt
      /\ ~a.final => a.round < MaxRounds
  <2>1. CASE pk.armed
    BY <2>1 DEF Ready
  <2>2. CASE ~pk.armed
    <3>1. /\ a = Arm(pk) /\ <<>> \in Seq(Diffs) /\ Len(<<>>) = 0
          /\ NoProbe \in Probes /\ 0 \in 0 .. MaxRounds /\ 0 < MaxRounds
      BY <2>2, Constants DEF NoProbe, Probes
    <3>2. a \in Packet /\ a.chunk = pk.chunk /\ a.armed /\ ~a.final /\ a.round = 0
          /\ a.diffs = <<>> /\ a.keptDiff = Inf
      BY <3>1 DEF Arm, Packet
    <3> QED BY <3>1, <3>2 DEF KeepsBest
  <2> QED BY <2>1, <2>2
<1> HIDE DEF a
<1>2. CASE a.final
  <2>1. q = [a EXCEPT !.round = a.round, !.probe = <<a.chunk, 0>>]
    BY <1>2 DEF Probed
  <2>2. a.chunk \in 0 .. Todo /\ 0 \in 0 .. MaxRounds /\ <<a.chunk, 0>> \in Probes
    BY <1>1, Constants DEF Packet, Probes
  <2>3. q \in Packet /\ q.chunk = pk.chunk /\ q.armed /\ q.final /\ q.probe = <<a.chunk, 0>>
    BY <1>1, <1>2, <2>1, <2>2 DEF Packet
  <2> QED BY <1>1, <1>2, <2>3 DEF a
<1>3. CASE ~a.final
  <2>1. q = [a EXCEPT !.round = a.round + 1, !.probe = <<a.chunk, a.round + 1>>]
    BY <1>3 DEF Probed
  <2>2. /\ a.chunk \in 0 .. Todo /\ a.round \in 0 .. MaxRounds
        /\ a.round + 1 \in 0 .. MaxRounds /\ <<a.chunk, a.round + 1>> \in Probes
    <3>1. a.chunk \in 0 .. Todo /\ a.round \in 0 .. MaxRounds /\ a.round < MaxRounds
      BY <1>1, <1>3 DEF Packet
    <3>2. a.round + 1 \in 0 .. MaxRounds
      BY <3>1, Constants
    <3> QED BY <3>1, <3>2 DEF Probes
  <2>3. /\ q \in Packet /\ q.chunk = pk.chunk /\ q.armed /\ ~q.final
        /\ q.probe = <<q.chunk, q.round>> /\ q.round = a.round + 1 /\ q.diffs = a.diffs
        /\ q.kept = a.kept /\ q.keptDiff = a.keptDiff
    BY <1>1, <1>3, <2>1, <2>2 DEF Packet
  <2>4. ~alt => KeepsBest(q)
    BY <1>1, <2>3 DEF KeepsBest
  <2> QED BY <1>1, <1>3, <2>3, <2>4 DEF a
<1> QED BY <1>2, <1>3

\* and scored.
LEMMA ScoreTurn ==
    ASSUME TqAssumption, NEW pk \in Packet, Tried(pk), ~pk.final, NEW d \in Diffs, alt \in BOOLEAN
    PROVE LET q == [Retain(pk, d) EXCEPT !.diffs = Append(@, d)]
          IN  /\ q \in Packet /\ q.chunk = pk.chunk /\ q.armed /\ ~q.final
              /\ q.round = Len(q.diffs) /\ q.round = pk.round /\ q.diffs # <<>>
              /\ ~alt => KeepsBest(q)
<1> DEFINE q == [Retain(pk, d) EXCEPT !.diffs = Append(@, d)]
<1>1. pk.diffs \in Seq(Diffs) /\ Append(pk.diffs, d) \in Seq(Diffs)
      /\ Len(Append(pk.diffs, d)) = Len(pk.diffs) + 1 /\ Append(pk.diffs, d) # <<>>
  BY DEF Packet
<1>2. Retain(pk, d) \in Packet /\ Retain(pk, d).diffs = pk.diffs
      /\ Retain(pk, d).chunk = pk.chunk /\ Retain(pk, d).round = pk.round
      /\ Retain(pk, d).armed = pk.armed /\ Retain(pk, d).final = pk.final
  BY DEF Retain, Packet
<1>3. q \in Packet /\ q.chunk = pk.chunk /\ q.armed = pk.armed /\ q.final = pk.final
      /\ q.round = pk.round /\ q.diffs = Append(pk.diffs, d)
  BY <1>1, <1>2 DEF Packet
<1>4. pk.armed /\ pk.round = Len(pk.diffs) + 1 /\ pk.probe = <<pk.chunk, pk.round>>
      /\ (~alt => KeepsBest(pk))
  BY DEF Tried
<1>5. ~alt => KeepsBest(q)
  BY <1>4, BestAppend
<1> QED BY <1>1, <1>3, <1>4, <1>5

----------------------------------------------------------------------------
LEMMA InitPipe ==
    ASSUME TqAssumption, Init
    PROVE PipeInv
<1>1. Todo \in Nat \ {0} /\ Cap \in Nat \ {0} /\ MaxRounds \in Nat \ {0} /\ IsFiniteSet(Slots)
  BY Constants
<1>2. Empty \in Packet
  <2>1. NoProbe \in Probes /\ 0 \in 0 .. Todo /\ 0 \in 0 .. MaxRounds /\ <<>> \in Seq(Diffs)
    BY <1>1 DEF NoProbe, Probes
  <2> QED BY <2>1 DEF Empty, Packet
<1>3. Cardinality(Slots) \in Nat /\ Cardinality({}) = 0
  BY <1>1, FS_CardinalityType, FS_EmptySet
<1>4. Types
  <2>1. NoProbe \in Probes /\ 1 \in 1 .. Todo + 1 /\ 0 \in 0 .. Todo /\ Len(<<>>) <= Cap
    BY <1>1 DEF NoProbe, Probes
  <2>2. coord = <<>> /\ enc = <<>> /\ met = <<>> /\ log = <<>>
    BY DEF Init
  <2>3. /\ coord \in Seq(Slots \cup {One}) /\ enc \in Seq(Slots) /\ met \in Seq(Slots)
        /\ log \in Seq(Chunks)
    BY <2>2
  <2> QED BY <1>2, <1>3, <2>1, <2>2, <2>3 DEF Init, Types
<1>5. Hands /\ Apart
  <2>1. /\ coord = <<>> /\ enc = <<>> /\ met = <<>> /\ held = None
        /\ \A e \in Encoders : eslot[e] = None /\ epc[e] = "recv"
        /\ \A m \in Metrics : mslot[m] = None /\ mpc[m] = "recv"
    BY DEF Init
  <2>2. None \notin Slots
    BY Constants
  <2> QED BY <2>1, <2>2, OnEmpty DEF Hands, Apart, Encoding, Judged
<1>6. Permitted
  <2>1. permits = Cardinality(Slots) /\ free = Slots /\ dpc = "acquire"
    BY DEF Init
  <2> QED BY <1>3, <2>1 DEF Permitted
<1>7. Chunked
  BY DEF Chunked, Init
<1>8. Searched
  <2>1. None \notin Slots
    BY Constants
  <2> QED BY <2>1, OnEmpty DEF Searched, Encoding, Init
<1>9. Ones(coord) = {} /\ Told = {}
  <2>1. coord = <<>> /\ Len(coord) = 0 /\ booked = {} /\ Booking = {}
    BY DEF Init, Booking
  <2>2. Ones(coord) = {}
    BY <2>1 DEF Ones
  <2> QED BY <2>1, <2>2 DEF Told
<1>10. Counting /\ Logged
  <2>1. counted = 0 /\ booked = {} /\ log = <<>>
    BY DEF Init
  <2> QED BY <1>3, <1>9, <2>1 DEF Counting, Logged
<1>11. Closing /\ Behind
  BY <1>9 DEF Closing, Behind, Init
<1> QED BY <1>4, <1>5, <1>6, <1>7, <1>8, <1>10, <1>11 DEF PipeInv

\* Steps that move no packet: a thread ends, the coordinator closes, the main
\* thread joins.
LEMMA StillStep ==
    ASSUME PipeInv, UNCHANGED <<alt, next, free, coord, enc, met, held, counted, pkt, eslot, mslot, disk>>,
           \A m \in Metrics : mpc'[m] = mpc[m] \/ {mpc[m], mpc'[m]} \subseteq {"recv", "done"},
           \A e \in Encoders : epc'[e] = epc[e] \/ {epc[e], epc'[e]} \subseteq {"recv", "done"}
    PROVE /\ Hands' /\ Apart' /\ Chunked' /\ Searched' /\ Counting' /\ Logged' /\ Behind'
<1> USE DEF PipeInv, disk
<1>1. Hands'
  BY DEF Hands
<1>2. Apart'
  BY DEF Apart, Encoding, Judged
<1>3. Chunked'
  BY DEF Chunked
<1>4. Searched'
  <2>1. \A s \in Slots : Encoding(s)' <=> Encoding(s)
    BY DEF Encoding
  <2>2. \A pk : /\ Ready(pk)' <=> Ready(pk)
                /\ Tried(pk)' <=> Tried(pk)
                /\ Settled(pk)' <=> Settled(pk)
    BY DEF Ready, Tried, Settled
  <2> QED BY <2>1, <2>2 DEF Searched
<1>5. Told' = Told
  <2>1. Booking' = Booking
    BY DEF Booking
  <2> QED BY <2>1 DEF Told
<1>6. Counting' /\ Logged'
  BY <1>5 DEF Counting, Logged
<1>7. Behind'
  BY DEF Behind
<1> QED BY <1>1, <1>2, <1>3, <1>4, <1>6, <1>7

LEMMA IdleStep ==
    ASSUME TqAssumption, PipeInv,
           \/ Acquire \/ AllDecoded \/ CoordClose \/ Main
           \/ \E e \in Encoders : EncEof(e)
           \/ \E m \in Metrics : MetEof(m)
    PROVE PipeInv'
<1> USE Constants DEF pool, rings, coordinator, workers, disk
<1>1. CASE Acquire
  <2>1. Cardinality(free) \in Nat
    BY FS_Subset, FS_CardinalityType DEF PipeInv, Types
  <2>2. /\ permits > 0 /\ permits' = permits - 1 /\ next <= Todo
        /\ dpc' \in {"send", "done"} /\ UNCHANGED <<free, next>>
    BY <1>1 DEF Acquire
  <2>3. permits \in Nat /\ permits <= Cardinality(free)
    BY DEF PipeInv, Types, Permitted
  <2>4. permits' \in Nat /\ Permitted'
    BY <2>1, <2>2, <2>3 DEF Permitted
  <2>5. UNCHANGED <<alt, frames, next, free, rings, coordinator, pkt, workers, disk, main>>
    BY <1>1 DEF Acquire
  <2>6. Types'
    BY <2>2, <2>4, <2>5 DEF PipeInv, Types
  <2>7. Closing'
    BY <2>5 DEF PipeInv, Closing, Joined
  <2> QED BY <2>4, <2>5, <2>6, <2>7, StillStep DEF PipeInv
<1>2. CASE AllDecoded
  <2>1. /\ Types' /\ Permitted' /\ Closing'
    BY <1>2 DEF AllDecoded, PipeInv, Types, Permitted, Closing, Joined
  <2> QED BY <1>2, <2>1, StillStep DEF AllDecoded, PipeInv
<1>3. CASE CoordClose
  <2>1. /\ Types' /\ Permitted' /\ Closing'
    BY <1>3 DEF CoordClose, PipeInv, Types, Permitted, Closing, Joined
  <2> QED BY <1>3, <2>1, StillStep DEF CoordClose, PipeInv
<1>4. CASE Main
  <2>1. /\ Types' /\ Permitted' /\ Closing'
    BY <1>4 DEF Main, MStep, JoinCoord, JoinEncoders, JoinMetrics, PipeInv, Types, Permitted,
               Closing, Joined
  <2> QED BY <1>4, <2>1, StillStep DEF Main, JoinCoord, JoinEncoders, JoinMetrics, PipeInv
<1>5. ASSUME NEW e \in Encoders, EncEof(e)
      PROVE PipeInv'
  <2>1. /\ Types' /\ Permitted' /\ Closing'
    BY <1>5 DEF EncEof, PipeInv, Types, Permitted, Closing, Joined
  <2>2. \A f \in Encoders : epc'[f] = epc[f] \/ {epc[f], epc'[f]} \subseteq {"recv", "done"}
    BY <1>5 DEF EncEof, PipeInv, Types
  <2> QED BY <1>5, <2>1, <2>2, StillStep DEF EncEof, PipeInv
<1>6. ASSUME NEW m \in Metrics, MetEof(m)
      PROVE PipeInv'
  <2>1. /\ Types' /\ Permitted' /\ Closing'
    BY <1>6 DEF MetEof, PipeInv, Types, Permitted, Closing, Joined
  <2>2. \A n \in Metrics : mpc'[n] = mpc[n] \/ {mpc[n], mpc'[n]} \subseteq {"recv", "done"}
    BY <1>6 DEF MetEof, PipeInv, Types
  <2> QED BY <1>6, <2>1, <2>2, StillStep DEF MetEof, PipeInv
<1> QED BY <1>1, <1>2, <1>3, <1>4, <1>5, <1>6

----------------------------------------------------------------------------
\* What a step keeps that gives back no packet and books nothing: the packets'
\* chunks, the chunks told of, the log;
LEMMA ChunksKept ==
    ASSUME PipeInv, UNCHANGED <<next, free, booked, log>>,
           \A s \in Slots : pkt'[s].chunk = pkt[s].chunk,
           \A m \in Metrics : mpc[m] \in {"book", "give"} => mpc'[m] = mpc[m] /\ mslot'[m] = mslot[m]
    PROVE /\ Chunked' /\ Logged'
          /\ (\A m \in Metrics : mpc'[m] = "book" => mpc[m] = "book") => Told' = Told
<1>1. Chunked'
  BY DEF PipeInv, Chunked
<1>2. Logged'
  BY DEF PipeInv, Logged
<1>3. ASSUME \A m \in Metrics : mpc'[m] = "book" => mpc[m] = "book"
      PROVE Told' = Told
  <2>1. Booking' = Booking /\ \A m \in Booking : mslot[m] \in Slots /\ mslot'[m] = mslot[m]
    BY <1>3 DEF Booking, PipeInv, Types, Hands
  <2>2. \A m \in Booking : pkt'[mslot'[m]].chunk = pkt[mslot[m]].chunk
    BY <2>1
  <2> QED BY <2>1, <2>2 DEF Told
<1> QED BY <1>1, <1>2, <1>3

\* and, where the coordinator's ring stays as it is, the messages.
LEMMA MessagesKept ==
    ASSUME PipeInv, UNCHANGED <<next, free, booked, log, coord, counted>>,
           \A s \in Slots : pkt'[s].chunk = pkt[s].chunk,
           \A m \in Metrics : mpc[m] \in {"book", "give"} => mpc'[m] = mpc[m] /\ mslot'[m] = mslot[m],
           \A m \in Metrics : mpc'[m] = "book" => mpc[m] = "book"
    PROVE Chunked' /\ Logged' /\ Counting' /\ Behind'
<1>1. Chunked' /\ Logged' /\ Told' = Told
  BY ChunksKept
<1>2. Counting'
  BY <1>1 DEF PipeInv, Counting
<1>3. Behind'
  BY DEF PipeInv, Behind
<1> QED BY <1>1, <1>2, <1>3

\* The packet tq_coord holds goes to the encode workers.
LEMMA CoordSendStep ==
    ASSUME TqAssumption, PipeInv, CoordSend
    PROVE PipeInv'
<1>1. /\ held # None /\ Len(enc) < Cap /\ enc' = Append(enc, held) /\ held' = None
      /\ UNCHANGED <<alt, frames, pool, coord, met, closed, counted, pkt, workers, disk, main>>
  BY DEF CoordSend
<1>2. held \in Slots /\ enc \in Seq(Slots) /\ One \notin Slots /\ None \notin Slots /\ Cap \in Nat
  BY <1>1, Constants DEF PipeInv, Types
<1>3. On(enc') = On(enc) \cup {held} /\ Once(enc')
  BY <1>1, <1>2, OnAppend DEF PipeInv, Apart
<1>4. Types'
  <2>1. enc' \in Seq(Slots) /\ Len(enc') <= Cap
    BY <1>1, <1>2
  <2> QED BY <1>1, <2>1 DEF PipeInv, Types, pool, workers, disk
<1>5. Hands' /\ Permitted' /\ Closing'
  BY <1>1 DEF PipeInv, Hands, Permitted, Closing, Joined, pool, workers
<1>6. Apart'
  <2>1. \A s \in Slots : (Encoding(s)' <=> Encoding(s)) /\ (Judged(s)' <=> Judged(s))
    BY <1>1 DEF Encoding, Judged, workers
  <2> QED BY <1>1, <1>2, <1>3, <2>1 DEF PipeInv, Apart, pool, workers
<1>7. Searched'
  <2>1. \A pk : (Ready(pk)' <=> Ready(pk)) /\ (Tried(pk)' <=> Tried(pk)) /\ (Settled(pk)' <=> Settled(pk))
    BY <1>1 DEF Ready, Tried, Settled, disk
  <2>2. \A s \in Slots : Encoding(s)' <=> Encoding(s)
    BY <1>1 DEF Encoding, workers
  <2> QED BY <1>1, <1>2, <1>3, <2>1, <2>2 DEF PipeInv, Searched, workers
<1> QED BY <1>1, <1>4, <1>5, <1>6, <1>7, MessagesKept DEF PipeInv, pool, workers, disk

\* A probe goes to the metric workers.
LEMMA EncSendStep ==
    ASSUME TqAssumption, PipeInv, NEW e \in Encoders, EncSend(e)
    PROVE PipeInv'
<1> DEFINE s0 == eslot[e]
<1>1. /\ epc[e] = "send" /\ Len(met) < Cap /\ met' = Append(met, s0)
      /\ eslot' = [eslot EXCEPT ![e] = None] /\ epc' = [epc EXCEPT ![e] = "recv"]
      /\ UNCHANGED <<alt, frames, pool, coord, enc, closed, coordinator, pkt, mpc, mslot, disk, main>>
  BY DEF EncSend
<1>2. /\ s0 \in Slots /\ met \in Seq(Slots) /\ One \notin Slots /\ None \notin Slots /\ Cap \in Nat
      /\ s0 # None /\ eslot \in [Encoders -> Slots \cup {None}]
      /\ epc \in [Encoders -> {"recv", "send", "done"}]
  BY <1>1, Constants DEF PipeInv, Types, Hands
<1>3. /\ eslot'[e] = None /\ \A f \in Encoders \ {e} : eslot'[f] = eslot[f]
      /\ epc'[e] = "recv" /\ \A f \in Encoders \ {e} : epc'[f] = epc[f]
  BY <1>1, <1>2
<1> HIDE DEF s0
<1>4. Encoding(s0) /\ \A s \in Slots : Encoding(s)' <=> Encoding(s) /\ s # s0
  BY <1>2, <1>3 DEF Encoding, PipeInv, Apart, s0
<1>5. On(met') = On(met) \cup {s0} /\ Once(met')
  BY <1>1, <1>2, <1>4, OnAppend DEF PipeInv, Apart
<1>6. Types'
  <2>1. met' \in Seq(Slots) /\ Len(met') <= Cap
    BY <1>1, <1>2
  <2>2. eslot' \in [Encoders -> Slots \cup {None}] /\ epc' \in [Encoders -> {"recv", "send", "done"}]
    BY <1>1, <1>2
  <2> QED BY <1>1, <2>1, <2>2 DEF PipeInv, Types, pool, coordinator, disk
<1>7. Hands' /\ Permitted' /\ Closing'
  <2>1. Hands'
    BY <1>1, <1>3 DEF PipeInv, Hands
  <2> QED BY <1>1, <2>1 DEF PipeInv, Permitted, Closing, Joined, pool, coordinator
<1>8. Apart'
  <2>1. \A s \in Slots : Judged(s)' <=> Judged(s)
    BY <1>1 DEF Judged
  <2>2. \A f, g \in Encoders : eslot'[f] = eslot'[g] /\ eslot'[f] # None => f = g
    BY <1>3 DEF PipeInv, Apart
  <2> QED BY <1>1, <1>2, <1>4, <1>5, <2>1, <2>2 DEF PipeInv, Apart, pool, coordinator
<1>9. Searched'
  <2>1. \A pk : (Ready(pk)' <=> Ready(pk)) /\ (Tried(pk)' <=> Tried(pk)) /\ (Settled(pk)' <=> Settled(pk))
    BY <1>1 DEF Ready, Tried, Settled, disk
  <2> QED BY <1>1, <1>4, <1>5, <2>1 DEF PipeInv, Searched, coordinator
<1> QED BY <1>1, <1>6, <1>7, <1>8, <1>9, MessagesKept DEF PipeInv, pool, coordinator, disk

\* A metric worker receives.
LEMMA MetRecvStep ==
    ASSUME TqAssumption, PipeInv, NEW m \in Metrics, MetRecv(m)
    PROVE PipeInv'
<1> DEFINE s0 == Head(met)
<1>1. /\ mpc[m] = "recv" /\ met # <<>> /\ met' = Tail(met)
      /\ mslot' = [mslot EXCEPT ![m] = s0]
      /\ mpc' = [mpc EXCEPT ![m] = IF pkt[s0].final THEN "tell" ELSE "score"]
      /\ UNCHANGED <<alt, frames, pool, coord, enc, closed, coordinator, pkt, epc, eslot, disk, main>>
  BY DEF MetRecv
<1>2. /\ met \in Seq(Slots) /\ One \notin Slots /\ None \notin Slots /\ Cap \in Nat
      /\ mslot \in [Metrics -> Slots \cup {None}] /\ mslot[m] = None
      /\ mpc \in [Metrics -> {"recv", "score", "again", "tell", "book", "give", "done"}]
  BY <1>1, Constants DEF PipeInv, Types, Hands
<1>3. /\ s0 \in Slots /\ met' \in Seq(Slots) /\ Len(met') <= Len(met)
      /\ Len(met) \in Nat /\ Len(met') \in Nat
  BY <1>1, <1>2
<1> HIDE DEF s0
<1>4. /\ mslot'[m] = s0 /\ \A n \in Metrics \ {m} : mslot'[n] = mslot[n]
      /\ mpc'[m] = (IF pkt[s0].final THEN "tell" ELSE "score")
      /\ \A n \in Metrics \ {m} : mpc'[n] = mpc[n]
  BY <1>1, <1>2
<1>5. \A s \in Slots : Judged(s)' <=> Judged(s) \/ s = s0
  BY <1>2, <1>4 DEF Judged
<1>6. On(met) = On(met') \cup {s0} /\ Once(met') /\ s0 \notin On(met')
  BY <1>1, <1>2, <1>3, OnTail DEF PipeInv, Apart, s0
<1>7. Types'
  <2>0. Len(met) <= Cap
    BY DEF PipeInv, Types
  <2>1. Len(met') <= Cap
    BY <1>2, <1>3, <2>0
  <2>2. /\ mslot' \in [Metrics -> Slots \cup {None}]
        /\ mpc' \in [Metrics -> {"recv", "score", "again", "tell", "book", "give", "done"}]
    BY <1>1, <1>2, <1>3
  <2> QED BY <1>1, <1>3, <2>1, <2>2 DEF PipeInv, Types, pool, coordinator, disk
<1>8. Hands' /\ Permitted' /\ Closing'
  <2>1. Hands'
    BY <1>1, <1>2, <1>3, <1>4 DEF PipeInv, Hands
  <2>2. Closing'
    BY <1>1 DEF PipeInv, Closing, Joined, coordinator
  <2> QED BY <1>1, <2>1, <2>2 DEF PipeInv, Permitted, pool
<1>9. Apart'
  <2>1. \A s \in Slots : Encoding(s)' <=> Encoding(s)
    BY <1>1 DEF Encoding
  <2>2. \A n, k \in Metrics : mslot'[n] = mslot'[k] /\ mslot'[n] # None => n = k
    BY <1>3, <1>4, <1>6 DEF PipeInv, Apart, Judged
  <2> QED BY <1>1, <1>2, <1>3, <1>5, <1>6, <2>1, <2>2 DEF PipeInv, Apart, pool, coordinator
<1>10. Searched'
  <2>1. \A pk : (Ready(pk)' <=> Ready(pk)) /\ (Tried(pk)' <=> Tried(pk)) /\ (Settled(pk)' <=> Settled(pk))
    BY <1>1 DEF Ready, Tried, Settled, disk
  <2>2. \A s \in Slots : Encoding(s)' <=> Encoding(s)
    BY <1>1 DEF Encoding
  <2>3. Tried(pkt[s0])
    BY <1>3, <1>6 DEF PipeInv, Searched
  <2>4. pkt[s0].final => Settled(pkt[s0])
    BY <2>3 DEF Tried, Settled
  <2>5. \A n \in Metrics : /\ mpc'[n] = "score" => Tried(pkt[mslot'[n]]) /\ ~pkt[mslot'[n]].final
                           /\ mpc'[n] = "again" => Ready(pkt[mslot'[n]])
                           /\ mpc'[n] \in {"tell", "book", "give"} => Settled(pkt[mslot'[n]])
    BY <1>4, <2>3, <2>4 DEF PipeInv, Searched
  <2> QED BY <1>1, <1>6, <2>1, <2>2, <2>5 DEF PipeInv, Searched, coordinator
<1>11. /\ \A n \in Metrics : mpc[n] \in {"book", "give"} => mpc'[n] = mpc[n] /\ mslot'[n] = mslot[n]
       /\ \A n \in Metrics : mpc'[n] = "book" => mpc[n] = "book"
  BY <1>1, <1>4
<1> QED BY <1>1, <1>7, <1>8, <1>9, <1>10, <1>11, MessagesKept DEF PipeInv, pool, coordinator, disk

\* The coordinator's ring: the messages before and after a send,
LEMMA OnesAppend ==
    ASSUME TqAssumption, NEW q \in Seq(Slots \cup {One}), NEW x \in Slots \cup {One}
    PROVE /\ IsFiniteSet(Ones(q)) /\ Cardinality(Ones(q)) \in Nat
          /\ x # One => Ones(Append(q, x)) = Ones(q)
          /\ x = One => /\ Ones(Append(q, x)) = Ones(q) \cup {Len(q) + 1}
                        /\ Cardinality(Ones(Append(q, x))) = Cardinality(Ones(q)) + 1
<1> DEFINE r == Append(q, x)
<1>1. Len(q) \in Nat /\ Len(r) = Len(q) + 1 /\ r[Len(q) + 1] = x /\ \A i \in 1 .. Len(q) : r[i] = q[i]
  OBVIOUS
<1> HIDE DEF r
<1>2. IsFiniteSet(Ones(q)) /\ Cardinality(Ones(q)) \in Nat
  <2>1. Ones(q) \in SUBSET (1 .. Len(q)) /\ IsFiniteSet(1 .. Len(q))
    BY <1>1, FS_Interval DEF Ones
  <2> QED BY <2>1, FS_Subset, FS_CardinalityType
<1>3. x # One => Ones(r) = Ones(q)
  BY <1>1 DEF Ones
<1>4. ASSUME x = One
      PROVE Ones(r) = Ones(q) \cup {Len(q) + 1} /\ Cardinality(Ones(r)) = Cardinality(Ones(q)) + 1
  <2>1. Ones(r) = Ones(q) \cup {Len(q) + 1} /\ Len(q) + 1 \notin Ones(q)
    BY <1>1, <1>4 DEF Ones
  <2> QED BY <1>2, <2>1, FS_AddElement
<1> QED BY <1>2, <1>3, <1>4 DEF r

\* and after a receive.
LEMMA OnesTail ==
    ASSUME TqAssumption, NEW q \in Seq(Slots \cup {One}), q # <<>>
    PROVE /\ Cardinality(Ones(q)) \in Nat /\ Cardinality(Ones(Tail(q))) \in Nat
          /\ Head(q) = One => Cardinality(Ones(q)) = Cardinality(Ones(Tail(q))) + 1
          /\ Head(q) # One => Cardinality(Ones(q)) = Cardinality(Ones(Tail(q)))
<1> DEFINE r == Tail(q)
           f == [i \in Ones(r) |-> i + 1]
           U == {i \in Ones(q) : i # 1}
<1>1. /\ Len(q) \in Nat \ {0} /\ Len(r) = Len(q) - 1 /\ Head(q) = q[1] /\ r \in Seq(Slots \cup {One})
      /\ \A i \in 1 .. Len(r) : r[i] = q[i + 1]
  OBVIOUS
<1>2. One \in Slots \cup {One}
  OBVIOUS
<1>3. /\ IsFiniteSet(Ones(r)) /\ Cardinality(Ones(r)) \in Nat
      /\ IsFiniteSet(Ones(q)) /\ Cardinality(Ones(q)) \in Nat
  BY <1>1, <1>2, OnesAppend
<1> HIDE DEF r
<1>4. f \in Bijection(Ones(r), U)
  <2>1. \A i \in Ones(r) : i \in Nat /\ i + 1 \in U
    BY <1>1 DEF Ones
  <2>2. \A k \in U : k - 1 \in Ones(r) /\ (k - 1) + 1 = k
    BY <1>1 DEF Ones
  <2>3. f \in [Ones(r) -> U] /\ \A i, j \in Ones(r) : f[i] = f[j] => i = j
    BY <2>1
  <2>4. \A k \in U : \E i \in Ones(r) : f[i] = k
    BY <2>2
  <2> QED BY <2>3, <2>4 DEF Bijection, Injection, Surjection, IsInjective
<1>5. Cardinality(U) = Cardinality(Ones(r)) /\ IsFiniteSet(U)
  BY <1>3, <1>4, FS_Bijection, FS_Subset DEF ExistsBijection
<1>6. CASE q[1] = One
  <2>1. Ones(q) = U \cup {1} /\ 1 \notin U
    BY <1>1, <1>6 DEF Ones
  <2>2. Cardinality(Ones(q)) = Cardinality(U) + 1
    BY <1>5, <2>1, FS_AddElement
  <2>3. Cardinality(Ones(q)) = Cardinality(Ones(r)) + 1
    BY <1>5, <2>2
  <2> QED BY <1>1, <1>3, <1>6, <2>3 DEF r
<1>7. CASE q[1] # One
  <2>1. Ones(q) = U
    BY <1>1, <1>7 DEF Ones
  <2> QED BY <1>1, <1>3, <1>5, <1>7, <2>1 DEF r
<1> QED BY <1>6, <1>7

\* tq_coord receives: a packet to pass on, or a message to count.
LEMMA CoordRecvStep ==
    ASSUME TqAssumption, PipeInv, CoordRecv
    PROVE PipeInv'
<1> DEFINE x == Head(coord)
<1>1. /\ held = None /\ counted < Todo /\ coord # <<>> /\ coord' = Tail(coord)
      /\ x = One => counted' = counted + 1 /\ held' = held
      /\ x # One => held' = x /\ counted' = counted
      /\ UNCHANGED <<alt, frames, pool, enc, met, closed, pkt, workers, disk, main>>
  BY DEF CoordRecv
<1>2. /\ coord \in Seq(Slots \cup {One}) /\ One \notin Slots /\ None \notin Slots
      /\ Todo \in Nat /\ counted \in 0 .. Todo
  BY Constants DEF PipeInv, Types
<1>3. /\ x \in Slots \cup {One} /\ coord' \in Seq(Slots \cup {One})
      /\ Len(coord') = Len(coord) - 1 /\ Len(coord) \in Nat \ {0}
      /\ \A i \in 1 .. Len(coord') : coord'[i] = coord[i + 1]
  BY <1>1, <1>2
<1> HIDE DEF x
<1>4. /\ On(coord) = On(coord') \cup {x} /\ Once(coord')
      /\ x # One => x \notin On(coord')
  BY <1>1, <1>2, OnTail DEF PipeInv, Apart, x
<1>5. Types'
  <2>1. Len(coord) <= Cap /\ Cap \in Nat
    BY Constants DEF PipeInv, Types
  <2>2. Len(coord') <= Cap /\ counted' \in 0 .. Todo /\ held' \in Slots \cup {None}
    BY <1>1, <1>2, <1>3, <2>1
  <2> QED BY <1>1, <1>3, <2>2 DEF PipeInv, Types, pool, workers, disk
<1>6. Hands' /\ Permitted' /\ Closing'
  <2>1. counted # Todo
    BY <1>1, <1>2
  <2> QED BY <1>1, <2>1 DEF PipeInv, Hands, Permitted, Closing, Joined, pool, workers
<1>7. \A s \in Slots : (Encoding(s)' <=> Encoding(s)) /\ (Judged(s)' <=> Judged(s))
  BY <1>1 DEF Encoding, Judged, workers
<1>8. Apart'
  <2>1. CASE x = One
    <3>1. \A s \in Slots : s \in On(coord') <=> s \in On(coord)
      BY <1>2, <1>4, <2>1
    <3> QED BY <1>1, <1>4, <1>7, <2>1, <3>1 DEF PipeInv, Apart, pool, workers
  <2>2. CASE x # One
    <3>1. x \in Slots /\ held' = x
      BY <1>1, <1>3, <2>2
    <3> QED BY <1>1, <1>2, <1>4, <1>7, <2>2, <3>1 DEF PipeInv, Apart, pool, workers
  <2> QED BY <2>1, <2>2
<1>9. Searched'
  <2>1. \A pk : (Ready(pk)' <=> Ready(pk)) /\ (Tried(pk)' <=> Tried(pk)) /\ (Settled(pk)' <=> Settled(pk))
    BY <1>1 DEF Ready, Tried, Settled, disk
  <2>2. \A s \in Slots : s \in On(coord') \/ held' = s => s \in On(coord)
    BY <1>1, <1>2, <1>3, <1>4
  <2> QED BY <1>1, <1>7, <2>1, <2>2 DEF PipeInv, Searched, workers
<1>10. Chunked' /\ Logged' /\ Told' = Told
  BY <1>1, ChunksKept DEF pool, workers, disk
<1>11. Counting'
  <2>1. /\ Cardinality(Ones(coord)) \in Nat /\ Cardinality(Ones(coord')) \in Nat
        /\ x = One => Cardinality(Ones(coord)) = Cardinality(Ones(coord')) + 1
        /\ x # One => Cardinality(Ones(coord)) = Cardinality(Ones(coord'))
    BY <1>1, <1>2, OnesTail DEF x
  <2>2. counted \in Nat /\ counted + Cardinality(Ones(coord)) = Cardinality(Told)
    BY <1>2 DEF PipeInv, Counting
  <2>3. counted' + Cardinality(Ones(coord')) = Cardinality(Told)
    BY <1>1, <2>1, <2>2
  <2>4. Ones(coord)' = Ones(coord')
    BY DEF Ones
  <2> QED BY <1>10, <2>3, <2>4 DEF Counting
<1>12. Behind'
  <2> SUFFICES ASSUME NEW i \in Ones(coord')
               PROVE \E s \in Slots : \/ s \in free
                                      \/ \E j \in i + 1 .. Len(coord') : coord'[j] = s
                                      \/ \E m \in Metrics : mslot[m] = s /\ mpc[m] \in {"book", "give"}
    BY <1>1 DEF Behind, Ones, pool, workers
  <2>1. i \in Nat /\ i + 1 \in Ones(coord)
    BY <1>3 DEF Ones
  <2>2. PICK s \in Slots : \/ s \in free
                           \/ \E j \in (i + 1) + 1 .. Len(coord) : coord[j] = s
                           \/ \E m \in Metrics : mslot[m] = s /\ mpc[m] \in {"book", "give"}
    BY <2>1 DEF PipeInv, Behind
  <2>3. ASSUME NEW j \in (i + 1) + 1 .. Len(coord), coord[j] = s
        PROVE \E k \in i + 1 .. Len(coord') : coord'[k] = s
    <3>1. j - 1 \in i + 1 .. Len(coord') /\ j - 1 \in 1 .. Len(coord') /\ (j - 1) + 1 = j
      BY <1>3, <2>1
    <3> QED BY <1>3, <2>3, <3>1
  <2> QED BY <2>2, <2>3
<1> QED BY <1>5, <1>6, <1>8, <1>9, <1>10, <1>11, <1>12 DEF PipeInv

\* The packets in use other than s0 are on other chunks: what a step writes of
\* the chunk of s0 is nothing to them.
LEMMA OthersKept ==
    ASSUME TqAssumption, PipeInv, NEW s0 \in Slots, s0 \notin free, alt' = alt,
           \A s \in Slots \ {s0} : pkt'[s] = pkt[s],
           \A c \in Chunks : c # pkt[s0].chunk => file'[c] = file[c]
    PROVE \A s \in Slots \ free : s # s0 =>
             /\ Ready(pkt[s]) => Ready(pkt[s])'
             /\ Tried(pkt[s]) => Tried(pkt[s])'
             /\ Settled(pkt[s]) => Settled(pkt[s])'
<1> SUFFICES ASSUME NEW s \in Slots \ free, s # s0
             PROVE /\ Ready(pkt[s]) => Ready(pkt[s])'
                   /\ Tried(pkt[s]) => Tried(pkt[s])'
                   /\ Settled(pkt[s]) => Settled(pkt[s])'
  OBVIOUS
<1>1. pkt'[s] = pkt[s] /\ pkt[s].chunk # pkt[s0].chunk /\ pkt[s].chunk \in 1 .. next - 1
  BY DEF PipeInv, Chunked
<1>2. pkt[s].chunk \in Chunks
  <2>1. next \in 1 .. Todo + 1 /\ Todo \in Nat
    BY Constants DEF PipeInv, Types
  <2> QED BY <1>1, <2>1 DEF Chunks
<1>3. file'[pkt[s].chunk] = file[pkt[s].chunk]
  BY <1>1, <1>2
<1> QED BY <1>1, <1>3 DEF Ready, Tried, Settled

\* A packet in one of the places is not free, and its chunk is one.
LEMMA InUse ==
    ASSUME TqAssumption, PipeInv
    PROVE /\ \A s \in Slots : s \in On(coord) \/ held = s \/ s \in On(enc) \/ Encoding(s) \/ s \in On(met)
                \/ Judged(s) => s \notin free
          /\ \A m \in Metrics : mpc[m] \notin {"recv", "done"} => mslot[m] \in Slots /\ mslot[m] \notin free
          /\ \A s \in Slots \ free : pkt[s].chunk \in Chunks
<1>1. \A s \in Slots : s \in On(coord) \/ held = s \/ s \in On(enc) \/ Encoding(s) \/ s \in On(met)
         \/ Judged(s) => s \notin free
  BY DEF PipeInv, Apart
<1>2. \A m \in Metrics : mpc[m] \notin {"recv", "done"} => mslot[m] \in Slots /\ Judged(mslot[m])
  BY DEF PipeInv, Types, Hands, Judged
<1>3. \A s \in Slots \ free : pkt[s].chunk \in 1 .. next - 1
  BY DEF PipeInv, Chunked
<1>4. next \in 1 .. Todo + 1 /\ Todo \in Nat
  BY Constants DEF PipeInv, Types
<1>5. 1 .. next - 1 \subseteq Chunks
  BY <1>4 DEF Chunks
<1> QED BY <1>1, <1>2, <1>3, <1>5

\* An encode worker receives a packet and encodes it.
LEMMA EncodeStep ==
    ASSUME TqAssumption, PipeInv, NEW e \in Encoders, Encode(e)
    PROVE PipeInv'
<1>1. /\ enc \in Seq(Slots) /\ One \notin Slots /\ None \notin Slots /\ Cap \in Nat
      /\ eslot \in [Encoders -> Slots \cup {None}]
      /\ epc \in [Encoders -> {"recv", "send", "done"}]
      /\ pkt \in [Slots -> Packet] /\ file \in [Chunks -> Probes]
  BY Constants DEF PipeInv, Types
<1>2. PICK s0 \in Slots :
        /\ enc # <<>> /\ s0 = Head(enc) /\ enc' = Tail(enc) /\ enc' \in Seq(Slots)
        /\ Len(enc') <= Len(enc) /\ Len(enc) \in Nat /\ Len(enc') \in Nat
  <2>1. enc # <<>> /\ enc' = Tail(enc)
    BY DEF Encode
  <2>2. Head(enc) \in Slots /\ Tail(enc) \in Seq(Slots) /\ Len(Tail(enc)) <= Len(enc)
    BY <1>1, <2>1
  <2> QED BY <1>1, <2>1, <2>2
<1>3. On(enc) = On(enc') \cup {s0} /\ Once(enc') /\ s0 \notin On(enc')
  <2>1. Once(enc)
    BY DEF PipeInv, Apart
  <2>2. On(enc) = On(enc') \cup {s0} /\ Once(enc') /\ (s0 # One => s0 \notin On(enc'))
    BY <1>1, <1>2, <2>1, OnTail
  <2> QED BY <1>1, <1>2, <2>2
<1>4. pkt[s0] \in Packet /\ Ready(pkt[s0]) /\ s0 \notin free /\ pkt[s0].chunk \in Chunks
  <2>1. s0 \in On(enc)
    BY <1>3
  <2>2. s0 \notin free /\ pkt[s0].chunk \in Chunks
    BY <2>1, InUse
  <2>3. Ready(pkt[s0])
    BY <2>1 DEF PipeInv, Searched
  <2> QED BY <1>1, <2>2, <2>3
<1>5. PICK pk \in Packet :
        /\ pk = Probed(IF pkt[s0].armed THEN pkt[s0] ELSE Arm(pkt[s0]))
        /\ pk.chunk = pkt[s0].chunk /\ pk.armed
        /\ pk.final => alt /\ pk.probe = <<pk.chunk, 0>>
        /\ ~pk.final => /\ pk.probe = <<pk.chunk, pk.round>> /\ pk.round = Len(pk.diffs) + 1
                        /\ ~alt => KeepsBest(pk)
  <2> DEFINE q == Probed(IF pkt[s0].armed THEN pkt[s0] ELSE Arm(pkt[s0]))
  <2>1. /\ q \in Packet /\ q.chunk = pkt[s0].chunk /\ q.armed
        /\ q.final => alt /\ q.probe = <<q.chunk, 0>>
        /\ ~q.final => /\ q.probe = <<q.chunk, q.round>> /\ q.round = Len(q.diffs) + 1
                       /\ ~alt => KeepsBest(q)
    BY <1>4, EncodeTurn
  <2>2. q = Probed(IF pkt[s0].armed THEN pkt[s0] ELSE Arm(pkt[s0]))
    OBVIOUS
  <2> HIDE DEF q
  <2> QED BY <2>1, <2>2
<1>6. /\ epc[e] = "recv" /\ enc' = Tail(enc) /\ eslot[e] = None
      /\ pkt' = [pkt EXCEPT ![s0] = pk]
      /\ file' = IF pk.final THEN [file EXCEPT ![pk.chunk] = pk.probe] ELSE file
      /\ eslot' = [eslot EXCEPT ![e] = s0] /\ epc' = [epc EXCEPT ![e] = "send"]
      /\ UNCHANGED <<alt, frames, pool, coord, met, closed, coordinator, mpc, mslot, booked, log, main>>
  BY <1>2, <1>5 DEF Encode, PipeInv, Hands
<1>7. /\ eslot'[e] = s0 /\ \A f \in Encoders \ {e} : eslot'[f] = eslot[f]
      /\ epc'[e] = "send" /\ \A f \in Encoders \ {e} : epc'[f] = epc[f]
      /\ pkt'[s0] = pk /\ \A s \in Slots \ {s0} : pkt'[s] = pkt[s]
  BY <1>1, <1>2, <1>6
<1>8. \A s \in Slots : Encoding(s)' <=> Encoding(s) \/ s = s0
  BY <1>1, <1>6, <1>7 DEF Encoding
<1>9. /\ file' \in [Chunks -> Probes]
      /\ \A c \in Chunks : c # pk.chunk => file'[c] = file[c]
      /\ pk.final => file'[pk.chunk] = pk.probe
  <2>1. pk.probe \in Probes /\ pk.chunk \in Chunks
    BY <1>4, <1>5 DEF Packet
  <2> QED BY <1>1, <1>6, <2>1
<1>10. Types'
  <2>1. Len(enc) <= Cap
    BY DEF PipeInv, Types
  <2>2. Len(enc') <= Cap
    BY <1>1, <1>2, <2>1
  <2>3. eslot' \in [Encoders -> Slots \cup {None}] /\ epc' \in [Encoders -> {"recv", "send", "done"}]
    BY <1>1, <1>2, <1>6
  <2>4. pkt' \in [Slots -> Packet]
    BY <1>1, <1>2, <1>5, <1>6
  <2> QED BY <1>2, <1>6, <1>9, <2>2, <2>3, <2>4 DEF PipeInv, Types, pool, coordinator
<1>11. Hands' /\ Permitted' /\ Closing'
  <2>1. Hands'
    BY <1>1, <1>2, <1>6, <1>7 DEF PipeInv, Hands
  <2> QED BY <1>6, <2>1 DEF PipeInv, Permitted, Closing, Joined, pool, coordinator
<1>12. Apart'
  <2>1. \A s \in Slots : Judged(s)' <=> Judged(s)
    BY <1>6 DEF Judged
  <2>2. \A f, g \in Encoders : eslot'[f] = eslot'[g] /\ eslot'[f] # None => f = g
    BY <1>2, <1>3, <1>7 DEF PipeInv, Apart, Encoding
  <2> QED BY <1>1, <1>2, <1>3, <1>6, <1>8, <2>1, <2>2 DEF PipeInv, Apart, pool, coordinator
<1>13. Searched'
  <2>1. \A s \in Slots \ free : s # s0 => /\ Ready(pkt[s]) => Ready(pkt[s])'
                                          /\ Tried(pkt[s]) => Tried(pkt[s])'
                                          /\ Settled(pkt[s]) => Settled(pkt[s])'
    BY <1>4, <1>5, <1>6, <1>7, <1>9, OthersKept
  <2>2. Tried(pkt[s0])'
    BY <1>5, <1>6, <1>7, <1>9 DEF Tried
  <2>3. \A s \in Slots : s \in On(coord) \/ held = s \/ s \in On(enc') => Ready(pkt[s])'
    BY <1>3, <2>1, InUse DEF PipeInv, Searched, Apart
  <2>4. \A s \in Slots : Encoding(s)' \/ s \in On(met) => Tried(pkt[s])'
    BY <1>3, <1>8, <2>1, <2>2, InUse DEF PipeInv, Searched, Apart
  <2>5. \A m \in Metrics : mpc[m] \notin {"recv", "done"} => mslot[m] \in Slots \ free /\ mslot[m] # s0
    BY <1>2, <1>3, InUse DEF PipeInv, Apart, Judged
  <2>6. \A m \in Metrics : /\ mpc[m] = "score" => Tried(pkt[mslot[m]])' /\ ~pkt'[mslot[m]].final
                           /\ mpc[m] = "again" => Ready(pkt[mslot[m]])'
                           /\ mpc[m] \in {"tell", "book", "give"} => Settled(pkt[mslot[m]])'
    BY <1>6, <1>7, <2>1, <2>5 DEF PipeInv, Searched
  <2> QED BY <1>6, <2>3, <2>4, <2>6 DEF Searched, coordinator
<1>14. \A s \in Slots : pkt'[s].chunk = pkt[s].chunk
  BY <1>5, <1>7
<1> QED BY <1>6, <1>10, <1>11, <1>12, <1>13, <1>14, MessagesKept DEF PipeInv, pool, coordinator

\* A metric worker scores a probe: the search goes on or is over.
LEMMA ScoreStep ==
    ASSUME TqAssumption, PipeInv, NEW m \in Metrics, Score(m)
    PROVE PipeInv'
<1>1. /\ One \notin Slots /\ None \notin Slots /\ alt \in BOOLEAN
      /\ mslot \in [Metrics -> Slots \cup {None}]
      /\ mpc \in [Metrics -> {"recv", "score", "again", "tell", "book", "give", "done"}]
      /\ pkt \in [Slots -> Packet] /\ file \in [Chunks -> Probes]
  BY Constants DEF PipeInv, Types
<1>2. /\ mpc[m] = "score"
      /\ UNCHANGED <<alt, frames, pool, rings, coordinator, epc, eslot, mslot, booked, log, main>>
  BY DEF Score
<1>3. PICK s0 \in Slots : s0 = mslot[m] /\ s0 \notin free
  BY <1>2, InUse
<1>4. pkt[s0] \in Packet /\ Tried(pkt[s0]) /\ ~pkt[s0].final /\ pkt[s0].chunk \in Chunks
  BY <1>1, <1>2, <1>3, InUse DEF PipeInv, Searched
<1>5. PICK d \in Diffs, ends \in BOOLEAN :
        LET p == [Retain(pkt[s0], d) EXCEPT !.diffs = Append(@, d)]
        IN  /\ ends \/ Stays(p)
            /\ pkt' = [pkt EXCEPT ![s0] = [p EXCEPT !.final = ends /\ alt]]
            /\ file' = IF ends /\ ~alt THEN [file EXCEPT ![p.chunk] = p.kept] ELSE file
            /\ mpc' = [mpc EXCEPT ![m] = IF ends /\ ~alt THEN "tell" ELSE "again"]
  BY <1>3 DEF Score
<1>6. PICK p \in Packet :
        /\ p.chunk = pkt[s0].chunk /\ p.armed /\ ~p.final /\ p.round = Len(p.diffs) /\ p.diffs # <<>>
        /\ ~alt => KeepsBest(p)
        /\ ends \/ p.round < MaxRounds
        /\ pkt' = [pkt EXCEPT ![s0] = [p EXCEPT !.final = ends /\ alt]]
        /\ file' = IF ends /\ ~alt THEN [file EXCEPT ![p.chunk] = p.kept] ELSE file
        /\ mpc' = [mpc EXCEPT ![m] = IF ends /\ ~alt THEN "tell" ELSE "again"]
  <2> DEFINE q == [Retain(pkt[s0], d) EXCEPT !.diffs = Append(@, d)]
  <2>1. /\ q \in Packet /\ q.chunk = pkt[s0].chunk /\ q.armed /\ ~q.final
        /\ q.round = Len(q.diffs) /\ q.diffs # <<>>
        /\ ~alt => KeepsBest(q)
    BY <1>1, <1>4, ScoreTurn
  <2>2. /\ ends \/ Stays(q)
        /\ pkt' = [pkt EXCEPT ![s0] = [q EXCEPT !.final = ends /\ alt]]
        /\ file' = IF ends /\ ~alt THEN [file EXCEPT ![q.chunk] = q.kept] ELSE file
        /\ mpc' = [mpc EXCEPT ![m] = IF ends /\ ~alt THEN "tell" ELSE "again"]
    BY <1>5
  <2> HIDE DEF q
  <2> QED BY <2>1, <2>2 DEF Stays
<1>7. PICK pk \in Packet :
        /\ pk.chunk = pkt[s0].chunk /\ pk.armed /\ pk.round = Len(pk.diffs) /\ pk.diffs # <<>>
        /\ ~alt => KeepsBest(pk)
        /\ pk.final <=> ends /\ alt
        /\ ends \/ pk.round < MaxRounds
        /\ pkt' = [pkt EXCEPT ![s0] = pk]
        /\ file' = IF ends /\ ~alt THEN [file EXCEPT ![pk.chunk] = pk.kept] ELSE file
        /\ mpc' = [mpc EXCEPT ![m] = IF ends /\ ~alt THEN "tell" ELSE "again"]
  <2> DEFINE q == [p EXCEPT !.final = ends /\ alt]
  <2>1. /\ q \in Packet /\ q.chunk = p.chunk /\ q.armed = p.armed /\ q.round = p.round
        /\ q.diffs = p.diffs /\ q.kept = p.kept /\ q.keptDiff = p.keptDiff
    BY <1>1 DEF Packet
  <2>2. q.final <=> ends /\ alt
    BY DEF Packet
  <2>3. KeepsBest(p) => KeepsBest(q)
    BY <2>1 DEF KeepsBest
  <2>4. pkt' = [pkt EXCEPT ![s0] = q]
    BY <1>6
  <2> HIDE DEF q
  <2> QED BY <1>6, <2>1, <2>2, <2>3, <2>4
<1>8. /\ mpc'[m] = (IF ends /\ ~alt THEN "tell" ELSE "again")
      /\ \A n \in Metrics \ {m} : mpc'[n] = mpc[n]
      /\ pkt'[s0] = pk /\ \A s \in Slots \ {s0} : pkt'[s] = pkt[s]
  BY <1>1, <1>7
<1>9. /\ file' \in [Chunks -> Probes]
      /\ \A c \in Chunks : c # pk.chunk => file'[c] = file[c]
      /\ ends /\ ~alt => file'[pk.chunk] = pk.kept
  <2>1. pk.kept \in Probes /\ pk.chunk \in Chunks
    BY <1>4, <1>7 DEF Packet
  <2> QED BY <1>1, <1>7, <2>1
<1>10. Types'
  <2>1. mpc' \in [Metrics -> {"recv", "score", "again", "tell", "book", "give", "done"}]
    BY <1>1, <1>7
  <2>2. pkt' \in [Slots -> Packet]
    BY <1>1, <1>7
  <2> QED BY <1>2, <1>9, <2>1, <2>2 DEF PipeInv, Types, pool, rings, coordinator
<1>11. Hands' /\ Permitted' /\ Closing'
  <2>1. Hands'
    BY <1>2, <1>8 DEF PipeInv, Hands
  <2>2. Closing'
    BY <1>2 DEF PipeInv, Closing, Joined, rings, coordinator
  <2> QED BY <1>2, <2>1, <2>2 DEF PipeInv, Permitted, pool
<1>12. Apart'
  <2>1. \A s \in Slots : (Judged(s)' <=> Judged(s)) /\ (Encoding(s)' <=> Encoding(s))
    BY <1>2 DEF Judged, Encoding
  <2> QED BY <1>2, <2>1 DEF PipeInv, Apart, pool, rings, coordinator
<1>13. Searched'
  <2>1. \A s \in Slots \ free : s # s0 => /\ Ready(pkt[s]) => Ready(pkt[s])'
                                          /\ Tried(pkt[s]) => Tried(pkt[s])'
                                          /\ Settled(pkt[s]) => Settled(pkt[s])'
    BY <1>2, <1>3, <1>7, <1>8, <1>9, OthersKept
  <2>2. ~(ends /\ ~alt) => Ready(pkt[s0])'
    BY <1>1, <1>2, <1>7, <1>8 DEF Ready
  <2>3. ends /\ ~alt => Settled(pkt[s0])'
    BY <1>2, <1>7, <1>8, <1>9 DEF Settled
  <2>4. Judged(s0)
    BY <1>3 DEF Judged
  <2>5. \A s \in Slots : s \in On(coord) \/ held = s \/ s \in On(enc) => Ready(pkt[s])'
    BY <2>1, <2>4, InUse DEF PipeInv, Searched, Apart
  <2>6. \A s \in Slots : Encoding(s) \/ s \in On(met) => Tried(pkt[s])'
    BY <2>1, <2>4, InUse DEF PipeInv, Searched, Apart
  <2>7. \A n \in Metrics : n # m /\ mpc[n] \notin {"recv", "done"}
           => mslot[n] \in Slots \ free /\ mslot[n] # s0
    BY <1>1, <1>3, InUse DEF PipeInv, Apart
  <2>8. \A n \in Metrics : /\ mpc'[n] = "score" => Tried(pkt[mslot[n]])' /\ ~pkt'[mslot[n]].final
                           /\ mpc'[n] = "again" => Ready(pkt[mslot[n]])'
                           /\ mpc'[n] \in {"tell", "book", "give"} => Settled(pkt[mslot[n]])'
    <3> SUFFICES ASSUME NEW n \in Metrics
                 PROVE /\ mpc'[n] = "score" => Tried(pkt[mslot[n]])' /\ ~pkt'[mslot[n]].final
                       /\ mpc'[n] = "again" => Ready(pkt[mslot[n]])'
                       /\ mpc'[n] \in {"tell", "book", "give"} => Settled(pkt[mslot[n]])'
      OBVIOUS
    <3>1. CASE n = m
      BY <1>2, <1>3, <1>8, <2>2, <2>3, <3>1
    <3>2. CASE n # m
      BY <1>2, <1>8, <2>1, <2>7, <3>2 DEF PipeInv, Searched
    <3> QED BY <3>1, <3>2
  <2>9. \A s \in Slots : Encoding(s)' <=> Encoding(s)
    BY <1>2 DEF Encoding
  <2> QED BY <1>2, <2>5, <2>6, <2>8, <2>9 DEF Searched, rings, coordinator
<1>14. /\ \A s \in Slots : pkt'[s].chunk = pkt[s].chunk
       /\ \A n \in Metrics : mpc[n] \in {"book", "give"} => mpc'[n] = mpc[n] /\ mslot'[n] = mslot[n]
       /\ \A n \in Metrics : mpc'[n] = "book" => mpc[n] = "book"
  BY <1>2, <1>7, <1>8
<1> QED BY <1>2, <1>10, <1>11, <1>12, <1>13, <1>14, MessagesKept DEF PipeInv, pool, rings, coordinator

\* A send to the coordinator overtakes no message: the packet of an earlier
\* message stays where it is or comes behind.
LEMMA SentBehind ==
    ASSUME TqAssumption, PipeInv, NEW x \in Slots \cup {One}, coord' = Append(coord, x),
           \A s \in free : s \in free' \/ s = x,
           \A m \in Metrics : mpc[m] \in {"book", "give"} =>
              mslot'[m] = mslot[m] /\ mpc'[m] \in {"book", "give"},
           x = One => \E m \in Metrics : mslot'[m] \in Slots /\ mpc'[m] \in {"book", "give"}
    PROVE Behind'
<1>1. /\ coord \in Seq(Slots \cup {One}) /\ Len(coord) \in Nat /\ Len(coord') = Len(coord) + 1
      /\ coord'[Len(coord) + 1] = x /\ \A i \in 1 .. Len(coord) : coord'[i] = coord[i]
  <2>1. coord \in Seq(Slots \cup {One})
    BY DEF PipeInv, Types
  <2> QED BY <2>1
<1> SUFFICES ASSUME NEW i \in Ones(coord')
             PROVE \E s \in Slots : \/ s \in free'
                                    \/ \E j \in i + 1 .. Len(coord') : coord'[j] = s
                                    \/ \E m \in Metrics : mslot'[m] = s /\ mpc'[m] \in {"book", "give"}
  BY DEF Behind, Ones
<1>2. i \in 1 .. Len(coord) + 1 /\ coord'[i] = One
  BY <1>1 DEF Ones
<1>3. CASE i = Len(coord) + 1
  BY <1>1, <1>2, <1>3
<1>4. CASE i \in 1 .. Len(coord)
  <2>1. i \in Ones(coord)
    BY <1>1, <1>2, <1>4 DEF Ones
  <2>2. PICK s \in Slots : \/ s \in free
                           \/ \E j \in i + 1 .. Len(coord) : coord[j] = s
                           \/ \E m \in Metrics : mslot[m] = s /\ mpc[m] \in {"book", "give"}
    BY <2>1 DEF PipeInv, Behind
  <2>3. CASE s \in free
    <3>1. s \in free' \/ coord'[Len(coord) + 1] = s
      BY <1>1, <2>3
    <3>2. Len(coord) + 1 \in i + 1 .. Len(coord')
      BY <1>1, <1>4
    <3> QED BY <3>1, <3>2
  <2>4. ASSUME NEW j \in i + 1 .. Len(coord), coord[j] = s
        PROVE j \in i + 1 .. Len(coord') /\ coord'[j] = s
    BY <1>1, <1>4, <2>4
  <2>5. ASSUME NEW m \in Metrics, mslot[m] = s, mpc[m] \in {"book", "give"}
        PROVE mslot'[m] = s /\ mpc'[m] \in {"book", "give"}
    BY <2>5
  <2> QED BY <2>2, <2>3, <2>4, <2>5
<1> QED BY <1>1, <1>2, <1>3, <1>4

\* The packet goes back for another probe, or for the final encode.
LEMMA AgainStep ==
    ASSUME TqAssumption, PipeInv, NEW m \in Metrics, Again(m)
    PROVE PipeInv'
<1>1. /\ One \notin Slots /\ None \notin Slots /\ Cap \in Nat
      /\ mslot \in [Metrics -> Slots \cup {None}] /\ coord \in Seq(Slots \cup {One})
      /\ mpc \in [Metrics -> {"recv", "score", "again", "tell", "book", "give", "done"}]
  BY Constants DEF PipeInv, Types
<1>2. /\ mpc[m] = "again" /\ Len(coord) < Cap /\ coord' = Append(coord, mslot[m])
      /\ mslot' = [mslot EXCEPT ![m] = None] /\ mpc' = [mpc EXCEPT ![m] = "recv"]
      /\ UNCHANGED <<alt, frames, pool, enc, met, closed, coordinator, pkt, epc, eslot, disk, main>>
  BY DEF Again
<1>3. PICK s0 \in Slots : s0 = mslot[m] /\ s0 \notin free
  BY <1>2, InUse
<1>4. /\ mslot'[m] = None /\ \A n \in Metrics \ {m} : mslot'[n] = mslot[n]
      /\ mpc'[m] = "recv" /\ \A n \in Metrics \ {m} : mpc'[n] = mpc[n]
  BY <1>1, <1>2
<1>5. Judged(s0) /\ \A s \in Slots : Judged(s)' <=> Judged(s) /\ s # s0
  BY <1>1, <1>3, <1>4 DEF Judged, PipeInv, Apart
<1>6. On(coord') = On(coord) \cup {s0} /\ Once(coord')
  <2>1. Once(coord) /\ s0 \notin On(coord)
    BY <1>5 DEF PipeInv, Apart
  <2> QED BY <1>1, <1>2, <1>3, <2>1, OnAppend
<1>7. Types'
  <2>1. coord' \in Seq(Slots \cup {One}) /\ Len(coord') <= Cap
    BY <1>1, <1>2, <1>3
  <2>2. /\ mslot' \in [Metrics -> Slots \cup {None}]
        /\ mpc' \in [Metrics -> {"recv", "score", "again", "tell", "book", "give", "done"}]
    BY <1>1, <1>2
  <2> QED BY <1>2, <2>1, <2>2 DEF PipeInv, Types, pool, coordinator, disk
<1>8. Hands' /\ Permitted' /\ Closing'
  <2>1. Hands'
    BY <1>2, <1>4 DEF PipeInv, Hands
  <2>2. Closing'
    BY <1>2 DEF PipeInv, Closing, Joined, coordinator
  <2> QED BY <1>2, <2>1, <2>2 DEF PipeInv, Permitted, pool
<1>9. Apart'
  <2>1. \A s \in Slots : Encoding(s)' <=> Encoding(s)
    BY <1>2 DEF Encoding
  <2>2. \A n, k \in Metrics : mslot'[n] = mslot'[k] /\ mslot'[n] # None => n = k
    BY <1>4 DEF PipeInv, Apart
  <2> QED BY <1>1, <1>2, <1>3, <1>5, <1>6, <2>1, <2>2 DEF PipeInv, Apart, pool, coordinator
<1>10. Searched'
  <2>1. \A pk : (Ready(pk)' <=> Ready(pk)) /\ (Tried(pk)' <=> Tried(pk)) /\ (Settled(pk)' <=> Settled(pk))
    BY <1>2 DEF Ready, Tried, Settled, disk
  <2>2. \A s \in Slots : Encoding(s)' <=> Encoding(s)
    BY <1>2 DEF Encoding
  <2>3. Ready(pkt[s0])
    BY <1>2, <1>3 DEF PipeInv, Searched
  <2>4. \A n \in Metrics : /\ mpc'[n] = "score" => Tried(pkt[mslot'[n]]) /\ ~pkt[mslot'[n]].final
                           /\ mpc'[n] = "again" => Ready(pkt[mslot'[n]])
                           /\ mpc'[n] \in {"tell", "book", "give"} => Settled(pkt[mslot'[n]])
    BY <1>4 DEF PipeInv, Searched
  <2> QED BY <1>2, <1>6, <2>1, <2>2, <2>3, <2>4 DEF PipeInv, Searched, coordinator
<1>11. /\ \A n \in Metrics : mpc[n] \in {"book", "give"} => mpc'[n] = mpc[n] /\ mslot'[n] = mslot[n]
       /\ \A n \in Metrics : mpc'[n] = "book" => mpc[n] = "book"
  BY <1>2, <1>4
<1>12. Chunked' /\ Logged' /\ Told' = Told
  BY <1>2, <1>11, ChunksKept DEF pool, disk
<1>13. Counting'
  <2>1. Ones(coord)' = Ones(coord)
    BY <1>1, <1>2, <1>3, OnesAppend DEF Ones
  <2> QED BY <1>2, <1>12, <2>1 DEF PipeInv, Counting, coordinator
<1>14. Behind'
  BY <1>1, <1>2, <1>3, <1>11, SentBehind DEF pool
<1> QED BY <1>7, <1>8, <1>9, <1>10, <1>12, <1>13, <1>14 DEF PipeInv

LEMMA ToldType ==
    ASSUME TqAssumption, PipeInv
    PROVE /\ Told \subseteq Chunks /\ IsFiniteSet(Told) /\ Cardinality(Told) \in Nat
          /\ IsFiniteSet(booked) /\ Cardinality(booked) \in Nat
          /\ IsFiniteSet(Chunks) /\ Cardinality(Chunks) = Todo
<1>1. IsFiniteSet(Chunks) /\ Cardinality(Chunks) = Todo
  BY Constants, FS_Interval DEF Chunks
<1>2. booked \subseteq Chunks
  BY DEF PipeInv, Types
<1>3. \A m \in Booking : pkt[mslot[m]].chunk \in Chunks
  BY InUse DEF Booking
<1>4. Told \subseteq Chunks
  BY <1>2, <1>3 DEF Told
<1> QED BY <1>1, <1>2, <1>4, FS_Subset, FS_CardinalityType

\* A metric worker tells the coordinator of a finished chunk.
LEMMA TellStep ==
    ASSUME TqAssumption, PipeInv, NEW m \in Metrics, Tell(m)
    PROVE PipeInv'
<1>1. /\ One \notin Slots /\ None \notin Slots /\ Cap \in Nat
      /\ mslot \in [Metrics -> Slots \cup {None}] /\ coord \in Seq(Slots \cup {One})
      /\ mpc \in [Metrics -> {"recv", "score", "again", "tell", "book", "give", "done"}]
  BY Constants DEF PipeInv, Types
<1>2. /\ mpc[m] = "tell" /\ Len(coord) < Cap /\ coord' = Append(coord, One)
      /\ mpc' = [mpc EXCEPT ![m] = "book"]
      /\ UNCHANGED <<alt, frames, pool, enc, met, closed, coordinator, pkt, epc, eslot, mslot, disk, main>>
  BY DEF Tell
<1>3. PICK s0 \in Slots : s0 = mslot[m] /\ s0 \notin free
  BY <1>2, InUse
<1>4. mpc'[m] = "book" /\ \A n \in Metrics \ {m} : mpc'[n] = mpc[n]
  BY <1>1, <1>2
<1>5. On(coord') = On(coord) \cup {One} /\ Once(coord')
  BY <1>1, <1>2, OnAppend DEF PipeInv, Apart
<1>6. Types'
  <2>1. coord' \in Seq(Slots \cup {One}) /\ Len(coord') <= Cap
    BY <1>1, <1>2
  <2>2. mpc' \in [Metrics -> {"recv", "score", "again", "tell", "book", "give", "done"}]
    BY <1>1, <1>2
  <2> QED BY <1>2, <2>1, <2>2 DEF PipeInv, Types, pool, coordinator, disk
<1>7. Hands' /\ Permitted' /\ Closing'
  <2>1. Hands'
    BY <1>2, <1>4 DEF PipeInv, Hands
  <2>2. Closing'
    BY <1>2 DEF PipeInv, Closing, Joined, coordinator
  <2> QED BY <1>2, <2>1, <2>2 DEF PipeInv, Permitted, pool
<1>8. Apart'
  <2>1. \A s \in Slots : (Encoding(s)' <=> Encoding(s)) /\ (Judged(s)' <=> Judged(s))
    BY <1>2 DEF Encoding, Judged
  <2> QED BY <1>1, <1>2, <1>5, <2>1 DEF PipeInv, Apart, pool, coordinator
<1>9. Searched'
  <2>1. \A pk : (Ready(pk)' <=> Ready(pk)) /\ (Tried(pk)' <=> Tried(pk)) /\ (Settled(pk)' <=> Settled(pk))
    BY <1>2 DEF Ready, Tried, Settled, disk
  <2>2. \A s \in Slots : Encoding(s)' <=> Encoding(s)
    BY <1>2 DEF Encoding
  <2>3. \A n \in Metrics : /\ mpc'[n] = "score" => Tried(pkt[mslot[n]]) /\ ~pkt[mslot[n]].final
                           /\ mpc'[n] = "again" => Ready(pkt[mslot[n]])
                           /\ mpc'[n] \in {"tell", "book", "give"} => Settled(pkt[mslot[n]])
    BY <1>2, <1>4 DEF PipeInv, Searched
  <2> QED BY <1>1, <1>2, <1>5, <2>1, <2>2, <2>3 DEF PipeInv, Searched, coordinator
<1>10. \A n \in Metrics : mpc[n] \in {"book", "give"} => mpc'[n] = mpc[n] /\ mslot'[n] = mslot[n]
  BY <1>2, <1>4
<1>11. Chunked' /\ Logged'
  BY <1>2, <1>10, ChunksKept DEF pool, disk
<1>12. Counting'
  <2>1. Told' = Told \cup {pkt[s0].chunk}
    <3>1. Booking' = Booking \cup {m}
      BY <1>4 DEF Booking
    <3> QED BY <1>2, <1>3, <3>1 DEF Told, disk
  <2>2. pkt[s0].chunk \notin booked
    BY <1>2, <1>3 DEF PipeInv, Chunked, Apart, Hands
  <2>3. \A n \in Booking : pkt[mslot[n]].chunk # pkt[s0].chunk
    <3> SUFFICES ASSUME NEW n \in Booking PROVE pkt[mslot[n]].chunk # pkt[s0].chunk
      OBVIOUS
    <3>1. n \in Metrics /\ n # m /\ mslot[n] \in Slots /\ mslot[n] \notin free
      BY <1>2, InUse DEF Booking
    <3>2. mslot[n] # s0
      BY <1>1, <1>3, <3>1 DEF PipeInv, Apart
    <3> QED BY <1>3, <3>1, <3>2 DEF PipeInv, Chunked
  <2>4. pkt[s0].chunk \notin Told
    BY <2>2, <2>3 DEF Told
  <2>5. Cardinality(Told') = Cardinality(Told) + 1
    BY <2>1, <2>4, ToldType, FS_AddElement
  <2>6. Cardinality(Ones(coord')) = Cardinality(Ones(coord)) + 1 /\ Cardinality(Ones(coord)) \in Nat
    <3>1. One \in Slots \cup {One}
      OBVIOUS
    <3> QED BY <1>1, <1>2, <3>1, OnesAppend
  <2>7. counted + Cardinality(Ones(coord)) = Cardinality(Told) /\ counted \in Nat
    <3>1. counted \in 0 .. Todo /\ Todo \in Nat
      BY Constants DEF PipeInv, Types
    <3> QED BY <3>1 DEF PipeInv, Counting
  <2>8. counted + Cardinality(Ones(coord')) = Cardinality(Told')
    BY <2>5, <2>6, <2>7
  <2>9. Ones(coord)' = Ones(coord')
    BY DEF Ones
  <2> QED BY <1>2, <2>8, <2>9 DEF Counting, coordinator
<1>13. Behind'
  <2>1. \E n \in Metrics : mslot'[n] \in Slots /\ mpc'[n] \in {"book", "give"}
    BY <1>2, <1>3, <1>4
  <2> QED BY <1>1, <1>2, <1>10, <2>1, SentBehind DEF pool
<1> QED BY <1>6, <1>7, <1>8, <1>9, <1>11, <1>12, <1>13 DEF PipeInv

\* It book-keeps the chunk.
LEMMA BookStep ==
    ASSUME TqAssumption, PipeInv, NEW m \in Metrics, Book(m)
    PROVE PipeInv'
<1>1. /\ None \notin Slots /\ mslot \in [Metrics -> Slots \cup {None}]
      /\ mpc \in [Metrics -> {"recv", "score", "again", "tell", "book", "give", "done"}]
      /\ booked \subseteq Chunks /\ log \in Seq(Chunks)
  BY Constants DEF PipeInv, Types
<1>2. PICK s0 \in Slots : s0 = mslot[m] /\ s0 \notin free /\ pkt[s0].chunk \in Chunks
  BY InUse DEF Book
<1>3. PICK c \in Chunks : c = pkt[s0].chunk
  BY <1>2
<1>4. /\ mpc[m] = "book" /\ booked' = booked \cup {c} /\ log' = Append(log, c)
      /\ mpc' = [mpc EXCEPT ![m] = "give"]
      /\ UNCHANGED <<alt, frames, pool, rings, coordinator, pkt, epc, eslot, mslot, file, main>>
  BY <1>2, <1>3 DEF Book
<1>5. mpc'[m] = "give" /\ \A n \in Metrics \ {m} : mpc'[n] = mpc[n]
  BY <1>1, <1>4
<1>6. c \notin booked
  BY <1>1, <1>2, <1>3, <1>4 DEF PipeInv, Chunked, Apart
<1>7. Types'
  <2>1. /\ mpc' \in [Metrics -> {"recv", "score", "again", "tell", "book", "give", "done"}]
        /\ booked' \subseteq Chunks /\ log' \in Seq(Chunks)
    BY <1>1, <1>4
  <2> QED BY <1>4, <2>1 DEF PipeInv, Types, pool, rings, coordinator
<1>8. Hands' /\ Permitted' /\ Closing'
  <2>1. Hands'
    BY <1>4, <1>5 DEF PipeInv, Hands
  <2>2. Closing'
    BY <1>4 DEF PipeInv, Closing, Joined, rings, coordinator
  <2> QED BY <1>4, <2>1, <2>2 DEF PipeInv, Permitted, pool
<1>9. Apart'
  <2>1. \A s \in Slots : (Encoding(s)' <=> Encoding(s)) /\ (Judged(s)' <=> Judged(s))
    BY <1>4 DEF Encoding, Judged
  <2> QED BY <1>4, <2>1 DEF PipeInv, Apart, pool, rings, coordinator
<1>10. Searched'
  <2>1. \A pk : (Ready(pk)' <=> Ready(pk)) /\ (Tried(pk)' <=> Tried(pk)) /\ (Settled(pk)' <=> Settled(pk))
    BY <1>4 DEF Ready, Tried, Settled
  <2>2. \A s \in Slots : Encoding(s)' <=> Encoding(s)
    BY <1>4 DEF Encoding
  <2>3. \A n \in Metrics : /\ mpc'[n] = "score" => Tried(pkt[mslot[n]]) /\ ~pkt[mslot[n]].final
                           /\ mpc'[n] = "again" => Ready(pkt[mslot[n]])
                           /\ mpc'[n] \in {"tell", "book", "give"} => Settled(pkt[mslot[n]])
    BY <1>4, <1>5 DEF PipeInv, Searched
  <2> QED BY <1>4, <2>1, <2>2, <2>3 DEF PipeInv, Searched, rings, coordinator
<1>11. Chunked'
  <2>1. c \in 1 .. next - 1
    BY <1>2, <1>3 DEF PipeInv, Chunked
  <2>2. \A s \in Slots \ free : pkt[s].chunk = c => s = s0
    BY <1>2, <1>3 DEF PipeInv, Chunked
  <2>3. booked' \subseteq 1 .. next' - 1
    BY <1>4, <2>1 DEF PipeInv, Chunked, pool
  <2>4. \A s \in Slots \ free : pkt[s].chunk \in booked' => \E n \in Metrics : mslot[n] = s /\ mpc'[n] = "give"
    <3> SUFFICES ASSUME NEW s \in Slots \ free, pkt[s].chunk \in booked'
                 PROVE \E n \in Metrics : mslot[n] = s /\ mpc'[n] = "give"
      OBVIOUS
    <3>1. CASE pkt[s].chunk = c
      BY <1>2, <1>5, <2>2, <3>1
    <3>2. CASE pkt[s].chunk \in booked
      BY <1>4, <1>5, <3>2 DEF PipeInv, Chunked
    <3> QED BY <1>4, <3>1, <3>2
  <2>5. UNCHANGED <<next, free, pkt, mslot>>
    BY <1>4 DEF pool
  <2> QED BY <2>3, <2>4, <2>5 DEF PipeInv, Chunked
<1>12. Logged'
  <2>1. Cardinality(booked') = Cardinality(booked) + 1
    BY <1>4, <1>6, ToldType, FS_AddElement
  <2>2. /\ Len(log') = Len(log) + 1 /\ log'[Len(log) + 1] = c /\ Len(log) \in Nat
        /\ \A i \in 1 .. Len(log) : log'[i] = log[i]
    BY <1>1, <1>4
  <2>3. Len(log') = Cardinality(booked')
    BY <2>1, <2>2 DEF PipeInv, Logged
  <2>4. \A b \in booked' : \E i \in 1 .. Len(log') : log'[i] = b
    <3> SUFFICES ASSUME NEW b \in booked' PROVE \E i \in 1 .. Len(log') : log'[i] = b
      OBVIOUS
    <3>1. CASE b = c
      BY <2>2, <3>1
    <3>2. CASE b \in booked
      <4>1. PICK i \in 1 .. Len(log) : log[i] = b
        BY <3>2 DEF PipeInv, Logged
      <4> QED BY <2>2, <4>1
    <3> QED BY <1>4, <3>1, <3>2
  <2> QED BY <2>3, <2>4 DEF Logged
<1>13. Counting'
  <2>1. Booking = Booking' \cup {m} /\ \A n \in Booking' : n \in Booking
    BY <1>4, <1>5 DEF Booking
  <2>2. m \in Booking /\ pkt[mslot[m]].chunk = c
    BY <1>2, <1>3, <1>4 DEF Booking
  <2>3. {pkt[mslot[n]].chunk : n \in Booking} = {pkt[mslot[n]].chunk : n \in Booking'} \cup {c}
    BY <2>1, <2>2
  <2>4. Told' = Told
    BY <1>4, <2>3 DEF Told
  <2> QED BY <1>4, <2>4 DEF PipeInv, Counting, rings, coordinator
<1>14. Behind'
  <2>1. \A n \in Metrics : mpc[n] \in {"book", "give"} => mpc'[n] \in {"book", "give"}
    BY <1>4, <1>5
  <2> QED BY <1>4, <2>1 DEF PipeInv, Behind, pool, rings
<1> QED BY <1>7, <1>8, <1>9, <1>10, <1>11, <1>12, <1>13, <1>14 DEF PipeInv

\* and gives the packet back, free before the permit of it is.
LEMMA GiveStep ==
    ASSUME TqAssumption, PipeInv, NEW m \in Metrics, Give(m)
    PROVE PipeInv'
<1>1. /\ None \notin Slots /\ mslot \in [Metrics -> Slots \cup {None}] /\ free \subseteq Slots
      /\ mpc \in [Metrics -> {"recv", "score", "again", "tell", "book", "give", "done"}]
      /\ permits \in Nat
  BY Constants DEF PipeInv, Types
<1>2. PICK s0 \in Slots : s0 = mslot[m] /\ s0 \notin free
  BY InUse DEF Give
<1>3. /\ mpc[m] = "give" /\ free' = free \cup {s0} /\ permits' = permits + 1
      /\ mslot' = [mslot EXCEPT ![m] = None] /\ mpc' = [mpc EXCEPT ![m] = "recv"]
      /\ UNCHANGED <<alt, frames, next, dpc, rings, coordinator, pkt, epc, eslot, disk, main>>
  BY <1>2 DEF Give
<1>4. /\ mslot'[m] = None /\ \A n \in Metrics \ {m} : mslot'[n] = mslot[n]
      /\ mpc'[m] = "recv" /\ \A n \in Metrics \ {m} : mpc'[n] = mpc[n]
  BY <1>1, <1>3
<1>5. Judged(s0) /\ \A s \in Slots : Judged(s)' <=> Judged(s) /\ s # s0
  BY <1>1, <1>2, <1>4 DEF Judged, PipeInv, Apart
<1>6. Types'
  <2>1. /\ mslot' \in [Metrics -> Slots \cup {None}] /\ free' \subseteq Slots /\ permits' \in Nat
        /\ mpc' \in [Metrics -> {"recv", "score", "again", "tell", "book", "give", "done"}]
    BY <1>1, <1>2, <1>3
  <2> QED BY <1>3, <2>1 DEF PipeInv, Types, rings, coordinator, disk
<1>7. Hands' /\ Closing'
  <2>1. Hands'
    BY <1>3, <1>4 DEF PipeInv, Hands
  <2>2. Closing'
    BY <1>3 DEF PipeInv, Closing, Joined, rings, coordinator
  <2> QED BY <2>1, <2>2
<1>8. Permitted'
  <2>1. IsFiniteSet(free) /\ Cardinality(free) \in Nat
    BY <1>1, Constants, FS_Subset, FS_CardinalityType
  <2>2. Cardinality(free') = Cardinality(free) + 1
    BY <1>2, <1>3, <2>1, FS_AddElement
  <2>3. permits <= Cardinality(free) /\ (dpc = "send" => permits + 1 <= Cardinality(free))
    BY DEF PipeInv, Permitted
  <2> QED BY <1>1, <1>3, <2>1, <2>2, <2>3 DEF Permitted
<1>9. Apart'
  <2>1. \A s \in Slots : Encoding(s)' <=> Encoding(s)
    BY <1>3 DEF Encoding
  <2>2. \A n, k \in Metrics : mslot'[n] = mslot'[k] /\ mslot'[n] # None => n = k
    BY <1>4 DEF PipeInv, Apart
  <2> QED BY <1>1, <1>2, <1>3, <1>5, <2>1, <2>2 DEF PipeInv, Apart, rings, coordinator
<1>10. Searched'
  <2>1. \A pk : (Ready(pk)' <=> Ready(pk)) /\ (Tried(pk)' <=> Tried(pk)) /\ (Settled(pk)' <=> Settled(pk))
    BY <1>3 DEF Ready, Tried, Settled, disk
  <2>2. \A s \in Slots : Encoding(s)' <=> Encoding(s)
    BY <1>3 DEF Encoding
  <2>3. \A n \in Metrics : /\ mpc'[n] = "score" => Tried(pkt[mslot'[n]]) /\ ~pkt[mslot'[n]].final
                           /\ mpc'[n] = "again" => Ready(pkt[mslot'[n]])
                           /\ mpc'[n] \in {"tell", "book", "give"} => Settled(pkt[mslot'[n]])
    BY <1>4 DEF PipeInv, Searched
  <2> QED BY <1>3, <2>1, <2>2, <2>3 DEF PipeInv, Searched, rings, coordinator
<1>11. Chunked'
  <2>1. \A s \in Slots \ free' : s \in Slots \ free /\ s # s0
    BY <1>2, <1>3
  <2>2. \A s \in Slots \ free' : pkt[s].chunk \in booked => \E n \in Metrics : mslot'[n] = s /\ mpc'[n] = "give"
    <3> SUFFICES ASSUME NEW s \in Slots \ free', pkt[s].chunk \in booked
                 PROVE \E n \in Metrics : mslot'[n] = s /\ mpc'[n] = "give"
      OBVIOUS
    <3>1. PICK n \in Metrics : mslot[n] = s /\ mpc[n] = "give"
      BY <2>1 DEF PipeInv, Chunked
    <3> QED BY <1>2, <1>4, <2>1, <3>1
  <2> QED BY <1>3, <2>1, <2>2 DEF PipeInv, Chunked, disk
<1>12. Logged'
  BY <1>3 DEF PipeInv, Logged, disk
<1>13. Counting'
  <2>1. Booking' = Booking /\ \A n \in Booking : mslot'[n] = mslot[n]
    BY <1>3, <1>4 DEF Booking
  <2>2. Told' = Told
    BY <1>3, <2>1 DEF Told, disk
  <2> QED BY <1>3, <2>2 DEF PipeInv, Counting, rings, coordinator
<1>14. Behind'
  <2> SUFFICES ASSUME NEW i \in Ones(coord)
               PROVE \E s \in Slots : \/ s \in free'
                                      \/ \E j \in i + 1 .. Len(coord) : coord[j] = s
                                      \/ \E n \in Metrics : mslot'[n] = s /\ mpc'[n] \in {"book", "give"}
    BY <1>3 DEF Behind, Ones, rings
  <2>1. PICK s \in Slots : \/ s \in free
                           \/ \E j \in i + 1 .. Len(coord) : coord[j] = s
                           \/ \E n \in Metrics : mslot[n] = s /\ mpc[n] \in {"book", "give"}
    BY DEF PipeInv, Behind
  <2>2. ASSUME NEW n \in Metrics, mslot[n] = s, mpc[n] \in {"book", "give"}
        PROVE s \in free' \/ (mslot'[n] = s /\ mpc'[n] \in {"book", "give"})
    BY <1>2, <1>3, <1>4, <2>2
  <2> QED BY <1>3, <2>1, <2>2
<1> QED BY <1>6, <1>7, <1>8, <1>9, <1>10, <1>11, <1>12, <1>13, <1>14 DEF PipeInv

\* take finds a free packet.
LEMMA FirstFreeType ==
    ASSUME TqAssumption, PipeInv, dpc = "send"
    PROVE FirstFree \in free
<1>1. free \subseteq Nat /\ IsFiniteSet(free) /\ Cardinality(free) \in Nat /\ permits \in Nat
  BY Constants, FS_Subset, FS_CardinalityType DEF PipeInv, Types
<1>2. permits + 1 <= Cardinality(free)
  BY DEF PipeInv, Permitted
<1>3. free # {}
  <2>1. Cardinality(free) # 0
    BY <1>1, <1>2
  <2> QED BY <1>1, <2>1, FS_EmptySet
<1>4. \E s \in free : \A x \in free : ~(<<x, s>> \in OpToRel(<, Nat))
  BY <1>1, <1>3, NatLessThanWellFounded, WFMin
<1>5. \E s \in free : \A x \in free : s <= x
  <2>1. PICK s \in free : \A x \in free : ~(<<x, s>> \in OpToRel(<, Nat))
    BY <1>4
  <2>2. \A x \in free : ~(x < s)
    <3> SUFFICES ASSUME NEW x \in free, x < s PROVE FALSE
      OBVIOUS
    <3>1. <<x, s>> \in Nat \X Nat /\ <<x, s>>[1] < <<x, s>>[2]
      BY <1>1
    <3>2. <<x, s>> \in OpToRel(<, Nat)
      BY <3>1 DEF OpToRel
    <3> QED BY <2>1, <3>2
  <2> QED BY <1>1, <2>2
<1> QED BY <1>5 DEF FirstFree

\* The decoder sends a chunk in a packet that was free.
LEMMA DecodedStep ==
    ASSUME TqAssumption, PipeInv, Decoded
    PROVE PipeInv'
<1>1. /\ One \notin Slots /\ None \notin Slots /\ Cap \in Nat /\ Todo \in Nat /\ next \in 1 .. Todo + 1
      /\ free \subseteq Slots /\ coord \in Seq(Slots \cup {One}) /\ pkt \in [Slots -> Packet]
      /\ permits \in Nat
  BY Constants DEF PipeInv, Types
<1>2. dpc = "send" /\ next <= Todo
  BY DEF Decoded, PipeInv, Types
<1>3. PICK s0 \in free : s0 = FirstFree
  BY <1>2, FirstFreeType
<1>4. PICK pk \in Packet : /\ pk = Set(pkt[s0], next) /\ pk.chunk = next /\ ~pk.armed
  <2>1. pkt[s0] \in Packet /\ next \in 0 .. Todo /\ NoProbe \in Probes
    BY <1>1, <1>2, <1>3, Constants DEF NoProbe, Probes
  <2>2. /\ Set(pkt[s0], next) \in Packet /\ Set(pkt[s0], next).chunk = next
        /\ ~Set(pkt[s0], next).armed
    BY <2>1 DEF Set, Packet
  <2> QED BY <2>2
<1>5. /\ Len(coord) < Cap /\ free' = free \ {s0} /\ pkt' = [pkt EXCEPT ![s0] = pk]
      /\ coord' = Append(coord, s0) /\ next' = next + 1 /\ dpc' = "acquire"
      /\ UNCHANGED <<alt, frames, permits, enc, met, closed, coordinator, workers, disk, main>>
  BY <1>3, <1>4 DEF Decoded
<1>6. s0 \in Slots /\ pkt'[s0] = pk /\ \A s \in Slots \ {s0} : pkt'[s] = pkt[s]
  BY <1>1, <1>3, <1>5
<1>7. On(coord') = On(coord) \cup {s0} /\ Once(coord')
  <2>1. Once(coord) /\ s0 \notin On(coord)
    BY <1>1, <1>3 DEF PipeInv, Apart
  <2> QED BY <1>1, <1>5, <1>6, <2>1, OnAppend
<1>8. \A s \in Slots : (Encoding(s)' <=> Encoding(s)) /\ (Judged(s)' <=> Judged(s))
  BY <1>5 DEF Encoding, Judged, workers
<1>9. Types'
  <2>1. /\ coord' \in Seq(Slots \cup {One}) /\ Len(coord') <= Cap /\ free' \subseteq Slots
        /\ next' \in 1 .. Todo + 1 /\ pkt' \in [Slots -> Packet]
    BY <1>1, <1>2, <1>3, <1>5
  <2> QED BY <1>5, <2>1 DEF PipeInv, Types, coordinator, workers, disk
<1>10. Hands' /\ Closing'
  <2>1. Hands'
    BY <1>5 DEF PipeInv, Hands, workers
  <2>2. Closing'
    BY <1>5 DEF PipeInv, Closing, Joined, coordinator, workers
  <2> QED BY <2>1, <2>2
<1>11. Permitted'
  <2>1. IsFiniteSet(free) /\ Cardinality(free) \in Nat
    BY <1>1, Constants, FS_Subset, FS_CardinalityType
  <2>2. Cardinality(free') = Cardinality(free) - 1
    BY <1>3, <1>5, <2>1, FS_RemoveElement
  <2>3. permits + 1 <= Cardinality(free)
    BY <1>2 DEF PipeInv, Permitted
  <2> QED BY <1>1, <1>5, <2>1, <2>2, <2>3 DEF Permitted
<1>12. Apart'
  <2>1. s0 \notin On(enc) /\ s0 \notin On(met) /\ held # s0 /\ ~Encoding(s0) /\ ~Judged(s0)
    BY <1>3, <1>6 DEF PipeInv, Apart
  <2>2. \A s \in Slots : (s \in On(coord') <=> s \in On(coord) \/ s = s0) /\ (s \in free' <=> s \in free /\ s # s0)
    BY <1>5, <1>7
  <2> QED BY <1>5, <1>6, <1>7, <1>8, <2>1, <2>2 DEF PipeInv, Apart, coordinator, workers
<1>13. Chunked'
  <2>1. \A s \in Slots \ free' : s = s0 \/ s \in Slots \ free
    BY <1>5
  <2>2. \A s \in Slots \ free : s # s0 /\ pkt'[s] = pkt[s] /\ pkt[s].chunk \in 1 .. next - 1
    BY <1>3, <1>6 DEF PipeInv, Chunked
  <2>3. 1 .. next - 1 \subseteq 1 .. next' - 1 /\ next \in 1 .. next' - 1 /\ next \notin 1 .. next - 1
    BY <1>1, <1>5
  <2>4. booked' \subseteq 1 .. next' - 1 /\ next \notin booked'
    BY <1>5, <2>3 DEF PipeInv, Chunked, disk
  <2>5. \A s \in Slots \ free' : pkt'[s].chunk \in 1 .. next' - 1
    BY <1>4, <1>6, <2>1, <2>2, <2>3
  <2>6. \A s, t \in Slots \ free' : pkt'[s].chunk = pkt'[t].chunk => s = t
    BY <1>4, <1>6, <2>1, <2>2, <2>3 DEF PipeInv, Chunked
  <2>7. \A s \in Slots \ free' : pkt'[s].chunk \in booked' => \E n \in Metrics : mslot'[n] = s /\ mpc'[n] = "give"
    BY <1>4, <1>5, <1>6, <2>1, <2>2, <2>4 DEF PipeInv, Chunked, workers, disk
  <2> QED BY <2>4, <2>5, <2>6, <2>7 DEF Chunked
<1>14. Searched'
  <2>1. \A pk2 : (Ready(pk2)' <=> Ready(pk2)) /\ (Tried(pk2)' <=> Tried(pk2)) /\ (Settled(pk2)' <=> Settled(pk2))
    BY <1>5 DEF Ready, Tried, Settled, disk
  <2>2. Ready(pk)
    BY <1>4 DEF Ready
  <2>3. \A s \in Slots : s \in On(coord) \/ held = s \/ s \in On(enc) \/ Encoding(s) \/ s \in On(met)
           \/ Judged(s) => pkt'[s] = pkt[s]
    BY <1>3, <1>6, InUse
  <2>4. \A n \in Metrics : mpc[n] \notin {"recv", "done"} => pkt'[mslot[n]] = pkt[mslot[n]]
    BY <1>3, <1>6, InUse
  <2>5. \A s \in Slots : s \in On(coord') \/ held = s \/ s \in On(enc) => Ready(pkt'[s])
    BY <1>6, <1>7, <2>2, <2>3 DEF PipeInv, Searched
  <2>6. \A s \in Slots : Encoding(s) \/ s \in On(met) => Tried(pkt'[s])
    BY <2>3 DEF PipeInv, Searched
  <2>7. \A n \in Metrics : /\ mpc[n] = "score" => Tried(pkt'[mslot[n]]) /\ ~pkt'[mslot[n]].final
                           /\ mpc[n] = "again" => Ready(pkt'[mslot[n]])
                           /\ mpc[n] \in {"tell", "book", "give"} => Settled(pkt'[mslot[n]])
    BY <2>4 DEF PipeInv, Searched
  <2> QED BY <1>5, <1>8, <2>1, <2>5, <2>6, <2>7 DEF Searched, coordinator, workers
<1>15. Logged'
  BY <1>5 DEF PipeInv, Logged, disk
<1>16. Counting'
  <2>1. \A n \in Booking : pkt'[mslot[n]].chunk = pkt[mslot[n]].chunk
    BY <1>3, <1>6, InUse DEF Booking
  <2>2. Booking' = Booking
    BY <1>5 DEF Booking, workers
  <2>3. Told' = Told
    BY <1>5, <2>1, <2>2 DEF Told, workers, disk
  <2>4. Ones(coord)' = Ones(coord)
    BY <1>1, <1>5, <1>6, OnesAppend DEF Ones
  <2> QED BY <1>5, <2>3, <2>4 DEF PipeInv, Counting, coordinator
<1>17. Behind'
  <2>1. s0 \in Slots \cup {One} /\ s0 # One
    BY <1>1, <1>6
  <2> QED BY <1>5, <2>1, SentBehind DEF workers
<1> QED BY <1>9, <1>10, <1>11, <1>12, <1>13, <1>14, <1>15, <1>16, <1>17 DEF PipeInv

----------------------------------------------------------------------------
LEMMA PipeStep ==
    ASSUME TqAssumption, PipeInv, [Next]_vars
    PROVE PipeInv'
<1>1. CASE UNCHANGED vars
  <2>1. UNCHANGED <<alt, frames, next, dpc, permits, free, coord, enc, met, closed, held, counted, pkt,
                    epc, eslot, mpc, mslot, file, booked, log, main>>
    BY <1>1 DEF vars, pool, rings, coordinator, workers, disk
  <2>2. Types' /\ Permitted' /\ Closing'
    BY <2>1 DEF PipeInv, Types, Permitted, Closing, Joined
  <2> QED BY <2>1, <2>2, StillStep DEF PipeInv, disk
<1>2. CASE Decoder
  BY <1>2, IdleStep, DecodedStep DEF Decoder
<1>3. CASE Coordinator
  BY <1>3, IdleStep, CoordRecvStep, CoordSendStep DEF Coordinator
<1>4. CASE Main
  BY <1>4, IdleStep
<1>5. ASSUME NEW e \in Encoders, Encoder(e)
      PROVE PipeInv'
  BY <1>5, IdleStep, EncodeStep, EncSendStep DEF Encoder
<1>6. ASSUME NEW m \in Metrics, Metric(m)
      PROVE PipeInv'
  BY <1>6, IdleStep, MetRecvStep, ScoreStep, AgainStep, TellStep, BookStep, GiveStep DEF Metric
<1> QED BY <1>1, <1>2, <1>3, <1>4, <1>5, <1>6 DEF Next

\* The invariant of the pipeline, for any number of chunks, packets, workers
\* and rounds, any capacity of the rings and any distances.
THEOREM PipeInvariant == ASSUME TqAssumption PROVE Spec => []PipeInv
<1>1. Init => PipeInv
  BY InitPipe
<1>2. PipeInv /\ [Next]_vars => PipeInv'
  BY PipeStep
<1> QED BY <1>1, <1>2, PTL DEF Spec

\* The invariant types the state.
LEMMA ShowsTypes == ASSUME TqAssumption PROVE PipeInv => TypeOK
<1> SUFFICES ASSUME PipeInv PROVE TypeOK
  OBVIOUS
<1>1. Cardinality(Slots) \in Nat /\ Cardinality(free) \in Nat /\ Cardinality(free) <= Cardinality(Slots)
  BY Constants, FS_Subset, FS_CardinalityType DEF PipeInv, Types
<1>2. permits \in Nat /\ permits <= Cardinality(free)
  BY DEF PipeInv, Types, Permitted
<1>3. permits \in 0 .. Cardinality(Slots)
  BY <1>1, <1>2
<1> QED BY <1>3 DEF PipeInv, Types, TypeOK, Probes

\* Type correctness.
THEOREM PipeTypes == ASSUME TqAssumption PROVE Spec => []TypeOK
<1>1. PipeInv => TypeOK
  BY ShowsTypes
<1> QED BY <1>1, PipeInvariant, PTL

\* The invariant says which probe is book-kept.
LEMMA ShowsBest == ASSUME TqAssumption PROVE PipeInv => BookedIsBest
<1> SUFFICES ASSUME PipeInv, NEW s \in Slots, NEW m \in Metrics, mslot[m] = s, mpc[m] = "give"
             PROVE LET c == pkt[s].chunk
                       d == pkt[s].diffs
                   IN  IF alt THEN file[c] = <<c, 0>>
                       ELSE \E r \in 1 .. Len(d) :
                               /\ file[c] = <<c, r>>
                               /\ \A k \in 1 .. Len(d) : d[r] <= d[k] /\ (k < r => d[r] < d[k])
  BY DEF BookedIsBest
<1>1. Settled(pkt[s])
  BY DEF PipeInv, Searched
<1> QED BY <1>1 DEF Settled, KeepsBest, FirstBest

\* What is book-kept is on disk and is the best probe of its chunk, or the
\* final encode: retain_swap, output_bytes and complete_chnk, whatever the
\* packet was used for before.
THEOREM BookedAreBest == ASSUME TqAssumption PROVE Spec => []BookedIsBest
<1>1. PipeInv => BookedIsBest
  BY ShowsBest
<1> QED BY <1>1, PipeInvariant, PTL

LEMMA NoMore == \A t, n, b \in Nat : t + n = b /\ b <= t => b = t
  OBVIOUS

\* The invariant says that all chunks are book-kept at the end.
LEMMA ShowsAll == ASSUME TqAssumption PROVE PipeInv => AllBooked
<1> SUFFICES ASSUME PipeInv, main = "log written"
             PROVE /\ booked = Chunks
                   /\ Len(log) = Todo /\ \A c \in Chunks : \E i \in 1 .. Todo : log[i] = c
  BY DEF AllBooked
<1>1. counted = Todo /\ \A m \in Metrics : mpc[m] = "done"
  BY DEF PipeInv, Closing, Joined
<1>2. Told = booked
  <2>1. Booking = {}
    BY <1>1 DEF Booking
  <2> QED BY <2>1 DEF Told
<1>3. Todo + Cardinality(Ones(coord)) = Cardinality(booked) /\ Cardinality(Ones(coord)) \in Nat
  <2>1. coord \in Seq(Slots \cup {One}) /\ One \in Slots \cup {One}
    BY DEF PipeInv, Types
  <2> QED BY <1>1, <1>2, <2>1, OnesAppend DEF PipeInv, Counting
<1>4. booked \in SUBSET Chunks /\ Todo \in Nat
  BY Constants DEF PipeInv, Types
<1>5. /\ Cardinality(booked) <= Cardinality(Chunks)
      /\ Cardinality(Chunks) = Cardinality(booked) => Chunks = booked
      /\ Cardinality(Chunks) = Todo /\ Cardinality(booked) \in Nat
  BY <1>4, ToldType, FS_Subset
<1>6. booked = Chunks
  <2>1. Cardinality(booked) <= Todo
    BY <1>5
  <2>2. Cardinality(booked) = Todo
    BY <1>3, <1>4, <1>5, <2>1, NoMore
  <2> QED BY <1>5, <2>2
<1> QED BY <1>5, <1>6 DEF PipeInv, Logged

\* When the main thread reads the log, every chunk was book-kept and logged,
\* though the message that ends the run leaves before that.
THEOREM AllAreBooked == ASSUME TqAssumption PROVE Spec => []AllBooked
<1>1. PipeInv => AllBooked
  BY ShowsAll
<1> QED BY <1>1, PipeInvariant, PTL

\* The file of a chunk that is book-kept is not written again.
BookedStays == [][\A c \in booked : file'[c] = file[c] /\ c \in booked']_vars

\* No step of any thread rewrites the file of a booked chunk or takes the chunk
\* out of the books.
THEOREM BookedAreFinal == ASSUME TqAssumption PROVE Spec => BookedStays
<1>1. PipeInv /\ [Next]_vars => [\A c \in booked : file'[c] = file[c] /\ c \in booked']_vars
  <2> SUFFICES ASSUME PipeInv, Next, NEW c \in booked
               PROVE file'[c] = file[c] /\ c \in booked'
    OBVIOUS
  <2>1. c \in Chunks /\ file \in [Chunks -> Probes]
    BY DEF PipeInv, Types
  <2>2. ASSUME NEW e \in Encoders, Encode(e)
        PROVE file'[c] = file[c] /\ c \in booked'
    <3>1. PICK s \in Slots : s = Head(enc) /\ s \in On(enc)
      <4>1. enc \in Seq(Slots) /\ enc # <<>>
        BY <2>2 DEF PipeInv, Types, Encode
      <4> QED BY <4>1, OnTail
    <3>2. s \notin free /\ ~Judged(s)
      BY <3>1 DEF PipeInv, Apart
    <3>3. pkt[s].chunk # c
      BY <3>2 DEF PipeInv, Chunked, Judged
    <3>4. Ready(pkt[s]) /\ pkt[s] \in Packet
      BY <3>1 DEF PipeInv, Types, Searched
    <3>5. Probed(IF pkt[s].armed THEN pkt[s] ELSE Arm(pkt[s])).chunk = pkt[s].chunk
      BY <3>4, EncodeTurn
    <3>6. booked' = booked /\ \E p \in {Probed(IF pkt[s].armed THEN pkt[s] ELSE Arm(pkt[s]))} :
             file' = IF p.final THEN [file EXCEPT ![p.chunk] = p.probe] ELSE file
      BY <2>2, <3>1 DEF Encode
    <3> QED BY <2>1, <3>3, <3>5, <3>6
  <2>3. ASSUME NEW m \in Metrics, Score(m)
        PROVE file'[c] = file[c] /\ c \in booked'
    <3>1. PICK s \in Slots : s = mslot[m] /\ s \notin free /\ mpc[m] = "score"
      BY <2>3, InUse DEF Score
    <3>2. pkt[s].chunk # c
      <4>1. \A n \in Metrics : mslot[n] = s => n = m
        BY <3>1, Constants DEF PipeInv, Apart
      <4> QED BY <3>1, <4>1 DEF PipeInv, Chunked
    <3>3. pkt[s] \in Packet /\ Tried(pkt[s]) /\ ~pkt[s].final /\ alt \in BOOLEAN
      BY <3>1 DEF PipeInv, Types, Searched
    <3>4. booked' = booked /\ \E d \in Diffs, ends \in BOOLEAN :
             \E p \in {[Retain(pkt[s], d) EXCEPT !.diffs = Append(@, d)]} :
                file' = IF ends /\ ~alt THEN [file EXCEPT ![p.chunk] = p.kept] ELSE file
      BY <2>3, <3>1 DEF Score
    <3>5. \A d \in Diffs : [Retain(pkt[s], d) EXCEPT !.diffs = Append(@, d)].chunk = pkt[s].chunk
      BY <3>3, ScoreTurn
    <3> QED BY <2>1, <3>2, <3>4, <3>5
  <2>4. CASE /\ \A e \in Encoders : ~Encode(e)
             /\ \A m \in Metrics : ~Score(m)
    <3>1. file' = file /\ booked \subseteq booked'
      BY <2>4 DEF Next, Decoder, Coordinator, Main, Encoder, Metric, Acquire, Decoded, AllDecoded, CoordRecv,
                  CoordSend, CoordClose, EncSend, EncEof, MetRecv, Again, Tell, Book, Give, MetEof,
                  JoinCoord, JoinEncoders, JoinMetrics, disk
    <3> QED BY <3>1
  <2> QED BY <2>2, <2>3, <2>4
<1> QED BY <1>1, PipeInvariant, PTL DEF Spec, BookedStays

----------------------------------------------------------------------------
\* Nobody waits on everybody.  What each thread can go on with:
Decodes == \/ dpc = "acquire" /\ (next > Todo \/ permits > 0)
           \/ dpc = "send" /\ Len(coord) < Cap
Coordinates == \/ held = None /\ counted < Todo /\ coord # <<>>
               \/ held # None /\ Len(enc) < Cap
               \/ counted = Todo /\ "enc" \notin closed
Encodes(e) == \/ epc[e] = "recv" /\ (enc # <<>> \/ "enc" \in closed)
              \/ epc[e] = "send" /\ Len(met) < Cap
Measures(m) == \/ mpc[m] = "recv" /\ (met # <<>> \/ "met" \in closed)
               \/ mpc[m] \in {"again", "tell"} /\ Len(coord) < Cap
               \/ mpc[m] \in {"score", "book", "give"}
Joins == \/ main = "join coord" /\ "enc" \in closed /\ dpc = "done"
         \/ main = "join encoders" /\ \A e \in Encoders : epc[e] = "done"
         \/ main = "join metrics" /\ Joined
CanMove == \/ Decodes \/ Coordinates \/ Joins
           \/ \E e \in Encoders : Encodes(e)
           \/ \E m \in Metrics : Measures(m)

\* Every packet is in one of the places,
Placed == \A s \in Slots : \/ s \in free \/ s \in On(coord) \/ held = s \/ s \in On(enc)
                           \/ Encoding(s) \/ s \in On(met) \/ Judged(s)

\* every chunk that was decoded is book-kept or in a packet, which is given
\* back after that,
Carried ==
    /\ \A c \in 1 .. next - 1 : c \in booked \/ \E s \in Slots \ free : pkt[s].chunk = c
    /\ \A m \in Metrics : mpc[m] = "give" => pkt[mslot[m]].chunk \in booked

\* the decoder's permits are the free packets, and it stops when it has no
\* more frames,
Spare == /\ dpc = "acquire" => permits = Cardinality(free)
         /\ dpc = "send" => permits + 1 = Cardinality(free)
         /\ dpc = "done" => next > frames

\* and workers end when their ring is closed.
Ending == /\ \A e \in Encoders : epc[e] = "done" => "enc" \in closed
          /\ \A m \in Metrics : mpc[m] = "done" => "met" \in closed
          /\ "met" \in closed <=> main \in {"join metrics", "log written"}

MoveInv == PipeInv /\ Placed /\ Carried /\ Spare /\ Ending

----------------------------------------------------------------------------
\* Counting packets: sets that share nothing, the packets of a ring, the
\* packets of workers.
LEMMA Disjoint ==
    ASSUME NEW S, IsFiniteSet(S), NEW T, IsFiniteSet(T), S \cap T = {}
    PROVE IsFiniteSet(S \cup T) /\ Cardinality(S \cup T) = Cardinality(S) + Cardinality(T)
<1>1. IsFiniteSet(S \cup T) /\ Cardinality(S \cup T) = Cardinality(S) + Cardinality(T) - 0
  BY FS_Union, FS_EmptySet
<1>2. Cardinality(S) \in Nat /\ Cardinality(T) \in Nat
  BY FS_CardinalityType
<1> QED BY <1>1, <1>2

LEMMA RingHolds ==
    ASSUME NEW q \in Seq(Slots), Once(q), One \notin Slots
    PROVE IsFiniteSet(On(q)) /\ Cardinality(On(q)) = Len(q) /\ On(q) \subseteq Slots
<1> DEFINE f == [i \in 1 .. Len(q) |-> q[i]]
<1>1. Len(q) \in Nat /\ \A i \in 1 .. Len(q) : q[i] \in Slots /\ q[i] # One
  OBVIOUS
<1>2. f \in Bijection(1 .. Len(q), On(q))
  <2>1. f \in [1 .. Len(q) -> On(q)]
    BY DEF On
  <2>2. \A i, j \in 1 .. Len(q) : f[i] = f[j] => i = j
    BY <1>1 DEF Once
  <2>3. \A s \in On(q) : \E i \in 1 .. Len(q) : f[i] = s
    BY DEF On
  <2> QED BY <2>1, <2>2, <2>3 DEF Bijection, Injection, Surjection, IsInjective
<1>3. IsFiniteSet(1 .. Len(q)) /\ Cardinality(1 .. Len(q)) = Len(q)
  <2>1. 1 \in Int /\ Len(q) \in Int
    BY <1>1
  <2>2. /\ IsFiniteSet(1 .. Len(q))
        /\ Cardinality(1 .. Len(q)) = IF 1 > Len(q) THEN 0 ELSE Len(q) - 1 + 1
    BY <2>1, FS_Interval
  <2> QED BY <1>1, <2>2
<1>4. IsFiniteSet(On(q)) /\ Cardinality(On(q)) = Len(q)
  BY <1>2, <1>3, FS_Bijection DEF ExistsBijection
<1> QED BY <1>1, <1>4 DEF On

LEMMA WorkersHold ==
    ASSUME NEW W, IsFiniteSet(W), NEW T, NEW f \in [W -> T], \A x, y \in W : f[x] = f[y] => x = y
    PROVE IsFiniteSet({f[x] : x \in W}) /\ Cardinality({f[x] : x \in W}) = Cardinality(W)
<1> DEFINE R == {f[x] : x \in W}
<1>1. f \in Bijection(W, R)
  <2>1. f \in [W -> R]
    OBVIOUS
  <2>2. \A s \in R : \E x \in W : f[x] = s
    OBVIOUS
  <2> QED BY <2>1, <2>2 DEF Bijection, Injection, Surjection, IsInjective
<1> QED BY <1>1, FS_Bijection DEF ExistsBijection

\* Every ring full and every thread waiting to send.
Stuck == /\ Len(coord) = Cap /\ held # None /\ Len(enc) = Cap /\ Len(met) = Cap
         /\ \A e \in Encoders : epc[e] = "send"
         /\ \A m \in Metrics : mpc[m] \in {"again", "tell"}

\* With the packets the run has, the cycle of the rings cannot fill up: two
\* rings, the workers and tq_coord hold all of them but those in coord or free,
\* of which there is one, in coord or for a message there.
LEMMA NotStuck ==
    ASSUME TqAssumption, PipeInv
    PROVE ~Stuck
<1> SUFFICES ASSUME Stuck PROVE FALSE
  OBVIOUS
<1>1. /\ Cap \in Nat \ {0} /\ One \notin Slots /\ None \notin Slots
      /\ IsFiniteSet(Slots) /\ IsFiniteSet(Encoders) /\ IsFiniteSet(Metrics)
  BY Constants
<1> DEFINE C == {eslot[e] : e \in Encoders}
           D == {mslot[m] : m \in Metrics}
<1>2. /\ IsFiniteSet(On(enc)) /\ Cardinality(On(enc)) = Cap /\ On(enc) \subseteq Slots
      /\ IsFiniteSet(On(met)) /\ Cardinality(On(met)) = Cap /\ On(met) \subseteq Slots
  BY <1>1, RingHolds DEF PipeInv, Types, Apart, Stuck
<1>3. IsFiniteSet(C) /\ Cardinality(C) = Cardinality(Encoders) /\ C \subseteq Slots
  <2>1. eslot \in [Encoders -> Slots \cup {None}] /\ \A e \in Encoders : eslot[e] \in Slots /\ eslot[e] # None
    BY DEF PipeInv, Types, Hands, Stuck
  <2>2. \A e, f \in Encoders : eslot[e] = eslot[f] => e = f
    BY <2>1 DEF PipeInv, Apart
  <2> QED BY <1>1, <2>1, <2>2, WorkersHold
<1>4. IsFiniteSet(D) /\ Cardinality(D) = Cardinality(Metrics) /\ D \subseteq Slots
  <2>1. mslot \in [Metrics -> Slots \cup {None}] /\ \A m \in Metrics : mslot[m] \in Slots /\ mslot[m] # None
    BY DEF PipeInv, Types, Hands, Stuck
  <2>2. \A m, n \in Metrics : mslot[m] = mslot[n] => m = n
    BY <2>1 DEF PipeInv, Apart
  <2> QED BY <1>1, <2>1, <2>2, WorkersHold
<1>5. /\ \A s \in C : s \in Slots /\ Encoding(s)
      /\ \A s \in D : s \in Slots /\ Judged(s)
  BY <1>3, <1>4 DEF Encoding, Judged
<1>6. held \in Slots
  BY DEF PipeInv, Types, Stuck
<1>7. PICK x \in Slots : x \in free \/ x \in On(coord)
  <2>1. coord \in Seq(Slots \cup {One}) /\ 1 \in 1 .. Len(coord)
    <3>1. coord \in Seq(Slots \cup {One}) /\ Len(coord) = Cap
      BY DEF PipeInv, Types, Stuck
    <3> QED BY <1>1, <3>1
  <2>2. CASE coord[1] # One
    BY <2>1, <2>2 DEF On
  <2>3. CASE coord[1] = One
    <3>1. PICK s \in Slots : \/ s \in free
                             \/ \E j \in 2 .. Len(coord) : coord[j] = s
                             \/ \E m \in Metrics : mslot[m] = s /\ mpc[m] \in {"book", "give"}
      <4>1. 1 \in Ones(coord)
        BY <2>1, <2>3 DEF Ones
      <4>2. 1 + 1 .. Len(coord) = 2 .. Len(coord)
        OBVIOUS
      <4> QED BY <4>1, <4>2 DEF PipeInv, Behind
    <3>2. s \in free \/ s \in On(coord)
      BY <2>1, <3>1 DEF On, Stuck
    <3> QED BY <3>2
  <2> QED BY <2>2, <2>3
<1> HIDE DEF C, D
<1> DEFINE U1 == On(enc) \cup On(met)
           U2 == U1 \cup C
           U3 == U2 \cup D
           U4 == U3 \cup {held}
           U5 == U4 \cup {x}
<1>8. /\ On(enc) \cap On(met) = {} /\ U1 \cap C = {} /\ U2 \cap D = {} /\ held \notin U3 /\ x \notin U4
  <2>1. On(enc) \cap On(met) = {}
    BY <1>2 DEF PipeInv, Apart
  <2>2. U1 \cap C = {}
    BY <1>2, <1>5 DEF PipeInv, Apart
  <2>3. U2 \cap D = {}
    BY <1>2, <1>5 DEF PipeInv, Apart
  <2>4. held \notin U3
    BY <1>2, <1>5, <1>6 DEF PipeInv, Apart
  <2>5. x \notin U4
    BY <1>2, <1>5, <1>6, <1>7 DEF PipeInv, Apart
  <2> QED BY <2>1, <2>2, <2>3, <2>4, <2>5
<1>9. IsFiniteSet(U1) /\ Cardinality(U1) = Cap + Cap
  BY <1>2, <1>8, Disjoint
<1>10. IsFiniteSet(U2) /\ Cardinality(U2) = Cap + Cap + Cardinality(Encoders)
  BY <1>3, <1>8, <1>9, Disjoint
<1>11. IsFiniteSet(U3) /\ Cardinality(U3) = Cap + Cap + Cardinality(Encoders) + Cardinality(Metrics)
  BY <1>4, <1>8, <1>10, Disjoint
<1>12. IsFiniteSet(U4) /\ Cardinality(U4) = Cardinality(U3) + 1
  BY <1>8, <1>11, FS_AddElement
<1>13. IsFiniteSet(U5) /\ Cardinality(U5) = Cardinality(U4) + 1
  BY <1>8, <1>12, FS_AddElement
<1>14. U5 \subseteq Slots
  BY <1>2, <1>3, <1>4, <1>6, <1>7
<1>15. Cardinality(U5) <= Cardinality(Slots)
  BY <1>1, <1>14, FS_Subset
<1>16. Cardinality(Slots) <= 2 * Cap + Cardinality(Encoders) + Cardinality(Metrics) + 1
  BY DEF TqAssumption
<1>17. Cardinality(Encoders) \in Nat /\ Cardinality(Metrics) \in Nat /\ Cardinality(Slots) \in Nat
  BY <1>1, FS_CardinalityType
<1> HIDE DEF U5
<1>18. Cardinality(U5) = 2 * Cap + Cardinality(Encoders) + Cardinality(Metrics) + 2
  BY <1>1, <1>11, <1>12, <1>13, <1>17
<1> QED BY <1>1, <1>15, <1>16, <1>17, <1>18

LEMMA PlacedStep ==
    ASSUME TqAssumption, PipeInv, Placed, Next
    PROVE Placed'
<1> USE Constants DEF pool, rings, coordinator, workers, disk
<1>0. /\ coord \in Seq(Slots \cup {One}) /\ enc \in Seq(Slots) /\ met \in Seq(Slots)
      /\ held \in Slots \cup {None} /\ free \subseteq Slots
      /\ eslot \in [Encoders -> Slots \cup {None}] /\ mslot \in [Metrics -> Slots \cup {None}]
  BY DEF PipeInv, Types
<1>b. \A x \in Slots \cup {One} : On(Append(coord, x)) = On(coord) \cup {x}
  <2> DEFINE T == Slots \cup {One}
  <2>1. coord \in Seq(T)
    BY <1>0
  <2> HIDE DEF T
  <2>2. \A x \in T : On(Append(coord, x)) = On(coord) \cup {x}
    BY <2>1, OnAppend
  <2> QED BY <2>2 DEF T
<1>1. CASE UNCHANGED <<free, coord, held, enc, met, eslot, mslot>>
  BY <1>1 DEF Placed, Encoding, Judged
<1>2. CASE Decoded
  <2>1. /\ dpc = "send" /\ free' = free \ {FirstFree} /\ coord' = Append(coord, FirstFree)
        /\ UNCHANGED <<held, enc, met, eslot, mslot>>
    BY <1>2 DEF Decoded
  <2>2. On(coord') = On(coord) \cup {FirstFree}
    <3>1. FirstFree \in Slots \cup {One}
      BY <1>0, <2>1, FirstFreeType
    <3> QED BY <2>1, <3>1, <1>b
  <2> QED BY <2>1, <2>2 DEF Placed, Encoding, Judged
<1>3. CASE CoordRecv
  <2>1. /\ held = None /\ coord # <<>> /\ coord' = Tail(coord)
        /\ IF Head(coord) = One THEN held' = held ELSE held' = Head(coord)
        /\ UNCHANGED <<free, enc, met, eslot, mslot>>
    BY <1>3 DEF CoordRecv
  <2>2. On(coord) = On(coord') \cup {Head(coord)}
    BY <1>0, <2>1, OnTail
  <2> QED BY <2>1, <2>2 DEF Placed, Encoding, Judged
<1>4. CASE CoordSend
  <2>1. held # None /\ enc' = Append(enc, held) /\ UNCHANGED <<free, coord, met, eslot, mslot>>
    BY <1>4 DEF CoordSend
  <2>2. On(enc') = On(enc) \cup {held}
    BY <1>0, <2>1, OnAppend
  <2> QED BY <2>1, <2>2 DEF Placed, Encoding, Judged
<1>5. ASSUME NEW e \in Encoders, Encode(e)
      PROVE Placed'
  <2>1. /\ epc[e] = "recv" /\ enc # <<>> /\ enc' = Tail(enc)
        /\ eslot' = [eslot EXCEPT ![e] = Head(enc)]
        /\ UNCHANGED <<free, coord, held, met, mslot>>
    BY <1>5 DEF Encode
  <2>2. On(enc) = On(enc') \cup {Head(enc)}
    BY <1>0, <2>1, OnTail
  <2>3. eslot[e] = None
    BY <2>1 DEF PipeInv, Hands
  <2>4. \A s \in Slots : Encoding(s) \/ s = Head(enc) => Encoding(s)'
    BY <1>0, <2>1, <2>3 DEF Encoding
  <2> QED BY <2>1, <2>2, <2>4 DEF Placed, Judged
<1>6. ASSUME NEW e \in Encoders, EncSend(e)
      PROVE Placed'
  <2>1. /\ epc[e] = "send" /\ met' = Append(met, eslot[e])
        /\ eslot' = [eslot EXCEPT ![e] = None]
        /\ UNCHANGED <<free, coord, held, enc, mslot>>
    BY <1>6 DEF EncSend
  <2>2. eslot[e] \in Slots
    BY <1>0, <2>1 DEF PipeInv, Hands
  <2>3. On(met') = On(met) \cup {eslot[e]}
    BY <1>0, <2>1, <2>2, OnAppend
  <2>4. \A s \in Slots : Encoding(s) => Encoding(s)' \/ s = eslot[e]
    BY <1>0, <2>1 DEF Encoding
  <2> QED BY <2>1, <2>3, <2>4 DEF Placed, Judged
<1>7. ASSUME NEW m \in Metrics, MetRecv(m)
      PROVE Placed'
  <2>1. /\ mpc[m] = "recv" /\ met # <<>> /\ met' = Tail(met)
        /\ mslot' = [mslot EXCEPT ![m] = Head(met)]
        /\ UNCHANGED <<free, coord, held, enc, eslot>>
    BY <1>7 DEF MetRecv
  <2>2. On(met) = On(met') \cup {Head(met)}
    BY <1>0, <2>1, OnTail
  <2>3. mslot[m] = None
    BY <2>1 DEF PipeInv, Hands
  <2>4. \A s \in Slots : Judged(s) \/ s = Head(met) => Judged(s)'
    BY <1>0, <2>1, <2>3 DEF Judged
  <2> QED BY <2>1, <2>2, <2>4 DEF Placed, Encoding
<1>8. ASSUME NEW m \in Metrics, Again(m)
      PROVE Placed'
  <2>1. /\ mpc[m] = "again" /\ coord' = Append(coord, mslot[m])
        /\ mslot' = [mslot EXCEPT ![m] = None]
        /\ UNCHANGED <<free, held, enc, met, eslot>>
    BY <1>8 DEF Again
  <2>2. mslot[m] \in Slots
    BY <1>0, <2>1 DEF PipeInv, Hands
  <2>3. On(coord') = On(coord) \cup {mslot[m]}
    <3>1. mslot[m] \in Slots \cup {One}
      BY <2>2
    <3> QED BY <2>1, <3>1, <1>b
  <2>4. \A s \in Slots : Judged(s) => Judged(s)' \/ s = mslot[m]
    BY <1>0, <2>1 DEF Judged
  <2> QED BY <2>1, <2>3, <2>4 DEF Placed, Encoding
<1>9. ASSUME NEW m \in Metrics, Tell(m)
      PROVE Placed'
  <2>1. coord' = Append(coord, One) /\ UNCHANGED <<free, held, enc, met, eslot, mslot>>
    BY <1>9 DEF Tell
  <2>2. On(coord') = On(coord) \cup {One}
    <3>1. One \in Slots \cup {One}
      OBVIOUS
    <3> QED BY <2>1, <3>1, <1>b
  <2> QED BY <2>1, <2>2 DEF Placed, Encoding, Judged
<1>10. ASSUME NEW m \in Metrics, Give(m)
       PROVE Placed'
  <2>1. /\ free' = free \cup {mslot[m]} /\ mslot' = [mslot EXCEPT ![m] = None]
        /\ UNCHANGED <<coord, held, enc, met, eslot>>
    BY <1>10 DEF Give
  <2>2. \A s \in Slots : Judged(s) => Judged(s)' \/ s = mslot[m]
    BY <1>0, <2>1 DEF Judged
  <2> QED BY <2>1, <2>2 DEF Placed, Encoding
<1>11. CASE Decoder
  BY <1>1, <1>2, <1>11 DEF Decoder, Acquire, AllDecoded
<1>12. CASE Coordinator
  BY <1>1, <1>3, <1>4, <1>12 DEF Coordinator, CoordClose
<1>13. CASE Main
  BY <1>1, <1>13 DEF Main, JoinCoord, JoinEncoders, JoinMetrics
<1>14. ASSUME NEW e \in Encoders, Encoder(e)
       PROVE Placed'
  BY <1>1, <1>5, <1>6, <1>14 DEF Encoder, EncEof
<1>15. ASSUME NEW m \in Metrics, Metric(m)
       PROVE Placed'
  BY <1>1, <1>7, <1>8, <1>9, <1>10, <1>15 DEF Metric, Score, Book, MetEof
<1> QED BY <1>11, <1>12, <1>13, <1>14, <1>15 DEF Next

LEMMA CarriedStep ==
    ASSUME TqAssumption, PipeInv, Carried, Next
    PROVE Carried'
<1> USE DEF pool, rings, coordinator, workers, disk
<1>0. /\ pkt \in [Slots -> Packet] /\ free \subseteq Slots /\ next \in 1 .. Todo + 1 /\ Todo \in Nat
      /\ mslot \in [Metrics -> Slots \cup {None}]
      /\ mpc \in [Metrics -> {"recv", "score", "again", "tell", "book", "give", "done"}]
  BY Constants DEF PipeInv, Types
<1>1. ASSUME UNCHANGED <<next, free>>, booked \subseteq booked',
             \A s \in Slots : pkt'[s].chunk = pkt[s].chunk,
             \A m \in Metrics : mpc'[m] = "give" =>
                mslot'[m] \in Slots /\ pkt[mslot'[m]].chunk \in booked'
      PROVE Carried'
  <2>2. \A m \in Metrics : mpc'[m] = "give" => pkt'[mslot'[m]].chunk \in booked'
    BY <1>1
  <2>3. \A c \in 1 .. next - 1 : c \in booked' \/ \E s \in Slots \ free : pkt'[s].chunk = c
    BY <1>1 DEF Carried
  <2> QED BY <1>1, <2>2, <2>3 DEF Carried
<1>a. \A m \in Metrics : mpc[m] = "give" => mslot[m] \in Slots /\ pkt[mslot[m]].chunk \in booked
  BY InUse DEF Carried
<1>2. CASE Decoded
  <2>1. PICK s0 \in free : s0 = FirstFree
    BY <1>2, FirstFreeType DEF Decoded
  <2>2. /\ free' = free \ {s0} /\ pkt' = [pkt EXCEPT ![s0] = Set(@, next)]
        /\ next' = next + 1 /\ UNCHANGED <<booked, mpc, mslot>>
    BY <1>2, <2>1 DEF Decoded
  <2>3. pkt'[s0].chunk = next /\ \A s \in Slots \ {s0} : pkt'[s] = pkt[s]
    BY <1>0, <2>1, <2>2 DEF Set, Packet
  <2>4. \A c \in 1 .. next' - 1 : c = next \/ c \in 1 .. next - 1
    BY <1>0, <2>2
  <2>5. \A c \in 1 .. next - 1 : c \in booked' \/ \E s \in Slots \ free' : pkt'[s].chunk = c
    <3> SUFFICES ASSUME NEW c \in 1 .. next - 1, c \notin booked
                 PROVE \E s \in Slots \ free' : pkt'[s].chunk = c
      BY <2>2
    <3>1. PICK s \in Slots \ free : pkt[s].chunk = c
      BY DEF Carried
    <3>2. s \in Slots \ free' /\ pkt'[s].chunk = c
      BY <2>1, <2>2, <2>3, <3>1
    <3> QED BY <3>2
  <2>6. \A c \in 1 .. next' - 1 : c \in booked' \/ \E s \in Slots \ free' : pkt'[s].chunk = c
    <3>1. s0 \in Slots \ free'
      BY <1>0, <2>1, <2>2
    <3> QED BY <2>3, <2>4, <2>5, <3>1
  <2>7. \A m \in Metrics : mpc[m] = "give" => pkt'[mslot[m]] = pkt[mslot[m]]
    BY <2>1, <2>3, InUse
  <2> QED BY <2>2, <2>6, <2>7 DEF Carried
<1>3. ASSUME NEW e \in Encoders, Encode(e)
      PROVE Carried'
  <2>1. PICK s \in Slots : s = Head(enc) /\ s \in On(enc)
    <3>1. enc \in Seq(Slots) /\ enc # <<>>
      BY <1>3 DEF PipeInv, Types, Encode
    <3> QED BY <3>1, OnTail
  <2>2. Ready(pkt[s]) /\ pkt[s] \in Packet
    BY <2>1 DEF PipeInv, Types, Searched
  <2>3. Probed(IF pkt[s].armed THEN pkt[s] ELSE Arm(pkt[s])).chunk = pkt[s].chunk
    BY <2>2, EncodeTurn
  <2>4. /\ pkt' = [pkt EXCEPT ![s] = Probed(IF pkt[s].armed THEN pkt[s] ELSE Arm(pkt[s]))]
        /\ UNCHANGED <<next, free, booked, mpc, mslot>>
    BY <1>3, <2>1 DEF Encode
  <2>5. \A x \in Slots : pkt'[x].chunk = pkt[x].chunk
    BY <1>0, <2>3, <2>4
  <2> QED BY <1>1, <1>a, <2>4, <2>5
<1>4. ASSUME NEW m \in Metrics, Score(m)
      PROVE Carried'
  <2>1. PICK s \in Slots : s = mslot[m]
    BY <1>4, InUse DEF Score
  <2>2. pkt[s] \in Packet /\ Tried(pkt[s]) /\ ~pkt[s].final /\ alt \in BOOLEAN
    BY <1>4, <2>1 DEF PipeInv, Types, Searched, Score
  <2>3. PICK d \in Diffs, ends \in BOOLEAN :
           /\ pkt' = [pkt EXCEPT ![s] = [[Retain(pkt[s], d) EXCEPT !.diffs = Append(@, d)]
                                            EXCEPT !.final = ends /\ alt]]
           /\ mpc' = [mpc EXCEPT ![m] = IF ends /\ ~alt THEN "tell" ELSE "again"]
    BY <1>4, <2>1 DEF Score
  <2>4. [[Retain(pkt[s], d) EXCEPT !.diffs = Append(@, d)] EXCEPT !.final = ends /\ alt].chunk = pkt[s].chunk
    BY <2>2 DEF Retain, Packet
  <2>5. \A x \in Slots : pkt'[x].chunk = pkt[x].chunk
    BY <1>0, <2>3, <2>4
  <2>6. UNCHANGED <<next, free, booked, mslot>>
    BY <1>4 DEF Score
  <2>7. \A n \in Metrics : mpc'[n] = "give" => mpc[n] = "give"
    BY <1>0, <2>3
  <2> QED BY <1>1, <1>a, <2>5, <2>6, <2>7
<1>5. ASSUME NEW m \in Metrics, Book(m)
      PROVE Carried'
  <2>1. /\ mpc[m] = "book" /\ booked' = booked \cup {pkt[mslot[m]].chunk}
        /\ mpc' = [mpc EXCEPT ![m] = "give"] /\ UNCHANGED <<next, free, pkt, mslot>>
    BY <1>5 DEF Book
  <2>2. mslot[m] \in Slots
    BY <2>1, InUse
  <2>3. \A n \in Metrics : mpc'[n] = "give" => n = m \/ mpc[n] = "give"
    BY <1>0, <2>1
  <2>4. \A n \in Metrics : mpc'[n] = "give" => mslot'[n] \in Slots /\ pkt[mslot'[n]].chunk \in booked'
    BY <1>a, <2>1, <2>2, <2>3
  <2> QED BY <1>1, <2>1, <2>4
<1>6. ASSUME NEW m \in Metrics, Give(m)
      PROVE Carried'
  <2>1. /\ mpc[m] = "give" /\ free' = free \cup {mslot[m]}
        /\ mslot' = [mslot EXCEPT ![m] = None] /\ mpc' = [mpc EXCEPT ![m] = "recv"]
        /\ UNCHANGED <<next, pkt, booked>>
    BY <1>6 DEF Give
  <2>2. pkt[mslot[m]].chunk \in booked
    BY <2>1 DEF Carried
  <2>3. \A s \in Slots \ free : s \in Slots \ free' \/ s = mslot[m]
    BY <2>1
  <2>4. \A c \in 1 .. next - 1 : c \in booked \/ \E s \in Slots \ free' : pkt[s].chunk = c
    BY <2>2, <2>3 DEF Carried
  <2>5. \A n \in Metrics : mpc'[n] = "give" => mpc[n] = "give" /\ mslot'[n] = mslot[n]
    BY <1>0, <2>1
  <2>6. \A n \in Metrics : mpc'[n] = "give" => pkt[mslot'[n]].chunk \in booked
    BY <2>5 DEF Carried
  <2> QED BY <2>1, <2>4, <2>6 DEF Carried
<1>7. CASE Decoder
  BY <1>1, <1>a, <1>2, <1>7 DEF Decoder, Acquire, AllDecoded
<1>8. CASE Coordinator
  BY <1>1, <1>a, <1>8 DEF Coordinator, CoordRecv, CoordSend, CoordClose
<1>9. CASE Main
  BY <1>1, <1>a, <1>9 DEF Main, JoinCoord, JoinEncoders, JoinMetrics
<1>10. ASSUME NEW e \in Encoders, Encoder(e)
       PROVE Carried'
  BY <1>1, <1>a, <1>3, <1>10 DEF Encoder, EncSend, EncEof
<1>11. ASSUME NEW m \in Metrics, Metric(m)
       PROVE Carried'
  <2>1. ASSUME MetRecv(m) \/ Again(m) \/ Tell(m) \/ MetEof(m)
        PROVE Carried'
    <3>1. /\ UNCHANGED <<next, free, pkt, booked>>
          /\ \A n \in Metrics : mpc'[n] = "give" => mpc[n] = "give" /\ mslot'[n] = mslot[n]
      BY <1>0, <2>1 DEF MetRecv, Again, Tell, MetEof
    <3> QED BY <1>1, <1>a, <3>1
  <2> QED BY <1>4, <1>5, <1>6, <1>11, <2>1 DEF Metric
<1> QED BY <1>7, <1>8, <1>9, <1>10, <1>11 DEF Next

LEMMA SpareStep ==
    ASSUME TqAssumption, PipeInv, Spare, Next
    PROVE Spare'
<1> USE DEF pool, rings, coordinator, workers, disk
<1>0. /\ free \subseteq Slots /\ IsFiniteSet(free) /\ Cardinality(free) \in Nat /\ permits \in Nat
      /\ next \in Nat /\ frames \in Nat /\ Todo \in Nat /\ frames <= Todo
      /\ mslot \in [Metrics -> Slots \cup {None}]
  <2>1. /\ free \subseteq Slots /\ permits \in Nat /\ next \in 1 .. Todo + 1 /\ frames \in 0 .. Todo
        /\ Todo \in Nat /\ mslot \in [Metrics -> Slots \cup {None}]
    BY Constants DEF PipeInv, Types
  <2>2. IsFiniteSet(free) /\ Cardinality(free) \in Nat
    BY <2>1, Constants, FS_Subset, FS_CardinalityType
  <2> QED BY <2>1, <2>2
<1>1. CASE UNCHANGED <<dpc, permits, free, next, frames>>
  BY <1>1 DEF Spare
<1>2. CASE Acquire
  <2>1. /\ dpc = "acquire" /\ permits > 0 /\ permits' = permits - 1
        /\ dpc' = (IF next <= frames THEN "send" ELSE "done")
        /\ UNCHANGED <<free, next, frames>>
    BY <1>2 DEF Acquire
  <2>2. dpc' = "send" => permits' + 1 = Cardinality(free')
    BY <1>0, <2>1 DEF Spare
  <2>3. dpc' = "done" => next' > frames'
    BY <1>0, <2>1
  <2> QED BY <2>1, <2>2, <2>3 DEF Spare
<1>3. CASE AllDecoded
  <2>1. next > Todo /\ dpc' = "done" /\ UNCHANGED <<next, frames>>
    BY <1>3 DEF AllDecoded
  <2> QED BY <1>0, <2>1 DEF Spare
<1>4. CASE Decoded
  <2>1. /\ dpc = "send" /\ free' = free \ {FirstFree} /\ permits' = permits /\ dpc' = "acquire"
    BY <1>4 DEF Decoded
  <2>2. Cardinality(free') = Cardinality(free) - 1
    BY <1>0, <2>1, FirstFreeType, FS_RemoveElement
  <2>3. permits + 1 = Cardinality(free)
    BY <2>1 DEF Spare
  <2>4. permits' = Cardinality(free')
    BY <1>0, <2>1, <2>2, <2>3
  <2> QED BY <2>1, <2>4 DEF Spare
<1>5. ASSUME NEW m \in Metrics, Give(m)
      PROVE Spare'
  <2>1. /\ mpc[m] = "give" /\ free' = free \cup {mslot[m]} /\ permits' = permits + 1
        /\ UNCHANGED <<dpc, next, frames>>
    BY <1>5 DEF Give
  <2>2. mslot[m] \notin free
    BY <2>1, InUse
  <2>3. Cardinality(free') = Cardinality(free) + 1
    BY <1>0, <2>1, <2>2, FS_AddElement
  <2>4. dpc = "acquire" => permits' = Cardinality(free')
    BY <2>1, <2>3 DEF Spare
  <2>5. dpc = "send" => permits' + 1 = Cardinality(free')
    BY <1>0, <2>1, <2>3 DEF Spare
  <2> QED BY <2>1, <2>4, <2>5 DEF Spare
<1>6. CASE Decoder
  BY <1>2, <1>3, <1>4, <1>6 DEF Decoder
<1>7. CASE Coordinator
  BY <1>1, <1>7 DEF Coordinator, CoordRecv, CoordSend, CoordClose
<1>8. CASE Main
  BY <1>1, <1>8 DEF Main, JoinCoord, JoinEncoders, JoinMetrics
<1>9. ASSUME NEW e \in Encoders, Encoder(e)
      PROVE Spare'
  BY <1>1, <1>9 DEF Encoder, Encode, EncSend, EncEof
<1>10. ASSUME NEW m \in Metrics, Metric(m)
       PROVE Spare'
  BY <1>1, <1>5, <1>10 DEF Metric, MetRecv, Score, Again, Tell, Book, MetEof
<1> QED BY <1>6, <1>7, <1>8, <1>9, <1>10 DEF Next

LEMMA EndingStep ==
    ASSUME TqAssumption, PipeInv, Ending, Next
    PROVE Ending'
<1> USE DEF pool, rings, coordinator, workers, disk
<1>0. /\ epc \in [Encoders -> {"recv", "send", "done"}]
      /\ mpc \in [Metrics -> {"recv", "score", "again", "tell", "book", "give", "done"}]
  BY DEF PipeInv, Types
<1>1. ASSUME closed \subseteq closed', "met" \in closed' <=> main' \in {"join metrics", "log written"},
             \A e \in Encoders : epc'[e] = "done" => epc[e] = "done",
             \A m \in Metrics : mpc'[m] = "done" => mpc[m] = "done"
      PROVE Ending'
  BY <1>1 DEF Ending
<1>2. CASE Decoder \/ CoordRecv \/ CoordSend
  <2>1. UNCHANGED <<closed, epc, mpc, main>>
    BY <1>2 DEF Decoder, Acquire, Decoded, AllDecoded, CoordRecv, CoordSend
  <2> QED BY <2>1 DEF Ending
<1>3. CASE CoordClose
  BY <1>1, <1>3 DEF CoordClose, Ending
<1>4. CASE Main
  <2>1. /\ closed \subseteq closed' /\ UNCHANGED <<epc, mpc>>
        /\ "met" \in closed' <=> main' \in {"join metrics", "log written"}
    BY <1>4 DEF Main, MStep, JoinCoord, JoinEncoders, JoinMetrics, Ending
  <2> QED BY <1>1, <2>1
<1>5. ASSUME NEW e \in Encoders, Encoder(e)
      PROVE Ending'
  <2>1. /\ UNCHANGED <<closed, mpc, main>>
        /\ \A f \in Encoders : epc'[f] = "done" => epc[f] = "done" \/ "enc" \in closed
    BY <1>0, <1>5 DEF Encoder, Encode, EncSend, EncEof
  <2> QED BY <2>1 DEF Ending
<1>6. ASSUME NEW m \in Metrics, Metric(m)
      PROVE Ending'
  <2>1. UNCHANGED <<closed, epc, main>>
    BY <1>6 DEF Metric, MetRecv, Score, Again, Tell, Book, Give, MetEof
  <2>2. \A n \in Metrics : mpc'[n] = "done" => mpc[n] = "done" \/ "met" \in closed
    BY <1>0, <1>6 DEF Metric, MetRecv, Score, Again, Tell, Book, Give, MetEof
  <2> QED BY <2>1, <2>2 DEF Ending
<1> QED BY <1>2, <1>3, <1>4, <1>5, <1>6 DEF Next, Coordinator

\* All told, packets are with the metric workers that book them, or free.
LEMMA AllTold ==
    ASSUME TqAssumption, PipeInv, counted = Todo
    PROVE /\ coord = <<>> /\ enc = <<>> /\ met = <<>> /\ held = None
          /\ \A e \in Encoders : epc[e] # "send"
          /\ \A m \in Metrics : mpc[m] \in {"book", "give", "recv", "done"}
<1>1. /\ coord \in Seq(Slots \cup {One}) /\ enc \in Seq(Slots) /\ met \in Seq(Slots) /\ One \notin Slots
      /\ held \in Slots \cup {None} /\ Todo \in Nat
      /\ eslot \in [Encoders -> Slots \cup {None}] /\ mslot \in [Metrics -> Slots \cup {None}]
      /\ mpc \in [Metrics -> {"recv", "score", "again", "tell", "book", "give", "done"}]
  BY Constants DEF PipeInv, Types
<1>2. IsFiniteSet(Ones(coord)) /\ Cardinality(Ones(coord)) \in Nat
  <2>1. One \in Slots \cup {One}
    OBVIOUS
  <2> QED BY <1>1, <2>1, OnesAppend
<1>3. Cardinality(Told) = Todo
  <2>1. Cardinality(Told) <= Todo /\ Cardinality(Told) \in Nat
    BY ToldType, FS_Subset
  <2>2. Todo + Cardinality(Ones(coord)) = Cardinality(Told)
    BY DEF PipeInv, Counting
  <2> QED BY <1>1, <1>2, <2>1, <2>2, NoMore
<1>4. Told = Chunks
  BY <1>3, ToldType, FS_Subset
<1>5. Ones(coord) = {}
  <2>1. Todo + Cardinality(Ones(coord)) = Todo
    BY <1>3 DEF PipeInv, Counting
  <2>2. Cardinality(Ones(coord)) = 0
    BY <1>1, <1>2, <2>1
  <2> QED BY <1>2, <2>2, FS_EmptySet
<1>6. \A s \in Slots \ free : \E m \in Metrics : mslot[m] = s /\ mpc[m] \in {"book", "give"}
  <2> SUFFICES ASSUME NEW s \in Slots \ free
               PROVE \E m \in Metrics : mslot[m] = s /\ mpc[m] \in {"book", "give"}
    OBVIOUS
  <2>1. pkt[s].chunk \in Told
    BY <1>4, InUse
  <2>2. CASE pkt[s].chunk \in booked
    BY <2>2 DEF PipeInv, Chunked
  <2>3. ASSUME NEW m \in Booking, pkt[mslot[m]].chunk = pkt[s].chunk
        PROVE mslot[m] = s /\ mpc[m] = "book"
    <3>1. mpc[m] = "book" /\ mslot[m] \in Slots \ free
      BY InUse DEF Booking
    <3> QED BY <2>3, <3>1 DEF PipeInv, Chunked
  <2> QED BY <2>1, <2>2, <2>3 DEF Told, Booking
<1>7. \A s \in Slots : s \notin On(coord) /\ held # s /\ s \notin On(enc) /\ ~Encoding(s) /\ s \notin On(met)
  BY <1>6 DEF PipeInv, Apart, Judged
<1>8. coord = <<>>
  <2> SUFFICES ASSUME coord # <<>> PROVE FALSE
    OBVIOUS
  <2>1. 1 \in 1 .. Len(coord) /\ coord[1] \in Slots \cup {One}
    BY <1>1
  <2> QED BY <1>5, <1>7, <2>1 DEF Ones, On
<1>9. ASSUME NEW q \in Seq(Slots), q # <<>>
      PROVE 1 \in 1 .. Len(q) /\ q[1] \in Slots
  <2>1. Len(q) \in Nat \ {0}
    BY <1>9
  <2> QED BY <1>9, <2>1
<1>10. enc = <<>> /\ met = <<>>
  BY <1>1, <1>7, <1>9 DEF On
<1>11. \A e \in Encoders : epc[e] # "send"
  BY <1>1, <1>7 DEF PipeInv, Hands, Encoding
<1>12. \A m \in Metrics : mpc[m] \in {"book", "give", "recv", "done"}
  <2> SUFFICES ASSUME NEW m \in Metrics, mpc[m] \notin {"recv", "done"}
               PROVE mpc[m] \in {"book", "give"}
    BY <1>1
  <2>1. mslot[m] \in Slots \ free /\ mslot[m] # None
    BY InUse, Constants
  <2>2. PICK n \in Metrics : mslot[n] = mslot[m] /\ mpc[n] \in {"book", "give"}
    BY <1>6, <2>1
  <2>3. n = m
    BY <2>1, <2>2 DEF PipeInv, Apart
  <2> QED BY <2>2, <2>3
<1> QED BY <1>1, <1>7, <1>8, <1>10, <1>11, <1>12

\* When no thread can go on nothing is on its way,
LEMMA Drained ==
    ASSUME TqAssumption, Encoders # {}, Metrics # {}, MoveInv, ~CanMove
    PROVE /\ coord = <<>> /\ enc = <<>> /\ met = <<>> /\ held = None
          /\ \A e \in Encoders : epc[e] # "send"
          /\ \A m \in Metrics : mpc[m] \in {"recv", "done"}
<1>1. PipeInv /\ Ending
  BY DEF MoveInv
<1>2. /\ coord \in Seq(Slots \cup {One}) /\ enc \in Seq(Slots) /\ met \in Seq(Slots)
      /\ held \in Slots \cup {None} /\ Todo \in Nat /\ Cap \in Nat \ {0} /\ counted \in 0 .. Todo
      /\ Len(coord) <= Cap /\ Len(enc) <= Cap /\ Len(met) <= Cap
      /\ epc \in [Encoders -> {"recv", "send", "done"}]
      /\ mpc \in [Metrics -> {"recv", "score", "again", "tell", "book", "give", "done"}]
  BY <1>1, Constants DEF PipeInv, Types
<1>3. \A m \in Metrics : mpc[m] \in {"recv", "again", "tell", "done"}
  BY <1>2 DEF CanMove, Measures
<1>4. CASE counted = Todo
  BY <1>1, <1>3, <1>4, AllTold
<1>5. CASE counted # Todo
  <2>1. "enc" \notin closed /\ "met" \notin closed
    BY <1>1, <1>5 DEF PipeInv, Closing, Ending
  <2>2. /\ \A e \in Encoders : epc[e] \in {"recv", "send"}
        /\ \A m \in Metrics : mpc[m] \in {"recv", "again", "tell"}
    BY <1>1, <1>2, <1>3, <2>1 DEF Ending
  <2>3. counted < Todo
    BY <1>2, <1>5
  <2>4. /\ Len(coord) \in Nat /\ Len(enc) \in Nat /\ Len(met) \in Nat
        /\ Len(enc) = Cap => enc # <<>>
        /\ Len(met) = Cap => met # <<>>
        /\ coord = <<>> => Len(coord) < Cap
        /\ met = <<>> => Len(met) < Cap
    BY <1>2
  <2>5. held = None
    <3> SUFFICES ASSUME held # None PROVE FALSE
      OBVIOUS
    <3>1. ~(Len(enc) < Cap)
      BY DEF CanMove, Coordinates
    <3>2. Len(enc) = Cap
      BY <1>2, <2>4, <3>1
    <3>3. \A e \in Encoders : epc[e] = "send" /\ ~(Len(met) < Cap)
      BY <2>2, <2>4, <3>2 DEF CanMove, Encodes
    <3>4. Len(met) = Cap
      BY <1>2, <2>4, <3>3
    <3>5. \A m \in Metrics : mpc[m] \in {"again", "tell"} /\ ~(Len(coord) < Cap)
      BY <2>2, <2>4, <3>4 DEF CanMove, Measures
    <3>6. Len(coord) = Cap
      BY <1>2, <2>4, <3>5
    <3>7. Stuck
      BY <3>2, <3>3, <3>4, <3>5, <3>6 DEF Stuck
    <3> QED BY <1>1, <3>7, NotStuck
  <2>6. coord = <<>>
    BY <2>3, <2>5 DEF CanMove, Coordinates
  <2>7. \A m \in Metrics : mpc[m] = "recv" /\ met = <<>>
    BY <2>2, <2>4, <2>6 DEF CanMove, Measures
  <2>8. \A e \in Encoders : epc[e] = "recv" /\ enc = <<>>
    BY <2>2, <2>4, <2>7 DEF CanMove, Encodes
  <2> QED BY <2>5, <2>6, <2>7, <2>8
<1> QED BY <1>4, <1>5

\* and everything is done.
LEMMA StillsDone ==
    ASSUME TqAssumption, Slots # {}, Encoders # {}, Metrics # {}, MoveInv, ~CanMove
    PROVE Done
<1>1. PipeInv /\ Placed /\ Carried /\ Spare /\ Ending
  BY DEF MoveInv
<1>2. /\ coord = <<>> /\ enc = <<>> /\ met = <<>> /\ held = None
      /\ \A e \in Encoders : epc[e] # "send"
      /\ \A m \in Metrics : mpc[m] \in {"recv", "done"}
  BY Drained
<1>3. /\ frames \in 0 .. Todo /\ next \in 1 .. Todo + 1 /\ Todo \in Nat /\ Cap \in Nat \ {0}
      /\ dpc \in {"acquire", "send", "done"} /\ None \notin Slots /\ IsFiniteSet(Slots)
      /\ free \subseteq Slots /\ booked \subseteq Chunks /\ permits \in Nat /\ counted \in 0 .. Todo
      /\ epc \in [Encoders -> {"recv", "send", "done"}]
      /\ main \in {"join coord", "join encoders", "join metrics", "log written"}
  BY <1>1, Constants DEF PipeInv, Types
<1>n. /\ frames \in Nat /\ next \in Nat /\ Todo \in Nat /\ counted \in Nat /\ Cap \in Nat /\ Cap > 0
      /\ permits \in Nat
  <2>1. /\ frames \in 0 .. Todo /\ next \in 1 .. Todo + 1 /\ counted \in 0 .. Todo /\ permits \in Nat
    BY <1>3
  <2>2. Todo \in Nat /\ Cap \in Nat \ {0}
    BY Constants
  <2> QED BY <2>1, <2>2
<1>4. free = Slots
  <2> SUFFICES ASSUME NEW s \in Slots PROVE s \in free
    BY <1>3
  <2>1. ~Encoding(s) /\ ~Judged(s)
    BY <1>1, <1>2, <1>3 DEF PipeInv, Hands, Encoding, Judged
  <2>2. s \notin On(coord) /\ s \notin On(enc) /\ s \notin On(met) /\ held # s
    BY <1>2, <1>3, OnEmpty
  <2> QED BY <1>1, <2>1, <2>2 DEF Placed
<1>5. dpc = "done"
  <2>1. Cardinality(free) \in Nat /\ Cardinality(free) # 0
    BY <1>3, <1>4, FS_EmptySet, FS_CardinalityType
  <2>2. dpc # "acquire"
    <3>1. dpc = "acquire" => permits = Cardinality(free)
      BY <1>1 DEF Spare
    <3>2. dpc = "acquire" => permits > 0
      BY <2>1, <3>1
    <3> QED BY <3>2 DEF CanMove, Decodes
  <2>3. dpc # "send"
    <3>1. Len(coord) < Cap
      <4>1. Len(coord) = 0
        BY <1>2
      <4> QED BY <1>n, <4>1
    <3> QED BY <3>1 DEF CanMove, Decodes
  <2> QED BY <1>3, <2>2, <2>3
<1>6. 1 .. frames \subseteq booked
  <2>1. 1 .. frames \subseteq 1 .. next - 1
    <3>1. next > frames
      BY <1>1, <1>5 DEF Spare
    <3>2. frames \in Int /\ next - 1 \in Int /\ frames <= next - 1
      BY <1>n, <3>1
    <3> QED BY <3>2
  <2>2. \A c \in 1 .. next - 1 : c \in booked
    BY <1>1, <1>4 DEF Carried
  <2> QED BY <2>1, <2>2
<1>7. ASSUME frames = Todo
      PROVE main = "log written"
  <2>1. booked = Chunks
    BY <1>3, <1>6, <1>7 DEF Chunks
  <2>2. counted = Todo
    <3>1. Booking = {}
      BY <1>2 DEF Booking
    <3>2. Told = Chunks
      BY <2>1, <3>1 DEF Told
    <3>3. Ones(coord) = {} /\ Cardinality(Ones(coord)) = 0
      <4>1. Ones(coord) = {}
        BY <1>2 DEF Ones
      <4> QED BY <4>1, FS_EmptySet
    <3>4. counted + 0 = Todo
      BY <1>1, <3>2, <3>3, ToldType DEF PipeInv, Counting
    <3> QED BY <1>n, <3>4
  <2>3. "enc" \in closed
    BY <2>2 DEF CanMove, Coordinates
  <2>4. \A e \in Encoders : epc[e] = "done"
    BY <1>2, <1>3, <2>3 DEF CanMove, Encodes
  <2>5. main \notin {"join coord", "join encoders"}
    BY <1>5, <2>3, <2>4 DEF CanMove, Joins
  <2>6. main = "join metrics" => Joined
    <3> SUFFICES ASSUME main = "join metrics", NEW m \in Metrics PROVE mpc[m] = "done"
      BY DEF Joined
    <3>1. "met" \in closed
      BY <1>1 DEF Ending
    <3> QED BY <1>2, <3>1 DEF CanMove, Measures
  <2> QED BY <1>3, <2>5, <2>6 DEF CanMove, Joins
<1> QED BY <1>6, <1>7 DEF Done

LEMMA MoveInit == ASSUME TqAssumption, Init PROVE MoveInv
<1>1. PipeInv
  BY InitPipe
<1>2. Placed /\ Ending
  BY DEF Init, Placed, Ending
<1>3. next = 1 /\ booked = {} /\ dpc = "acquire" /\ permits = Cardinality(free) /\ \A m \in Metrics : mpc[m] = "recv"
  BY DEF Init
<1>4. Carried
  <2>1. 1 .. next - 1 = {}
    BY <1>3
  <2> QED BY <1>3, <2>1 DEF Carried
<1>5. Spare
  BY <1>3 DEF Spare
<1> QED BY <1>1, <1>2, <1>4, <1>5 DEF MoveInv

LEMMA MoveStep == ASSUME TqAssumption, MoveInv, [Next]_vars PROVE MoveInv'
<1>1. PipeInv'
  BY PipeStep DEF MoveInv
<1>2. CASE Next
  BY <1>1, <1>2, PlacedStep, CarriedStep, SpareStep, EndingStep DEF MoveInv
<1>3. CASE UNCHANGED vars
  <2>1. UNCHANGED <<frames, next, dpc, permits, free, coord, enc, met, closed, held, pkt,
                    epc, eslot, mpc, mslot, booked, main>>
    BY <1>3 DEF vars, pool, rings, coordinator, workers, disk
  <2>2. Placed' /\ Ending'
    BY <2>1 DEF MoveInv, Placed, Encoding, Judged, Ending
  <2>3. Carried' /\ Spare'
    BY <2>1 DEF MoveInv, Carried, Spare
  <2> QED BY <1>1, <2>2, <2>3 DEF MoveInv
<1> QED BY <1>2, <1>3

\* Nobody waits on everybody: while there is something to do, some thread can
\* go on.  With -P or without, whatever the searches do and in whatever order
\* the threads run, for any number of packets up to the bound of TqAssumption.
NobodyWaitsOnAll == Done \/ CanMove

\* In every reachable state some thread of the pipeline has a step to take,
\* unless all of them have ended.
THEOREM SomebodyMoves ==
    ASSUME TqAssumption, Slots # {}, Encoders # {}, Metrics # {}
    PROVE Spec => []NobodyWaitsOnAll
<1>1. Init => MoveInv
  BY MoveInit
<1>2. MoveInv /\ [Next]_vars => MoveInv'
  BY MoveStep
<1>3. MoveInv => NobodyWaitsOnAll
  BY StillsDone DEF NobodyWaitsOnAll
<1> QED BY <1>1, <1>2, <1>3, PTL DEF Spec
=============================================================================
