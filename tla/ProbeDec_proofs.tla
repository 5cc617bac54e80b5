--------------------------- MODULE ProbeDec_proofs ---------------------------
(***************************************************************************)
(* What holds of a metric worker's decoder and of its picture pool, for    *)
(* any number of probes, frames, buffers, references and threads that      *)
(* give buffers back, under ProbeDecAssumption.                            *)
(*                                                                         *)
(* The invariant has two halves.  Pictures and Turns follow a probe: what  *)
(* is held back are the pictures opened and not yet taken, in order, each  *)
(* in the buffer it was decoded into, and in each state of the worker      *)
(* there is something left to give out.  Placed follows the buffers: there *)
(* are two paths through the first words of the free ones, from local and  *)
(* from shared, and these, the buffers in use and those on their way back  *)
(* are apart and all there are.  A thread that gives a buffer back writes  *)
(* only into the one it brings, which is on no path, so a compare-and-swap *)
(* that fails, or succeeds on a head that left and came back, is harmless. *)
(***************************************************************************)
EXTENDS ProbeDec, FiniteSetTheorems, FunctionTheorems, WellFoundedInduction, TLAPS

Pic == [probe : Nat, frame : Nat, buf : Bufs \cup {Null}]

DecTypes ==
    /\ kind \in Kinds /\ probe \in Nat /\ frames \in Nat /\ fed \in Nat /\ got \in Nat
    /\ got <= fed /\ fed <= frames
    /\ mpc \in {"load", "unref all", "unref", "drain", "pull", "show"}
    /\ status \in {"new", "data", "asked", "run", "flush", "eof"}
PicTypes == queue \in Seq(Pic) /\ cur \in Pic /\ dpb \subseteq Bufs /\ data \in [Bufs -> Pic]
ListTypes ==
    /\ shared \in Bufs \cup {Null} /\ local \in Bufs \cup {Null} /\ made \in 0 .. MaxBufs
    /\ next \in [Bufs -> 0 .. MaxBufs + 1]
GiverTypes ==
    /\ tpc \in [Threads -> {"idle", "load", "cas"}]
    /\ base \in [Threads -> Bufs \cup {Null}] /\ head \in [Threads -> Bufs \cup {Null}]
    /\ \A t \in Threads : tpc[t] # "idle" => base[t] # Null
ProbeTypes == DecTypes /\ PicTypes /\ ListTypes /\ GiverTypes

\* A picture is in the buffer it was decoded into.
Stored(p) == p.buf # Null => data[p.buf] = p

HeldBack ==
    /\ Len(queue) = fed - got
    /\ \A i \in 1 .. Len(queue) :
        queue[i].probe = probe /\ queue[i].frame = got + i /\ Stored(queue[i])
GivenOut ==
    /\ Stored(cur) /\ cur.probe <= probe
    /\ cur.probe = probe => cur.frame <= got
    /\ mpc = "show" => cur.probe = probe /\ cur.frame = got
    /\ mpc \in {"drain", "pull"} => cur = NoPic
Pictures == HeldBack /\ GivenOut

\* The pictures dav1d keeps back, once it does.
Room == IF low \/ Delay = 1 THEN 0 ELSE Delay

\* Where the worker is, and what the decoder was asked.
Worked ==
    /\ mpc = "load" => got = frames
    /\ mpc # "load" => probe > 0
    /\ mpc \in {"unref all", "drain"} => fed = 0 /\ got = 0
    /\ mpc \in {"unref all", "drain", "unref", "pull"} => got < frames
Asked == kind = "dav1d" => /\ frames > 0 => Room < frames
                           /\ status = "data" => got = 0 /\ fed <= Room
Flushed == kind = "vvdec" => /\ status = "flush" => mpc \in {"unref all", "drain"} \/ fed = frames
                             /\ probe = 0 => status = "new"
Turns == Worked /\ Asked /\ Flushed

\* The free buffers from h on, each linked to the one behind it.
Elems(s) == {s[i] : i \in 1 .. Len(s)}
Path(h, s, link) ==
    /\ s \in Seq(Bufs)
    /\ \A i, k \in 1 .. Len(s) : s[i] = s[k] => i = k
    /\ s = <<>> => h = Null
    /\ s # <<>> => h = s[1] /\ link[s[Len(s)]] = Null
    /\ \A i \in 1 .. Len(s) : i < Len(s) => link[s[i]] = s[i + 1]

Used == (Held \cup dpb) \ {Null}
Busy == {t \in Threads : tpc[t] # "idle"}
Coming == {base[t] : t \in Busy}

Apart(A, B, C, D) ==
    /\ A \cap B = {} /\ A \cap C = {} /\ A \cap D = {}
    /\ B \cap C = {} /\ B \cap D = {} /\ C \cap D = {}
    /\ A \cup B \cup C \cup D = 1 .. made

Bring == \A t, u \in Busy : base[t] = base[u] => t = u

Placed(L, S) == /\ Path(local, L, next) /\ Path(shared, S, next)
                /\ Apart(Used, Coming, Elems(L), Elems(S))

Pool == Bring /\ \E L, S \in Seq(Bufs) : Placed(L, S)

ProbeInv == ProbeTypes /\ Pictures /\ Turns /\ Pool

----------------------------------------------------------------------------
\* What the paths do as words are written.

LEMMA PathKeeps ==
    ASSUME NEW h, NEW s, NEW link, NEW new, Path(h, s, link),
           \A b \in Elems(s) : new[b] = link[b]
    PROVE Path(h, s, new)
<1>1. \A i \in 1 .. Len(s) : new[s[i]] = link[s[i]]
  BY DEF Elems
<1>2. s # <<>> => Len(s) \in 1 .. Len(s)
  BY DEF Path
<1> QED BY <1>1, <1>2 DEF Path

LEMMA PathEmpty == ASSUME NEW link PROVE Path(Null, <<>>, link) /\ Elems(<<>>) = {}
  BY DEF Path, Elems

LEMMA EmptyLen == ASSUME NEW s \in Seq(Bufs) PROVE Len(s) = 0 <=> s = <<>>
  OBVIOUS

LEMMA PathPop ==
    ASSUME NEW h, NEW s, NEW link, Path(h, s, link), h # Null
    PROVE /\ s # <<>> /\ h \in Elems(s)
          /\ Path(link[h], Tail(s), link) /\ Elems(Tail(s)) = Elems(s) \ {h}
<1>1. s # <<>> /\ s \in Seq(Bufs) /\ h = s[1]
  BY DEF Path
<1>2. Tail(s) \in Seq(Bufs) /\ Len(Tail(s)) = Len(s) - 1
      /\ (\A i \in 1 .. Len(s) - 1 : Tail(s)[i] = s[i + 1])
  BY <1>1
<1>3. PICK n \in Nat : n = Len(s) /\ n >= 1
  BY <1>1
<1>4. Elems(Tail(s)) = Elems(s) \ {h}
  <2>1. ASSUME NEW b \in Elems(Tail(s)) PROVE b \in Elems(s) \ {h}
    <3>1. PICK i \in 1 .. Len(s) - 1 : b = s[i + 1]
      BY <1>2 DEF Elems
    <3>2. i + 1 \in 1 .. Len(s) /\ 1 \in 1 .. Len(s) /\ i + 1 # 1
      BY <1>3
    <3> QED BY <1>1, <3>1, <3>2 DEF Path, Elems
  <2>2. ASSUME NEW b \in Elems(s), b # h PROVE b \in Elems(Tail(s))
    <3>1. PICK i \in 1 .. Len(s) : b = s[i]
      BY DEF Elems
    <3>2. i # 1
      BY <1>1, <2>2, <3>1
    <3>3. i - 1 \in 1 .. Len(s) - 1 /\ (i - 1) + 1 = i
      BY <1>3, <3>2
    <3>4. Tail(s)[i - 1] = s[i]
      BY <1>2, <3>3
    <3> QED BY <1>2, <3>1, <3>3, <3>4 DEF Elems
  <2> QED BY <2>1, <2>2
<1>5. Path(link[h], Tail(s), link)
  <2>1. \A i, k \in 1 .. Len(Tail(s)) : Tail(s)[i] = Tail(s)[k] => i = k
    <3> SUFFICES ASSUME NEW i \in 1 .. Len(Tail(s)), NEW k \in 1 .. Len(Tail(s)),
                        Tail(s)[i] = Tail(s)[k]
                 PROVE i = k
      OBVIOUS
    <3>1. s[i + 1] = s[k + 1] /\ i + 1 \in 1 .. Len(s) /\ k + 1 \in 1 .. Len(s)
      BY <1>2, <1>3
    <3> QED BY <3>1 DEF Path
  <2>2. CASE n = 1
    <3>1. Tail(s) = <<>> /\ link[h] = Null
      <4>1. Len(Tail(s)) = 0 /\ s[Len(s)] = h
        BY <1>1, <1>2, <1>3, <2>2
      <4> QED BY <1>1, <1>2, <4>1, EmptyLen DEF Path
    <3> QED BY <3>1, PathEmpty
  <2>3. CASE n > 1
    <3>1. link[h] = s[2] /\ Tail(s)[1] = s[2]
      BY <1>1, <1>2, <1>3, <2>3 DEF Path
    <3>2. Tail(s) # <<>> /\ Tail(s)[Len(Tail(s))] = s[Len(s)]
      <4>1. Len(Tail(s)) = n - 1 /\ n - 1 \in 1 .. Len(s) - 1 /\ (n - 1) + 1 = n
        BY <1>2, <1>3, <2>3
      <4>2. Tail(s) # <<>>
        <5>1. Len(Tail(s)) # 0
          BY <2>3, <4>1
        <5> QED BY <1>2, <5>1, EmptyLen
      <4> QED BY <1>2, <1>3, <4>1, <4>2
    <3>3. ASSUME NEW i \in 1 .. Len(Tail(s)), i < Len(Tail(s))
          PROVE link[Tail(s)[i]] = Tail(s)[i + 1]
      <4>1. i + 1 \in 1 .. Len(s) /\ i + 1 < Len(s) /\ i \in 1 .. Len(s) - 1
            /\ i + 1 \in 1 .. Len(s) - 1
        BY <1>2, <1>3, <3>3
      <4>2. Tail(s)[i] = s[i + 1] /\ Tail(s)[i + 1] = s[(i + 1) + 1]
        BY <1>2, <4>1
      <4>3. link[s[i + 1]] = s[(i + 1) + 1]
        BY <4>1 DEF Path
      <4> QED BY <4>2, <4>3
    <3> QED BY <1>1, <1>2, <2>1, <3>1, <3>2, <3>3 DEF Path
  <2> QED BY <1>3, <2>2, <2>3
<1>6. h \in Elems(s)
  <2>1. 1 \in 1 .. Len(s)
    BY <1>3
  <2> QED BY <1>1, <2>1 DEF Elems
<1> QED BY <1>1, <1>4, <1>5, <1>6

LEMMA PathPush ==
    ASSUME NEW h, NEW s, NEW link, NEW b \in Bufs, Path(h, s, link), b \notin Elems(s),
           link[b] = h
    PROVE \E p \in Seq(Bufs) : Path(b, p, link) /\ Elems(p) = Elems(s) \cup {b}
<1> DEFINE p == <<b>> \o s
<1>1. s \in Seq(Bufs) /\ Len(s) \in Nat
  BY DEF Path
<1>2. p \in Seq(Bufs) /\ Len(p) = Len(s) + 1 /\ p[1] = b
      /\ (\A i \in 1 .. Len(s) : p[i + 1] = s[i])
  BY <1>1
<1> HIDE DEF p
<1>3. \A i \in 1 .. Len(p) : i = 1 \/ (i - 1 \in 1 .. Len(s) /\ p[i] = s[i - 1])
  <2> SUFFICES ASSUME NEW i \in 1 .. Len(p), i # 1 PROVE i - 1 \in 1 .. Len(s) /\ p[i] = s[i - 1]
    OBVIOUS
  <2>1. i - 1 \in 1 .. Len(s) /\ (i - 1) + 1 = i
    BY <1>1, <1>2
  <2> QED BY <1>2, <2>1
<1>4. Elems(p) = Elems(s) \cup {b}
  <2>1. ASSUME NEW c \in Elems(p) PROVE c \in Elems(s) \cup {b}
    BY <1>2, <1>3 DEF Elems
  <2>2. ASSUME NEW c \in Elems(s) PROVE c \in Elems(p)
    <3>1. PICK i \in 1 .. Len(s) : c = s[i]
      BY DEF Elems
    <3>2. i + 1 \in 1 .. Len(p) /\ p[i + 1] = c
      BY <1>1, <1>2, <3>1
    <3> QED BY <3>2 DEF Elems
  <2>3. b \in Elems(p)
    BY <1>1, <1>2 DEF Elems
  <2> QED BY <2>1, <2>2, <2>3
<1>5. \A i, k \in 1 .. Len(p) : p[i] = p[k] => i = k
  <2> SUFFICES ASSUME NEW i \in 1 .. Len(p), NEW k \in 1 .. Len(p), p[i] = p[k] PROVE i = k
    OBVIOUS
  <2>1. \A j \in 1 .. Len(s) : s[j] # b
    BY DEF Elems
  <2>2. (i = 1) <=> (k = 1)
    BY <1>2, <1>3, <2>1
  <2>3. CASE i # 1
    <3>1. i - 1 \in 1 .. Len(s) /\ k - 1 \in 1 .. Len(s) /\ s[i - 1] = s[k - 1]
      BY <1>3, <2>2, <2>3
    <3>2. i - 1 = k - 1
      BY <3>1 DEF Path
    <3> QED BY <3>2
  <2> QED BY <2>2, <2>3
<1>6. link[p[Len(p)]] = Null
  <2>1. CASE s = <<>>
    BY <1>2, <2>1 DEF Path
  <2>2. CASE s # <<>>
    <3>1. Len(s) \in 1 .. Len(s)
      BY <1>1, <2>2
    <3>2. p[Len(p)] = s[Len(s)]
      BY <1>2, <3>1
    <3> QED BY <2>2, <3>2 DEF Path
  <2> QED BY <2>1, <2>2
<1>7. ASSUME NEW i \in 1 .. Len(p), i < Len(p)
      PROVE link[p[i]] = p[i + 1]
  <2>1. CASE i = 1
    <3>1. s # <<>> /\ 1 \in 1 .. Len(s)
      BY <1>1, <1>2, <1>7, <2>1
    <3>2. p[2] = s[1]
      BY <1>2, <3>1
    <3> QED BY <1>2, <2>1, <3>1, <3>2 DEF Path
  <2>2. CASE i # 1
    <3>1. i - 1 \in 1 .. Len(s) /\ i \in 1 .. Len(s) /\ i - 1 < Len(s) /\ (i - 1) + 1 = i
      BY <1>1, <1>2, <1>7, <2>2
    <3>2. p[i] = s[i - 1] /\ p[i + 1] = s[i]
      BY <1>2, <1>3, <2>2, <3>1
    <3>3. link[s[i - 1]] = s[i]
      BY <3>1 DEF Path
    <3> QED BY <3>2, <3>3
  <2> QED BY <2>1, <2>2
<1>8. Path(b, p, link)
  BY <1>1, <1>2, <1>5, <1>6, <1>7 DEF Path
<1> QED BY <1>2, <1>4, <1>8

----------------------------------------------------------------------------
\* The pool.

LEMMA Constants ==
    ASSUME ProbeDecAssumption
    PROVE /\ MaxBufs \in Nat /\ MaxBufs > 0 /\ Delay \in Nat /\ Delay > 0
          /\ MaxFrames \in Nat /\ MaxFrames > 0
          /\ 0 \in Threads /\ Releasers \subseteq Threads
  BY DEF ProbeDecAssumption, Threads

LEMMA Numbers ==
    ASSUME ProbeTypes
    PROVE /\ probe \in Nat /\ frames \in Nat /\ fed \in Nat /\ got \in Nat
          /\ got <= fed /\ fed <= frames
  BY DEF ProbeTypes, DecTypes

LEMMA NextTyped ==
    ASSUME ProbeDecAssumption, ProbeTypes, NEW b \in Bufs
    PROVE /\ \A n \in Bufs \cup {Null, Junk} : [next EXCEPT ![b] = n] \in [Bufs -> 0 .. MaxBufs + 1]
          /\ \A n : /\ [next EXCEPT ![b] = n][b] = n
                   /\ \A c \in Bufs : c # b => [next EXCEPT ![b] = n][c] = next[c]
<1>1. next \in [Bufs -> 0 .. MaxBufs + 1]
  BY DEF ProbeTypes, DecTypes, PicTypes, ListTypes, GiverTypes
<1>2. \A n \in Bufs \cup {Null, Junk} : n \in 0 .. MaxBufs + 1
  BY Constants DEF Bufs, Null, Junk
<1> QED BY <1>1, <1>2

\* What the free lists do when a buffer is taken.
LEMMA TakeStep ==
    ASSUME ProbeDecAssumption, ProbeTypes, Pool, NEW b \in Bufs \cup {Null}, Taken(b),
           next' = [next EXCEPT ![b] = Junk], UNCHANGED givers
    PROVE /\ b \in Bufs /\ b \notin Used /\ b \notin Coming
          /\ local' \in Bufs \cup {Null} /\ shared' \in Bufs \cup {Null} /\ made' \in 0 .. MaxBufs
          /\ next' \in [Bufs -> 0 .. MaxBufs + 1]
          /\ Used' = Used \cup {b} => Pool'
<1>0. PICK L \in Seq(Bufs), S \in Seq(Bufs) : Placed(L, S)
  BY DEF Pool
<1>1. Path(local, L, next) /\ Path(shared, S, next) /\ Apart(Used, Coming, Elems(L), Elems(S))
  BY <1>0 DEF Placed
<1>2. UNCHANGED <<tpc, base, head>> /\ Coming' = Coming /\ Busy' = Busy
  BY DEF givers, Coming, Busy
<1>3. Bring'
  BY <1>2 DEF Pool, Bring
<1>4. CASE Top = Null
  <2>1. b = made + 1 /\ made' = b /\ local' = local /\ shared' = shared
    BY <1>4 DEF Taken
  <2>2. b \in Bufs /\ b \notin 1 .. made /\ made' \in 0 .. MaxBufs /\ 1 .. made' = (1 .. made) \cup {b}
    <3>1. made \in 0 .. MaxBufs /\ MaxBufs \in Nat /\ b \in 0 .. MaxBufs /\ b = made + 1
      <4>1. MaxBufs \in Nat
        BY Constants
      <4>2. b \in 0 .. MaxBufs
        BY <4>1 DEF Bufs, Null
      <4> QED BY <2>1, <4>1, <4>2 DEF ProbeTypes, DecTypes, PicTypes, ListTypes, GiverTypes
    <3>2. b \in 1 .. MaxBufs /\ b \notin 1 .. made /\ b \in Nat /\ made \in Nat
      BY <3>1
    <3>3. \A x \in Int : x \in 1 .. b <=> x \in 1 .. made \/ x = b
      BY <3>1, <3>2
    <3>4. 1 .. b = (1 .. made) \cup {b}
      BY <3>2, <3>3
    <3> QED BY <2>1, <3>1, <3>2, <3>4 DEF Bufs
  <2>3. b \notin Used \cup Coming \cup Elems(L) \cup Elems(S)
    BY <1>1, <2>2 DEF Apart
  <2>4. next' \in [Bufs -> 0 .. MaxBufs + 1] /\ \A c \in Bufs : c # b => next'[c] = next[c]
    BY <2>2, NextTyped
  <2>5. Elems(L) \subseteq Bufs /\ Elems(S) \subseteq Bufs
    BY <1>1 DEF Path, Elems
  <2>6. Path(local', L, next') /\ Path(shared', S, next')
    BY <1>1, <2>1, <2>3, <2>4, <2>5, PathKeeps
  <2>7. ASSUME Used' = Used \cup {b} PROVE Apart(Used, Coming, Elems(L), Elems(S))'
    BY <1>1, <1>2, <2>2, <2>3, <2>7 DEF Apart
  <2>8. ASSUME Used' = Used \cup {b} PROVE Pool'
    BY <1>3, <2>6, <2>7, <2>8 DEF Pool, Placed
  <2> QED BY <2>1, <2>2, <2>3, <2>4, <2>8 DEF ProbeTypes, DecTypes, PicTypes, ListTypes, GiverTypes
<1>5. CASE Top # Null
  <2>1. b = Top /\ local' = next[b] /\ made' = made
        /\ shared' = IF local # Null THEN shared ELSE Null
    BY <1>5 DEF Taken
  <2>2. PICK P \in Seq(Bufs), Q \in Seq(Bufs) :
           /\ Path(b, P, next) /\ Path(shared', Q, next)
           /\ Apart(Used, Coming, Elems(P), Elems(Q))
    <3>1. CASE local # Null
      BY <1>0, <1>1, <2>1, <3>1 DEF Top
    <3>2. CASE local = Null
      <4>1. L = <<>> /\ shared' = Null /\ b = shared
        <5>1. L # <<>> => L[1] \in Bufs
          BY <1>1, EmptyLen DEF Path
        <5> QED BY <1>1, <2>1, <3>2, <5>1 DEF Top, Path, Bufs, Null
      <4>2. Path(Null, <<>>, next) /\ Elems(<<>>) = {}
        BY PathEmpty
      <4>3. Apart(Used, Coming, Elems(S), {})
        BY <1>1, <4>1, <4>2 DEF Apart
      <4> QED BY <1>0, <1>1, <4>1, <4>2, <4>3
    <3> QED BY <3>1, <3>2
  <2>3. b # Null
    BY <1>5, <2>1
  <2>4. b \in Elems(P) /\ Path(next[b], Tail(P), next) /\ Elems(Tail(P)) = Elems(P) \ {b} /\ P # <<>>
    BY <2>2, <2>3, PathPop
  <2>5. b \in Bufs /\ Elems(P) \subseteq Bufs /\ Elems(Q) \subseteq Bufs /\ Tail(P) \in Seq(Bufs)
    BY <2>2, <2>3, <2>4 DEF Path, Elems
  <2>6. next[b] \in Bufs \cup {Null}
    <3>1. Tail(P) # <<>> => Tail(P)[1] \in Bufs
      BY <2>5, EmptyLen
    <3> QED BY <2>4, <3>1 DEF Path
  <2>7. next' \in [Bufs -> 0 .. MaxBufs + 1] /\ \A c \in Bufs : c # b => next'[c] = next[c]
    BY <2>5, NextTyped
  <2>8. Path(local', Tail(P), next') /\ Path(shared', Q, next')
    <3>1. b \notin Elems(Tail(P)) /\ b \notin Elems(Q)
      BY <2>2, <2>4 DEF Apart
    <3> QED BY <2>1, <2>2, <2>4, <2>5, <2>7, <3>1, PathKeeps
  <2>9. b \notin Used /\ b \notin Coming
    BY <2>2, <2>4 DEF Apart
  <2>10. ASSUME Used' = Used \cup {b} PROVE Apart(Used, Coming, Elems(Tail(P)), Elems(Q))'
    BY <1>2, <2>1, <2>2, <2>4, <2>9, <2>10 DEF Apart
  <2>11. ASSUME Used' = Used \cup {b} PROVE Pool'
    BY <1>3, <2>2, <2>5, <2>8, <2>10, <2>11 DEF Pool, Placed
  <2>12. shared' \in Bufs \cup {Null}
    BY <2>1 DEF ProbeTypes, DecTypes, PicTypes, ListTypes, GiverTypes
  <2> QED BY <2>1, <2>5, <2>6, <2>7, <2>9, <2>11, <2>12 DEF ProbeTypes, DecTypes, PicTypes, ListTypes, GiverTypes
<1> QED BY <1>4, <1>5

\* A buffer that was in use is on its way back.
LEMMA ReleaseStep ==
    ASSUME ProbeTypes, Pool, NEW t \in Threads, tpc[t] = "idle", NEW b \in Used,
           Release(t, b), Used' = Used \ {b}, UNCHANGED pool
    PROVE Pool' /\ tpc' \in [Threads -> {"idle", "load", "cas"}]
          /\ base' \in [Threads -> Bufs \cup {Null}] /\ head' = head
          /\ \A u \in Threads : tpc'[u] # "idle" => base'[u] # Null
<1>0. PICK L \in Seq(Bufs), S \in Seq(Bufs) : Placed(L, S)
  BY DEF Pool
<1>1. UNCHANGED <<shared, local, next, made>>
  BY DEF pool
<1>2. b \in Bufs /\ b # Null
  <2>1. queue \in Seq(Pic) /\ cur \in Pic /\ dpb \subseteq Bufs
    BY DEF ProbeTypes, DecTypes, PicTypes, ListTypes, GiverTypes
  <2>2. \A i \in DOMAIN queue : queue[i] \in Pic
    BY <2>1
  <2>3. \A p \in Pic : p.buf \in Bufs \cup {Null}
    BY DEF Pic
  <2>4. Held \subseteq Bufs \cup {Null}
    BY <2>1, <2>2, <2>3 DEF Held
  <2> QED BY <2>1, <2>4 DEF Used
<1>3. tpc' = [tpc EXCEPT ![t] = "load"] /\ base' = [base EXCEPT ![t] = b] /\ head' = head
  BY DEF Release
<1>4. /\ tpc' \in [Threads -> {"idle", "load", "cas"}] /\ base' \in [Threads -> Bufs \cup {Null}]
      /\ tpc'[t] = "load" /\ base'[t] = b
      /\ \A u \in Threads : u # t => tpc'[u] = tpc[u] /\ base'[u] = base[u]
  BY <1>2, <1>3 DEF ProbeTypes, DecTypes, PicTypes, ListTypes, GiverTypes
<1>5. Busy' = Busy \cup {t} /\ t \notin Busy
  BY <1>4 DEF Busy
<1>6. b \notin Coming
  BY <1>0 DEF Placed, Apart
<1>7. Coming' = Coming \cup {b}
  <2>1. \A u \in Busy : u # t /\ u \in Threads
    BY <1>5 DEF Busy
  <2> QED BY <1>4, <1>5, <2>1 DEF Coming
<1>8. Bring'
  <2>1. \A u \in Busy : base[u] # b /\ u # t /\ u \in Threads
    BY <1>5, <1>6 DEF Coming, Busy
  <2> QED BY <1>4, <1>5, <2>1 DEF Pool, Bring
<1>9. Placed(L, S)'
  BY <1>0, <1>1, <1>6, <1>7 DEF Placed, Apart
<1> QED BY <1>2, <1>3, <1>4, <1>8, <1>9 DEF Pool, ProbeTypes, DecTypes, PicTypes, ListTypes, GiverTypes

\* Nothing of the pool moves.
LEMMA PoolStill ==
    ASSUME Pool, UNCHANGED <<pool, givers>>, Used' = Used
    PROVE Pool'
<1>1. PICK L \in Seq(Bufs), S \in Seq(Bufs) : Placed(L, S)
  BY DEF Pool
<1>2. Bring' /\ Coming' = Coming
  BY DEF Pool, Bring, Busy, Coming, givers
<1>3. Placed(L, S)'
  BY <1>1, <1>2 DEF Placed, Apart, pool
<1> QED BY <1>2, <1>3 DEF Pool

\* The thread reads the head of the stack; whatever it reads, the lists are the same.
LEMMA HeadStep ==
    ASSUME ProbeInv, NEW t \in Threads, LoadHead(t)
    PROVE ProbeInv'
<1>1. /\ tpc[t] = "load" /\ tpc' = [tpc EXCEPT ![t] = "cas"] /\ head' = [head EXCEPT ![t] = shared]
      /\ UNCHANGED <<kind, mpc, probe, frames, fed, got, low, status, queue, cur, dpb,
                     shared, local, next, data, made, base>>
  BY DEF LoadHead, pics, pool
<1>2. Used' = Used /\ Busy' = Busy /\ Coming' = Coming
  BY <1>1 DEF Used, Held, Busy, Coming, ProbeInv, ProbeTypes, DecTypes, PicTypes, ListTypes, GiverTypes
<1>3. Pool'
  <2>1. PICK L \in Seq(Bufs), S \in Seq(Bufs) : Placed(L, S)
    BY DEF ProbeInv, Pool
  <2>2. Placed(L, S)'
    BY <1>1, <1>2, <2>1 DEF Placed, Apart
  <2> QED BY <1>1, <1>2, <2>2 DEF ProbeInv, Pool, Bring
<1>4. ProbeTypes'
  BY <1>1 DEF ProbeInv, ProbeTypes, DecTypes, PicTypes, ListTypes, GiverTypes
<1>5. Pictures' /\ Turns'
  BY <1>1 DEF ProbeInv, Pictures, HeldBack, GivenOut, Turns, Worked, Asked, Flushed, Stored, Room
<1> QED BY <1>3, <1>4, <1>5 DEF ProbeInv

\* The link is written in a buffer that is on no list; the swap that succeeds puts it on top.
LEMMA PushStep ==
    ASSUME ProbeDecAssumption, ProbeInv, NEW t \in Threads, Push(t)
    PROVE ProbeInv'
<1>a. PICK b : b = base[t]
  OBVIOUS
<1>0. PICK L \in Seq(Bufs), S \in Seq(Bufs) : Placed(L, S)
  BY DEF ProbeInv, Pool
<1>1. /\ tpc[t] = "cas" /\ next' = [next EXCEPT ![b] = head[t]]
      /\ UNCHANGED <<kind, mpc, probe, frames, fed, got, low, status, queue, cur, dpb,
                     local, data, made, base>>
  BY <1>a DEF Push, pics
<1>2. b \in Bufs /\ head[t] \in Bufs \cup {Null} /\ t \in Busy /\ b \in Coming
  BY <1>a, <1>1 DEF ProbeInv, ProbeTypes, DecTypes, PicTypes, ListTypes, GiverTypes, Busy, Coming
<1>3. next' \in [Bufs -> 0 .. MaxBufs + 1] /\ next'[b] = head[t]
      /\ \A c \in Bufs : c # b => next'[c] = next[c]
  BY <1>1, <1>2, NextTyped DEF ProbeInv
<1>4. Elems(L) \subseteq Bufs /\ Elems(S) \subseteq Bufs /\ b \notin Elems(L) /\ b \notin Elems(S)
      /\ b \notin Used
  BY <1>0, <1>2 DEF Placed, Path, Elems, Apart
<1>5. Path(local, L, next') /\ Path(shared, S, next')
  BY <1>0, <1>3, <1>4, PathKeeps DEF Placed
<1>6. Used' = Used
  BY <1>1 DEF Used, Held
<1>7. Pictures' /\ Turns'
  BY <1>1 DEF ProbeInv, Pictures, HeldBack, GivenOut, Turns, Worked, Asked, Flushed, Stored, Room
<1>8. CASE shared = head[t]
  <2>1. shared' = b /\ tpc' = [tpc EXCEPT ![t] = "idle"] /\ head' = head
    BY <1>a, <1>1, <1>8 DEF Push
  <2>2. Busy' = Busy \ {t}
    BY <1>1, <2>1 DEF Busy, ProbeInv, ProbeTypes, DecTypes, PicTypes, ListTypes, GiverTypes
  <2>3. Coming' = Coming \ {b}
    BY <1>a, <1>1, <1>2, <2>2 DEF Coming, ProbeInv, Pool, Bring
  <2>4. PICK T \in Seq(Bufs) : Path(b, T, next') /\ Elems(T) = Elems(S) \cup {b}
    <3>1. Path(head[t], S, next')
      BY <1>5, <1>8
    <3>2. b \in Bufs /\ b \notin Elems(S) /\ next'[b] = head[t]
      BY <1>2, <1>3, <1>4
    <3> QED BY <3>1, <3>2, PathPush
  <2>5. Apart(Used, Coming, Elems(L), Elems(T))'
    <3>1. Apart(Used, Coming, Elems(L), Elems(S)) /\ made' = made
      BY <1>0, <1>1 DEF Placed
    <3>2. Elems(T) = Elems(S) \cup {b}
      BY <2>4
    <3> QED BY <1>2, <1>4, <1>6, <2>3, <3>1, <3>2 DEF Apart
  <2>6. Bring'
    BY <1>1, <2>2 DEF ProbeInv, Pool, Bring
  <2>7. Placed(L, T)'
    <3>1. Path(local', L, next') /\ Path(shared', T, next')
      BY <1>1, <1>5, <2>1, <2>4
    <3> QED BY <2>5, <3>1 DEF Placed
  <2>8. Pool'
    BY <2>4, <2>6, <2>7 DEF Pool
  <2>9. ProbeTypes'
    BY <1>1, <1>2, <1>3, <2>1 DEF ProbeInv, ProbeTypes, DecTypes, PicTypes, ListTypes, GiverTypes
  <2> QED BY <1>7, <2>8, <2>9 DEF ProbeInv
<1>9. CASE shared # head[t]
  <2>1. head' = [head EXCEPT ![t] = shared] /\ shared' = shared /\ tpc' = tpc
    BY <1>1, <1>9 DEF Push
  <2>2. Busy' = Busy /\ Coming' = Coming
    BY <1>1, <2>1 DEF Busy, Coming
  <2>3. Placed(L, S)'
    BY <1>0, <1>1, <1>5, <1>6, <2>1, <2>2 DEF Placed, Apart
  <2>4. Pool'
    BY <1>1, <2>2, <2>3 DEF ProbeInv, Pool, Bring
  <2>5. ProbeTypes'
    BY <1>1, <1>3, <2>1 DEF ProbeInv, ProbeTypes, DecTypes, PicTypes, ListTypes, GiverTypes
  <2> QED BY <1>7, <2>4, <2>5 DEF ProbeInv
<1> QED BY <1>8, <1>9

----------------------------------------------------------------------------
\* The worker.

\* What is in use, and whose pictures are in it.
UsedBy(c, q, d) == ({c.buf} \cup {q[i].buf : i \in DOMAIN q} \cup d) \ {Null}

LEMMA UsedNow == Used = UsedBy(cur, queue, dpb) /\ Used' = UsedBy(cur', queue', dpb')
  BY DEF Used, Held, UsedBy

LEMMA InUse ==
    ASSUME NEW c \in Pic, NEW q \in Seq(Pic), NEW d
    PROVE \A b : b \in UsedBy(c, q, d) <=>
                 (b # Null /\ (b = c.buf \/ b \in d \/ (\E i \in 1 .. Len(q) : b = q[i].buf)))
<1>1. DOMAIN q = 1 .. Len(q)
  OBVIOUS
<1> QED BY <1>1 DEF UsedBy

LEMMA PicSeq ==
    ASSUME NEW q \in Seq(Pic)
    PROVE /\ Len(q) \in Nat /\ (Len(q) = 0 <=> q = <<>>)
          /\ \A i \in 1 .. Len(q) : q[i] \in Pic /\ q[i].probe \in Nat /\ q[i].frame \in Nat
                                    /\ q[i].buf \in Bufs \cup {Null}
<1>1. \A p \in Pic : p.probe \in Nat /\ p.frame \in Nat /\ p.buf \in Bufs \cup {Null}
  BY DEF Pic
<1> QED BY <1>1

LEMMA NoPicIsPic == NoPic \in Pic /\ NoPic.buf = Null /\ NoPic.probe = 0 /\ NoPic.frame = 0
  BY DEF NoPic, Pic, Null

\* One picture of those held back is given out, or none: what is in use is the same.
LEMMA ShowStep ==
    ASSUME NEW held \in Seq(Pic), held # <<>>, Show(held)
    PROVE /\ cur' \in Pic /\ cur' = held[1] /\ queue' \in Seq(Pic) /\ Len(queue') = Len(held) - 1
          /\ \A i \in 1 .. Len(queue') : i + 1 \in 1 .. Len(held) /\ queue'[i] = held[i + 1]
          /\ got' = got + 1 /\ mpc' = "show"
          /\ Used' = UsedBy(NoPic, held, dpb')
<1>1. Len(held) \in Nat /\ Len(held) >= 1
  BY PicSeq
<1>2. cur' \in Pic /\ cur' = held[1] /\ queue' \in Seq(Pic) /\ Len(queue') = Len(held) - 1
  BY <1>1 DEF Show
<1>3. \A i \in 1 .. Len(queue') : i + 1 \in 1 .. Len(held) /\ queue'[i] = held[i + 1]
  BY <1>1, <1>2 DEF Show
<1>4. ASSUME NEW b
      PROVE (b = cur'.buf \/ \E i \in 1 .. Len(queue') : b = queue'[i].buf)
            <=> \E i \in 1 .. Len(held) : b = held[i].buf
  <2>1. ASSUME NEW i \in 1 .. Len(held), b = held[i].buf, i # 1
        PROVE \E k \in 1 .. Len(queue') : b = queue'[k].buf
    <3>1. i - 1 \in 1 .. Len(queue') /\ (i - 1) + 1 = i
      BY <1>1, <1>2, <2>1
    <3> QED BY <1>3, <2>1, <3>1
  <2>2. 1 \in 1 .. Len(held)
    BY <1>1
  <2> QED BY <1>2, <1>3, <2>1, <2>2
<1>5. \A b : b \in UsedBy(cur', queue', dpb') <=>
                (b # Null /\ (b = cur'.buf \/ b \in dpb' \/ (\E i \in 1 .. Len(queue') : b = queue'[i].buf)))
  BY <1>2, InUse
<1>6. \A b : b \in UsedBy(NoPic, held, dpb') <=>
                (b # Null /\ (b \in dpb' \/ (\E i \in 1 .. Len(held) : b = held[i].buf)))
  BY NoPicIsPic, InUse
<1>7. UsedBy(cur', queue', dpb') = UsedBy(NoPic, held, dpb')
  <2>1. ASSUME NEW b PROVE b \in UsedBy(cur', queue', dpb') <=> b \in UsedBy(NoPic, held, dpb')
    BY <1>4, <1>5, <1>6
  <2>2. \A A, B : (\A b : b \in A <=> b \in B) => A = B
    OBVIOUS
  <2> HIDE DEF UsedBy
  <2> QED BY <2>1, <2>2
<1> QED BY <1>2, <1>3, <1>7, UsedNow DEF Show

\* A thread lets go of a reference: the buffer goes back unless it is to be shown.
LEMMA DropRefStep ==
    ASSUME ProbeDecAssumption, ProbeInv, NEW t \in Threads, DropRef(t)
    PROVE ProbeInv'
<1>1. PICK b \in dpb :
         /\ tpc[t] = "idle" /\ dpb' = dpb \ {b}
         /\ IF b \notin Held THEN Release(t, b) ELSE UNCHANGED givers
         /\ UNCHANGED <<kind, mpc, probe, frames, fed, got, low, status, queue, cur, pool>>
  BY DEF DropRef
<1>2. UNCHANGED <<shared, local, next, data, made>>
  BY <1>1 DEF pool
<1>3. b \in Bufs /\ b # Null /\ b \in Used /\ Held' = Held
  <2>1. b \in Bufs /\ b # Null
    BY <1>1, Constants DEF ProbeInv, ProbeTypes, PicTypes, Bufs, Null
  <2> QED BY <1>1, <2>1 DEF Used, Held
<1>4. Pictures' /\ Turns'
  BY <1>1, <1>2 DEF ProbeInv, Pictures, HeldBack, GivenOut, Turns, Worked, Asked, Flushed, Stored, Room
<1>5. CASE b \in Held
  <2>1. Used' = Used
    BY <1>1, <1>3, <1>5 DEF Used
  <2>2. UNCHANGED givers
    BY <1>1, <1>5
  <2>3. Pool'
    BY <1>1, <2>1, <2>2, PoolStill DEF ProbeInv
  <2>4. ProbeTypes'
    BY <1>1, <1>2, <2>2 DEF ProbeInv, ProbeTypes, DecTypes, PicTypes, ListTypes, GiverTypes, givers
  <2> QED BY <1>4, <2>3, <2>4 DEF ProbeInv
<1>6. CASE b \notin Held
  <2>1. Used' = Used \ {b}
    BY <1>1, <1>3, <1>6 DEF Used
  <2>2. /\ Pool' /\ tpc' \in [Threads -> {"idle", "load", "cas"}]
        /\ base' \in [Threads -> Bufs \cup {Null}] /\ head' = head
        /\ \A u \in Threads : tpc'[u] # "idle" => base'[u] # Null
    BY <1>1, <1>3, <1>6, <2>1, ReleaseStep DEF ProbeInv
  <2>3. ProbeTypes'
    BY <1>1, <1>2, <2>2 DEF ProbeInv, ProbeTypes, DecTypes, PicTypes, ListTypes, GiverTypes
  <2> QED BY <1>4, <2>2, <2>3 DEF ProbeInv
<1> QED BY <1>5, <1>6

\* The picture before goes back, unless the decoder refers to it.
LEMMA UnrefStep ==
    ASSUME ProbeDecAssumption, ProbeInv, Unref
    PROVE ProbeInv'
<1>1. /\ tpc[0] = "idle" /\ cur' = NoPic
      /\ \/ mpc = "unref" /\ mpc' = "pull"
         \/ mpc = "unref all" /\ mpc' = "drain"
      /\ IF cur.buf # Null /\ cur.buf \notin dpb THEN Release(0, cur.buf) ELSE UNCHANGED givers
      /\ UNCHANGED <<kind, probe, frames, fed, got, low, status, queue, dpb, pool>>
  BY DEF Unref, Turn
<1>2. UNCHANGED <<shared, local, next, data, made>>
  BY <1>1 DEF pool
<1>3. queue \in Seq(Pic) /\ cur \in Pic /\ dpb \subseteq Bufs
  BY DEF ProbeInv, ProbeTypes, DecTypes, PicTypes, ListTypes, GiverTypes
<1>4. Pictures' /\ Turns'
  <2>1. Stored(NoPic)'
    BY NoPicIsPic DEF Stored
  <2>2. Pictures'
    <3>1. probe \in Nat /\ got \in Nat
      BY Numbers DEF ProbeInv
    <3>2. HeldBack'
      BY <1>1, <1>2 DEF ProbeInv, Pictures, HeldBack, Stored
    <3>3. GivenOut'
      <4>1. cur' = NoPic /\ cur'.probe = 0 /\ cur'.frame = 0 /\ mpc' # "show"
            /\ probe' = probe /\ got' = got
        BY <1>1, NoPicIsPic
      <4>2. Stored(cur)'
        BY <2>1, <4>1 DEF Stored
      <4> QED BY <3>1, <4>1, <4>2 DEF GivenOut
    <3> QED BY <3>2, <3>3 DEF Pictures
  <2>3. Turns'
    BY <1>1 DEF ProbeInv, Turns, Worked, Asked, Flushed, Room
  <2> QED BY <2>2, <2>3
<1>5. ASSUME NEW i \in 1 .. Len(queue), cur.buf # Null
      PROVE queue[i].buf # cur.buf
  <2>1. queue[i].probe = probe /\ queue[i].frame = got + i /\ Stored(queue[i]) /\ Stored(cur)
        /\ (cur.probe = probe => cur.frame <= got)
    BY DEF ProbeInv, Pictures, HeldBack, GivenOut
  <2>2. got \in Nat /\ cur.frame \in Nat /\ i \in Nat /\ i > 0
    <3>1. cur.frame \in Nat /\ Len(queue) \in Nat
      BY <1>3 DEF Pic
    <3> QED BY <3>1, Numbers DEF ProbeInv
  <2>3. queue[i] # cur
    <3> SUFFICES ASSUME queue[i] = cur PROVE FALSE
      OBVIOUS
    <3>1. got + i <= got
      BY <2>1
    <3> QED BY <2>2, <3>1
  <2> QED BY <1>5, <2>1, <2>3 DEF Stored
<1>6. \A b : b \in Used <=>
            (b # Null /\ (b = cur.buf \/ b \in dpb \/ (\E i \in 1 .. Len(queue) : b = queue[i].buf)))
  BY <1>3, UsedNow, InUse
<1>7. \A b : b \in Used' <=>
            (b # Null /\ (b \in dpb \/ (\E i \in 1 .. Len(queue) : b = queue[i].buf)))
  <2>1. UNCHANGED <<queue, dpb>> /\ cur' = NoPic
    BY <1>1
  <2> QED BY <1>3, <2>1, NoPicIsPic, UsedNow, InUse
<1>8. CASE cur.buf # Null /\ cur.buf \notin dpb
  <2>1. PICK b : b = cur.buf
    OBVIOUS
  <2>2. b \in Used /\ Used' = Used \ {b}
    BY <1>5, <1>6, <1>7, <1>8, <2>1
  <2>3. /\ Pool' /\ tpc' \in [Threads -> {"idle", "load", "cas"}]
        /\ base' \in [Threads -> Bufs \cup {Null}] /\ head' = head
        /\ \A u \in Threads : tpc'[u] # "idle" => base'[u] # Null
    BY <1>1, <1>8, <2>1, <2>2, Constants, ReleaseStep DEF ProbeInv
  <2>4. ProbeTypes'
    BY <1>1, <1>2, <2>3, NoPicIsPic DEF ProbeInv, ProbeTypes, DecTypes, PicTypes, ListTypes, GiverTypes
  <2> QED BY <1>4, <2>3, <2>4 DEF ProbeInv
<1>9. CASE ~(cur.buf # Null /\ cur.buf \notin dpb)
  <2>1. Used' = Used
    <3>1. \A b : b \in Used <=> b \in Used'
      BY <1>6, <1>7, <1>9
    <3> QED BY <3>1
  <2>2. UNCHANGED givers
    BY <1>1, <1>9
  <2>3. Pool'
    BY <1>1, <2>1, <2>2, PoolStill DEF ProbeInv
  <2>4. ProbeTypes'
    BY <1>1, <1>2, <2>2, NoPicIsPic DEF ProbeInv, ProbeTypes, DecTypes, PicTypes, ListTypes, GiverTypes, givers
  <2> QED BY <1>4, <2>3, <2>4 DEF ProbeInv
<1> QED BY <1>8, <1>9

\* Load, Drain, Flush and Score move no buffer and no picture.
LEMMA LoadStep ==
    ASSUME ProbeDecAssumption, ProbeInv, Load
    PROVE ProbeInv'
<1>0. ProbeTypes /\ Pictures /\ Turns /\ Pool
  BY DEF ProbeInv
<1>1. /\ mpc = "load" /\ probe' = probe + 1 /\ frames' \in 1 .. MaxFrames /\ fed' = 0 /\ got' = 0
      /\ status' = IF kind = "vvdec" THEN status ELSE "data"
      /\ UNCHANGED <<kind, queue, cur, dpb, pool, givers>>
  BY DEF Load, Turn, pics
<1>a. low' = (kind = "dav1d" /\ Active(frames'))
  BY DEF Load
<1>b. mpc' \in {"unref all", "unref"} /\ (kind = "vvdec" /\ probe # 0 => mpc' = "unref all")
  <2>1. probe # 0 => probe > 0
    BY Numbers DEF ProbeInv
  <2> QED BY <2>1 DEF Load
<1>2. UNCHANGED <<shared, local, next, data, made, tpc, base, head>>
  BY <1>1 DEF pool, givers
<1>3. frames' \in Nat /\ frames' > 0 /\ MaxFrames \in Nat /\ Delay \in Nat /\ Delay > 0
  BY <1>1, Constants
<1>4. probe \in Nat /\ cur.probe \in Nat /\ fed = got /\ Len(queue) = 0
  <2>1. probe \in Nat /\ fed \in Nat /\ got \in Nat /\ frames \in Nat /\ got <= fed /\ fed <= frames
    BY DEF ProbeInv, ProbeTypes, DecTypes
  <2>2. cur.probe \in Nat
    BY DEF ProbeInv, ProbeTypes, PicTypes, Pic
  <2>3. got = frames /\ Len(queue) = fed - got
    BY <1>1 DEF ProbeInv, Turns, Worked, Asked, Flushed, Pictures, HeldBack, GivenOut
  <2> QED BY <2>1, <2>2, <2>3
<1>5. Used' = Used
  BY <1>1, UsedNow
<1>6. Pool'
  BY <1>1, <1>5, PoolStill DEF ProbeInv
<1>7. Pictures'
  <2>1. HeldBack'
    <3>1. Len(queue') = 0 /\ fed' = 0 /\ got' = 0
      BY <1>1, <1>4
    <3> QED BY <3>1 DEF HeldBack
  <2>2. GivenOut'
    <3>1. Stored(cur)' /\ cur' = cur /\ probe' = probe + 1 /\ cur.probe <= probe
      BY <1>0, <1>1, <1>2 DEF Pictures, GivenOut, Stored
    <3>2. cur.probe <= probe + 1 /\ cur.probe # probe + 1
      BY <1>4, <3>1
    <3> QED BY <1>b, <3>1, <3>2 DEF GivenOut
  <2> QED BY <2>1, <2>2 DEF Pictures
<1>8. Turns'
  <2>1. kind = "dav1d" => Room' < frames'
    <3>1. kind = "dav1d" /\ ~low' => ~(frames' <= Delay)
      BY <1>a DEF Active
    <3> QED BY <1>3, <3>1 DEF Room
  <2>2. Room' \in Nat
    BY <1>3 DEF Room
  <2>3. kind = "vvdec" /\ status = "flush" => probe # 0
    BY DEF ProbeInv, Turns, Worked, Asked, Flushed
  <2>4. (kind = "vvdec" /\ probe' = 0) => status' = "new"
    BY <1>1, <1>4
  <2>5. Worked'
    <3>1. probe' > 0 /\ fed' = 0 /\ got' = 0 /\ got' < frames'
      BY <1>1, <1>3, <1>4
    <3> QED BY <1>b, <3>1 DEF Worked
  <2>6. Asked'
    BY <1>1, <2>1, <2>2 DEF Asked
  <2>7. Flushed'
    BY <1>1, <1>b, <2>3, <2>4 DEF Flushed
  <2> QED BY <2>5, <2>6, <2>7 DEF Turns
<1>9. ProbeTypes'
  <2>1. DecTypes'
    <3>1. kind \in Kinds /\ status' \in {"new", "data", "asked", "run", "flush", "eof"}
      BY <1>0, <1>1 DEF ProbeTypes, DecTypes
    <3>2. /\ kind' = kind /\ probe' \in Nat /\ fed' = 0 /\ got' = 0 /\ frames' \in Nat
          /\ got' <= fed' /\ fed' <= frames'
      BY <1>1, <1>3, <1>4
    <3> QED BY <1>b, <3>1, <3>2 DEF DecTypes
  <2>2. PicTypes' /\ ListTypes' /\ GiverTypes'
    BY <1>0, <1>1, <1>2 DEF ProbeTypes, PicTypes, ListTypes, GiverTypes
  <2> QED BY <2>1, <2>2 DEF ProbeTypes
<1> QED BY <1>6, <1>7, <1>8, <1>9 DEF ProbeInv

LEMMA QuietStep ==
    ASSUME ProbeDecAssumption, ProbeInv, Drain \/ Flush \/ Score
    PROVE ProbeInv'
<1>1. /\ UNCHANGED <<kind, probe, frames, fed, got, low, queue, cur, dpb, pool, givers>>
      /\ \/ mpc = "drain" /\ mpc' = "pull" /\ status' = "eof"
         \/ mpc = "pull" /\ mpc' = mpc /\ status' = "flush" /\ kind = "annexb"
         \/ mpc = "show" /\ mpc' \in {"unref", "load"} /\ status' = status
  BY DEF Drain, Flush, Score, Turn, pics
<1>2. UNCHANGED <<shared, local, next, data, made, tpc, base, head>>
  BY <1>1 DEF pool, givers
<1>3. Used' = Used
  BY <1>1, UsedNow
<1>4. Pool'
  BY <1>1, <1>3, PoolStill DEF ProbeInv
<1>5. Pictures'
  BY <1>1, <1>2 DEF ProbeInv, Pictures, HeldBack, GivenOut, Stored
<1>6. frames \in Nat /\ fed \in Nat /\ got \in Nat /\ got <= fed /\ fed <= frames
  BY DEF ProbeInv, ProbeTypes, DecTypes, PicTypes, ListTypes, GiverTypes
<1>7. Turns'
  <2>3. /\ mpc = "show" /\ mpc' = "unref" => got < frames
        /\ mpc = "show" /\ mpc' = "load" => ~(got < frames)
    BY DEF Drain, Flush, Score, Turn
  <2>1. Room' = Room
    BY <1>1 DEF Room
  <2>4. Worked'
    <3>1. mpc = "show" /\ mpc' = "load" => got = frames
      BY <1>6, <2>3
    <3> QED BY <1>1, <2>3, <3>1 DEF ProbeInv, Turns, Worked
  <2>5. Asked'
    BY <1>1, <2>1 DEF ProbeInv, Turns, Asked
  <2>6. Flushed'
    <3>1. mpc = "drain" => probe # 0
      BY DEF ProbeInv, Turns, Worked
    <3> QED BY <1>1, <3>1 DEF ProbeInv, Turns, Flushed
  <2> QED BY <2>4, <2>5, <2>6 DEF Turns
<1>8. ProbeTypes'
  BY <1>1, <1>2 DEF ProbeInv, ProbeTypes, DecTypes, PicTypes, ListTypes, GiverTypes
<1> QED BY <1>4, <1>5, <1>7, <1>8 DEF ProbeInv

\* What is held back is given out.
LEMMA RestStep ==
    ASSUME ProbeDecAssumption, ProbeInv, Rest
    PROVE ProbeInv'
<1>0. ProbeTypes /\ Pictures /\ Turns /\ Pool
  BY DEF ProbeInv
<1>1. /\ mpc = "pull" /\ Show(queue)
      /\ kind # "annexb" => fed = frames
      /\ queue # <<>> /\ (kind = "dav1d" => status = "asked")
      /\ UNCHANGED <<kind, probe, frames, fed, low, dpb, pool, givers>>
  BY DEF Rest, Turn, Ready
<1>a. status' = IF kind = "vvdec" THEN "flush" ELSE status
  BY DEF Rest
<1>2. UNCHANGED <<shared, local, next, data, made, tpc, base, head>>
  BY <1>1 DEF pool, givers
<1>3. queue \in Seq(Pic) /\ cur = NoPic
  BY <1>0, <1>1 DEF ProbeTypes, PicTypes, Pictures, GivenOut
<1>4. /\ cur' \in Pic /\ cur' = queue[1] /\ queue' \in Seq(Pic) /\ Len(queue') = Len(queue) - 1
      /\ \A i \in 1 .. Len(queue') : i + 1 \in 1 .. Len(queue) /\ queue'[i] = queue[i + 1]
      /\ got' = got + 1 /\ mpc' = "show" /\ Used' = UsedBy(NoPic, queue, dpb')
  BY <1>1, <1>3, ShowStep
<1>5. Used' = Used
  BY <1>1, <1>3, <1>4, UsedNow
<1>6. Pool'
  BY <1>1, <1>5, PoolStill DEF ProbeInv
<1>7. Len(queue) \in Nat /\ Len(queue) > 0 /\ Len(queue) = fed - got /\ 1 \in 1 .. Len(queue)
  BY <1>0, <1>1, <1>3, PicSeq DEF Pictures, HeldBack
<1>8. /\ got \in Nat /\ got + 1 \in Nat /\ got + 1 <= fed /\ probe \in Nat /\ fed <= frames
      /\ fed \in Nat /\ frames \in Nat
  BY <1>0, <1>7, Numbers
<1>9. HeldBack'
  <2>1. Len(queue') = fed' - got'
    BY <1>1, <1>4, <1>7, <1>8
  <2>2. ASSUME NEW i \in 1 .. Len(queue')
        PROVE queue'[i].probe = probe' /\ queue'[i].frame = got' + i /\ Stored(queue[i])'
    <3>1. i + 1 \in 1 .. Len(queue) /\ queue'[i] = queue[i + 1] /\ i \in Int
      BY <1>4
    <3>2. queue[i + 1].probe = probe /\ queue[i + 1].frame = got + (i + 1) /\ Stored(queue[i + 1])
      BY <1>0, <3>1 DEF Pictures, HeldBack
    <3>3. got + (i + 1) = got' + i
      BY <1>4, <1>8, <3>1
    <3>4. Stored(queue[i])'
      BY <1>2, <3>1, <3>2 DEF Stored
    <3> QED BY <1>1, <3>1, <3>2, <3>3, <3>4
  <2> QED BY <2>1, <2>2 DEF HeldBack
<1>10. GivenOut'
  <2>1. queue[1].probe = probe /\ queue[1].frame = got + 1 /\ Stored(queue[1])
    BY <1>0, <1>7 DEF Pictures, HeldBack
  <2>2. Stored(cur)'
    BY <1>2, <1>4, <2>1 DEF Stored
  <2>3. cur'.probe = probe' /\ cur'.frame = got' /\ probe' \in Nat /\ got' \in Nat
    BY <1>1, <1>4, <1>8, <2>1
  <2> QED BY <1>4, <2>2, <2>3 DEF GivenOut
<1>11. Turns'
  <2>1. Worked'
    BY <1>0, <1>1, <1>4 DEF Turns, Worked
  <2>2. Asked'
    <3>1. Room' = Room /\ (kind = "dav1d" => status' = "asked")
      BY <1>1, <1>a DEF Room
    <3> QED BY <1>0, <1>1, <3>1 DEF Turns, Asked
  <2>3. Flushed'
    <3>1. probe # 0
      BY <1>0, <1>1 DEF Turns, Worked
    <3> QED BY <1>1, <3>1 DEF Flushed
  <2> QED BY <2>1, <2>2, <2>3 DEF Turns
<1>12. ProbeTypes'
  <2>1. DecTypes'
    <3>1. kind \in Kinds /\ status' \in {"new", "data", "asked", "run", "flush", "eof"}
      BY <1>0, <1>a DEF ProbeTypes, DecTypes
    <3>2. got' \in Nat /\ got' <= fed'
      BY <1>1, <1>4, <1>8
    <3> QED BY <1>1, <1>4, <1>8, <3>1, <3>2 DEF DecTypes
  <2>2. PicTypes' /\ ListTypes' /\ GiverTypes'
    BY <1>0, <1>1, <1>2, <1>4 DEF ProbeTypes, PicTypes, ListTypes, GiverTypes
  <2> QED BY <2>1, <2>2 DEF ProbeTypes
<1> QED BY <1>6, <1>9, <1>10, <1>11, <1>12 DEF ProbeInv, Pictures

\* A picture is opened in a buffer that was free, and one is given out or none.
LEMMA DecodeStep ==
    ASSUME ProbeDecAssumption, ProbeInv, Decode
    PROVE ProbeInv'
<1>0. ProbeTypes /\ Pictures /\ Turns /\ Pool
  BY DEF ProbeInv
<1>1. mpc = "pull" /\ Opened
  BY DEF Decode, Turn
<1>2. PICK b, pic, held :
         /\ b \in Bufs \cup {Null}
         /\ pic = [probe |-> probe, frame |-> fed + 1, buf |-> b] /\ held = Append(queue, pic)
         /\ fed < frames /\ fed' = fed + 1
         /\ IF kind = "annexb" THEN b = Null /\ UNCHANGED <<pool, dpb>>
            ELSE /\ Taken(b)
                 /\ next' = [next EXCEPT ![b] = Junk]
                 /\ data' = [data EXCEPT ![b] = pic]
                 /\ dpb' = dpb \cup {b}
         /\ UNCHANGED <<kind, probe, frames, low, givers>>
         /\ LET room == IF low \/ Delay = 1 THEN 0 ELSE Delay
            IN  CASE kind = "dav1d" ->
                        IF Len(held) > room THEN Show(held) /\ status' = "asked"
                        ELSE Hold(held) /\ UNCHANGED status
                  [] kind = "vvdec" -> (Show(held) \/ Hold(held)) /\ status' = "run"
                  [] kind = "annexb" -> Hold(held) /\ UNCHANGED status
  BY <1>1 DEF Opened
<1>3. kind \in {"dav1d", "vvdec", "annexb"} /\ status \in {"new", "data", "asked", "run", "flush", "eof"}
  BY <1>0 DEF ProbeTypes, DecTypes, ProbeDecAssumption
<1>4. /\ Show(held) \/ Hold(held)
      /\ kind = "dav1d" => \/ Show(held) /\ status' = "asked"
                           \/ ~(Len(held) > Room) /\ Hold(held) /\ status' = status
      /\ kind = "vvdec" => status' = "run"
      /\ kind = "annexb" => status' = status
  BY <1>2, <1>3 DEF Room
<1>5. /\ probe \in Nat /\ frames \in Nat /\ fed \in Nat /\ got \in Nat /\ got <= fed
      /\ fed + 1 \in Nat /\ fed' = fed + 1 /\ fed + 1 <= frames /\ got < fed + 1
      /\ got + 1 <= fed + 1 /\ got + 1 \in Nat
  BY <1>0, <1>2, Numbers
<1>6. queue \in Seq(Pic) /\ cur = NoPic /\ dpb \subseteq Bufs /\ data \in [Bufs -> Pic]
  BY <1>0, <1>1 DEF ProbeTypes, PicTypes, Pictures, GivenOut
<1>7. pic \in Pic /\ pic.probe = probe /\ pic.frame = fed + 1 /\ pic.buf = b
  BY <1>2, <1>5 DEF Pic
<1>8. /\ held \in Seq(Pic) /\ held # <<>> /\ Len(held) = Len(queue) + 1 /\ Len(queue) \in Nat
      /\ held[Len(queue) + 1] = pic
      /\ \A i \in 1 .. Len(queue) : held[i] = queue[i]
      /\ \A i \in 1 .. Len(held) : i \in 1 .. Len(queue) \/ i = Len(queue) + 1
  <2>1. held \in Seq(Pic) /\ Len(held) = Len(queue) + 1 /\ Len(queue) \in Nat
        /\ held[Len(queue) + 1] = pic /\ \A i \in 1 .. Len(queue) : held[i] = queue[i]
    BY <1>2, <1>6, <1>7
  <2>2. held # <<>>
    BY <2>1, PicSeq
  <2>3. \A i \in 1 .. Len(held) : i \in 1 .. Len(queue) \/ i = Len(queue) + 1
    BY <2>1
  <2> QED BY <2>1, <2>2, <2>3
<1>9. Len(held) = fed + 1 - got
  BY <1>0, <1>5, <1>8 DEF Pictures, HeldBack
\* The buffer was nobody's.
<1>10. kind # "annexb" => /\ b \in Bufs /\ b \notin Used
                          /\ local' \in Bufs \cup {Null} /\ shared' \in Bufs \cup {Null}
                          /\ made' \in 0 .. MaxBufs /\ next' \in [Bufs -> 0 .. MaxBufs + 1]
                          /\ (Used' = Used \cup {b} => Pool')
  BY <1>0, <1>2, TakeStep
<1>11. /\ dpb' \subseteq Bufs /\ data' \in [Bufs -> Pic]
       /\ \A c \in Used : data'[c] = data[c]
       /\ (kind # "annexb" => data'[b] = pic)
  <2>1. CASE kind = "annexb"
    BY <1>2, <1>6, <2>1 DEF pool
  <2>2. CASE kind # "annexb"
    <3>1. Used \subseteq Bufs
      <4>1. \A c : c \in Used <=>
                (c # Null /\ (c = cur.buf \/ c \in dpb \/ (\E i \in 1 .. Len(queue) : c = queue[i].buf)))
        BY <1>6, NoPicIsPic, UsedNow, InUse
      <4> QED BY <1>6, <4>1, PicSeq, NoPicIsPic
    <3> QED BY <1>2, <1>6, <1>7, <1>10, <2>2, <3>1
  <2> QED BY <2>1, <2>2
<1>12. \A i \in 1 .. Len(held) : /\ held[i].probe = probe /\ held[i].frame = got + i
                                 /\ held[i].buf # Null => data'[held[i].buf] = held[i]
  <2> SUFFICES ASSUME NEW i \in 1 .. Len(held)
               PROVE /\ held[i].probe = probe /\ held[i].frame = got + i
                     /\ held[i].buf # Null => data'[held[i].buf] = held[i]
    OBVIOUS
  <2>1. CASE i \in 1 .. Len(queue)
    <3>1. held[i] = queue[i] /\ queue[i].probe = probe /\ queue[i].frame = got + i /\ Stored(queue[i])
      BY <1>0, <1>8, <2>1 DEF Pictures, HeldBack
    <3>2. queue[i].buf # Null => queue[i].buf \in Used
      BY <1>6, <2>1, NoPicIsPic, UsedNow, InUse
    <3> QED BY <1>11, <3>1, <3>2 DEF Stored
  <2>2. CASE i = Len(queue) + 1
    <3>1. held[i] = pic /\ fed + 1 = got + i
      BY <1>5, <1>8, <1>9, <2>2
    <3>2. pic.buf # Null => kind # "annexb"
      BY <1>2, <1>7
    <3>3. pic.buf # Null => data'[pic.buf] = pic
      BY <1>7, <1>11, <3>2
    <3>4. pic.probe = probe /\ pic.frame = got + i
      BY <1>7, <3>1
    <3> QED BY <3>1, <3>3, <3>4
  <2> QED BY <1>8, <2>1, <2>2
\* The pool, whichever picture is given out.
<1>13. Used' = UsedBy(NoPic, held, dpb')
  <2>1. CASE Show(held)
    BY <1>8, <2>1, ShowStep
  <2>2. CASE Hold(held)
    BY <1>6, <2>2, UsedNow DEF Hold
  <2> QED BY <1>4, <2>1, <2>2
<1>14. \A c : c \in Used' <=> IF kind = "annexb" THEN c \in Used ELSE c \in Used \cup {b}
  <2>1. \A c : c \in Used' <=>
            (c # Null /\ (c \in dpb' \/ (\E i \in 1 .. Len(held) : c = held[i].buf)))
    BY <1>8, <1>13, NoPicIsPic, InUse
  <2>2. \A c : c \in Used <=>
            (c # Null /\ (c \in dpb \/ (\E i \in 1 .. Len(queue) : c = queue[i].buf)))
    BY <1>6, NoPicIsPic, UsedNow, InUse
  <2>3. \A c : (\E i \in 1 .. Len(held) : c = held[i].buf)
               <=> (c = b \/ (\E i \in 1 .. Len(queue) : c = queue[i].buf))
    <3>1. \A i \in 1 .. Len(queue) : i \in 1 .. Len(held)
      BY <1>8
    <3>2. Len(queue) + 1 \in 1 .. Len(held)
      BY <1>8
    <3> QED BY <1>7, <1>8, <3>1, <3>2
  <2>4. b = Null \/ kind # "annexb"
    BY <1>2
  <2>5. CASE kind = "annexb"
    <3>1. b = Null /\ dpb' = dpb
      BY <1>2, <2>5
    <3> QED BY <2>1, <2>2, <2>3, <2>5, <3>1
  <2>6. CASE kind # "annexb"
    <3>1. dpb' = dpb \cup {b} /\ b # Null
      BY <1>2, <1>10, <2>6, Constants DEF Bufs, Null
    <3> QED BY <2>1, <2>2, <2>3, <2>6, <3>1
  <2> QED BY <2>5, <2>6
<1>15. Pool'
  <2>1. CASE kind = "annexb"
    <3>1. Used' = Used
      BY <1>14, <2>1
    <3> QED BY <1>0, <1>2, <2>1, <3>1, PoolStill
  <2>2. CASE kind # "annexb"
    <3>1. Used' = Used \cup {b}
      BY <1>14, <2>2
    <3> QED BY <1>10, <2>2, <3>1
  <2> QED BY <2>1, <2>2
<1>16. /\ local' \in Bufs \cup {Null} /\ shared' \in Bufs \cup {Null}
       /\ made' \in 0 .. MaxBufs /\ next' \in [Bufs -> 0 .. MaxBufs + 1]
  <2>1. CASE kind = "annexb"
    BY <1>0, <1>2, <2>1 DEF ProbeTypes, ListTypes, pool
  <2>2. CASE kind # "annexb"
    BY <1>10, <2>2
  <2> QED BY <2>1, <2>2
<1>17. GiverTypes' /\ ListTypes'
  <2>1. UNCHANGED <<tpc, base, head>>
    BY <1>2 DEF givers
  <2> QED BY <1>0, <1>16, <2>1 DEF ProbeTypes, GiverTypes, ListTypes
<1>18. probe' = probe /\ frames' = frames /\ kind' = kind /\ low' = low
  BY <1>2
<1>19. Room' = Room
  BY <1>18 DEF Room
<1>20. probe # 0 /\ (kind = "dav1d" => /\ frames > 0 => Room < frames
                                       /\ status = "data" => got = 0 /\ fed <= Room)
  BY <1>0, <1>1 DEF Turns, Worked, Asked
<1>21. status' \in {"new", "data", "asked", "run", "flush", "eof"}
  BY <1>3, <1>4
<1>22. Flushed'
  BY <1>4, <1>18, <1>20 DEF Flushed
<1>23. CASE Show(held)
  <2>1. /\ cur' \in Pic /\ cur' = held[1] /\ queue' \in Seq(Pic) /\ Len(queue') = Len(held) - 1
        /\ \A i \in 1 .. Len(queue') : i + 1 \in 1 .. Len(held) /\ queue'[i] = held[i + 1]
        /\ got' = got + 1 /\ mpc' = "show"
    BY <1>8, <1>23, ShowStep
  <2>2. HeldBack'
    <3>1. Len(queue') = fed' - got'
      BY <1>5, <1>9, <2>1
    <3>2. ASSUME NEW i \in 1 .. Len(queue')
          PROVE queue'[i].probe = probe' /\ queue'[i].frame = got' + i /\ Stored(queue[i])'
      <4>1. i + 1 \in 1 .. Len(held) /\ queue'[i] = held[i + 1] /\ i \in Int
        BY <2>1
      <4>2. held[i + 1].probe = probe /\ held[i + 1].frame = got + (i + 1)
            /\ (held[i + 1].buf # Null => data'[held[i + 1].buf] = held[i + 1])
        BY <1>12, <4>1
      <4>3. got + (i + 1) = got' + i
        BY <1>5, <2>1, <4>1
      <4>4. Stored(queue[i])'
        BY <4>1, <4>2 DEF Stored
      <4> QED BY <1>18, <4>1, <4>2, <4>3, <4>4
    <3> QED BY <3>1, <3>2 DEF HeldBack
  <2>3. GivenOut'
    <3>1. 1 \in 1 .. Len(held)
      BY <1>8
    <3>2. held[1].probe = probe /\ held[1].frame = got + 1
          /\ (held[1].buf # Null => data'[held[1].buf] = held[1])
      BY <1>12, <3>1
    <3>3. Stored(cur)'
      BY <2>1, <3>2 DEF Stored
    <3>4. cur'.probe = probe' /\ cur'.frame = got' /\ probe' \in Nat /\ got' \in Nat
      BY <1>5, <1>18, <2>1, <3>2
    <3> QED BY <2>1, <3>3, <3>4 DEF GivenOut
  <2>4. Worked'
    BY <1>0, <1>1, <1>18, <2>1 DEF Turns, Worked
  <2>5. Asked'
    <3>1. kind = "dav1d" => status' = "asked"
      BY <1>4, <1>23, <2>1 DEF Hold
    <3> QED BY <1>18, <1>19, <1>20, <3>1 DEF Asked
  <2>6. DecTypes'
    <3>1. kind \in Kinds
      BY <1>0 DEF ProbeTypes, DecTypes
    <3>2. got' \in Nat /\ fed' \in Nat /\ got' <= fed' /\ fed' <= frames'
      BY <1>5, <1>18, <2>1
    <3> QED BY <1>5, <1>18, <1>21, <2>1, <3>1, <3>2 DEF DecTypes
  <2>7. PicTypes'
    BY <1>11, <2>1 DEF PicTypes
  <2> QED BY <1>15, <1>17, <1>22, <2>2, <2>3, <2>4, <2>5, <2>6, <2>7
          DEF ProbeInv, ProbeTypes, Pictures, Turns
<1>24. CASE Hold(held)
  <2>1. queue' = held /\ cur' = NoPic /\ got' = got /\ mpc' = "pull"
    BY <1>1, <1>6, <1>24 DEF Hold
  <2>2. HeldBack'
    <3>1. Len(queue') = fed' - got'
      BY <1>5, <1>9, <2>1
    <3> QED BY <1>12, <1>18, <2>1, <3>1 DEF HeldBack, Stored
  <2>3. GivenOut'
    <3>1. Stored(cur)' /\ cur'.probe = 0 /\ cur'.frame = 0 /\ probe' \in Nat /\ got' \in Nat
      BY <1>5, <1>18, <2>1, NoPicIsPic DEF Stored
    <3> QED BY <2>1, <3>1 DEF GivenOut
  <2>4. Worked'
    BY <1>0, <1>1, <1>18, <2>1 DEF Turns, Worked
  <2>5. Asked'
    <3>1. ASSUME kind = "dav1d", status' = "data"
          PROVE got' = 0 /\ fed' <= Room
      <4>1. status = "data" /\ ~(Len(held) > Room)
        BY <1>4, <3>1
      <4>2. got = 0 /\ Len(held) = fed' /\ Len(held) \in Nat
        BY <1>5, <1>9, <1>20, <3>1, <4>1
      <4>3. Room \in Nat
        BY Constants DEF Room
      <4> QED BY <2>1, <4>1, <4>2, <4>3
    <3> QED BY <1>18, <1>19, <1>20, <3>1 DEF Asked
  <2>6. DecTypes'
    <3>1. kind \in Kinds
      BY <1>0 DEF ProbeTypes, DecTypes
    <3>2. got' \in Nat /\ fed' \in Nat /\ got' <= fed' /\ fed' <= frames'
      BY <1>5, <1>18, <2>1
    <3> QED BY <1>5, <1>18, <1>21, <2>1, <3>1, <3>2 DEF DecTypes
  <2>7. PicTypes'
    BY <1>8, <1>11, <2>1, NoPicIsPic DEF PicTypes
  <2> QED BY <1>15, <1>17, <1>22, <2>2, <2>3, <2>4, <2>5, <2>6, <2>7
          DEF ProbeInv, ProbeTypes, Pictures, Turns
<1> QED BY <1>4, <1>23, <1>24

----------------------------------------------------------------------------
LEMMA InitProbe ==
    ASSUME ProbeDecAssumption, Init
    PROVE ProbeInv
<1>1. /\ mpc = "load" /\ probe = 0 /\ frames = 0 /\ fed = 0 /\ got = 0 /\ status = "new"
      /\ queue = <<>> /\ cur = NoPic /\ dpb = {} /\ shared = Null /\ local = Null /\ made = 0
      /\ next = [b \in Bufs |-> Junk] /\ data = [b \in Bufs |-> NoPic]
      /\ tpc = [t \in Threads |-> "idle"]
      /\ base = [t \in Threads |-> Null] /\ head = [t \in Threads |-> Null]
  BY DEF Init
<1>2. DecTypes
  BY <1>1 DEF Init, DecTypes
<1>3. PicTypes
  BY <1>1, NoPicIsPic DEF PicTypes
<1>4. ListTypes /\ GiverTypes
  <2>1. Junk \in 0 .. MaxBufs + 1 /\ 0 \in 0 .. MaxBufs
    BY Constants DEF Junk
  <2> QED BY <1>1, <2>1 DEF ListTypes, GiverTypes
<1>5. HeldBack /\ GivenOut
  BY <1>1, NoPicIsPic DEF HeldBack, GivenOut, Stored
<1>6. Turns
  BY <1>1 DEF Turns, Worked, Asked, Flushed
<1>7. Used = {} /\ Busy = {} /\ Coming = {}
  BY <1>1, NoPicIsPic DEF Used, Held, Busy, Coming
<1>8. Pool
  <2>1. Path(local, <<>>, next) /\ Path(shared, <<>>, next) /\ Elems(<<>>) = {}
    BY <1>1, PathEmpty
  <2>2. 1 .. made = {}
    BY <1>1
  <2>3. Placed(<<>>, <<>>)
    BY <1>7, <2>1, <2>2 DEF Placed, Apart
  <2>4. <<>> \in Seq(Bufs)
    OBVIOUS
  <2> QED BY <1>7, <2>3, <2>4 DEF Pool, Bring
<1> QED BY <1>2, <1>3, <1>4, <1>5, <1>6, <1>8 DEF ProbeInv, ProbeTypes, Pictures

LEMMA ProbeStep ==
    ASSUME ProbeDecAssumption, ProbeInv, [Next]_vars
    PROVE ProbeInv'
<1>1. CASE Worker
  BY <1>1, LoadStep, UnrefStep, QuietStep, DecodeStep, RestStep DEF Worker
<1>2. ASSUME NEW t \in Threads, LoadHead(t) \/ Push(t)
      PROVE ProbeInv'
  BY <1>2, HeadStep, PushStep
<1>3. ASSUME NEW t \in Releasers, DropRef(t)
      PROVE ProbeInv'
  <2>1. t \in Threads
    BY Constants
  <2> QED BY <1>3, <2>1, DropRefStep
<1>4. CASE UNCHANGED vars
  <2>1. UNCHANGED <<kind, mpc, probe, frames, fed, got, low, status, queue, cur, dpb, pool, givers>>
    BY <1>4 DEF vars, pics
  <2>2. UNCHANGED <<shared, local, next, data, made, tpc, base, head>>
    BY <2>1 DEF pool, givers
  <2>3. Pool'
    <3>1. Used' = Used
      BY <2>1, UsedNow
    <3> QED BY <2>1, <3>1, PoolStill DEF ProbeInv
  <2>4. ProbeTypes'
    BY <2>1, <2>2 DEF ProbeInv, ProbeTypes, DecTypes, PicTypes, ListTypes, GiverTypes
  <2>5. Pictures' /\ Turns'
    BY <2>1, <2>2 DEF ProbeInv, Pictures, HeldBack, GivenOut, Turns, Worked, Asked, Flushed, Stored, Room
  <2> QED BY <2>3, <2>4, <2>5 DEF ProbeInv
<1> QED BY <1>1, <1>2, <1>3, <1>4 DEF Next

\* The inductive invariant of a metric worker's decoder and of the pool of pictures under it
\* (load, dec_next and the drain of dav1d.rs, vvdec.rs and annexb.rs; PinPool of vship.rs).
THEOREM ProbeInvariant == ASSUME ProbeDecAssumption PROVE Spec => []ProbeInv
<1>1. Init => ProbeInv
  BY InitProbe
<1>2. ProbeInv /\ [Next]_vars => ProbeInv'
  BY ProbeStep
<1> QED BY <1>1, <1>2, PTL DEF Spec

LEMMA ScoresNow == ASSUME ProbeDecAssumption, ProbeInv PROVE ScoresItsFrames
<1>0. ProbeTypes /\ HeldBack /\ GivenOut /\ Turns
  BY DEF ProbeInv, Pictures
<1>1. mpc = "show" => cur.probe = probe /\ cur.frame = got /\ (cur.buf # Null => data[cur.buf] = cur)
  BY <1>0 DEF GivenOut, Stored
<1>2. mpc = "drain" => queue = <<>>
  <2>1. queue \in Seq(Pic) /\ (mpc = "drain" => Len(queue) = 0)
    <3>1. mpc = "drain" => fed = 0 /\ got = 0
      BY <1>0 DEF Turns, Worked
    <3>2. queue \in Seq(Pic) /\ Len(queue) = fed - got
      BY <1>0 DEF ProbeTypes, PicTypes, HeldBack
    <3> QED BY <3>1, <3>2
  <2> QED BY <2>1, PicSeq
<1>3. ~Fatal
  <2> SUFFICES ASSUME Fatal PROVE FALSE
    OBVIOUS
  <2>1. mpc = "pull" /\ ~Ready
    BY DEF Fatal
  <2>2. got < frames /\ got \in Nat /\ fed \in Nat /\ frames \in Nat
    BY <1>0, <2>1, Numbers DEF Turns, Worked
  <2>3. fed = frames => queue # <<>>
    <3>1. queue \in Seq(Pic) /\ Len(queue) = fed - got
      BY <1>0 DEF ProbeTypes, PicTypes, HeldBack
    <3>2. fed = frames => Len(queue) # 0
      BY <2>2, <3>1
    <3> QED BY <3>1, <3>2, PicSeq
  <2>4. CASE fed < frames /\ Refused
    <3>1. fed # frames
      BY <2>2, <2>4
    <3> QED BY <1>0, <2>1, <2>4, <3>1 DEF Refused, Turns, Flushed
  <2>5. CASE fed = frames /\ kind = "annexb" /\ status = "flush"
    BY <2>1, <2>3, <2>5 DEF Ready
  <2>6. CASE fed = frames /\ kind # "annexb" /\ kind = "dav1d" /\ status = "data"
    <3>1. frames > 0 /\ Room \in Nat
      BY <2>2, Constants DEF Room
    <3>2. Room < frames /\ fed <= Room
      BY <1>0, <2>6, <3>1 DEF Turns, Asked
    <3> QED BY <2>2, <2>6, <3>1, <3>2
  <2> QED BY <2>3, <2>4, <2>5, <2>6 DEF Fatal
<1> QED BY <1>1, <1>2, <1>3 DEF ScoresItsFrames

\* A metric compares the frame of its probe whose turn it is, in a buffer nobody decodes into
\* meanwhile, and no probe runs out of pictures before its frames are scored (dav1d.rs, vvdec.rs,
\* annexb.rs).
THEOREM FramesAreScored == ASSUME ProbeDecAssumption PROVE Spec => []ScoresItsFrames
<1>1. ProbeInv => ScoresItsFrames
  BY ScoresNow
<1> QED BY <1>1, ProbeInvariant, PTL

----------------------------------------------------------------------------
\* The lists as the property counts them.

LEMMA Inductive ==
    ASSUME NEW S, 0 \in S, \A n \in Nat : n \in S => n + 1 \in S
    PROVE Nat \subseteq S
<1> SUFFICES ASSUME Nat \ S # {} PROVE FALSE
  OBVIOUS
<1>1. PICK m \in Nat \ S : \A x \in Nat \ S : ~(<<x, m>> \in OpToRel(<, Nat))
  <2>1. IsWellFoundedOn(OpToRel(<, Nat), Nat)
    BY NatLessThanWellFounded
  <2>2. Nat \ S \subseteq Nat
    OBVIOUS
  <2> QED BY <2>1, <2>2, WFMin
<1>2. m - 1 \in Nat \ S
  <2>1. m # 0 /\ m \in Nat
    BY <1>1
  <2>2. m - 1 \in Nat /\ (m - 1) + 1 = m
    BY <2>1
  <2> QED BY <1>1, <2>2
<1>3. <<m - 1, m>> \in OpToRel(<, Nat)
  <2>0. m \in Nat
    BY <1>1
  <2>3. m - 1 \in Nat
    BY <1>2
  <2>1. m \in Nat /\ m - 1 \in Nat /\ m - 1 < m
    BY <2>0, <2>3
  <2>2. <<m - 1, m>> \in Nat \X Nat
    BY <2>1
  <2> QED BY <2>1, <2>2 DEF OpToRel
<1> QED BY <1>1, <1>2, <1>3

\* Following the links from h collects the path.
LEMMA ChainIsPath ==
    ASSUME MaxBufs \in Nat, NEW h, NEW s, Path(h, s, next), Len(s) <= MaxBufs
    PROVE Chain(h) = Elems(s)
<1> DEFINE Node(f) == [i \in 0 .. MaxBufs |->
                          IF i = 0 THEN h
                          ELSE IF f[i - 1] \in Bufs THEN next[f[i - 1]] ELSE Null]
           node == CHOOSE f : f = Node(f)
           g == [i \in 0 .. MaxBufs |-> IF i < Len(s) THEN s[i + 1] ELSE Null]
<1>1. Chain(h) = {node[i] : i \in 0 .. MaxBufs} \ {Null}
  BY DEF Chain
<1>2. s \in Seq(Bufs) /\ Len(s) \in Nat /\ Null \notin Bufs
  BY DEF Path, Bufs, Null
<1>3. h = g[0]
  <2>1. 0 \in 0 .. MaxBufs
    OBVIOUS
  <2>2. CASE s = <<>>
    <3>1. h = Null /\ ~(0 < Len(s))
      BY <2>2 DEF Path
    <3> QED BY <2>1, <3>1
  <2>3. CASE s # <<>>
    <3>1. h = s[1] /\ 0 < Len(s)
      BY <1>2, <2>3, EmptyLen DEF Path
    <3> QED BY <2>1, <3>1
  <2> QED BY <2>2, <2>3
<1>4. ASSUME NEW i \in 1 .. MaxBufs
      PROVE g[i] = IF g[i - 1] \in Bufs THEN next[g[i - 1]] ELSE Null
  <2>1. i - 1 \in 0 .. MaxBufs /\ i \in 0 .. MaxBufs /\ (i - 1) + 1 = i
    OBVIOUS
  <2>2. CASE i < Len(s)
    <3>1. i \in 1 .. Len(s) /\ i - 1 < Len(s)
      BY <1>2, <2>2
    <3>2. g[i - 1] = s[i] /\ g[i] = s[i + 1] /\ s[i] \in Bufs
      BY <1>2, <2>1, <2>2, <3>1
    <3>3. next[s[i]] = s[i + 1]
      BY <2>2, <3>1 DEF Path
    <3> QED BY <3>2, <3>3
  <2>3. CASE i = Len(s)
    <3>1. i \in 1 .. Len(s) /\ i - 1 < Len(s) /\ ~(i < Len(s))
      BY <1>2, <2>3
    <3>2. g[i - 1] = s[i] /\ g[i] = Null /\ s[i] \in Bufs
      BY <1>2, <2>1, <3>1
    <3>3. s # <<>>
      BY <1>2, <3>1, EmptyLen
    <3>4. next[s[i]] = Null
      BY <2>3, <3>3 DEF Path
    <3> QED BY <3>2, <3>4
  <2>4. CASE i > Len(s)
    <3>1. ~(i < Len(s)) /\ ~(i - 1 < Len(s))
      BY <1>2, <2>4
    <3>2. g[i - 1] = Null /\ g[i] = Null
      BY <2>1, <3>1
    <3> QED BY <1>2, <3>2
  <2> QED BY <1>2, <2>2, <2>3, <2>4
<1>5. g = Node(g)
  <2>1. ASSUME NEW i \in 0 .. MaxBufs PROVE g[i] = Node(g)[i]
    <3>1. CASE i = 0
      BY <1>3, <3>1
    <3>2. CASE i # 0
      <4>1. i \in 1 .. MaxBufs
        BY <3>2
      <4>2. g[i] = IF g[i - 1] \in Bufs THEN next[g[i - 1]] ELSE Null
        BY <1>4, <4>1
      <4> HIDE DEF g
      <4> QED BY <3>2, <4>2
    <3> QED BY <3>1, <3>2
  <2>2. g = [i \in 0 .. MaxBufs |-> g[i]] /\ Node(g) = [i \in 0 .. MaxBufs |-> Node(g)[i]]
    OBVIOUS
  <2> HIDE DEF g, Node
  <2> QED BY <2>1, <2>2
<1>6. node = Node(node)
  <2> HIDE DEF g, Node
  <2> QED BY <1>5
<1>7. \A i \in 0 .. MaxBufs : node[i] = g[i]
  <2> DEFINE Agree == {i \in Nat : i <= MaxBufs => node[i] = g[i]}
  <2> HIDE DEF node
  <2>1. node[0] = h
    BY <1>6
  <2>2. 0 \in Agree
    BY <1>3, <2>1
  <2>3. ASSUME NEW i \in Nat, i \in Agree PROVE i + 1 \in Agree
    <3> SUFFICES ASSUME i + 1 <= MaxBufs PROVE node[i + 1] = g[i + 1]
      OBVIOUS
    <3>1. i <= MaxBufs /\ i + 1 \in 1 .. MaxBufs /\ i + 1 \in 0 .. MaxBufs /\ (i + 1) - 1 = i /\ i + 1 # 0
      OBVIOUS
    <3>2. node[i] = g[i]
      BY <2>3, <3>1
    <3>3. g[i + 1] = IF g[i] \in Bufs THEN next[g[i]] ELSE Null
      <4> HIDE DEF g
      <4> QED BY <1>4, <3>1
    <3> HIDE DEF g
    <3>4. node[i + 1] = IF node[i] \in Bufs THEN next[node[i]] ELSE Null
      BY <1>6, <3>1
    <3> QED BY <3>2, <3>3, <3>4
  <2>4. Nat \subseteq Agree
    <3> HIDE DEF Agree
    <3> QED BY <2>2, <2>3, Inductive
  <2>5. \A i \in Nat : i <= MaxBufs => node[i] = g[i]
    BY <2>4
  <2> HIDE DEF g, Agree
  <2> QED BY <2>5
<1>8. {g[i] : i \in 0 .. MaxBufs} \ {Null} = Elems(s)
  <2>1. ASSUME NEW i \in 0 .. MaxBufs, g[i] # Null PROVE g[i] \in Elems(s)
    <3>1. i < Len(s) /\ g[i] = s[i + 1]
      BY <2>1
    <3>2. i + 1 \in 1 .. Len(s)
      BY <1>2, <3>1
    <3> QED BY <3>1, <3>2 DEF Elems
  <2>2. ASSUME NEW k \in 1 .. Len(s) PROVE s[k] # Null /\ \E i \in 0 .. MaxBufs : s[k] = g[i]
    <3>1. k - 1 \in 0 .. MaxBufs /\ k - 1 < Len(s) /\ (k - 1) + 1 = k
      BY <1>2
    <3>2. g[k - 1] = s[k] /\ s[k] \in Bufs
      BY <1>2, <3>1
    <3> QED BY <1>2, <3>1, <3>2
  <2> HIDE DEF g
  <2> QED BY <2>1, <2>2 DEF Elems
<1> HIDE DEF node, g
<1> QED BY <1>1, <1>7, <1>8

LEMMA Interval ==
    ASSUME NEW n \in Nat PROVE IsFiniteSet(1 .. n) /\ Cardinality(1 .. n) = n
<1>1. 1 \in Int /\ n \in Int
  OBVIOUS
<1>2. IsFiniteSet(1 .. n) /\ Cardinality(1 .. n) = IF 1 > n THEN 0 ELSE n - 1 + 1
  BY ONLY <1>1, FS_Interval
<1>3. (IF 1 > n THEN 0 ELSE n - 1 + 1) = n
  OBVIOUS
<1> QED BY <1>2, <1>3

\* Two finite sets with nothing in common count together.
LEMMA Disjoint ==
    ASSUME NEW P, NEW Q, IsFiniteSet(P), IsFiniteSet(Q), P \cap Q = {}
    PROVE IsFiniteSet(P \cup Q) /\ Cardinality(P \cup Q) = Cardinality(P) + Cardinality(Q)
<1>1. IsFiniteSet(P \cup Q)
      /\ Cardinality(P \cup Q) = Cardinality(P) + Cardinality(Q) - Cardinality(P \cap Q)
  BY FS_Union
<1>2. Cardinality(P \cap Q) = 0
  BY FS_EmptySet
<1>3. PICK p \in Nat, q \in Nat : Cardinality(P) = p /\ Cardinality(Q) = q
  BY FS_CardinalityType
<1>4. p + q - 0 = p + q
  OBVIOUS
<1> QED BY <1>1, <1>2, <1>3, <1>4, Zenon

LEMMA PathShort ==
    ASSUME MaxBufs \in Nat, NEW h, NEW s, Path(h, s, next)
    PROVE Len(s) <= MaxBufs
<1>1. s \in [1 .. Len(s) -> 1 .. MaxBufs] /\ Len(s) \in Nat
  BY DEF Path, Bufs
<1>2. s \in Injection(1 .. Len(s), 1 .. MaxBufs)
  <2>1. \A i, k \in 1 .. Len(s) : s[i] = s[k] => i = k
    BY DEF Path
  <2> QED BY <1>1, <2>1 DEF Injection, IsInjective
<1>3. IsFiniteSet(1 .. MaxBufs) /\ Cardinality(1 .. MaxBufs) = MaxBufs /\ Cardinality(1 .. Len(s)) = Len(s)
  BY <1>1, Interval
<1>4. Cardinality(1 .. Len(s)) <= Cardinality(1 .. MaxBufs)
  BY <1>2, <1>3, FS_Injection
<1> QED BY <1>3, <1>4

LEMMA PlacedNow == ASSUME ProbeDecAssumption, ProbeInv PROVE BufferInOnePlace
<1>0. PICK L \in Seq(Bufs), S \in Seq(Bufs) : Placed(L, S)
  BY DEF ProbeInv, Pool
<1>1. MaxBufs \in Nat /\ made \in Nat
  BY Constants DEF ProbeInv, ProbeTypes, ListTypes
<1>2. Chain(local) = Elems(L) /\ Chain(shared) = Elems(S)
  BY <1>0, <1>1, PathShort, ChainIsPath DEF Placed
<1> DEFINE A == Used  B == Coming  C == Elems(L)  D == Elems(S)
<1>3. Apart(A, B, C, D)
  BY <1>0 DEF Placed
<1> HIDE DEF A, B, C, D
<1>4. IsFiniteSet(1 .. made) /\ Cardinality(1 .. made) = made
  BY <1>1, Interval
<1>5. IsFiniteSet(A) /\ IsFiniteSet(B) /\ IsFiniteSet(C) /\ IsFiniteSet(D)
  <2>1. A \in SUBSET (1 .. made) /\ B \in SUBSET (1 .. made) /\ C \in SUBSET (1 .. made)
        /\ D \in SUBSET (1 .. made)
    BY <1>3 DEF Apart
  <2> QED BY <1>4, <2>1, FS_Subset
<1>6. Cardinality(A) + Cardinality(B) + Cardinality(C) + Cardinality(D) = made
  <2>1. A \cap B = {} /\ (A \cup B) \cap C = {} /\ (A \cup B \cup C) \cap D = {}
        /\ A \cup B \cup C \cup D = 1 .. made
    BY <1>3 DEF Apart
  <2>2. Cardinality(A) \in Nat /\ Cardinality(B) \in Nat /\ Cardinality(C) \in Nat /\ Cardinality(D) \in Nat
    BY <1>5, FS_CardinalityType
  <2>3. IsFiniteSet(A \cup B) /\ Cardinality(A \cup B) = Cardinality(A) + Cardinality(B)
    BY <1>5, <2>1, Disjoint
  <2>4. /\ IsFiniteSet((A \cup B) \cup C)
        /\ Cardinality((A \cup B) \cup C) = Cardinality(A \cup B) + Cardinality(C)
    BY <1>5, <2>1, <2>3, Disjoint
  <2>5. Cardinality((A \cup B \cup C) \cup D) = Cardinality((A \cup B) \cup C) + Cardinality(D)
    BY <1>5, <2>1, <2>4, Disjoint
  <2> QED BY <1>4, <2>1, <2>3, <2>4, <2>5, Zenon
\* As many threads are on their way with a buffer as there are buffers on their way.
<1>7. Cardinality(Busy) = Cardinality(Coming)
  <2> DEFINE f == [t \in Busy |-> base[t]]
  <2>1. f \in Bijection(Busy, Coming)
    <3>1. f \in [Busy -> Coming]
      BY DEF Coming
    <3>2. \A t, u \in Busy : f[t] = f[u] => t = u
      BY DEF ProbeInv, Pool, Bring
    <3>3. \A b \in Coming : \E t \in Busy : f[t] = b
      BY DEF Coming
    <3> HIDE DEF f
    <3> QED BY <3>1, <3>2, <3>3, Fun_IsBij
  <2>2. ExistsBijection(Busy, Coming)
    BY <2>1 DEF ExistsBijection
  <2>3. ExistsBijection(Coming, Busy)
    BY <2>2, Fun_ExistsBijSymmetric
  <2> QED BY <1>5, <2>3, FS_Bijection DEF B
<1>8. /\ UNION {Used, Coming, Chain(local), Chain(shared)} = 1 .. made
      /\ Cardinality(Used) + Cardinality(Busy) + Cardinality(Chain(local)) + Cardinality(Chain(shared)) = made
  <2>1. UNION {A, B, C, D} = A \cup B \cup C \cup D
    OBVIOUS
  <2> QED BY <1>2, <1>3, <1>6, <1>7, <2>1 DEF A, B, C, D, Apart
<1>9. Used = (Held \cup dpb) \ {Null} /\ Busy = {t \in Threads : tpc[t] # "idle"}
      /\ Coming = {base[t] : t \in {u \in Threads : tpc[u] # "idle"}}
  BY DEF Used, Busy, Coming
<1> QED BY <1>8, <1>9 DEF BufferInOnePlace

\* Every buffer of the pool is in use, on its way back, or on one of the two lists, once: none is
\* lost and none is free twice, however many threads give buffers back and whatever order their
\* compare-and-swaps come in (PinPool::get, PinPool::put of vship.rs).
THEOREM BuffersPlaced == ASSUME ProbeDecAssumption PROVE Spec => []BufferInOnePlace
<1>1. ProbeInv => BufferInOnePlace
  BY PlacedNow
<1> QED BY <1>1, ProbeInvariant, PTL

\* The invariant types the state.
LEMMA ShowsTypes == ASSUME ProbeDecAssumption PROVE ProbeInv => TypeOK
<1> SUFFICES ASSUME ProbeInv PROVE TypeOK
  OBVIOUS
<1>1. fed \in 0 .. frames /\ got \in 0 .. fed
  BY Numbers DEF ProbeInv
<1> QED BY <1>1 DEF ProbeInv, ProbeTypes, DecTypes, PicTypes, ListTypes, TypeOK

\* The state keeps its types.
THEOREM ProbeTyped == ASSUME ProbeDecAssumption PROVE Spec => []TypeOK
<1>1. ProbeInv => TypeOK
  BY ShowsTypes
<1> QED BY <1>1, ProbeInvariant, PTL
=============================================================================
