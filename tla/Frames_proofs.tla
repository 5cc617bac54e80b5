---------------------------- MODULE Frames_proofs ----------------------------
(***************************************************************************)
(* Which frames a chunk gets, for every number of frames, scene file,      *)
(* ranges, key frames, timebase and bound of Frames.                       *)
(*                                                                         *)
(* Pieces: the chunks follow each other, each lies in what is kept and     *)
(* together they are all of it; so the frames a script gives before a      *)
(* chunk are as many as the chunks before it have (BetweenPieces), which   *)
(* is what the pipe counts on.  Placed: where the decoder or the pipe is   *)
(* when a chunk is next.  In a file this rests on arithmetic: a frame has  *)
(* at least two ticks, so the frame pts_frame finds for a stored time is   *)
(* the one that was stored, rounded up or down (FrameBack), and the frame  *)
(* computed after a seek is the one the decoder is at (Lands, Skips).      *)
(***************************************************************************)
EXTENDS Frames, FiniteSetTheorems, FunctionTheorems, SequenceTheorems, WellFoundedInduction, TLAPS

LEMMA Least == ASSUME NEW S, S \subseteq Nat, S # {} PROVE \E m \in S : \A k \in S : m <= k
<1>1. IsWellFoundedOn(OpToRel(<, Nat), Nat)
  BY NatLessThanWellFounded
<1>2. PICK m \in S : \A k \in S : ~(<<k, m>> \in OpToRel(<, Nat))
  BY <1>1, WFMin
<1>3. ASSUME NEW k \in S, k < m PROVE FALSE
  <2>1. <<k, m>> \in Nat \X Nat
    OBVIOUS
  <2>2. <<k, m>> \in OpToRel(<, Nat)
    BY <1>3, <2>1 DEF OpToRel
  <2> QED BY <1>2, <2>2
<1>4. m \in S /\ m \in Nat
  BY <1>2
<1> QED BY <1>3, <1>4

\* A number is its quotient and its remainder.
LEMMA Divide == ASSUME NEW q \in Nat, NEW d \in Nat, NEW r \in Nat, r < d
                PROVE  (q * d + r) \div d = q /\ (q * d + r) % d = r
<1> DEFINE n == q * d + r
           X == n \div d
           m == n % d
<1>1. n \in Nat /\ X \in Nat /\ m \in Nat /\ m < d /\ n = d * X + m
  OBVIOUS
<1>2. n = q * d + r
  OBVIOUS
<1> HIDE DEF n, X, m
<1>3. X = q
  <2>1. CASE X < q
    <3>1. d * (X + 1) <= d * q
      BY <1>1, <2>1
    <3> QED BY <3>1, <1>1, <1>2
  <2>2. CASE q < X
    <3>1. d * (q + 1) <= d * X
      BY <1>1, <2>2
    <3> QED BY <3>1, <1>1, <1>2
  <2> QED BY <2>1, <2>2, <1>1
<1>4. m = r
  BY <1>1, <1>2, <1>3
<1> QED BY <1>3, <1>4 DEF X, m, n

LEMMA Multiple == ASSUME NEW d \in Nat, d > 0, NEW q \in Nat PROVE (q * d) % d = 0 /\ q * d \in Nat
<1>1. (q * d + 0) % d = 0
  BY Divide
<1>2. q * d \in Nat
  OBVIOUS
<1> QED BY <1>1, <1>2

LEMMA DivBounds == ASSUME NEW A \in Nat, A > 0, NEW x \in Nat
                   PROVE  LET q == (x + A - 1) \div A
                          IN  q \in Nat /\ x <= q * A /\ q * A < x + A
<1> DEFINE y == x + A - 1
           q == y \div A
           r == y % A
<1>1. y \in Nat /\ q \in Nat /\ r \in Nat /\ r < A /\ y = A * q + r
  OBVIOUS
<1>2. y = x + A - 1
  OBVIOUS
<1>3. q * A = A * q /\ q * A \in Nat
  BY <1>1
<1> HIDE DEF y, q, r
<1>4. q \in Nat /\ x <= q * A /\ q * A < x + A
  BY <1>1, <1>2, <1>3
<1> QED BY <1>4 DEF q, y

\* What divides a number divides its multiples.
LEMMA Divided == ASSUME NEW c \in Nat, c > 0, NEW n \in Nat, NEW k \in Nat, n % c = 0
                 PROVE  (n * k) % c = 0
<1>1. n \div c \in Nat /\ n = (n \div c) * c
  OBVIOUS
<1>2. PICK q \in Nat : n = q * c
  BY <1>1
<1>3. n * k = (q * k) * c /\ q * k \in Nat
  BY <1>2
<1>4. ((q * k) * c) % c = 0
  BY <1>3, Multiple
<1> QED BY <1>3, <1>4

LEMMA Quotient == ASSUME NEW c \in Nat, c > 0, NEW n \in Nat, n % c = 0
                  PROVE  \E q \in Nat : n = q * c
<1>1. n \div c \in Nat /\ n = (n \div c) * c
  OBVIOUS
<1> QED BY <1>1

LEMMA Times == \A a, b, c \in Nat : (a * b) * c = a * (b * c)
  OBVIOUS
\* How many members of S lie below x.
Rank(S, x) == Cardinality({y \in S : y < x})

LEMMA RankLess == ASSUME NEW S, S \subseteq Nat, IsFiniteSet(S), NEW x \in Nat, NEW z \in Nat, x <= z
                  PROVE  /\ Rank(S, x) \in Nat /\ Rank(S, z) \in Nat
                         /\ Rank(S, x) <= Rank(S, z)
                         /\ x \in S /\ x < z => Rank(S, x) < Rank(S, z)
<1> DEFINE X == {y \in S : y < x}
           Z == {y \in S : y < z}
<1>0. X \in SUBSET S /\ Z \in SUBSET S
  OBVIOUS
<1>1. IsFiniteSet(X) /\ IsFiniteSet(Z)
  BY <1>0, FS_Subset
<1>b. X \in SUBSET Z
  <2> SUFFICES ASSUME NEW y \in X PROVE y \in Z
    OBVIOUS
  <2>1. y \in S /\ y \in Nat /\ y < x
    OBVIOUS
  <2> QED BY <2>1
<1>2. Cardinality(X) \in Nat /\ Cardinality(Z) \in Nat /\ Cardinality(X) <= Cardinality(Z)
  BY <1>1, <1>b, FS_CardinalityType, FS_Subset
<1>3. ASSUME x \in S, x < z PROVE Cardinality(X) < Cardinality(Z)
  <2>1. x \in Z /\ x \notin X
    BY <1>3
  <2>2. Cardinality(X) # Cardinality(Z)
    BY <1>1, <1>b, <2>1, FS_Subset
  <2> QED BY <1>2, <2>2
<1> QED BY <1>2, <1>3 DEF Rank

LEMMA RankNext == ASSUME NEW S, S \subseteq Nat, IsFiniteSet(S), NEW x \in S
                  PROVE  Rank(S, x + 1) = Rank(S, x) + 1
<1> DEFINE X == {y \in S : y < x}
           Z == {y \in S : y < x + 1}
<1>1. x \in Nat
  OBVIOUS
<1>2. Z = X \cup {x}
  <2>1. ASSUME NEW y \in S PROVE y < x + 1 <=> y < x \/ y = x
    <3>1. y \in Nat
      OBVIOUS
    <3> QED BY <1>1, <3>1
  <2> QED BY <1>1, <2>1
<1>3. x \notin X /\ X \in SUBSET S
  BY <1>1
<1>f. IsFiniteSet(X)
  BY <1>3, FS_Subset
<1>4. Cardinality(Z) = Cardinality(X) + 1
  BY <1>2, <1>3, <1>f, FS_AddElement
<1> QED BY <1>4 DEF Rank

LEMMA RankIs == ASSUME NEW S, S \subseteq Nat, IsFiniteSet(S)
                PROVE  /\ \A x \in S : Rank(S, x) \in 0 .. Cardinality(S) - 1
                       /\ \A x, z \in S : Rank(S, x) = Rank(S, z) => x = z
                       /\ \A i \in 0 .. Cardinality(S) - 1 : \E x \in S : Rank(S, x) = i
<1> DEFINE n == Cardinality(S)
           r == [x \in S |-> Rank(S, x)]
<1>1. n \in Nat
  BY FS_CardinalityType
<1>2. ASSUME NEW x \in S PROVE Rank(S, x) \in 0 .. n - 1
  <2> DEFINE X == {y \in S : y < x}
  <2>1. IsFiniteSet(X) /\ Cardinality(X) \in Nat /\ Cardinality(X) <= n /\ X # S
    <3>1. x \notin X
      OBVIOUS
    <3>2. X \in SUBSET S
      OBVIOUS
    <3> QED BY <3>1, <3>2, FS_Subset, FS_CardinalityType
  <2>2. Cardinality(X) # n
    BY <2>1, FS_Subset
  <2> QED BY <1>1, <2>1, <2>2 DEF Rank
<1>3. ASSUME NEW x \in S, NEW z \in S, Rank(S, x) = Rank(S, z) PROVE x = z
  <2>1. x \in Nat /\ z \in Nat
    OBVIOUS
  <2>2. CASE x < z
    <3>1. x <= z
      BY <2>1, <2>2
    <3>2. Rank(S, x) \in Nat /\ Rank(S, z) \in Nat /\ Rank(S, x) < Rank(S, z)
      BY <2>1, <2>2, <3>1, RankLess
    <3> QED BY <1>3, <3>2
  <2>3. CASE z < x
    <3>1. z <= x
      BY <2>1, <2>3
    <3>2. Rank(S, x) \in Nat /\ Rank(S, z) \in Nat /\ Rank(S, z) < Rank(S, x)
      BY <2>1, <2>3, <3>1, RankLess
    <3> QED BY <1>3, <3>2
  <2> QED BY <2>1, <2>2, <2>3
<1>4. r \in Injection(S, 0 .. n - 1)
  BY <1>2, <1>3, Fun_IsInj
<1>5. IsFiniteSet(0 .. n - 1) /\ Cardinality(0 .. n - 1) = n
  <2>1. 0 \in Int /\ n - 1 \in Int
    BY <1>1
  <2>2. Cardinality(0 .. n - 1) = IF 0 > n - 1 THEN 0 ELSE (n - 1) - 0 + 1
    BY <2>1, FS_Interval
  <2>3. (IF 0 > n - 1 THEN 0 ELSE (n - 1) - 0 + 1) = n
    BY <1>1
  <2> QED BY <2>1, <2>2, <2>3, FS_Interval
<1>6. r \in Surjection(S, 0 .. n - 1)
  BY <1>4, <1>5, FS_Injection
<1>7. \A i \in 0 .. n - 1 : \E x \in S : r[x] = i
  BY <1>6 DEF Surjection
<1> QED BY <1>2, <1>3, <1>7

LEMMA Ascends == ASSUME NEW S, S \subseteq Nat, IsFiniteSet(S)
                 PROVE  LET a == Ascending(S) IN
                        /\ Cardinality(S) \in Nat
                        /\ a \in [1 .. Cardinality(S) -> S]
                        /\ \A i \in 1 .. Cardinality(S) : Rank(S, a[i]) = i - 1
                        /\ \A i, j \in 1 .. Cardinality(S) : i < j => a[i] < a[j]
                        /\ \A x \in S : /\ Rank(S, x) + 1 \in 1 .. Cardinality(S)
                                        /\ a[Rank(S, x) + 1] = x
<1> DEFINE n == Cardinality(S)
           a == Ascending(S)
<1>1. n \in Nat
  BY FS_CardinalityType
<1>2. ASSUME NEW i \in 1 .. n PROVE a[i] \in S /\ Rank(S, a[i]) = i - 1
  <2>1. a[i] = CHOOSE x \in S : Rank(S, x) = i - 1
    BY DEF Ascending, Rank
  <2>2. i - 1 \in 0 .. n - 1
    BY <1>1
  <2>3. \E x \in S : Rank(S, x) = i - 1
    BY <2>2, RankIs
  <2> QED BY <2>1, <2>3
<1>3. a \in [1 .. n -> {a[i] : i \in 1 .. n}] /\ DOMAIN a = 1 .. n
  <2>1. a = [i \in 1 .. n |-> CHOOSE x \in S : Cardinality({y \in S : y < x}) = i - 1]
    BY DEF Ascending
  <2> QED BY <2>1
<1>4. a \in [1 .. n -> S]
  BY <1>2, <1>3
<1>5. ASSUME NEW i \in 1 .. n, NEW j \in 1 .. n, i < j PROVE a[i] < a[j]
  <2>0. a[i] \in S /\ a[j] \in S /\ Rank(S, a[i]) = i - 1 /\ Rank(S, a[j]) = j - 1
    BY <1>2
  <2>1. a[i] \in Nat /\ a[j] \in Nat /\ Rank(S, a[i]) < Rank(S, a[j])
    <3>1. i - 1 < j - 1 /\ i \in Int /\ j \in Int
      BY <1>1, <1>5
    <3>2. a[i] \in Nat /\ a[j] \in Nat
      BY <2>0
    <3> QED BY <2>0, <3>1, <3>2
  <2>2. CASE a[j] <= a[i]
    <3>1. /\ Rank(S, a[j]) \in Nat /\ Rank(S, a[i]) \in Nat
          /\ Rank(S, a[j]) <= Rank(S, a[i])
      BY <2>1, <2>2, RankLess
    <3> QED BY <2>1, <3>1
  <2> QED BY <2>1, <2>2
<1>6. ASSUME NEW x \in S PROVE Rank(S, x) + 1 \in 1 .. n /\ a[Rank(S, x) + 1] = x
  <2>1. Rank(S, x) \in 0 .. n - 1
    BY RankIs
  <2>2. Rank(S, x) + 1 \in 1 .. n /\ (Rank(S, x) + 1) - 1 = Rank(S, x)
    BY <1>1, <2>1
  <2>3. a[Rank(S, x) + 1] \in S /\ Rank(S, a[Rank(S, x) + 1]) = Rank(S, x)
    BY <1>2, <2>2
  <2> QED BY <2>2, <2>3, RankIs
<1> QED BY <1>1, <1>2, <1>4, <1>5, <1>6

LEMMA MinIs == ASSUME NEW S, S \subseteq Nat, S # {}
               PROVE  Min(S) \in S /\ \A y \in S : Min(S) <= y
<1>1. \E m \in S : \A y \in S : m <= y
  BY Least
<1> QED BY <1>1 DEF Min

LEMMA MaxIs == ASSUME NEW S, S \subseteq Nat, S # {}, NEW n \in Nat, \A y \in S : y <= n
               PROVE  Max(S) \in S /\ \A y \in S : y <= Max(S)
<1> DEFINE D == {n - y : y \in S}
<1>1. D \subseteq Nat /\ D # {}
  <2>1. \A y \in S : n - y \in Nat
    <3> TAKE y \in S
    <3>1. y \in Nat /\ y <= n
      OBVIOUS
    <3> QED BY <3>1
  <2>2. PICK y \in S : TRUE
    OBVIOUS
  <2>3. n - y \in D
    OBVIOUS
  <2> QED BY <2>1, <2>3
<1>2. PICK d \in D : \A e \in D : d <= e
  BY <1>1, Least
<1>3. PICK m \in S : d = n - m
  OBVIOUS
<1>4. ASSUME NEW y \in S PROVE y <= m
  <2>1. n - m <= n - y
    BY <1>2, <1>3
  <2>2. m \in Nat /\ y \in Nat
    OBVIOUS
  <2> QED BY <2>1, <2>2
<1>5. \E x \in S : \A y \in S : y <= x
  BY <1>4
<1> QED BY <1>5 DEF Max

----------------------------------------------------------------------------
\* Where a seek lands.

\* A time is stored rounded to ticks, down or up; pts_frame gives the frame back, since a frame
\* has two ticks or more.
LEMMA TimeOf == ASSUME NEW f \in Nat, ts \in Nat \X Nat, ts[2] > 0, ts[1] >= 2 * ts[2], up \in BOOLEAN
                PROVE  /\ Pts(f) \in Nat
                       /\ Pts(f) * ts[2] < f * ts[1] + ts[2]
                       /\ Pts(f) * ts[2] + ts[2] > f * ts[1]
                       /\ up => Pts(f) * ts[2] >= f * ts[1]
                       /\ ~up => Pts(f) * ts[2] <= f * ts[1]
<1> DEFINE m == ts[1]
           d == ts[2]
<1>1. m \in Nat /\ d \in Nat /\ d > 0 /\ f * m \in Nat
  OBVIOUS
<1>2. CASE up
  <2>1. Pts(f) = (f * m + d - 1) \div d
    BY <1>1, <1>2 DEF Pts
  <2>2. Pts(f) \in Nat /\ f * m <= Pts(f) * d /\ Pts(f) * d < f * m + d
    BY <1>1, <2>1, DivBounds
  <2> QED BY <1>1, <1>2, <2>2
<1>3. CASE ~up
  <2> DEFINE q == (f * m) \div d
             r == (f * m) % d
  <2>1. Pts(f) = q
    BY <1>1, <1>3 DEF Pts
  <2>2. q \in Nat /\ r \in Nat /\ r < d /\ f * m = d * q + r
    BY <1>1
  <2>3. d * q = q * d
    BY <1>1, <2>2
  <2>4. Pts(f) * d = q * d /\ q * d \in Nat
    <3>1. Pts(f) * d = q * d
      BY <2>1
    <3>2. q * d \in Nat
      <4> HIDE DEF q, d
      <4> QED BY <1>1, <2>2
    <3> QED BY <3>1, <3>2
  <2>5. Pts(f) * d <= f * m /\ f * m < Pts(f) * d + d
    <3> HIDE DEF q, r, m, d
    <3> QED BY <1>1, <2>2, <2>3, <2>4
  <2> QED BY <1>1, <1>3, <2>1, <2>2, <2>4, <2>5
<1> QED BY <1>2, <1>3

LEMMA FrameBack == ASSUME NEW f \in Nat, ts \in Nat \X Nat, ts[2] > 0, ts[1] >= 2 * ts[2], up \in BOOLEAN
                   PROVE  PtsFrame(Pts(f)) = f
<1> DEFINE m == ts[1]
           d == ts[2]
           t == Pts(f)
           h == m \div 2
<1>1. m \in Nat /\ d \in Nat /\ d > 0 /\ m >= 2 * d /\ f * m \in Nat
  OBVIOUS
<1>2. h \in Nat /\ 2 * h <= m /\ m <= 2 * h + 1
  BY <1>1
<1>3. t \in Nat /\ t * d \in Nat /\ t * d < f * m + d /\ t * d + d > f * m
  <2>1. t \in Nat /\ t * d < f * m + d /\ t * d + d > f * m
    BY TimeOf
  <2> QED BY <1>1, <2>1
<1>4. t * d + h >= f * m /\ t * d + h < f * m + m
  <2> HIDE DEF t, h, m, d
  <2>1. h >= d
    BY <1>1, <1>2
  <2>2. (up => t * d >= f * m) /\ (~up => t * d <= f * m)
    BY TimeOf DEF t, m, d
  <2>3. t * d >= f * m - d + 1
    BY <1>1, <1>3
  <2>4. t * d <= f * m + d - 1
    BY <1>1, <1>3
  <2>5. d + h <= m
    BY <1>1, <1>2
  <2> QED BY <1>1, <1>2, <1>3, <2>1, <2>3, <2>4, <2>5
<1>5. PICK r \in Nat : t * d + h = f * m + r /\ r < m
  <2> HIDE DEF t, h, m, d
  <2>1. t * d + h - f * m \in Nat
    BY <1>1, <1>2, <1>3, <1>4
  <2> QED BY <1>1, <1>2, <1>3, <1>4, <2>1
<1>6. (f * m + r) \div m = f
  BY <1>1, <1>5, Divide
<1> QED BY <1>5, <1>6 DEF PtsFrame

\* What the file and the arguments are.
Source == /\ cuts \subseteq Nat /\ IsFiniteSet(cuts) /\ 0 \in cuts
          /\ keys \subseteq Nat /\ 0 \in keys
          /\ ts \in Nat \X Nat /\ ts[2] > 0 /\ ts[1] >= 2 * ts[2] /\ up \in BOOLEAN
          /\ ranges \in Seq(Nat \X Nat)
          /\ \A k \in DOMAIN ranges : ranges[k][2] < Frm
          /\ Frm \in Nat \ {0} /\ Near \in Nat

\* A seek lands at or before the frame, on a key frame whose time says which one it is.
LEMMA Lands == ASSUME Source, NEW f \in Nat
               PROVE  /\ Landing(f) \in Nat /\ Landing(f) <= f
                      /\ Sought(f) = <<Landing(f) + 1, Landing(f) + 1>>
<1> DEFINE m == ts[1]
           d == ts[2]
           K == {k \in keys : Pts(k) <= (f * m) \div d} \cup {Min(keys)}
<1>1. m \in Nat /\ d \in Nat /\ d > 0 /\ m >= 2 * d /\ f * m \in Nat
  BY DEF Source
<1>2. Min(keys) = 0 /\ keys \subseteq Nat
  <2>1. Min(keys) \in keys /\ \A y \in keys : Min(keys) <= y
    BY MinIs DEF Source
  <2>2. Min(keys) <= 0 /\ Min(keys) \in Nat
    BY <2>1 DEF Source
  <2> QED BY <2>2 DEF Source
<1>3. ASSUME NEW k \in keys, Pts(k) <= (f * m) \div d PROVE k <= f
  <2> DEFINE q == (f * m) \div d
             t == Pts(k)
             j == k - (f + 1)
  <2>0. k \in Nat
    BY <1>2
  <2>1. t \in Nat /\ t * d + d > k * m
    BY <2>0, TimeOf DEF Source
  <2>2. q \in Nat /\ d * q <= f * m
    BY <1>1
  <2>3. t * d <= d * q
    <3>1. t <= q
      BY <1>3
    <3>2. q - t \in Nat
      BY <2>1, <2>2, <3>1
    <3> HIDE DEF t, q, d
    <3>3. d * (q - t) \in Nat /\ d * (q - t) = d * q - d * t /\ t * d = d * t
      BY <1>1, <2>1, <2>2, <3>2
    <3>4. d * q \in Nat /\ d * t \in Nat
      BY <1>1, <2>1, <2>2
    <3> QED BY <3>3, <3>4
  <2>4. ASSUME k > f PROVE FALSE
    <3>1. j \in Nat /\ k = f + 1 + j
      BY <2>0, <2>4
    <3>2. k * m = f * m + m + j * m /\ j * m \in Nat /\ k * m \in Nat
      <4> HIDE DEF j, m
      <4> QED BY <1>1, <3>1
    <3>3. t * d \in Nat /\ d * q \in Nat
      <4> HIDE DEF t, q, d
      <4> QED BY <1>1, <2>1, <2>2
    <3> HIDE DEF t, q, d, m, j
    <3> QED BY <1>1, <2>1, <2>2, <2>3, <3>2, <3>3
  <2> QED BY <2>0, <2>4
<1>4. K \subseteq Nat /\ K # {} /\ \A y \in K : y <= f
  <2>1. ASSUME NEW y \in K PROVE y \in Nat /\ y <= f
    <3>1. CASE y = Min(keys)
      BY <1>2, <3>1
    <3>2. CASE y \in keys /\ Pts(y) <= (f * m) \div d
      BY <1>2, <1>3, <3>2
    <3> QED BY <3>1, <3>2
  <2> HIDE DEF K
  <2>2. K # {}
    BY DEF K
  <2> QED BY <2>1, <2>2
<1>5. Max(K) \in K
  <2> HIDE DEF K
  <2> QED BY <1>4, MaxIs
<1>6. Landing(f) \in Nat /\ Landing(f) <= f
  BY <1>4, <1>5 DEF Landing
<1>7. PtsFrame(Pts(Landing(f))) = Landing(f)
  BY <1>6, FrameBack DEF Source
<1> QED BY <1>6, <1>7 DEF Sought

\* The decoder is where the frame is, whatever it did to get there.
LEMMA Skips == ASSUME Source, NEW f \in Nat, NEW g \in Nat, g <= f
               PROVE  SkipTo(f, <<g, g>>) = <<f, f>>
<1>1. ASSUME NEW a \in Nat, a <= f PROVE Ahead(f, <<a, a>>) = <<f, f>>
  BY <1>1 DEF Ahead
<1>2. CASE f - g > Near
  <2>1. f > 0 /\ f - 1 \in Nat
    BY <1>2 DEF Source
  <2>2. Landing(f) \in Nat /\ Landing(f) <= f /\ Sought(f) = <<Landing(f) + 1, Landing(f) + 1>>
    BY Lands
  <2>3. /\ Landing(f - 1) \in Nat /\ Landing(f - 1) <= f - 1
        /\ Sought(f - 1) = <<Landing(f - 1) + 1, Landing(f - 1) + 1>>
    BY <2>1, Lands
  <2>4. SkipTo(f, <<g, g>>) = Ahead(f, IF Sought(f)[1] > f THEN Sought(f - 1) ELSE Sought(f))
    BY <1>2 DEF SkipTo
  <2>5. CASE Sought(f)[1] > f
    <3>1. Landing(f - 1) + 1 \in Nat /\ Landing(f - 1) + 1 <= f
      BY <2>1, <2>3
    <3> QED BY <1>1, <2>3, <2>4, <2>5, <3>1
  <2>6. CASE ~(Sought(f)[1] > f)
    <3>1. Landing(f) + 1 \in Nat /\ Landing(f) + 1 <= f
      BY <2>2, <2>6
    <3> QED BY <1>1, <2>2, <2>4, <2>6, <3>1
  <2> QED BY <2>5, <2>6
<1>3. CASE ~(f - g > Near)
  <2>1. ~(f < g)
    OBVIOUS
  <2>2. SkipTo(f, <<g, g>>) = Ahead(f, <<g, g>>)
    BY <1>3, <2>1 DEF SkipTo
  <2> QED BY <1>1, <2>2
<1> QED BY <1>2, <1>3

LEMMA OfLength == ASSUME NEW n \in Nat, NEW S, NEW f \in [1 .. n -> S] PROVE f \in Seq(S) /\ Len(f) = n
<1>1. f \in Seq(S)
  BY SeqDef
<1>2. DOMAIN f = 1 .. n /\ DOMAIN f = 1 .. Len(f) /\ Len(f) \in Nat
  BY <1>1, LenProperties
<1> QED BY <1>1, <1>2

\* What val_scenes lets pass: the kept frames in pieces, in order, each with the parameters of
\* the scene it begins in.
Pieces(sc) == /\ Len(sc) \in Nat /\ DOMAIN sc = 1 .. Len(sc)
              /\ \A i \in DOMAIN sc : /\ sc[i].s \in Nat /\ sc[i].e \in Nat /\ sc[i].s < sc[i].e
                                      /\ sc[i].p = SceneParams(sc[i].s)
              /\ \A i, j \in DOMAIN sc : i < j => sc[i].e <= sc[j].s
              /\ \A i \in DOMAIN sc : \A f \in sc[i].s .. sc[i].e - 1 : f \in Kept
              /\ \A f \in Kept : \E i \in DOMAIN sc : f \in sc[i].s .. sc[i].e - 1

LEMMA KeptFinite == ASSUME Source PROVE Kept \subseteq 0 .. Frm - 1 /\ Kept \subseteq Nat /\ IsFiniteSet(Kept)
<1>1. Kept \subseteq 0 .. Frm - 1
  <2> SUFFICES ASSUME NEW f \in Kept PROVE f \in 0 .. Frm - 1
    OBVIOUS
  <2>1. CASE Ranged
    <3>1. PICK k \in DOMAIN ranges : f \in ranges[k][1] .. ranges[k][2]
      BY <2>1 DEF Kept
    <3>2. ranges[k] \in Nat \X Nat /\ ranges[k][2] < Frm
      BY ElementOfSeq, LenProperties DEF Source
    <3> QED BY <3>1, <3>2 DEF Source
  <2>2. CASE ~Ranged
    BY <2>2 DEF Kept
  <2> QED BY <2>1, <2>2
<1>2. IsFiniteSet(0 .. Frm - 1)
  BY FS_Interval DEF Source
<1>3. Kept \in SUBSET (0 .. Frm - 1)
  BY <1>1
<1>4. IsFiniteSet(Kept)
  BY <1>2, <1>3, FS_Subset
<1>5. 0 .. Frm - 1 \subseteq Nat
  OBVIOUS
<1> QED BY <1>1, <1>4, <1>5

\* load_scenes: the scenes from cut to cut.
LEMMA LoadedPieces == ASSUME Source, ~Ranged, Valid(Loaded) PROVE Pieces(Loaded)
<1> DEFINE c == Ascending(cuts)
           n == Cardinality(cuts)
           sc == Loaded
           next(i) == IF i < n THEN c[i + 1] ELSE Frm
<1>1. /\ n \in Nat /\ c \in [1 .. n -> cuts]
      /\ \A i, j \in 1 .. n : i < j => c[i] < c[j]
      /\ \A x \in cuts : \E i \in 1 .. n : c[i] = x
  <2>1. cuts \subseteq Nat /\ IsFiniteSet(cuts)
    BY DEF Source
  <2> QED BY <2>1, Ascends
<1>2. Len(c) = n /\ DOMAIN c = 1 .. n
  BY <1>1, OfLength
<1>3. sc = [i \in 1 .. n |-> [s |-> c[i], e |-> next(i), p |-> Params(c[i])]]
  BY <1>2 DEF Loaded
<1> HIDE DEF c, n, sc
<1>4. Len(sc) = n /\ DOMAIN sc = 1 .. n
  <2>1. sc \in [1 .. n -> {[s |-> c[i], e |-> next(i), p |-> Params(c[i])] : i \in 1 .. n}]
    BY <1>3
  <2> HIDE DEF next
  <2> QED BY <1>1, <2>1, OfLength
<1>5. ASSUME NEW i \in 1 .. n
      PROVE  /\ sc[i].s = c[i] /\ sc[i].e = next(i) /\ sc[i].p = Params(c[i])
             /\ c[i] \in Nat /\ c[i] \in cuts /\ next(i) \in Nat /\ c[i] < next(i)
  <2>1. sc[i].s = c[i] /\ sc[i].e = next(i) /\ sc[i].p = Params(c[i])
    BY <1>3
  <2>2. c[i] \in Nat /\ c[i] \in cuts
    BY <1>1 DEF Source
  <2>3. next(i) \in Nat
    <3>1. CASE i < n
      <4>1. i + 1 \in 1 .. n
        BY <1>1, <3>1
      <4>2. c[i + 1] \in cuts
        BY <1>1, <4>1
      <4> QED BY <3>1, <4>2 DEF Source
    <3> QED BY <3>1 DEF Source
  <2>4. next(i) - c[i] \in 1 .. MaxChnk
    BY <1>4, <2>1 DEF Valid, sc
  <2>5. next(i) - c[i] >= 1
    BY <2>4
  <2> HIDE DEF next
  <2> QED BY <2>1, <2>2, <2>3, <2>5
\* No cut lies between a scene's start and its end.
<1>6. ASSUME NEW i \in 1 .. n, NEW x \in cuts, c[i] < x PROVE next(i) <= x
  <2>1. PICK j \in 1 .. n : c[j] = x
    BY <1>1
  <2>2. x \in Nat /\ c[i] \in Nat
    BY <1>1 DEF Source
  <2>3. i < j
    <3>1. CASE j < i
      BY <1>1, <1>6, <2>1, <2>2, <3>1
    <3>2. CASE j = i
      BY <1>6, <2>1, <2>2, <3>2
    <3> QED BY <1>1, <3>1, <3>2
  <2>4. i + 1 \in 1 .. n /\ i < n
    BY <1>1, <2>3
  <2>5. CASE i + 1 = j
    BY <2>1, <2>2, <2>4, <2>5
  <2>6. CASE i + 1 < j
    <3>1. c[i + 1] < c[j] /\ c[i + 1] \in Nat
      BY <1>1, <2>4, <2>6 DEF Source
    <3> QED BY <2>1, <2>2, <2>4, <3>1
  <2> QED BY <1>1, <2>3, <2>5, <2>6
<1>7. ASSUME NEW i \in 1 .. n PROVE Params(c[i]) = SceneParams(c[i])
  <2> DEFINE S == {x \in cuts : x <= c[i]}
  <2>0. c[i] \in Nat /\ c[i] \in cuts
    BY <1>5
  <2>1. c[i] \in S /\ S \subseteq cuts /\ \A y \in S : y <= c[i]
    BY <2>0
  <2>a. S \subseteq Nat /\ S # {}
    <3> HIDE DEF S
    <3> QED BY <2>1 DEF Source
  <2>2. Max(S) \in S /\ \A y \in S : y <= Max(S)
    <3> HIDE DEF S
    <3> QED BY <2>0, <2>1, <2>a, MaxIs
  <2>3. Max(S) = c[i]
    <3> HIDE DEF S
    <3>1. Max(S) \in Nat /\ Max(S) <= c[i]
      BY <2>1, <2>a, <2>2
    <3>2. c[i] <= Max(S)
      BY <2>1, <2>2
    <3> QED BY <2>0, <3>1, <3>2
  <2> QED BY <2>1, <2>3 DEF SceneParams
<1>8. Kept = 0 .. Frm - 1
  BY DEF Kept
<1>9. ASSUME NEW f \in Kept PROVE \E i \in 1 .. n : f \in c[i] .. next(i) - 1
  <2> DEFINE S == {x \in cuts : x <= f}
  <2>1. f \in Nat /\ f < Frm
    BY <1>8 DEF Source
  <2>a. 0 \in S /\ S \subseteq cuts /\ \A y \in S : y <= f
    BY <2>1 DEF Source
  <2>2. 0 \in S /\ S \subseteq Nat /\ \A y \in S : y <= f
    <3> HIDE DEF S
    <3> QED BY <2>a DEF Source
  <2>3. Max(S) \in S /\ \A y \in S : y <= Max(S)
    <3> HIDE DEF S
    <3> QED BY <2>1, <2>2, MaxIs
  <2>4. PICK i \in 1 .. n : c[i] = Max(S)
    BY <1>1, <2>3
  <2>5. c[i] <= f /\ c[i] \in Nat /\ next(i) \in Nat
    BY <1>5, <2>3, <2>4
  <2>6. f < next(i)
    <3>1. CASE i < n
      <4>1. i + 1 \in 1 .. n
        BY <1>1, <3>1
      <4>2. c[i + 1] \in cuts /\ c[i] < c[i + 1]
        BY <1>1, <3>1, <4>1
      <4>3. c[i + 1] \in Nat
        BY <4>2 DEF Source
      <4>4. c[i + 1] \notin S
        BY <2>3, <2>4, <2>5, <4>2, <4>3
      <4> QED BY <2>1, <3>1, <4>2, <4>3, <4>4
    <3>2. CASE ~(i < n)
      BY <2>1, <3>2
    <3> QED BY <3>1, <3>2
  <2> HIDE DEF next
  <2> QED BY <2>1, <2>5, <2>6
<1>10. ASSUME NEW i \in 1 .. n PROVE next(i) <= Frm
  <2>1. \A j \in 1 .. n : j = n => next(j) = Frm
    OBVIOUS
  <2>2. CASE i = n
    BY <2>1, <2>2 DEF Source
  <2>3. CASE i # n
    <3>1. i < n /\ i \in 1 .. n /\ n \in 1 .. n
      BY <1>1, <2>3
    <3>2. c[i] < c[n] /\ c[n] \in cuts
      BY <1>1, <3>1
    <3>3. next(i) <= c[n]
      BY <1>6, <3>2
    <3>4. c[n] < next(n) /\ next(n) = Frm /\ c[n] \in Nat
      BY <1>5, <2>1, <3>1
    <3>5. next(i) \in Nat
      BY <1>5
    <3> HIDE DEF next
    <3> QED BY <3>3, <3>4, <3>5 DEF Source
  <2> QED BY <2>2, <2>3
<1> HIDE DEF next
<1>11. ASSUME NEW i \in 1 .. n, NEW f \in sc[i].s .. sc[i].e - 1 PROVE f \in Kept
  <2>1. c[i] \in Nat /\ next(i) \in Nat /\ next(i) <= Frm /\ f \in c[i] .. next(i) - 1
    BY <1>5, <1>10
  <2> QED BY <1>8, <2>1 DEF Source
<1>12. ASSUME NEW i \in 1 .. n, NEW j \in 1 .. n, i < j PROVE sc[i].e <= sc[j].s
  BY <1>1, <1>5, <1>6, <1>12
<1>13. ASSUME NEW f \in Kept PROVE \E i \in DOMAIN sc : f \in sc[i].s .. sc[i].e - 1
  BY <1>4, <1>5, <1>9
<1>14. ASSUME NEW i \in 1 .. n
       PROVE /\ sc[i].s \in Nat /\ sc[i].e \in Nat /\ sc[i].s < sc[i].e
             /\ sc[i].p = SceneParams(sc[i].s)
  BY <1>5, <1>7
<1>15. Pieces(sc)
  BY <1>1, <1>4, <1>11, <1>12, <1>13, <1>14 DEF Pieces
<1> QED BY <1>15 DEF sc

\* trans_scenes: the cuts that lie in a range, up to the next cut.
LEMMA TransedPieces == ASSUME Source, Ranged PROVE Pieces(Transed)
<1> DEFINE A == AllCuts
           In == {x \in A : Holding(x) # {}}
           c == Ascending(In)
           n == Cardinality(In)
           sc == Transed
           last(x) == ranges[Min(Holding(x))][2] + 1
           end(x) == Min({y \in A : y > x} \cup {last(x)})
<1>1. \A k \in DOMAIN ranges : /\ ranges[k][1] \in Nat /\ ranges[k][2] \in Nat
                               /\ ranges[k][1] \in A /\ ranges[k][2] + 1 \in A
                               /\ k \in Nat
  <2> SUFFICES ASSUME NEW k \in DOMAIN ranges
               PROVE  /\ ranges[k][1] \in Nat /\ ranges[k][2] \in Nat
                      /\ ranges[k][1] \in A /\ ranges[k][2] + 1 \in A
                      /\ k \in Nat
    OBVIOUS
  <2>1. ranges[k] \in Nat \X Nat /\ k \in Nat
    BY ElementOfSeq, LenProperties DEF Source
  <2>2. ranges[k][1] \in A /\ ranges[k][2] + 1 \in A
    BY DEF AllCuts
  <2> QED BY <2>1, <2>2
<1>2. A \subseteq Nat
  <2> SUFFICES ASSUME NEW x \in A PROVE x \in Nat
    OBVIOUS
  <2>1. CASE x \in cuts
    BY <2>1 DEF Source
  <2>2. CASE x \notin cuts
    <3>1. PICK k \in DOMAIN ranges : x \in {ranges[k][1], ranges[k][2] + 1}
      BY <2>2 DEF AllCuts
    <3> QED BY <1>1, <3>1
  <2> QED BY <2>1, <2>2
<1>3. \A f : f \in Kept <=> \E k \in DOMAIN ranges : f \in ranges[k][1] .. ranges[k][2]
  BY DEF Kept
\* The range the end of a piece is taken from.
<1>4. ASSUME NEW x \in Nat, Holding(x) # {}
      PROVE  \E k \in DOMAIN ranges : ranges[k][1] <= x /\ x <= ranges[k][2]
                                      /\ last(x) = ranges[k][2] + 1
  <2>1. Holding(x) \subseteq DOMAIN ranges /\ Holding(x) \subseteq Nat
    BY <1>1 DEF Holding
  <2>2. Min(Holding(x)) \in Holding(x)
    BY <1>4, <2>1, MinIs
  <2> QED BY <2>2 DEF Holding, InRange
<1>5. In \subseteq A /\ In \subseteq Kept
  <2> SUFFICES ASSUME NEW x \in In PROVE x \in Kept
    OBVIOUS
  <2>1. x \in Nat /\ Holding(x) # {}
    BY <1>2
  <2>2. PICK k \in DOMAIN ranges : ranges[k][1] <= x /\ x <= ranges[k][2]
    BY <1>4, <2>1
  <2>3. x \in ranges[k][1] .. ranges[k][2]
    BY <1>1, <2>1, <2>2
  <2> QED BY <1>3, <2>3
<1>6. In \subseteq Nat /\ IsFiniteSet(In)
  <2>1. Kept \subseteq Nat /\ IsFiniteSet(Kept) /\ In \in SUBSET Kept
    BY <1>5, KeptFinite
  <2> QED BY <2>1, FS_Subset
<1>7. /\ n \in Nat /\ c \in [1 .. n -> In]
      /\ \A i, j \in 1 .. n : i < j => c[i] < c[j]
      /\ \A x \in In : \E i \in 1 .. n : c[i] = x
  <2> HIDE DEF In
  <2> QED BY <1>6, Ascends
<1>8. DOMAIN c = 1 .. n
  BY <1>7
<1>9. sc = [i \in 1 .. n |-> [s |-> c[i], p |-> SceneParams(c[i]), e |-> end(c[i])]]
  BY <1>8 DEF Transed
<1> HIDE DEF sc, c, n
<1>10. Len(sc) = n /\ DOMAIN sc = 1 .. n
  <2> HIDE DEF end
  <2>1. sc \in [1 .. n -> {[s |-> c[i], p |-> SceneParams(c[i]), e |-> end(c[i])] : i \in 1 .. n}]
    BY <1>9
  <2> QED BY <1>7, <2>1, OfLength
\* A piece ends at the next cut, within the range.
<1>11. ASSUME NEW x \in In
       PROVE  /\ x \in Nat /\ end(x) \in Nat /\ x < end(x) /\ end(x) \in A
              /\ \A y \in A : y > x => end(x) <= y
              /\ \A f \in x .. end(x) - 1 : f \in Kept
  <2> DEFINE N == {y \in A : y > x} \cup {last(x)}
  <2>1. x \in Nat /\ Holding(x) # {}
    BY <1>2
  <2>2. PICK k \in DOMAIN ranges : /\ ranges[k][1] <= x /\ x <= ranges[k][2]
                                   /\ last(x) = ranges[k][2] + 1
    BY <1>4, <2>1
  <2>3. last(x) \in A /\ last(x) > x
    BY <1>1, <2>1, <2>2
  <2>4. N = {y \in A : y > x} /\ N # {} /\ N \subseteq A
    BY <2>3
  <2>5. N \subseteq Nat
    <3> HIDE DEF N
    <3> QED BY <1>2, <2>4
  <2>6. end(x) \in N /\ \A y \in N : end(x) <= y
    <3>1. Min(N) \in N /\ \A y \in N : Min(N) <= y
      <4> HIDE DEF N
      <4> QED BY <2>4, <2>5, MinIs
    <3> QED BY <3>1
  <2> HIDE DEF end, last
  <2>7. end(x) \in A /\ end(x) > x /\ \A y \in A : y > x => end(x) <= y
    BY <2>4, <2>6
  <2>8. end(x) \in Nat
    BY <1>2, <2>7
  <2>9. end(x) <= ranges[k][2] + 1
    BY <2>2, <2>3, <2>7
  <2>10. ASSUME NEW f \in x .. end(x) - 1 PROVE f \in Kept
    <3>1. f \in ranges[k][1] .. ranges[k][2]
      BY <1>1, <2>1, <2>2, <2>8, <2>9
    <3> QED BY <1>3, <3>1
  <2> QED BY <2>1, <2>7, <2>8, <2>10
<1> HIDE DEF end
<1>12. ASSUME NEW i \in 1 .. n
       PROVE  /\ sc[i].s = c[i] /\ sc[i].e = end(c[i]) /\ sc[i].p = SceneParams(c[i])
              /\ c[i] \in In
  BY <1>7, <1>9
<1>13. ASSUME NEW i \in 1 .. n, NEW j \in 1 .. n, i < j PROVE sc[i].e <= sc[j].s
  <2>1. c[i] < c[j] /\ c[i] \in In /\ c[j] \in In /\ c[j] \in A /\ c[i] \in Nat /\ c[j] \in Nat
    BY <1>5, <1>7, <1>13, <1>11, <1>12
  <2>2. c[j] > c[i]
    BY <2>1
  <2>3. end(c[i]) <= c[j]
    BY <1>11, <2>1, <2>2
  <2> QED BY <1>12, <2>3
\* A frame that is kept is in the piece of the last cut before it.
<1>14. ASSUME NEW f \in Kept PROVE \E i \in 1 .. n : f \in c[i] .. end(c[i]) - 1
  <2> DEFINE S == {x \in A : x <= f}
  <2>1. PICK k \in DOMAIN ranges : f \in ranges[k][1] .. ranges[k][2]
    BY <1>3
  <2>2. f \in Nat /\ ranges[k][1] <= f /\ f <= ranges[k][2] /\ ranges[k][1] \in A
    BY <1>1, <2>1
  <2>a. ranges[k][1] \in S /\ S \subseteq A /\ \A y \in S : y <= f
    BY <2>2
  <2>3. Max(S) \in S /\ \A y \in S : y <= Max(S)
    <3> HIDE DEF S, A
    <3>1. S \subseteq Nat /\ S # {}
      BY <1>2, <2>a
    <3> QED BY <2>2, <2>a, <3>1, MaxIs
  <2> DEFINE x == Max(S)
  <2> HIDE DEF x
  <2>4. x \in A /\ x \in Nat /\ x <= f /\ ranges[k][1] <= x
    BY <1>2, <2>3, <2>a DEF x
  <2>5. x \in In
    <3>1. k \in Holding(x)
      BY <1>1, <2>2, <2>4 DEF Holding, InRange
    <3> QED BY <2>4, <3>1
  <2>6. PICK i \in 1 .. n : c[i] = x
    BY <1>7, <2>5
  <2>7. end(x) \in A /\ x < end(x) /\ end(x) \in Nat
    BY <1>11, <2>5
  <2>8. ~(end(x) <= f)
    <3>1. ASSUME end(x) <= f PROVE FALSE
      <4>1. end(x) \in S
        BY <2>7, <3>1
      <4>2. end(x) <= x
        BY <2>3, <4>1 DEF x
      <4> QED BY <2>4, <2>7, <4>2
    <3> QED BY <3>1
  <2>9. f \in x .. end(x) - 1
    BY <2>2, <2>4, <2>7, <2>8
  <2> QED BY <2>6, <2>9
<1> HIDE DEF In, A
<1>15. ASSUME NEW i \in 1 .. n
       PROVE  /\ sc[i].s \in Nat /\ sc[i].e \in Nat /\ sc[i].s < sc[i].e
              /\ sc[i].p = SceneParams(sc[i].s)
              /\ \A f \in sc[i].s .. sc[i].e - 1 : f \in Kept
  BY <1>11, <1>12
<1>16. \A f \in Kept : \E i \in 1 .. n : f \in sc[i].s .. sc[i].e - 1
  BY <1>12, <1>14
<1>17. Pieces(sc)
  BY <1>7, <1>10, <1>13, <1>15, <1>16 DEF Pieces
<1> QED BY <1>17 DEF sc

----------------------------------------------------------------------------
\* The zones.

\* The parameters of a chunk are where its template says, and in the table once.
Marked(sc, t, z) == \A i \in DOMAIN sc : IF sc[i].p = -1 THEN t[i] = 0
                                         ELSE t[i] \in DOMAIN z /\ t[i] \in Nat \ {0} /\ z[t[i]] = sc[i].p

LEMMA ZonesMarked == ASSUME NEW sc, Len(sc) \in Nat, DOMAIN sc = 1 .. Len(sc)
                     PROVE  LET z == ZoneList(sc) IN Marked(sc, [i \in DOMAIN sc |-> TmplOf(z, sc[i].p)], z)
<1> DEFINE New == {i \in DOMAIN sc : sc[i].p # -1 /\ \A j \in 1 .. i - 1 : sc[j].p # sc[i].p}
           a == Ascending(New)
           n == Cardinality(New)
           z == ZoneList(sc)
<1>1. New \subseteq Nat /\ IsFiniteSet(New)
  <2>1. New \in SUBSET (1 .. Len(sc)) /\ 1 .. Len(sc) \subseteq Nat
    OBVIOUS
  <2>2. IsFiniteSet(1 .. Len(sc))
    BY FS_Interval
  <2> HIDE DEF New
  <2> QED BY <2>1, <2>2, FS_Subset
<1>2. n \in Nat /\ a \in [1 .. n -> New] /\ \A x \in New : \E k \in 1 .. n : a[k] = x
  <2> HIDE DEF New
  <2> QED BY <1>1, Ascends
<1>3. z = [k \in 1 .. n |-> sc[a[k]].p]
  <2>1. DOMAIN a = 1 .. n
    BY <1>2
  <2> QED BY <2>1 DEF ZoneList
<1> HIDE DEF z, a, n
<1>4. ASSUME NEW i \in DOMAIN sc, sc[i].p # -1 PROVE \E k \in 1 .. n : z[k] = sc[i].p
  <2> DEFINE F == {j \in DOMAIN sc : sc[j].p = sc[i].p}
             m == Min(F)
  <2>1. F \subseteq Nat /\ F # {}
    OBVIOUS
  <2>2. m \in F /\ \A j \in F : m <= j
    <3> HIDE DEF F
    <3> QED BY <2>1, MinIs
  <2> HIDE DEF m
  <2>3. m \in 1 .. Len(sc) /\ sc[m].p = sc[i].p
    BY <2>2
  <2>4. ASSUME NEW j \in 1 .. m - 1 PROVE sc[j].p # sc[m].p
    <3>1. j \in DOMAIN sc /\ ~(m <= j)
      BY <2>3
    <3> QED BY <2>2, <2>3, <3>1
  <2>5. m \in New
    BY <1>4, <2>3, <2>4
  <2>6. PICK k \in 1 .. n : a[k] = m
    BY <1>2, <2>5
  <2> QED BY <1>3, <2>3, <2>6
<1>5. ASSUME NEW i \in DOMAIN sc
      PROVE  LET t == TmplOf(z, sc[i].p) IN
             IF sc[i].p = -1 THEN t = 0 ELSE t \in DOMAIN z /\ t \in Nat \ {0} /\ z[t] = sc[i].p
  <2> DEFINE t == TmplOf(z, sc[i].p)
  <2>1. CASE sc[i].p = -1
    BY <2>1 DEF TmplOf
  <2>2. CASE sc[i].p # -1
    <3>1. DOMAIN z = 1 .. n
      BY <1>3
    <3>2. t = CHOOSE k \in DOMAIN z : z[k] = sc[i].p
      BY <2>2 DEF TmplOf
    <3>3. \E k \in DOMAIN z : z[k] = sc[i].p
      BY <1>4, <2>2, <3>1
    <3>4. t \in DOMAIN z /\ z[t] = sc[i].p
      BY <3>2, <3>3
    <3>5. t \in Nat \ {0}
      BY <1>2, <3>1, <3>4
    <3> QED BY <2>2, <3>4, <3>5
  <2> QED BY <2>1, <2>2
<1> QED BY <1>5 DEF Marked, z

----------------------------------------------------------------------------
\* The script's frames.

LEMMA ScriptTyped == ASSUME Source, NEW j \in Nat PROVE OfScript(j) \in Int
<1>1. /\ Cardinality(Kept) \in Nat
      /\ Ascending(Kept) \in [1 .. Cardinality(Kept) -> Kept] /\ Kept \subseteq Nat
  BY KeptFinite, Ascends
<1>2. CASE j < Cardinality(Kept)
  <2>1. j + 1 \in 1 .. Cardinality(Kept)
    BY <1>1, <1>2
  <2>2. Ascending(Kept)[j + 1] \in Nat
    BY <1>1, <2>1
  <2> QED BY <1>2, <2>2 DEF OfScript
<1>3. CASE ~(j < Cardinality(Kept))
  BY <1>3 DEF OfScript
<1> QED BY <1>2, <1>3

\* A piece of the kept frames is as long in the script, and its frames are there.
LEMMA ScriptPiece == ASSUME Source, NEW s \in Nat, NEW e \in Nat, s < e,
                            \A f \in s .. e - 1 : f \in Kept
                     PROVE  /\ Rank(Kept, s) \in Nat
                            /\ Rank(Kept, e) = Rank(Kept, s) + (e - s)
                            /\ \A i \in 1 .. e - s : OfScript(Rank(Kept, s) + i - 1) = s + i - 1
<1> DEFINE r == Rank(Kept, s)
           B == {j \in 0 .. e - s : Rank(Kept, s + j) # r + j}
<1>1. Kept \subseteq Nat /\ IsFiniteSet(Kept)
  BY KeptFinite
<1>2. r \in Nat
  <2>1. s <= s
    OBVIOUS
  <2> QED BY <1>1, <2>1, RankLess
<1>3. ASSUME B # {} PROVE FALSE
  <2>1. B \subseteq Nat
    OBVIOUS
  <2>2. PICK m \in B : \A j \in B : m <= j
    BY <1>3, <2>1, Least
  <2>3. m \in 0 .. e - s /\ Rank(Kept, s + m) # r + m
    OBVIOUS
  <2>4. m # 0
    BY <1>2, <2>3
  <2> DEFINE f == s + (m - 1)
  <2>5. f \in s .. e - 1 /\ m - 1 \in 0 .. e - s /\ f + 1 = s + m
    BY <2>3, <2>4
  <2>6. m - 1 \notin B
    BY <2>2, <2>3
  <2>7. Rank(Kept, f) = r + (m - 1)
    BY <2>5, <2>6
  <2>8. Rank(Kept, f + 1) = Rank(Kept, f) + 1
    BY <1>1, <2>5, RankNext
  <2> QED BY <1>2, <2>3, <2>5, <2>7, <2>8
<1>4. \A j \in 0 .. e - s : Rank(Kept, s + j) = r + j
  BY <1>3
<1>5. Rank(Kept, e) = r + (e - s)
  <2>1. e - s \in 0 .. e - s /\ s + (e - s) = e
    OBVIOUS
  <2> QED BY <1>4, <2>1
<1> HIDE DEF r
<1>6. ASSUME NEW i \in 1 .. e - s PROVE OfScript(r + i - 1) = s + i - 1
  <2>1. i - 1 \in 0 .. e - s /\ s + (i - 1) = s + i - 1 /\ s + i - 1 \in s .. e - 1
    OBVIOUS
  <2>2. s + i - 1 \in Kept /\ Rank(Kept, s + i - 1) = r + (i - 1)
    BY <1>4, <2>1
  <2> DEFINE x == s + i - 1
  <2>3. /\ Rank(Kept, x) + 1 \in 1 .. Cardinality(Kept)
        /\ Ascending(Kept)[Rank(Kept, x) + 1] = x
        /\ Cardinality(Kept) \in Nat
    BY <1>1, <2>2, Ascends
  <2>4. r + i - 1 = Rank(Kept, x) /\ Rank(Kept, x) \in Nat
    BY <1>2, <2>2
  <2>5. Rank(Kept, x) < Cardinality(Kept)
    BY <2>3, <2>4
  <2> QED BY <2>3, <2>4, <2>5 DEF OfScript
<1> QED BY <1>2, <1>5, <1>6 DEF r

\* Nothing is kept before the first piece nor between one and the next.
LEMMA BetweenPieces == ASSUME NEW sc, Pieces(sc)
                       PROVE  /\ 1 \in DOMAIN sc => Rank(Kept, sc[1].s) = 0
                              /\ \A k \in DOMAIN sc : k + 1 \in DOMAIN sc =>
                                     Rank(Kept, sc[k + 1].s) = Rank(Kept, sc[k].e)
<1>0. /\ Len(sc) \in Nat /\ DOMAIN sc = 1 .. Len(sc)
      /\ \A i \in DOMAIN sc : sc[i].s \in Nat /\ sc[i].e \in Nat /\ sc[i].s < sc[i].e
      /\ \A i, j \in DOMAIN sc : i < j => sc[i].e <= sc[j].s
      /\ \A f \in Kept : \E i \in DOMAIN sc : f \in sc[i].s .. sc[i].e - 1
  BY DEF Pieces
<1>1. ASSUME 1 \in DOMAIN sc PROVE Rank(Kept, sc[1].s) = 0
  <2>1. ASSUME NEW f \in Kept, f < sc[1].s PROVE FALSE
    <3>1. PICK i \in DOMAIN sc : f \in sc[i].s .. sc[i].e - 1
      BY <1>0
    <3>2. CASE i = 1
      BY <1>0, <2>1, <3>1, <3>2
    <3>3. CASE i # 1
      <4>1. 1 < i
        BY <1>0, <3>3
      <4>2. sc[1].e <= sc[i].s
        BY <1>0, <1>1, <4>1
      <4>3. /\ sc[1].s \in Nat /\ sc[1].e \in Nat /\ sc[1].s < sc[1].e
            /\ sc[i].s \in Nat /\ sc[i].e \in Nat
        BY <1>0, <1>1
      <4> QED BY <2>1, <3>1, <4>2, <4>3
    <3> QED BY <3>2, <3>3
  <2>2. {f \in Kept : f < sc[1].s} = {}
    BY <2>1
  <2> QED BY <2>2, FS_EmptySet DEF Rank
<1>2. ASSUME NEW k \in DOMAIN sc, k + 1 \in DOMAIN sc
      PROVE  Rank(Kept, sc[k + 1].s) = Rank(Kept, sc[k].e)
  <2>1. sc[k].e <= sc[k + 1].s
    <3>1. k < k + 1
      BY <1>0
    <3> QED BY <1>0, <1>2, <3>1
  <2>2. ASSUME NEW f \in Kept PROVE f < sc[k + 1].s <=> f < sc[k].e
    <3>1. PICK i \in DOMAIN sc : f \in sc[i].s .. sc[i].e - 1
      BY <1>0
    <3>2. /\ f \in Nat /\ sc[i].s <= f /\ f < sc[i].e
          /\ sc[i].s \in Nat /\ sc[i].e \in Nat
          /\ sc[k].s \in Nat /\ sc[k].e \in Nat /\ sc[k].s < sc[k].e
          /\ sc[k + 1].s \in Nat /\ sc[k + 1].e \in Nat
      BY <1>0, <1>2, <3>1
    <3>3. CASE i < k
      BY <1>0, <2>1, <3>2, <3>3
    <3>4. CASE i = k
      BY <2>1, <3>2, <3>4
    <3>5. CASE i > k
      <4>1. i = k + 1 \/ k + 1 < i
        BY <1>0, <3>5
      <4>2. sc[k + 1].s <= sc[i].s
        <5>1. CASE i = k + 1
          BY <3>2, <5>1
        <5>2. CASE k + 1 < i
          <6>1. sc[k + 1].e <= sc[i].s /\ sc[k + 1].s < sc[k + 1].e
            BY <1>0, <1>2, <5>2
          <6> QED BY <3>2, <6>1
        <5> QED BY <4>1, <5>1, <5>2
      <4> QED BY <2>1, <3>2, <4>2
    <3> QED BY <1>0, <3>3, <3>4, <3>5
  <2>3. {f \in Kept : f < sc[k + 1].s} = {f \in Kept : f < sc[k].e}
    BY <2>2
  <2> QED BY <2>3 DEF Rank
<1> QED BY <1>1, <1>2

\* Where the script does not trim, its frames are the video's.
LEMMA Untrimmed == ASSUME Source, ~Ranged, NEW s \in Kept PROVE Rank(Kept, s) = s
<1>1. Kept = 0 .. Frm - 1 /\ s \in Nat
  BY DEF Kept, Source
<1>2. {y \in Kept : y < s} = 0 .. s - 1
  BY <1>1 DEF Source
<1>3. Cardinality(0 .. s - 1) = s
  <2>1. 0 \in Int /\ s - 1 \in Int
    BY <1>1
  <2>2. Cardinality(0 .. s - 1) = IF 0 > s - 1 THEN 0 ELSE (s - 1) - 0 + 1
    BY <2>1, FS_Interval
  <2> QED BY <1>1, <2>2
<1> QED BY <1>2, <1>3 DEF Rank

----------------------------------------------------------------------------
\* The invariant.

\* What is left to deliver, from the k-th chunk on.
From(k) == Upto(k, Len(chnks) - k + 1)
\* A pipe that starts where its script does, or whose script does not trim.
Aligned == ~(piped /\ resumed /\ Ranged)

\* The decoder is not beyond the next chunk; the pipe is where that chunk is in the script.
Placed(k) == /\ ~piped => /\ phase = "decode" /\ nextFrame = pos
                          /\ k \in DOMAIN chnks => pos <= chnks[k].s
             /\ piped /\ phase = "decode" => k = 1 /\ pos = 0
             /\ phase = "pipe" /\ Aligned /\ k \in DOMAIN chnks => pos = Rank(Kept, chnks[k].s)

Delivered(g) == /\ g.chunk \in DOMAIN chnks
                /\ Aligned => g.frames = Span(chnks[g.chunk])

Packet == [chunk : Nat, frames : Seq(Int)]
AllRight == \A i \in DOMAIN got : Delivered(got[i])

Reading == /\ Pieces(chnks)
           /\ Len(tmpls) = Len(chnks)
           /\ Marked(chnks, tmpls, zones)
           /\ done \subseteq DOMAIN chnks
           /\ \E k \in 1 .. Len(chnks) + 1 : todo = From(k) /\ Placed(k)
           /\ AllRight

FrmInv == /\ Source
          /\ phase \in {"cut", "decode", "pipe", "refused"}
          /\ got \in Seq(Packet) /\ pos \in Nat
          /\ phase \in {"cut", "refused"} =>
                 chnks = <<>> /\ tmpls = <<>> /\ got = <<>> /\ done = {} /\ pos = 0 /\ nextFrame = 0
          /\ phase \in {"decode", "pipe"} => Reading

LEMMA FrmStart == ASSUME FramesAssumption, Init PROVE FrmInv
<1>1. Source
  <2>1. cuts \in Scenes \cup KeySets /\ keys \in Scenes \cup KeySets
    BY DEF Init
  <2>2. /\ cuts \subseteq Nat /\ IsFiniteSet(cuts) /\ 0 \in cuts
        /\ keys \subseteq Nat /\ 0 \in keys
    BY <2>1 DEF FramesAssumption
  <2>3. ts \in Nat \X Nat /\ ts[2] > 0 /\ ts[1] >= 2 * ts[2] /\ up \in BOOLEAN
    BY DEF Init, FramesAssumption
  <2>4. ranges \in Seq(Nat \X Nat) /\ \A k \in 1 .. Len(ranges) : ranges[k][2] < Frm
    BY DEF Init, FramesAssumption
  <2>5. \A k \in DOMAIN ranges : ranges[k][2] < Frm
    BY <2>4, LenProperties
  <2>6. Frm \in Nat \ {0} /\ Near \in Nat
    BY DEF FramesAssumption
  <2> QED BY <2>2, <2>3, <2>4, <2>5, <2>6 DEF Source
<1>2. got \in Seq(Packet)
  BY EmptySeq DEF Init
<1> QED BY <1>1, <1>2 DEF Init, FrmInv

LEMMA UptoIs == ASSUME NEW a \in Int, NEW n \in Nat
                PROVE  /\ Upto(a, n) \in Seq(Int) /\ Len(Upto(a, n)) = n
                       /\ \A i \in 1 .. n : Upto(a, n)[i] = a + i - 1
                       /\ Upto(a, n) = <<>> <=> n = 0
<1> DEFINE u == Upto(a, n)
<1>1. u = [i \in 1 .. n |-> a + i - 1]
  BY DEF Upto
<1>2. u \in [1 .. n -> Int]
  BY <1>1
<1>3. u \in Seq(Int) /\ Len(u) = n
  BY <1>2, OfLength
<1>4. u = <<>> <=> n = 0
  BY <1>3, EmptySeq
<1> QED BY <1>1, <1>3, <1>4

LEMMA UptoTail == ASSUME NEW a \in Int, NEW n \in Nat, n > 0
                  PROVE  Head(Upto(a, n)) = a /\ Tail(Upto(a, n)) = Upto(a + 1, n - 1)
<1> DEFINE u == Upto(a, n)
           v == Upto(a + 1, n - 1)
<1>1. /\ u \in Seq(Int) /\ Len(u) = n /\ \A i \in 1 .. n : u[i] = a + i - 1
      /\ u # <<>>
  BY UptoIs
<1>2. n - 1 \in Nat /\ a + 1 \in Int
  OBVIOUS
<1>3. v \in Seq(Int) /\ Len(v) = n - 1 /\ \A i \in 1 .. n - 1 : v[i] = (a + 1) + i - 1
  BY <1>2, UptoIs
<1> HIDE DEF u, v
<1>4. /\ Tail(u) \in Seq(Int) /\ Len(Tail(u)) = n - 1
      /\ \A i \in 1 .. n - 1 : Tail(u)[i] = u[i + 1]
  BY <1>1, HeadTailProperties
<1>5. Head(u) = u[1] /\ 1 \in 1 .. n
  BY <1>1
<1>6. ASSUME NEW i \in 1 .. n - 1 PROVE Tail(u)[i] = v[i]
  <2>1. i + 1 \in 1 .. n
    OBVIOUS
  <2>2. u[i + 1] = a + (i + 1) - 1
    BY <1>1, <2>1
  <2> QED BY <1>3, <1>4, <2>2
<1>7. Tail(u) = v
  BY <1>3, <1>4, <1>6, SeqEqual
<1> QED BY <1>1, <1>5, <1>7 DEF u, v

\* The chunk at the head of what is left.
LEMMA HeadIs == ASSUME Pieces(chnks), NEW k \in 1 .. Len(chnks) + 1, todo = From(k)
                PROVE  /\ todo # <<>> <=> k \in DOMAIN chnks
                       /\ todo # <<>> => Head(todo) = k /\ Tail(todo) = From(k + 1)
                                         /\ k + 1 \in 1 .. Len(chnks) + 1
                       /\ Len(todo) = Len(chnks) - k + 1
<1> DEFINE n == Len(chnks) - k + 1
<1>1. Len(chnks) \in Nat /\ DOMAIN chnks = 1 .. Len(chnks)
  BY DEF Pieces
<1>2. n \in Nat /\ k \in Int
  BY <1>1
<1>3. (todo = <<>> <=> n = 0) /\ Len(todo) = n
  BY <1>2, UptoIs DEF From
<1>4. ASSUME n > 0 PROVE Head(todo) = k /\ Tail(todo) = From(k + 1)
  <2>1. Head(todo) = k /\ Tail(todo) = Upto(k + 1, n - 1)
    BY <1>2, <1>4, UptoTail DEF From
  <2>2. n - 1 = Len(chnks) - (k + 1) + 1
    BY <1>1
  <2> QED BY <2>1, <2>2 DEF From
<1> QED BY <1>1, <1>2, <1>3, <1>4

LEMMA CutStep == ASSUME FrmInv, Cut PROVE FrmInv'
<1> DEFINE sc == IF Ranged THEN Transed ELSE Loaded
<1>1. Source /\ Source'
  BY DEF FrmInv, Cut, input, Source
<1>2. /\ chnks = <<>> /\ tmpls = <<>> /\ got = <<>> /\ done = {} /\ pos = 0 /\ nextFrame = 0
      /\ nextFrame' = nextFrame /\ pos' = pos /\ got' = got
  BY DEF FrmInv, Cut
<1>3. got' \in Seq(Packet)
  BY <1>2, EmptySeq
<1>4. CASE ~Valid(sc)
  BY <1>1, <1>2, <1>3, <1>4 DEF Cut, FrmInv
<1>5. CASE Valid(sc)
  <2>1. Pieces(sc)
    <3>1. CASE Ranged
      BY <1>1, <3>1, TransedPieces
    <3>2. CASE ~Ranged
      BY <1>1, <1>5, <3>2, LoadedPieces
    <3> QED BY <3>1, <3>2
  <2>2. /\ phase' = "decode" /\ chnks' = sc /\ zones' = ZoneList(sc)
        /\ tmpls' = [i \in DOMAIN sc |-> TmplOf(ZoneList(sc), sc[i].p)]
        /\ done' \subseteq DOMAIN sc /\ todo' = Upto(1, Len(sc))
        /\ UNCHANGED input
    BY <1>5 DEF Cut
  <2> HIDE DEF sc
  <2>3. Pieces(chnks)'
    BY <2>1, <2>2 DEF Pieces, Kept, SceneParams, input, Ranged
  <2>4. Len(sc) \in Nat /\ DOMAIN sc = 1 .. Len(sc)
    BY <2>1 DEF Pieces
  <2>5. Marked(chnks, tmpls, zones)'
    BY <2>2, <2>4, ZonesMarked DEF Marked
  <2>6. Len(tmpls') = Len(chnks')
    <3>1. tmpls' \in [1 .. Len(sc) -> {TmplOf(ZoneList(sc), sc[i].p) : i \in DOMAIN sc}]
      BY <2>2, <2>4
    <3> QED BY <2>2, <2>4, <3>1, OfLength
  <2>7. 1 \in 1 .. Len(chnks') + 1 /\ (todo = From(1))'
    <3>1. Len(sc) - 1 + 1 = Len(sc)
      BY <2>4
    <3> QED BY <2>2, <2>4, <3>1 DEF From, Upto
  <2>8. Placed(1)'
    <3>1. 1 \in DOMAIN sc => sc[1].s \in Nat
      BY <2>1 DEF Pieces
    <3> QED BY <1>2, <2>2, <3>1 DEF Placed
  <2>9. got' = <<>> /\ DOMAIN got' = {}
    BY <1>2
  <2>10. Reading'
    BY <2>2, <2>3, <2>5, <2>6, <2>7, <2>8, <2>9 DEF Reading, AllRight
  <2> QED BY <1>1, <1>2, <1>3, <2>2, <2>10 DEF FrmInv
<1> QED BY <1>4, <1>5

\* What the steps that deliver leave alone.
LEMMA Unmoved == ASSUME UNCHANGED <<input, done, chnks, tmpls, zones>>, FrmInv, Reading
               PROVE  /\ Source' /\ Pieces(chnks)' /\ Marked(chnks, tmpls, zones)'
                      /\ Len(tmpls') = Len(chnks') /\ done' \subseteq DOMAIN chnks'
                      /\ Kept' = Kept /\ Aligned' = Aligned
                      /\ \A k : From(k)' = From(k)
                      /\ (\A i \in DOMAIN got' : Delivered(got'[i])) => AllRight'
<1>1. Source'
  BY DEF FrmInv, Source, input
<1>2. Kept' = Kept /\ Aligned' = Aligned
  BY DEF Kept, Aligned, Ranged, input
<1>3. \A f : SceneParams(f)' = SceneParams(f)
  BY DEF SceneParams, input
<1>4. Pieces(chnks)'
  BY <1>2, <1>3 DEF Reading, Pieces
<1>5. Marked(chnks, tmpls, zones)'
  BY DEF Reading, Marked
<1>6. \A k : From(k)' = From(k)
  BY DEF From
<1>7. ASSUME \A i \in DOMAIN got' : Delivered(got'[i]) PROVE AllRight'
  <2> SUFFICES ASSUME NEW i \in DOMAIN got' PROVE Delivered(got[i])'
    BY DEF AllRight
  <2>1. Delivered(got'[i])
    BY <1>7
  <2> QED BY <1>2, <2>1 DEF Delivered, Span
<1> QED BY <1>1, <1>2, <1>4, <1>5, <1>6, <1>7 DEF Reading

LEMMA Appended == ASSUME NEW S, NEW g \in Seq(S), NEW x \in S
                  PROVE  /\ Append(g, x) \in Seq(S)
                         /\ \A i \in DOMAIN Append(g, x) :
                               Append(g, x)[i] = x \/ \E j \in DOMAIN g : Append(g, x)[i] = g[j]
  OBVIOUS

LEMMA DecodeStep == ASSUME FrmInv, Decode PROVE FrmInv'
<1>1. Source /\ Reading /\ phase = "decode" /\ phase' = "decode" /\ ~piped /\ ~piped'
  BY DEF FrmInv, Decode, input
<1>2. UNCHANGED <<input, done, chnks, tmpls, zones>>
  BY DEF Decode
<1>3. PICK k \in 1 .. Len(chnks) + 1 : todo = From(k) /\ Placed(k)
  BY <1>1 DEF Reading
<1>4. /\ k \in DOMAIN chnks /\ Head(todo) = k /\ todo' = From(k + 1)
      /\ k + 1 \in 1 .. Len(chnks) + 1
  BY <1>1, <1>3, HeadIs DEF Decode, Reading
<1>5. /\ chnks[k].s \in Nat /\ chnks[k].e \in Nat /\ chnks[k].s < chnks[k].e
      /\ k + 1 \in DOMAIN chnks => chnks[k].e <= chnks[k + 1].s
      /\ DOMAIN chnks \subseteq Nat
  <2>1. DOMAIN chnks = 1 .. Len(chnks) /\ k < k + 1
    BY <1>1 DEF Reading, Pieces
  <2> QED BY <1>1, <1>4, <2>1 DEF Reading, Pieces
<1>6. pos \in Nat /\ nextFrame = pos /\ pos <= chnks[k].s
  BY <1>1, <1>3, <1>4 DEF FrmInv, Placed
<1> DEFINE c == chnks[k]
           p == [chunk |-> k, frames |-> Upto(c.s, c.e - c.s)]
<1>7. CASE k \in done
  <2>1. nextFrame' = nextFrame /\ pos' = pos /\ got' = got
    BY <1>4, <1>7 DEF Decode
  <2>2. Placed(k + 1)'
    <3>1. k + 1 \in DOMAIN chnks => chnks[k + 1].s \in Nat
      BY <1>1 DEF Reading, Pieces
    <3> QED BY <1>1, <1>2, <1>5, <1>6, <2>1, <3>1 DEF Placed
  <2>3. AllRight'
    BY <1>1, <1>2, <2>1, Unmoved DEF Reading, AllRight
  <2>4. Reading'
    BY <1>1, <1>2, <1>4, <2>2, <2>3, Unmoved DEF Reading
  <2> QED BY <1>1, <1>2, <1>6, <2>1, <2>4, Unmoved DEF FrmInv
<1>8. CASE k \notin done
  <2>1. SkipTo(c.s, <<nextFrame, pos>>) = <<c.s, c.s>>
    BY <1>1, <1>5, <1>6, Skips
  <2>2. /\ got' = Append(got, p)
        /\ nextFrame' = c.s + (c.e - c.s) /\ pos' = c.s + (c.e - c.s)
    BY <1>4, <1>8, <2>1 DEF Decode
  <2>3. nextFrame' = c.e /\ pos' = c.e /\ pos' \in Nat
    BY <1>5, <2>2
  <2>4. p \in Packet
    <3>1. c.s \in Int /\ c.e - c.s \in Nat
      BY <1>5
    <3> QED BY <1>4, <1>5, <3>1, UptoIs DEF Packet
  <2>5. Delivered(p)
    BY <1>4 DEF Delivered, Span
  <2>6. got' \in Seq(Packet) /\ \A i \in DOMAIN got' : Delivered(got'[i])
    <3> HIDE DEF p
    <3> QED BY <1>1, <2>2, <2>4, <2>5, Appended DEF FrmInv, Reading, AllRight
  <2>7. AllRight'
    BY <1>1, <1>2, <2>6, Unmoved
  <2>8. Placed(k + 1)'
    BY <1>1, <1>2, <1>5, <2>3 DEF Placed
  <2>9. Reading'
    BY <1>1, <1>2, <1>4, <2>7, <2>8, Unmoved DEF Reading
  <2> QED BY <1>1, <1>2, <2>3, <2>6, <2>9, Unmoved DEF FrmInv
<1> QED BY <1>7, <1>8

LEMMA ResumeStep == ASSUME FrmInv, Resume PROVE FrmInv'
<1>1. Source /\ Reading /\ phase = "decode" /\ phase' = "pipe" /\ piped /\ piped'
  BY DEF FrmInv, Resume, input
<1>2. UNCHANGED <<input, done, chnks, tmpls, zones, got>>
  BY DEF Resume
<1>3. Len(chnks) \in Nat /\ DOMAIN chnks = 1 .. Len(chnks)
  BY <1>1 DEF Reading, Pieces
<1>4. Min(DOMAIN chnks \ done) \in DOMAIN chnks
  <2>1. done \subseteq DOMAIN chnks /\ done # DOMAIN chnks
    BY <1>1 DEF Resume, Reading
  <2>2. DOMAIN chnks \ done # {}
    BY <2>1
  <2>3. DOMAIN chnks \ done \subseteq Nat
    BY <1>3
  <2> QED BY <2>2, <2>3, MinIs
<1>5. PICK k \in DOMAIN chnks : todo' = From(k) /\ pos' = chnks[k].s
  BY <1>4 DEF Resume, From
<1>6. k \in 1 .. Len(chnks) + 1 /\ chnks[k].s \in Nat
  BY <1>1, <1>3, <1>5 DEF Reading, Pieces
<1>7. Aligned => chnks[k].s = Rank(Kept, chnks[k].s)
  <2> SUFFICES ASSUME Aligned PROVE chnks[k].s = Rank(Kept, chnks[k].s)
    OBVIOUS
  <2>1. ~Ranged
    BY <1>1 DEF Aligned, Resume
  <2>2. chnks[k].s \in chnks[k].s .. chnks[k].e - 1
    BY <1>1, <1>5 DEF Reading, Pieces
  <2>3. chnks[k].s \in Kept
    BY <1>1, <1>5, <2>2 DEF Reading, Pieces
  <2> QED BY <1>1, <2>1, <2>3, Untrimmed
<1>8. Placed(k)'
  <2>1. Aligned' = Aligned /\ Kept' = Kept
    BY <1>1, <1>2, Unmoved
  <2> QED BY <1>1, <1>2, <1>5, <1>7, <2>1 DEF Placed, Rank
<1>9. AllRight'
  BY <1>1, <1>2, Unmoved DEF Reading, AllRight
<1>10. Reading'
  BY <1>1, <1>2, <1>5, <1>6, <1>8, <1>9, Unmoved DEF Reading
<1> QED BY <1>1, <1>2, <1>5, <1>6, <1>10, Unmoved DEF FrmInv

LEMMA NoResumeStep == ASSUME FrmInv, NoResume PROVE FrmInv'
<1>1. Source /\ Reading /\ phase = "decode" /\ phase' = "pipe" /\ piped /\ piped'
  BY DEF FrmInv, NoResume, input
<1>2. UNCHANGED <<input, done, chnks, tmpls, zones, todo, nextFrame, pos, got>>
  BY DEF NoResume
<1>3. PICK k \in 1 .. Len(chnks) + 1 : todo = From(k) /\ Placed(k)
  BY <1>1 DEF Reading
<1>4. k = 1 /\ pos = 0
  BY <1>1, <1>3 DEF Placed
<1>5. 1 \in DOMAIN chnks => Rank(Kept, chnks[1].s) = 0
  BY <1>1, BetweenPieces DEF Reading
<1>6. Placed(1)'
  BY <1>1, <1>2, <1>4, <1>5, Unmoved DEF Placed
<1>7. AllRight'
  BY <1>1, <1>2, Unmoved DEF Reading, AllRight
<1>8. Reading'
  BY <1>1, <1>2, <1>3, <1>4, <1>6, <1>7, Unmoved DEF Reading
<1> QED BY <1>1, <1>2, <1>8, Unmoved DEF FrmInv

LEMMA ReadStep == ASSUME FrmInv, ReadPipe PROVE FrmInv'
<1>1. Source /\ Reading /\ phase = "pipe" /\ phase' = "pipe"
  BY DEF FrmInv, ReadPipe
<1>2. UNCHANGED <<input, done, chnks, tmpls, zones>>
  BY DEF ReadPipe
<1>3. PICK k \in 1 .. Len(chnks) + 1 : todo = From(k) /\ Placed(k)
  BY <1>1 DEF Reading
<1>4. /\ k \in DOMAIN chnks /\ Head(todo) = k /\ todo' = From(k + 1)
      /\ k + 1 \in 1 .. Len(chnks) + 1
  BY <1>1, <1>3, HeadIs DEF ReadPipe, Reading
<1> DEFINE c == chnks[k]
           n == c.e - c.s
           p == [chunk |-> k, frames |-> [i \in 1 .. n |-> OfScript(pos + i - 1)]]
<1>5. /\ c.s \in Nat /\ c.e \in Nat /\ c.s < c.e /\ n \in Nat /\ pos \in Nat /\ k \in Nat
      /\ \A f \in c.s .. c.e - 1 : f \in Kept
  BY <1>1, <1>4 DEF Reading, Pieces, FrmInv
<1>6. piped /\ piped'
  BY <1>1, <1>2, <1>3 DEF Placed, input
<1>7. pos' = pos + n /\ pos' \in Nat /\ got' = IF k \in done THEN got ELSE Append(got, p)
  <2>1. pos' = pos + n /\ got' = IF k \in done THEN got ELSE Append(got, p)
    BY <1>4 DEF ReadPipe
  <2> QED BY <1>5, <2>1
<1>8. p \in Packet
  <2>1. \A i \in 1 .. n : OfScript(pos + i - 1) \in Int
    <3> SUFFICES ASSUME NEW i \in 1 .. n PROVE OfScript(pos + i - 1) \in Int
      OBVIOUS
    <3>1. pos + i - 1 \in Nat
      BY <1>5
    <3> QED BY <1>1, <3>1, ScriptTyped
  <2> DEFINE F == [i \in 1 .. n |-> OfScript(pos + i - 1)]
  <2>2. F \in [1 .. n -> Int]
    BY <2>1
  <2>3. F \in Seq(Int)
    <3> HIDE DEF F
    <3> QED BY <1>5, <2>2, OfLength
  <2> QED BY <1>5, <2>3 DEF Packet
<1>9. /\ Aligned => pos = Rank(Kept, c.s)
      /\ Rank(Kept, c.s) \in Nat
      /\ Rank(Kept, c.e) = Rank(Kept, c.s) + n
      /\ \A i \in 1 .. n : OfScript(Rank(Kept, c.s) + i - 1) = c.s + i - 1
  <2>1. Aligned => pos = Rank(Kept, c.s)
    BY <1>1, <1>3, <1>4 DEF Placed
  <2> QED BY <1>1, <1>5, <2>1, ScriptPiece
<1>10. Delivered(p)
  <2>1. Aligned => p.frames = Span(c)
    BY <1>9 DEF Span, Upto
  <2> QED BY <1>4, <2>1 DEF Delivered
<1>11. got' \in Seq(Packet) /\ \A i \in DOMAIN got' : Delivered(got'[i])
  <2>1. got \in Seq(Packet) /\ \A i \in DOMAIN got : Delivered(got[i])
    BY <1>1 DEF FrmInv, Reading, AllRight
  <2> HIDE DEF p
  <2>2. CASE k \in done
    BY <1>7, <2>1, <2>2
  <2>3. CASE k \notin done
    BY <1>7, <1>8, <1>10, <2>1, <2>3, Appended
  <2> QED BY <2>2, <2>3
<1>12. AllRight'
  BY <1>1, <1>2, <1>11, Unmoved
<1>13. Placed(k + 1)'
  <2>1. k + 1 \in DOMAIN chnks => Rank(Kept, chnks[k + 1].s) = Rank(Kept, c.e)
    BY <1>1, <1>4, BetweenPieces DEF Reading
  <2>2. Aligned /\ k + 1 \in DOMAIN chnks => pos' = Rank(Kept, chnks[k + 1].s)
    BY <1>7, <1>9, <2>1
  <2>3. Aligned' = Aligned /\ Kept' = Kept
    BY <1>1, <1>2, Unmoved
  <2> QED BY <1>1, <1>2, <1>6, <2>2, <2>3 DEF Placed, Rank
<1>14. Reading'
  BY <1>1, <1>2, <1>4, <1>12, <1>13, Unmoved DEF Reading
<1> QED BY <1>1, <1>2, <1>7, <1>11, <1>14, Unmoved DEF FrmInv

LEMMA FrmStep == ASSUME FrmInv, [Next]_vars PROVE FrmInv'
<1>1. CASE UNCHANGED vars
  <2>1. UNCHANGED <<input, done, chnks, tmpls, zones, phase, todo, nextFrame, pos, got>>
    BY <1>1 DEF vars, input
  <2>2. CASE phase \in {"decode", "pipe"}
    <3>1. Reading
      BY <2>2 DEF FrmInv
    <3>2. \A k : Placed(k)' <=> Placed(k)
      BY <2>1, <3>1, Unmoved DEF Placed, input, Rank
    <3>3. Reading'
      BY <2>1, <3>1, <3>2, Unmoved DEF Reading, AllRight
    <3> QED BY <2>1, <2>2, <3>1, <3>3, Unmoved DEF FrmInv
  <2>3. CASE phase \notin {"decode", "pipe"}
    BY <2>1, <2>3 DEF FrmInv, Source, input
  <2> QED BY <2>2, <2>3
<1> QED BY <1>1, CutStep, DecodeStep, ResumeStep, NoResumeStep, ReadStep DEF Next

LEMMA FramesDelivered == ASSUME FrmInv PROVE ChunkGetsItsFrames /\ ChunksAreKept /\ TypeOK
<1>1. CASE phase \in {"decode", "pipe"}
  <2>1. Reading
    BY <1>1 DEF FrmInv
  <2>2. ChunksAreKept
    BY <2>1 DEF Reading, Pieces, ChunksAreKept
  <2>3. ChunkGetsItsFrames
    <3> SUFFICES ASSUME ~(piped /\ resumed /\ Ranged), NEW i \in DOMAIN got
                 PROVE  LET c == got[i].chunk IN
                        /\ got[i].frames = Span(chnks[c])
                        /\ LET p == SceneParams(chnks[c].s)
                           IN  IF p = -1 THEN tmpls[c] = 0 ELSE tmpls[c] >= 1 /\ zones[tmpls[c]] = p
      BY DEF ChunkGetsItsFrames
    <3> DEFINE c == got[i].chunk
    <3>1. c \in DOMAIN chnks /\ got[i].frames = Span(chnks[c])
      BY <2>1 DEF Reading, AllRight, Delivered, Aligned
    <3>2. SceneParams(chnks[c].s) = chnks[c].p
      BY <2>1, <3>1 DEF Reading, Pieces
    <3>3. IF chnks[c].p = -1 THEN tmpls[c] = 0
          ELSE tmpls[c] \in Nat \ {0} /\ zones[tmpls[c]] = chnks[c].p
      BY <2>1, <3>1 DEF Reading, Marked
    <3>4. tmpls[c] \in Nat \ {0} => tmpls[c] >= 1
      OBVIOUS
    <3> HIDE DEF c
    <3>5. IF chnks[c].p = -1 THEN tmpls[c] = 0 ELSE tmpls[c] >= 1 /\ zones[tmpls[c]] = chnks[c].p
      BY <3>3, <3>4
    <3> QED BY <3>1, <3>2, <3>5 DEF c
  <2>4. TypeOK
    BY <1>1, <2>1 DEF Reading, TypeOK
  <2> QED BY <2>2, <2>3, <2>4
<1>2. CASE phase \notin {"decode", "pipe"}
  <2>1. /\ phase \in {"cut", "refused"} /\ got = <<>> /\ chnks = <<>> /\ tmpls = <<>> /\ done = {}
        /\ DOMAIN got = {}
    BY <1>2 DEF FrmInv
  <2> QED BY <1>2, <2>1 DEF ChunkGetsItsFrames, ChunksAreKept, TypeOK
<1> QED BY <1>1, <1>2

\* The inductive invariant: the chunks are pieces of what is kept, each with the template of its
\* scene, what was delivered is right, and the decoder or the pipe is at the next chunk or before
\* it (chnkify, trans_scenes, zone_tmpls; skip_to and pipe_loop).
THEOREM FramesInvariant == ASSUME FramesAssumption PROVE Spec => []FrmInv
<1>1. Init => FrmInv
  BY FrmStart
<1>2. FrmInv /\ [Next]_vars => FrmInv'
  BY FrmStep
<1> QED BY <1>1, <1>2, PTL DEF Spec
=============================================================================
