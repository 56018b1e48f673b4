---------------------------- MODULE Replay_proofs ----------------------------
(***************************************************************************)
(* Proofs about the replay of a capture file, for any records, any length  *)
(* of the file and of its slices, and any lookahead.  First where the      *)
(* records of a file start, then the invariant of run_replay, then what it *)
(* says of the hints, of the walk that does not decode and of the bytes of *)
(* a decoded message.  Last the histogram: sums, powers of two, buckets,   *)
(* and the percentiles of any samples.                                     *)
(***************************************************************************)
EXTENDS Replay, FiniteSetTheorems, SequenceTheorems, WellFoundedInduction, TLAPS

-----------------------------------------------------------------------------
(* Induction over the records.                                             *)

\* A non-empty set of numbers has a least one.
LEMMA Least ==
    ASSUME NEW T \in SUBSET Nat, T # {}
    PROVE  \E n \in T : \A m \in T : n <= m
<1> DEFINE R == {ss \in Nat \X Nat : ss[1] < ss[2]}
<1>1. IsWellFoundedOn(R, Nat)
  BY NatLessThanWellFounded DEF OpToRel
<1>2. \A x, y \in Nat : <<y, x>> \in R <=> y < x
  OBVIOUS
<1> HIDE DEF R
<1>3. T \subseteq Nat
  OBVIOUS
<1>4. PICK n \in T : \A m \in T : ~(<<m, n>> \in R)
  BY ONLY <1>1, <1>3, T # {}, WFMin, Zenon
<1>5. ASSUME NEW m \in T PROVE n <= m
  <2>1. m \in Nat /\ n \in Nat /\ ~(m < n)
    BY <1>2, <1>3, <1>4
  <2> QED BY ONLY <2>1
<1> QED BY <1>5

\* What holds of 0 and of the successor of every number it holds of, holds of all.
LEMMA AllNumbers ==
    ASSUME NEW T \in SUBSET Nat, 0 \in T, \A n \in T : n + 1 \in T
    PROVE  T = Nat
<1> DEFINE U == Nat \ T
<1>1. SUFFICES ASSUME U # {} PROVE FALSE
  OBVIOUS
<1>2. PICK n \in U : \A m \in U : n <= m
  <2>1. U \in SUBSET Nat
    OBVIOUS
  <2> HIDE DEF U
  <2> QED BY <1>1, <2>1, Least
<1>3. n \in Nat /\ n # 0 /\ n \notin T
  OBVIOUS
<1>4. n - 1 \in Nat /\ n - 1 < n /\ (n - 1) + 1 = n
  BY <1>3
<1>5. n - 1 \in T
  BY <1>2, <1>4
<1> QED BY <1>3, <1>4, <1>5

-----------------------------------------------------------------------------
(* Where records start.                                                    *)

\* The element FoldLeft takes first.
Largest(S) == CHOOSE x \in S : \A y \in S : x >= y

\* g adds up the records of file f in every set in D.
Sums(f, D, g) ==
    g = [X \in D |-> IF X = {} THEN 0
                     ELSE g[X \ {Largest(X)}] + 2 + f[Largest(X)].length]

\* The definition of the fold.
LEMMA StartDef ==
    ASSUME NEW k
    PROVE  LET f == SubSeq(file, 1, k - 1)
           IN  StartOf(k) = (CHOOSE g : Sums(f, SUBSET (DOMAIN f), g))[DOMAIN f]
BY DEF StartOf, Sums, Largest, FoldLeft, MapThenFoldSet, Max

\* The last record of the first n.
LEMMA LargestIs ==
    ASSUME NEW n \in Nat, NEW X \in SUBSET (1 .. n + 1), n + 1 \in X
    PROVE  Largest(X) = n + 1
<1>1. n + 1 \in X /\ \A y \in X : n + 1 >= y
  OBVIOUS
<1>2. Largest(X) \in X /\ \A y \in X : Largest(X) >= y
  BY <1>1 DEF Largest
<1>3. Largest(X) \in 1 .. n + 1 /\ Largest(X) >= n + 1
  BY <1>1, <1>2
<1> QED BY ONLY <1>3, n \in Nat

\* There are such sums.
LEMMA SumsExist ==
    ASSUME NEW f, NEW n \in Nat
    PROVE  \E g : Sums(f, SUBSET (1 .. n), g)
<1> DEFINE T == {m \in Nat : \E g : Sums(f, SUBSET (1 .. m), g)}
<1>1. 0 \in T
  <2>1. 1 .. 0 = {}
    OBVIOUS
  <2>2. Sums(f, SUBSET (1 .. 0), [X \in SUBSET (1 .. 0) |-> 0])
    BY <2>1 DEF Sums
  <2> QED BY <2>2
<1>2. ASSUME NEW m \in T PROVE m + 1 \in T
  <2>1. PICK g : Sums(f, SUBSET (1 .. m), g)
    OBVIOUS
  <2> DEFINE h == [X \in SUBSET (1 .. m + 1) |->
                      IF m + 1 \in X THEN g[X \ {m + 1}] + 2 + f[m + 1].length ELSE g[X]]
             Step(X) == IF X = {} THEN 0 ELSE h[X \ {Largest(X)}] + 2 + f[Largest(X)].length
  <2>2. m \in Nat /\ SUBSET (1 .. m) \subseteq SUBSET (1 .. m + 1)
    OBVIOUS
  <2>3. ASSUME NEW X \in SUBSET (1 .. m + 1) PROVE h[X] = Step(X)
    <3>1. CASE m + 1 \in X
      <4>1. Largest(X) = m + 1
        BY <2>2, <3>1, LargestIs
      <4>2. X \ {m + 1} \in SUBSET (1 .. m + 1) /\ m + 1 \notin X \ {m + 1} /\ X # {}
        BY <3>1
      <4>3. h[X \ {m + 1}] = g[X \ {m + 1}]
        BY <4>2
      <4> QED BY <3>1, <4>1, <4>2, <4>3
    <3>2. CASE m + 1 \notin X
      <4>0. \A x \in 1 .. m + 1 : x # m + 1 => x \in 1 .. m
        BY <2>2
      <4>1. X \in SUBSET (1 .. m) /\ X \ {Largest(X)} \in SUBSET (1 .. m)
        <5>1. \A x \in X : x \in 1 .. m
          BY <3>2, <4>0
        <5> HIDE DEF T
        <5> QED BY <5>1, Zenon
      <4>2. h[X] = g[X] /\ h[X \ {Largest(X)}] = g[X \ {Largest(X)}]
        BY <2>2, <4>1
      <4>3. g[X] = IF X = {} THEN 0 ELSE g[X \ {Largest(X)}] + 2 + f[Largest(X)].length
        BY <2>1, <4>1 DEF Sums
      <4> QED BY <4>2, <4>3
    <3> QED BY <3>1, <3>2
  <2>4. h = [X \in SUBSET (1 .. m + 1) |-> h[X]]
    OBVIOUS
  <2> HIDE DEF h
  <2>5. Sums(f, SUBSET (1 .. m + 1), h)
    BY <2>3, <2>4 DEF Sums
  <2> QED BY <2>2, <2>5
<1> HIDE DEF T
<1>3. T = Nat
  <2>1. T \in SUBSET Nat
    BY DEF T
  <2> QED BY <1>1, <1>2, <2>1, AllNumbers
<1> QED BY <1>3 DEF T

\* A sum over the first records, step by step.
AddsUp(f, n, g) ==
    /\ g[1 .. 0] = 0
    /\ \A j \in 1 .. n : g[1 .. j] = g[1 .. j - 1] + 2 + f[j].length

LEMMA SumsStep ==
    ASSUME NEW f, NEW n \in Nat, NEW g, Sums(f, SUBSET (1 .. n), g)
    PROVE  AddsUp(f, n, g)
<1>1. 1 .. 0 = {} /\ 1 .. 0 \in SUBSET (1 .. n)
  OBVIOUS
<1>2. g[1 .. 0] = 0
  BY <1>1 DEF Sums
<1>3. ASSUME NEW j \in 1 .. n PROVE g[1 .. j] = g[1 .. j - 1] + 2 + f[j].length
  <2>1. 1 .. j \in SUBSET (1 .. n) /\ 1 .. j # {} /\ j \in 1 .. j
    OBVIOUS
  <2>2. Largest(1 .. j) = j
    <3>1. j - 1 \in Nat /\ (j - 1) + 1 = j
      OBVIOUS
    <3> QED BY <2>1, <3>1, LargestIs
  <2>3. (1 .. j) \ {j} = 1 .. j - 1
    OBVIOUS
  <2> QED BY <2>1, <2>2, <2>3 DEF Sums
<1> QED BY <1>2, <1>3 DEF AddsUp

\* Two files that begin with the same records have the same sums of them.
SameUpTo(e, f, m) == \A j \in 1 .. m : e[j] = f[j]

LEMMA SumsAgree ==
    ASSUME NEW e, NEW f, NEW m \in Nat, NEW n \in Nat, m <= n, NEW g, NEW h,
           AddsUp(e, m, g), AddsUp(f, n, h), SameUpTo(e, f, m)
    PROVE  g[1 .. m] = h[1 .. m]
<1> DEFINE T == {j \in Nat : j <= m => g[1 .. j] = h[1 .. j]}
<1>1. 0 \in T
  BY DEF AddsUp
<1>2. ASSUME NEW j \in T PROVE j + 1 \in T
  <2>1. SUFFICES ASSUME j + 1 <= m PROVE g[1 .. j + 1] = h[1 .. j + 1]
    OBVIOUS
  <2>2. j + 1 \in 1 .. m /\ j + 1 \in 1 .. n /\ (j + 1) - 1 = j
    BY <2>1
  <2>3. g[1 .. j] = h[1 .. j]
    BY <2>1
  <2>4. /\ g[1 .. j + 1] = g[1 .. j] + 2 + e[j + 1].length
        /\ h[1 .. j + 1] = h[1 .. j] + 2 + f[j + 1].length
    BY <2>2 DEF AddsUp
  <2>5. e[j + 1] = f[j + 1]
    BY <2>2 DEF SameUpTo
  <2> QED BY <2>3, <2>4, <2>5
<1> HIDE DEF T
<1>3. T = Nat
  <2>1. T \in SUBSET Nat
    BY DEF T
  <2> QED BY <1>1, <1>2, <2>1, AllNumbers
<1> QED BY <1>3 DEF T

\* Files of records.
Files == Seq(Records)

\* The next record starts where the one before it ends.
LEMMA StartStep ==
    ASSUME file \in Files
    PROVE  /\ StartOf(1) = 0
           /\ \A k \in DOMAIN file : StartOf(k + 1) = StartOf(k) + 2 + file[k].length
<1> DEFINE F(n) == SubSeq(file, 1, n)
           G(n) == CHOOSE g : Sums(F(n), SUBSET (1 .. n), g)
<1>1. \A n \in 0 .. Len(file) :
          DOMAIN F(n) = 1 .. n /\ \A j \in 1 .. n : F(n)[j] = file[j]
  BY DEF Files
<1>2. \A n \in 0 .. Len(file) : n \in Nat /\ AddsUp(F(n), n, G(n))
  <2> HIDE DEF F
  <2>1. TAKE n \in 0 .. Len(file)
  <2>2. n \in Nat
    BY DEF Files
  <2>3. \E g : Sums(F(n), SUBSET (1 .. n), g)
    BY <2>2, SumsExist
  <2>4. Sums(F(n), SUBSET (1 .. n), G(n))
    BY <2>3
  <2> HIDE DEF G
  <2> QED BY <2>2, <2>4, SumsStep
<1>3. \A n \in 0 .. Len(file) : StartOf(n + 1) = G(n)[1 .. n]
  <2>1. TAKE n \in 0 .. Len(file)
  <2>2. (n + 1) - 1 = n
    OBVIOUS
  <2>3. DOMAIN F(n) = 1 .. n
    BY <1>1
  <2> QED BY <2>2, <2>3, StartDef
<1> HIDE DEF F, G
<1>4. StartOf(1) = 0
  <2>1. 0 \in 0 .. Len(file) /\ 0 + 1 = 1
    BY DEF Files
  <2>2. AddsUp(F(0), 0, G(0)) /\ StartOf(1) = G(0)[1 .. 0]
    BY <1>2, <1>3, <2>1
  <2> QED BY <2>2 DEF AddsUp
<1>5. ASSUME NEW k \in DOMAIN file PROVE StartOf(k + 1) = StartOf(k) + 2 + file[k].length
  <2>1. k \in 1 .. Len(file) /\ k \in 0 .. Len(file) /\ k - 1 \in 0 .. Len(file)
        /\ (k - 1) + 1 = k /\ k \in 1 .. k
    BY DEF Files
  <2> HIDE DEF Files
  <2>2. /\ k \in Nat /\ AddsUp(F(k), k, G(k)) /\ StartOf(k + 1) = G(k)[1 .. k]
        /\ k - 1 \in Nat /\ AddsUp(F(k - 1), k - 1, G(k - 1))
        /\ StartOf(k) = G(k - 1)[1 .. k - 1]
    BY <1>2, <1>3, <2>1
  <2>3. F(k)[k] = file[k]
    BY <1>1, <2>1
  <2>4. G(k)[1 .. k] = G(k)[1 .. k - 1] + 2 + file[k].length
    BY <2>1, <2>2, <2>3 DEF AddsUp
  <2>5. G(k - 1)[1 .. k - 1] = G(k)[1 .. k - 1]
    <3>1. SameUpTo(F(k - 1), F(k), k - 1)
      BY <1>1, <2>1 DEF SameUpTo
    <3>2. k - 1 <= k
      BY <2>1
    <3> QED BY ONLY <2>2, <3>1, <3>2, SumsAgree
  <2> QED BY <2>2, <2>4, <2>5
<1> QED BY <1>4, <1>5

\* The byte a record starts at tells the record.
Framed ==
    /\ Len(file) \in Nat /\ DOMAIN file = 1 .. Len(file)
    /\ \A k \in 1 .. Len(file) + 1 : StartOf(k) \in Nat
    /\ StartOf(1) = 0
    /\ \A k \in DOMAIN file : /\ k \in 1 .. Len(file) + 1 /\ k + 1 \in 1 .. Len(file) + 1
                              /\ file[k].length \in Nat /\ 2 + file[k].length <= Slice
                              /\ StartOf(k + 1) = StartOf(k) + 2 + file[k].length
                              /\ At(StartOf(k)) = k
                              /\ After(StartOf(k)) = StartOf(k + 1)
    /\ \A j, k \in 1 .. Len(file) + 1 : j < k => StartOf(j) + 2 <= StartOf(k)

\* Records start one after the other.
LEMMA Framing ==
    ASSUME file \in Files
    PROVE  Framed
<1> DEFINE N == Len(file)
<1>1. N \in Nat /\ DOMAIN file = 1 .. N
  BY DEF Files
<1>2. \A k \in DOMAIN file : /\ k \in 1 .. N + 1 /\ k + 1 \in 1 .. N + 1
                             /\ file[k].length \in Nat /\ 2 + file[k].length <= Slice
  <2>1. TAKE k \in DOMAIN file
  <2>2. file[k] \in Records
    BY DEF Files
  <2>3. file[k].length \in Nat /\ 2 + file[k].length <= Slice
    BY <2>2, ReplayAssumption
  <2>4. k \in 1 .. N
    BY <1>1
  <2> HIDE DEF N
  <2>5. k \in 1 .. N + 1 /\ k + 1 \in 1 .. N + 1
    BY <1>1, <2>4
  <2> QED BY <2>3, <2>5
<1> HIDE DEF N
<1>3. StartOf(1) = 0 /\ \A k \in DOMAIN file : StartOf(k + 1) = StartOf(k) + 2 + file[k].length
  BY StartStep
<1>4. \A k \in 1 .. N + 1 : /\ StartOf(k) \in Nat
                            /\ \A j \in 1 .. N + 1 : j < k => StartOf(j) + 2 <= StartOf(k)
  <2> DEFINE T == {n \in Nat : n <= N =>
                            /\ StartOf(n + 1) \in Nat
                            /\ \A j \in 1 .. N + 1 : j < n + 1 => /\ StartOf(j) \in Nat
                                                                 /\ StartOf(j) + 2 <= StartOf(n + 1)}
  <2>1. 0 \in T
    <3>1. 0 + 1 = 1 /\ \A j \in 1 .. N + 1 : ~(j < 1)
      BY <1>1
    <3> QED BY <1>3, <3>1
  <2>2. ASSUME NEW n \in T PROVE n + 1 \in T
    <3>1. SUFFICES ASSUME n + 1 <= N
                   PROVE  /\ StartOf(n + 2) \in Nat
                          /\ \A j \in 1 .. N + 1 : j < n + 2 => /\ StartOf(j) \in Nat
                                                               /\ StartOf(j) + 2 <= StartOf(n + 2)
      <4>1. n \in Nat /\ (n + 1) + 1 = n + 2
        OBVIOUS
      <4> QED BY <4>1
    <3>2. n \in Nat /\ n + 1 \in DOMAIN file /\ n <= N /\ (n + 1) + 1 = n + 2
      BY <1>1, <3>1
    <3>3. /\ StartOf(n + 1) \in Nat
          /\ \A j \in 1 .. N + 1 : j < n + 1 => /\ StartOf(j) \in Nat
                                               /\ StartOf(j) + 2 <= StartOf(n + 1)
      BY <3>2
    <3> HIDE DEF T
    <3>4. StartOf(n + 2) = StartOf(n + 1) + 2 + file[n + 1].length /\ file[n + 1].length \in Nat
      BY <1>2, <1>3, <3>2
    <3>5. PICK a \in Nat, l \in Nat : a = StartOf(n + 1) /\ l = file[n + 1].length
      BY <3>3, <3>4
    <3>6. StartOf(n + 2) = a + 2 + l
      BY <3>4, <3>5
    <3>7. ASSUME NEW j \in 1 .. N + 1, j < n + 2
          PROVE  StartOf(j) \in Nat /\ StartOf(j) + 2 <= StartOf(n + 2)
      <4>1. CASE j = n + 1
        BY <3>5, <3>6, <4>1
      <4>2. CASE j # n + 1
        <5>1. j < n + 1 /\ j \in Nat
          BY <1>1, <3>2, <3>7, <4>2
        <5>2. StartOf(j) \in Nat /\ StartOf(j) + 2 <= a
          BY <3>3, <3>5, <5>1
        <5> QED BY <3>5, <3>6, <5>2
      <4> QED BY <4>1, <4>2
    <3> QED BY <3>5, <3>6, <3>7
  <2> HIDE DEF T
  <2>3. T = Nat
    <3>1. T \in SUBSET Nat
      BY DEF T
    <3> QED BY <2>1, <2>2, <3>1, AllNumbers
  <2>4. TAKE k \in 1 .. N + 1
  <2>5. k - 1 \in Nat /\ k - 1 <= N /\ (k - 1) + 1 = k
    BY <1>1
  <2> QED BY <2>3, <2>5 DEF T
<1>5. \A k \in DOMAIN file : At(StartOf(k)) = k
  <2>1. TAKE k \in DOMAIN file
  <2>2. At(StartOf(k)) \in DOMAIN file /\ StartOf(At(StartOf(k))) = StartOf(k)
    BY DEF At
  <2>3. PICK m \in DOMAIN file : m = At(StartOf(k)) /\ StartOf(m) = StartOf(k)
    BY <2>2
  <2>4. m \in 1 .. N + 1 /\ k \in 1 .. N + 1 /\ m \in Nat /\ k \in Nat
    BY <1>1, <1>2
  <2>5. ~(m < k) /\ ~(k < m)
    <3>1. PICK a \in Nat : a = StartOf(k)
      BY <1>4, <2>4
    <3>2. (m < k => a + 2 <= a) /\ (k < m => a + 2 <= a)
      BY <1>4, <2>3, <2>4, <3>1
    <3> QED BY <3>2
  <2> QED BY <2>3, <2>4, <2>5
<1>6. \A k \in DOMAIN file : After(StartOf(k)) = StartOf(k + 1)
  BY <1>3, <1>5 DEF After
<1> QED BY <1>1, <1>2, <1>3, <1>4, <1>5, <1>6 DEF Framed, N

\* A record ends within a limit that is no further than the end of the file.
LEMMA CompleteIs ==
    ASSUME Framed, NEW limit \in Nat, limit <= StartOf(Len(file) + 1),
           NEW k \in 1 .. Len(file) + 1
    PROVE  Complete(StartOf(k), limit) <=> k \in DOMAIN file /\ StartOf(k + 1) <= limit
<1>1. CASE k \in DOMAIN file
  <2>1. PICK a \in Nat, l \in Nat : a = StartOf(k) /\ l = file[k].length
    BY <1>1 DEF Framed
  <2>2. StartOf(k + 1) = a + 2 + l /\ At(StartOf(k)) = k
    BY <1>1, <2>1 DEF Framed
  <2> QED BY <1>1, <2>1, <2>2 DEF Complete
<1>2. CASE k \notin DOMAIN file
  <2>1. k = Len(file) + 1
    BY <1>2 DEF Framed
  <2>2. PICK a \in Nat : a = StartOf(k)
    BY DEF Framed
  <2> QED BY <1>2, <2>1, <2>2 DEF Complete
<1> QED BY <1>1, <1>2

\* The records before the one that starts at a byte.
LEMMA BeforeIs ==
    ASSUME Framed, NEW k \in 1 .. Len(file) + 1
    PROVE  Before(StartOf(k)) = 1 .. k - 1
<1>1. Len(file) \in Nat /\ DOMAIN file = 1 .. Len(file) /\ k \in Nat /\ StartOf(k) \in Nat
  BY DEF Framed
<1>2. ASSUME NEW j \in DOMAIN file PROVE StartOf(j) < StartOf(k) <=> j < k
  <2>1. j \in 1 .. Len(file) + 1 /\ j \in Nat
    BY <1>1
  <2>2. PICK a \in Nat, b \in Nat : a = StartOf(j) /\ b = StartOf(k)
    BY <1>1, <2>1 DEF Framed
  <2>3. j < k => a + 2 <= b
    BY <2>1, <2>2 DEF Framed
  <2>4. k < j => b + 2 <= a
    BY <2>1, <2>2 DEF Framed
  <2>5. k = j => a = b
    BY <2>2
  <2>6. a < b <=> j < k
    BY <1>1, <2>1, <2>3, <2>4, <2>5
  <2> QED BY <2>2, <2>6
<1>3. 1 .. k - 1 = {j \in DOMAIN file : j < k}
  BY <1>1
<1> QED BY <1>2, <1>3 DEF Before

\* A step that leaves the file alone leaves its framing alone.
LEMMA SameStarts ==
    ASSUME file' = file
    PROVE  \A k : StartOf(k)' = StartOf(k)
BY DEF StartOf, FoldLeft, MapThenFoldSet

-----------------------------------------------------------------------------
(* The inductive invariant.                                                *)

\* Types, but for the decoded message and the latencies.
Typed ==
    /\ file \in Files /\ len \in Nat /\ running \in BOOLEAN
    /\ pc \in {"slices", "records", "latency", "done"}
    /\ start \in Nat /\ end \in Nat /\ off \in Nat /\ ahead \in Nat
    /\ warmup \in 0 .. Distance
    /\ handled \in Seq(DOMAIN file)
    /\ stats \in [Kinds -> Nat]

\* Only the last record may be cut.
Fits == len <= StartOf(Len(file) + 1)

\* The statistics and the handler have had the first i - 1 records.
CountedIn(c, i) == {k \in 1 .. i - 1 : c \in Counters(KindOf(file[k]))}

Recorded(i) ==
    /\ \A c \in Kinds : stats[c] = Cardinality(CountedIn(c, i))
    /\ \A a, b \in DOMAIN handled : a < b => handled[a] < handled[b]
    /\ ToSet(handled) = {k \in 1 .. i - 1 : KindOf(file[k]) = "message"}

\* The parser is in the slice.
Sliced ==
    pc = "records" => /\ start < len /\ end = start + AtMostSlice(len - start)
                      /\ start <= off /\ off <= end

\* Record j does not end within a limit.
Cut(j, limit) == j \in DOMAIN file => StartOf(j + 1) > limit

\* The lookahead is at record j, and it is short of its distance only if it can
\* go no further.
AheadBy(i, j) ==
    /\ ahead = StartOf(j) /\ i <= j /\ j - i <= Distance - warmup
    /\ i < j => ahead <= end
    /\ j - i < Distance - warmup => Cut(j, end)

Looking(i) ==
    pc = "records" /\ Distance > 0 => \E j \in 1 .. Len(file) + 1 : AheadBy(i, j)

\* A replay ends at a record it has no whole of, unless a signal ends it.
Ended(i) == pc = "done" /\ running => Cut(i, len)

\* The parser is at record i.
AtRecord(i) ==
    /\ off = StartOf(i) /\ off <= len
    /\ Recorded(i) /\ Looking(i) /\ Ended(i)

IInv == Typed /\ Fits /\ Sliced /\ \E i \in 1 .. Len(file) + 1 : AtRecord(i)

\* What the parser makes of a record is one of the kinds, and each kind counts in
\* some of the statistics.
LEMMA KindIs ==
    ASSUME NEW r
    PROVE  KindOf(r) \in Kinds /\ Counters(KindOf(r)) \subseteq Kinds
BY DEF KindOf, Kinds, Counters

\* The limit of a slice is no further than the end of the file.
LEMMA SliceEnds ==
    ASSUME Typed, pc = "records", Sliced
    PROVE  end \in Nat /\ end <= len /\ (end = len \/ end = start + Slice)
<1>1. start \in Nat /\ len \in Nat /\ start < len /\ end = start + AtMostSlice(len - start)
  BY DEF Typed, Sliced
<1>2. Slice \in Nat
  BY ReplayAssumption
<1> QED BY <1>1, <1>2 DEF AtMostSlice

\* What parse() does to the statistics and the handler.
LEMMA ParseRecords ==
    ASSUME Typed, NEW i \in DOMAIN file, At(off) = i, Recorded(i), Parse, file' = file
    PROVE  handled' \in Seq(DOMAIN file) /\ stats' \in [Kinds -> Nat] /\ Recorded(i + 1)'
<1> DEFINE kind == KindOf(file[i])
<1>0. i \in Nat /\ i > 0 /\ (i + 1) - 1 = i /\ i \notin 1 .. i - 1 /\ 1 .. i = (1 .. i - 1) \cup {i}
  BY DEF Typed, Files
<1>1. /\ stats' = [c \in Kinds |-> IF c \in Counters(kind) THEN stats[c] + 1 ELSE stats[c]]
      /\ IF kind = "message" THEN handled' = Append(handled, i) ELSE handled' = handled
  BY DEF Parse
<1>2. \A k : KindOf(file[k])' = KindOf(file[k])
  OBVIOUS
<1> HIDE DEF kind
<1>3. stats' \in [Kinds -> Nat]
  BY <1>1 DEF Typed
<1>4. ASSUME NEW c \in Kinds
      PROVE  stats'[c] = Cardinality(CountedIn(c, i + 1))
  <2>1. CountedIn(c, i + 1) = IF c \in Counters(kind) THEN CountedIn(c, i) \cup {i}
                              ELSE CountedIn(c, i)
    BY <1>0 DEF CountedIn, kind
  <2>2. i \notin CountedIn(c, i) /\ CountedIn(c, i) \subseteq 1 .. i - 1
    BY <1>0 DEF CountedIn
  <2>3. IsFiniteSet(CountedIn(c, i))
    <3>1. 1 \in Int /\ i - 1 \in Int
      BY <1>0
    <3> QED BY <2>2, <3>1, FS_Interval, FS_Subset
  <2>4. Cardinality(CountedIn(c, i) \cup {i}) = Cardinality(CountedIn(c, i)) + 1
    BY <2>2, <2>3, FS_AddElement
  <2>5. stats[c] = Cardinality(CountedIn(c, i))
    BY DEF Recorded
  <2> QED BY <1>1, <2>1, <2>4, <2>5
<1>5. CASE kind = "message"
  <2>1. handled' = Append(handled, i) /\ handled \in Seq(DOMAIN file)
    BY <1>1, <1>5 DEF Typed
  <2>2. PICK n \in Nat : n = Len(handled)
    BY <2>1
  <2>3. /\ handled' \in Seq(DOMAIN file) /\ DOMAIN handled = 1 .. n /\ DOMAIN handled' = 1 .. n + 1
        /\ handled'[n + 1] = i /\ \A a \in 1 .. n : handled'[a] = handled[a]
    BY <2>1, <2>2
  <2>4. \A a \in 1 .. n : handled[a] \in 1 .. i - 1
    BY <2>3 DEF Recorded, ToSet
  <2>5. \A a, b \in DOMAIN handled' : a < b => handled'[a] < handled'[b]
    <3>1. TAKE a, b \in DOMAIN handled'
    <3>2. CASE b = n + 1
      <4>1. a < b => a \in 1 .. n
        BY <2>3, <3>2
      <4> QED BY <1>0, <2>3, <2>4, <3>2, <4>1
    <3>3. CASE b # n + 1
      <4>1. b \in 1 .. n /\ (a < b => a \in 1 .. n)
        BY <2>3, <3>3
      <4> QED BY <2>3, <4>1 DEF Recorded
    <3> QED BY <3>2, <3>3
  <2>6. ToSet(handled') = ToSet(handled) \cup {i}
    BY <2>3 DEF ToSet
  <2>7. ToSet(handled') = {k \in 1 .. i : KindOf(file[k]) = "message"}
    BY <1>0, <1>5, <2>6 DEF Recorded, kind
  <2> QED BY <1>0, <1>2, <1>3, <1>4, <2>3, <2>5, <2>7 DEF Recorded, CountedIn
<1>6. CASE kind # "message"
  <2>1. handled' = handled
    BY <1>1, <1>6
  <2>2. ToSet(handled') = {k \in 1 .. i : KindOf(file[k]) = "message"}
    BY <1>0, <1>6, <2>1 DEF Recorded, kind
  <2>3. \A a, b \in DOMAIN handled' : a < b => handled'[a] < handled'[b]
    BY <2>1 DEF Recorded
  <2> QED BY <1>0, <1>2, <1>3, <1>4, <2>1, <2>2, <2>3 DEF Recorded, CountedIn, Typed
<1> QED BY <1>5, <1>6

\* The start of the file.
LEMMA InitIInv == Init => IInv
<1> SUFFICES ASSUME Init PROVE IInv
  OBVIOUS
<1>1. Distance \in Nat /\ Missing \subseteq Nat
  BY ReplayAssumption
<1>2. file \in Files
  BY DEF Init, BoundedSeq, SeqOf, Files
<1>3. Framed
  BY <1>2, Framing
<1>4. PICK cut \in Nat : len = StartOf(Len(file) + 1) - cut
  BY <1>1 DEF Init
<1>5. /\ Len(file) \in Nat /\ Len(file) + 1 \in 1 .. Len(file) + 1 /\ 1 \in 1 .. Len(file) + 1
      /\ StartOf(Len(file) + 1) \in Nat /\ StartOf(1) = 0
  BY <1>3 DEF Framed
<1>6. len \in Nat /\ Fits
  BY <1>4, <1>5 DEF Init, Fits
<1>7. handled \in Seq(DOMAIN file) /\ stats \in [Kinds -> Nat]
  BY DEF Init
<1>8. Typed /\ Sliced
  BY <1>1, <1>2, <1>6, <1>7 DEF Init, Typed, Sliced
<1>9. Recorded(1)
  <2>1. 1 .. 1 - 1 = {}
    OBVIOUS
  <2>2. \A c : CountedIn(c, 1) = {}
    BY <2>1 DEF CountedIn
  <2>3. \A c \in Kinds : stats[c] = Cardinality(CountedIn(c, 1))
    BY <2>2, FS_EmptySet DEF Init
  <2>4. handled = <<>>
    BY DEF Init
  <2>5. ToSet(handled) = {} /\ DOMAIN handled = {}
    BY <2>4 DEF ToSet
  <2> QED BY <2>1, <2>3, <2>5 DEF Recorded
<1>10. AtRecord(1)
  BY <1>5, <1>6, <1>9 DEF Init, AtRecord, Looking, Ended
<1> QED BY <1>5, <1>6, <1>8, <1>10 DEF IInv

\* The facts about the layout that the steps below use.
LEMMA Facts ==
    ASSUME IInv
    PROVE  /\ Framed /\ Typed /\ Fits /\ Sliced /\ Len(file) \in Nat
           /\ \E i \in 1 .. Len(file) + 1 : AtRecord(i)
BY Framing DEF IInv, Typed, Framed

\* What ends within the slice, or the file.
LEMMA Ends ==
    ASSUME IInv, NEW limit \in Nat, limit <= len, NEW k \in 1 .. Len(file) + 1
    PROVE  Complete(StartOf(k), limit) <=> ~Cut(k, limit)
<1>1. Framed /\ limit <= StartOf(Len(file) + 1)
  <2>1. StartOf(Len(file) + 1) \in Nat
    BY Facts DEF Framed
  <2> QED BY <2>1, Facts DEF Fits, Typed
<1>2. Complete(StartOf(k), limit) <=> k \in DOMAIN file /\ StartOf(k + 1) <= limit
  BY <1>1, CompleteIs
<1>3. k \in DOMAIN file => StartOf(k + 1) \in Nat
  BY <1>1 DEF Framed
<1> QED BY <1>2, <1>3 DEF Cut

\* A step that parses nothing.
LEMMA Stays ==
    ASSUME IInv, UNCHANGED <<file, len, off, handled, stats>>,
           NEW i \in 1 .. Len(file) + 1, AtRecord(i),
           Typed', Sliced', Looking(i)', Ended(i)'
    PROVE  IInv'
<1>1. \A k : StartOf(k)' = StartOf(k)
  BY SameStarts
<1>2. Fits'
  BY <1>1 DEF IInv, Fits
<1>3. Recorded(i)'
  BY DEF AtRecord, Recorded, CountedIn
<1>4. AtRecord(i)'
  BY <1>1, <1>3 DEF AtRecord
<1> QED BY <1>2, <1>4 DEF IInv

\* A record that ends within a limit is parsed and left behind.
LEMMA Advance ==
    ASSUME IInv, NEW i \in 1 .. Len(file) + 1, AtRecord(i), NEW limit \in Nat, limit <= len,
           Complete(off, limit), Parse, UNCHANGED <<file, len>>
    PROVE  /\ i \in DOMAIN file /\ i + 1 \in 1 .. Len(file) + 1
           /\ off' = StartOf(i + 1) /\ off' \in Nat /\ off' <= limit /\ off < off'
           /\ handled' \in Seq(DOMAIN file) /\ stats' \in [Kinds -> Nat] /\ Recorded(i + 1)'
<1>1. Framed /\ Typed /\ off = StartOf(i) /\ Recorded(i)
  BY Facts DEF AtRecord
<1>2. i \in DOMAIN file /\ StartOf(i + 1) <= limit
  <2>1. ~Cut(i, limit)
    BY <1>1, Ends
  <2>2. i \in DOMAIN file /\ ~(StartOf(i + 1) > limit)
    BY <2>1 DEF Cut
  <2>3. StartOf(i + 1) \in Nat
    BY <1>1, <2>2 DEF Framed
  <2> QED BY <2>2, <2>3
<1>3. /\ i + 1 \in 1 .. Len(file) + 1 /\ StartOf(i + 1) \in Nat
      /\ At(off) = i /\ After(off) = StartOf(i + 1)
      /\ file[i].length \in Nat /\ StartOf(i + 1) = off + 2 + file[i].length
  BY <1>1, <1>2 DEF Framed
<1>4. off < StartOf(i + 1)
  BY <1>1, <1>3 DEF Typed
<1>5. off' = StartOf(i + 1)
  BY <1>3 DEF Parse
<1>6. handled' \in Seq(DOMAIN file) /\ stats' \in [Kinds -> Nat] /\ Recorded(i + 1)'
  BY <1>1, <1>2, <1>3, ParseRecords
<1> QED BY <1>2, <1>3, <1>4, <1>5, <1>6

\* prefetch_next takes the lookahead a record further, if that one ends in the slice.
LEMMA HintNext ==
    ASSUME IInv, pc = "records", NEW j \in 1 .. Len(file) + 1, ahead = StartOf(j)
    PROVE  \/ Cut(j, end) /\ PrefetchNext = ahead
           \/ /\ ~Cut(j, end) /\ j + 1 \in 1 .. Len(file) + 1 /\ PrefetchNext = StartOf(j + 1)
              /\ PrefetchNext \in Nat /\ PrefetchNext <= end
<1>1. Framed /\ Typed /\ Sliced
  BY Facts
<1>2. end \in Nat /\ end <= len
  BY <1>1, SliceEnds
<1>3. Complete(ahead, end) <=> ~Cut(j, end)
  BY <1>2, Ends
<1>4. CASE Cut(j, end)
  BY <1>3, <1>4 DEF PrefetchNext
<1>5. CASE ~Cut(j, end)
  <2>1. j \in DOMAIN file /\ ~(StartOf(j + 1) > end)
    BY <1>5 DEF Cut
  <2>2. StartOf(j + 1) \in Nat /\ After(ahead) = StartOf(j + 1) /\ j + 1 \in 1 .. Len(file) + 1
    BY <1>1, <2>1 DEF Framed
  <2> QED BY <1>2, <1>3, <1>5, <2>1, <2>2 DEF PrefetchNext
<1> QED BY <1>4, <1>5

LEMMA BeginStep ==
    ASSUME IInv, BeginSlice
    PROVE  IInv'
<1>1. /\ pc = "slices" /\ off < len /\ start' = off /\ end' = off + AtMostSlice(len - off)
      /\ ahead' = off /\ warmup' = Distance /\ pc' = "records"
      /\ UNCHANGED <<file, len, running, off, handled, stats>>
  BY DEF BeginSlice, input, results
<1>2. PICK i \in 1 .. Len(file) + 1 : AtRecord(i)
  BY Facts
<1>3. Framed /\ Typed /\ i \in Nat /\ Slice \in Nat /\ Distance \in Nat
  BY <1>2, Facts, ReplayAssumption
<1>4. AtMostSlice(len - off) \in Nat
  BY <1>1, <1>3 DEF AtMostSlice, Typed
<1>5. Typed'
  BY <1>1, <1>3, <1>4 DEF Typed
<1>6. Sliced'
  BY <1>1, <1>3, <1>4 DEF Sliced, AtMostSlice, Typed
<1>7. Looking(i)'
  <2>1. AheadBy(i, i)'
    <3>1. StartOf(i)' = ahead'
      BY <1>1, <1>2, SameStarts DEF AtRecord
    <3> QED BY <1>1, <1>3, <3>1 DEF AheadBy
  <2> QED BY <1>1, <2>1 DEF Looking
<1>8. Ended(i)'
  BY <1>1 DEF Ended
<1> QED BY <1>1, <1>2, <1>5, <1>6, <1>7, <1>8, Stays

LEMMA WarmUpStep ==
    ASSUME IInv, WarmUp
    PROVE  IInv'
<1>1. /\ pc = "records" /\ warmup > 0 /\ warmup' = warmup - 1 /\ ahead' = PrefetchNext
      /\ UNCHANGED <<file, len, pc, running, start, end, off, handled, stats>>
  BY DEF WarmUp, input, results
<1>2. PICK i \in 1 .. Len(file) + 1 : AtRecord(i)
  BY Facts
<1>3. Framed /\ Typed /\ Sliced /\ i \in Nat /\ Distance \in Nat /\ warmup \in 0 .. Distance
  <2>1. Framed /\ Typed /\ Sliced /\ i \in Nat
    BY <1>2, Facts
  <2>2. warmup \in 0 .. Distance
    BY <2>1 DEF Typed
  <2> QED BY <2>1, <2>2, ReplayAssumption
<1>4. PICK j \in 1 .. Len(file) + 1 : AheadBy(i, j)
  <2>1. Distance > 0
    BY <1>1, <1>3
  <2> QED BY <1>1, <1>2, <2>1 DEF AtRecord, Looking
<1>5. \A k : StartOf(k)' = StartOf(k)
  BY <1>1, SameStarts
<1>6. /\ ahead = StartOf(j) /\ i <= j /\ j - i <= Distance - warmup /\ j \in Nat
      /\ (i < j => ahead <= end) /\ (j - i < Distance - warmup => Cut(j, end))
  BY <1>3, <1>4 DEF AheadBy, Framed
<1>7. ahead' \in Nat /\ \E m \in 1 .. Len(file) + 1 : AheadBy(i, m)'
  <2>1. CASE Cut(j, end) /\ PrefetchNext = ahead
    <3>1. ahead' = StartOf(j)' /\ ahead' = ahead /\ Cut(j, end)'
      BY <1>1, <1>5, <1>6, <2>1 DEF Cut
    <3>2. j - i <= Distance - warmup'
      BY <1>1, <1>3, <1>6
    <3>3. AheadBy(i, j)'
      BY <1>1, <1>6, <3>1, <3>2 DEF AheadBy
    <3> QED BY <1>3, <3>1, <3>3 DEF Typed
  <2>2. CASE /\ ~Cut(j, end) /\ j + 1 \in 1 .. Len(file) + 1 /\ PrefetchNext = StartOf(j + 1)
             /\ PrefetchNext \in Nat /\ PrefetchNext <= end
    <3>1. ahead' = StartOf(j + 1)' /\ ahead' \in Nat /\ ahead' <= end'
      BY <1>1, <1>5, <2>2
    <3>2. (j + 1) - i = Distance - warmup' /\ i <= j + 1
      BY <1>1, <1>3, <1>6, <2>2
    <3>3. AheadBy(i, j + 1)'
      <4>1. ~((j + 1) - i < Distance - warmup') /\ (j + 1) - i <= Distance - warmup'
        BY <1>1, <1>3, <1>6, <3>2
      <4> QED BY <1>1, <3>1, <3>2, <4>1 DEF AheadBy
    <3> QED BY <2>2, <3>1, <3>3
  <2> QED BY <1>1, <1>6, <2>1, <2>2, HintNext
<1>8. Typed'
  BY <1>1, <1>3, <1>7 DEF Typed
<1>9. Looking(i)'
  BY <1>1, <1>7 DEF Looking
<1>10. Sliced' /\ Ended(i)'
  BY <1>1, <1>3 DEF Sliced, Ended, AtMostSlice
<1> QED BY <1>1, <1>2, <1>8, <1>9, <1>10, Stays

LEMMA ParseRecordStep ==
    ASSUME IInv, ParseRecord
    PROVE  IInv'
<1>1. /\ pc = "records" /\ warmup = 0 /\ Complete(off, end) /\ Parse
      /\ ahead' = IF Distance = 0 THEN ahead ELSE PrefetchNext
      /\ UNCHANGED <<file, len, pc, running, start, end, warmup>>
  BY DEF ParseRecord, input
<1>2. PICK i \in 1 .. Len(file) + 1 : AtRecord(i)
  BY Facts
<1>3. Framed /\ Typed /\ Fits /\ Sliced /\ i \in Nat /\ Distance \in Nat
  BY <1>2, Facts, ReplayAssumption
<1>4. end \in Nat /\ end <= len
  BY <1>1, <1>3, SliceEnds
<1>5. /\ i \in DOMAIN file /\ i + 1 \in 1 .. Len(file) + 1
      /\ off' = StartOf(i + 1) /\ off' \in Nat /\ off' <= end /\ off < off'
      /\ handled' \in Seq(DOMAIN file) /\ stats' \in [Kinds -> Nat] /\ Recorded(i + 1)'
  BY <1>1, <1>2, <1>4, Advance
<1>6. \A k : StartOf(k)' = StartOf(k)
  BY <1>1, SameStarts
<1>7. ahead' \in Nat /\ Looking(i + 1)'
  <2>1. CASE Distance = 0
    BY <1>1, <1>3, <2>1 DEF Looking, Typed
  <2>2. CASE Distance > 0
    <3>1. PICK j \in 1 .. Len(file) + 1 : AheadBy(i, j)
      BY <1>1, <1>2, <2>2 DEF AtRecord, Looking
    <3>2. /\ ahead = StartOf(j) /\ i <= j /\ j - i <= Distance /\ j \in Nat
          /\ (i < j => ahead <= end) /\ (j - i < Distance => Cut(j, end))
      BY <1>1, <1>3, <3>1 DEF AheadBy, Framed
    <3>3. ahead' = PrefetchNext
      BY <1>1, <2>2
    <3>4. CASE Cut(j, end) /\ PrefetchNext = ahead
      <4>1. i # j
        <5>1. ~Cut(i, end)
          BY <1>1, <1>2, <1>4, Ends DEF AtRecord
        <5> QED BY <3>4, <5>1
      <4>2. i + 1 <= j /\ j - (i + 1) <= Distance
        BY <1>3, <3>2, <4>1
      <4>3. ahead' = StartOf(j)' /\ ahead' <= end' /\ Cut(j, end)' /\ ahead' \in Nat
        <5>1. i < j
          BY <1>3, <3>2, <4>1
        <5>2. Cut(j, end)' /\ ahead' = ahead
          BY <1>1, <1>6, <3>3, <3>4 DEF Cut
        <5>3. ahead \in Nat
          BY <1>3 DEF Typed
        <5> QED BY <1>1, <1>6, <3>2, <5>1, <5>2, <5>3
      <4>4. AheadBy(i + 1, j)'
        BY <1>1, <1>3, <4>2, <4>3 DEF AheadBy
      <4> QED BY <1>1, <4>3, <4>4 DEF Looking
    <3>5. CASE /\ ~Cut(j, end) /\ j + 1 \in 1 .. Len(file) + 1 /\ PrefetchNext = StartOf(j + 1)
               /\ PrefetchNext \in Nat /\ PrefetchNext <= end
      <4>1. (j + 1) - (i + 1) = Distance /\ i + 1 <= j + 1
        BY <1>3, <3>2, <3>5
      <4>2. ahead' = StartOf(j + 1)' /\ ahead' <= end' /\ ahead' \in Nat
        BY <1>1, <1>6, <3>3, <3>5
      <4>3. AheadBy(i + 1, j + 1)'
        <5>1. ~((j + 1) - (i + 1) < Distance - warmup') /\ (j + 1) - (i + 1) <= Distance - warmup'
          BY <1>1, <1>3, <4>1
        <5> QED BY <1>1, <4>1, <4>2, <5>1 DEF AheadBy
      <4> QED BY <1>1, <3>5, <4>2, <4>3 DEF Looking
    <3> QED BY <1>1, <3>2, <3>4, <3>5, HintNext
  <2> QED BY <1>3, <2>1, <2>2
<1>8. Typed'
  BY <1>1, <1>3, <1>5, <1>7 DEF Typed
<1>9. Sliced' /\ Fits'
  BY <1>1, <1>3, <1>5, <1>6 DEF Sliced, Fits, AtMostSlice, Typed
<1>10. AtRecord(i + 1)'
  <2>1. Ended(i + 1)'
    BY <1>1 DEF Ended
  <2>2. off' <= len'
    BY <1>1, <1>3, <1>4, <1>5 DEF Typed
  <2> QED BY <1>5, <1>6, <1>7, <2>1, <2>2 DEF AtRecord
<1> QED BY <1>1, <1>5, <1>8, <1>9, <1>10 DEF IInv

\* A slice that ends without progress holds no whole record: nor does the file.
LEMMA EndSliceStep ==
    ASSUME IInv, EndSlice
    PROVE  IInv'
<1>1. /\ pc = "records" /\ ~Complete(off, end)
      /\ pc' = IF off = start THEN "done" ELSE "slices"
      /\ UNCHANGED <<file, len, running, start, end, off, ahead, warmup, handled, stats>>
  BY DEF EndSlice, input, results
<1>2. PICK i \in 1 .. Len(file) + 1 : AtRecord(i)
  BY Facts
<1>3. Framed /\ Typed /\ Sliced
  BY Facts
<1>4. Typed' /\ Sliced' /\ Looking(i)'
  <2>1. pc' \in {"done", "slices"}
    BY <1>1
  <2>2. Typed'
    BY <1>1, <1>3, <2>1 DEF Typed
  <2> QED BY <2>1, <2>2 DEF Sliced, Looking
<1>5. Ended(i)'
  <2>1. CASE off = start
    <3>1. end \in Nat /\ end <= len /\ (end = len \/ end = start + Slice)
      BY <1>1, <1>3, SliceEnds
    <3>2. Cut(i, end)
      BY <1>1, <1>2, <3>1, Ends DEF AtRecord
    <3>3. Cut(i, len)
      <4>1. CASE end = len
        BY <3>2, <4>1
      <4>2. CASE end = start + Slice
        <5>1. ASSUME i \in DOMAIN file PROVE FALSE
          <6>1. /\ file[i].length \in Nat /\ 2 + file[i].length <= Slice
                /\ StartOf(i + 1) = StartOf(i) + 2 + file[i].length
            BY <1>3, <5>1 DEF Framed
          <6>2. StartOf(i) = start /\ start \in Nat /\ Slice \in Nat
            BY <1>2, <1>3, <2>1, ReplayAssumption DEF AtRecord, Typed
          <6>3. StartOf(i + 1) > end
            BY <3>2, <5>1 DEF Cut
          <6> QED BY <4>2, <6>1, <6>2, <6>3
        <5> QED BY <5>1 DEF Cut
      <4> QED BY <3>1, <4>1, <4>2
    <3>4. Cut(i, len)'
      BY <1>1, <3>3, SameStarts DEF Cut
    <3> QED BY <3>4 DEF Ended
  <2>2. CASE off # start
    BY <1>1, <2>2 DEF Ended
  <2> QED BY <2>1, <2>2
<1> QED BY <1>1, <1>2, <1>4, <1>5, Stays

\* The file is parsed to its end, or a signal has come.
LEMMA EndStep ==
    ASSUME IInv, EndFile \/ EndLatency
    PROVE  IInv'
<1>1. /\ pc' = "done"
      /\ UNCHANGED <<file, len, running, start, end, off, ahead, warmup, handled, stats>>
      /\ off >= len \/ ~Complete(off, len) \/ ~running
  BY DEF EndFile, EndLatency, input, results
<1>2. PICK i \in 1 .. Len(file) + 1 : AtRecord(i)
  BY Facts
<1>3. Framed /\ Typed
  BY Facts
<1>4. Typed' /\ Sliced' /\ Looking(i)'
  <2>1. Typed'
    BY <1>1, <1>3 DEF Typed
  <2> QED BY <1>1, <2>1 DEF Sliced, Looking
<1>5. Ended(i)'
  <2>1. CASE off >= len \/ ~Complete(off, len)
    <3>1. len \in Nat /\ off \in Nat /\ off = StartOf(i)
      BY <1>2, <1>3 DEF Typed, AtRecord
    <3>2. ~Complete(off, len)
      <4>1. CASE off >= len
        BY <3>1, <4>1 DEF Complete
      <4> QED BY <2>1, <4>1
    <3>3. Cut(i, len)
      BY <3>1, <3>2, Ends
    <3>4. Cut(i, len)'
      BY <1>1, <3>3, SameStarts DEF Cut
    <3> QED BY <3>4 DEF Ended
  <2>2. CASE ~running
    BY <1>1, <2>2 DEF Ended
  <2> QED BY <1>1, <2>1, <2>2
<1> QED BY <1>1, <1>2, <1>4, <1>5, Stays

LEMMA TimeStep ==
    ASSUME IInv, TimeRecord
    PROVE  IInv'
<1>1. /\ pc = "latency" /\ Complete(off, len) /\ Parse
      /\ UNCHANGED <<file, len, pc, running, start, end, ahead, warmup>>
  BY DEF TimeRecord, input
<1>2. PICK i \in 1 .. Len(file) + 1 : AtRecord(i)
  BY Facts
<1>3. Framed /\ Typed /\ Fits
  BY Facts
<1>4. len \in Nat /\ len <= len
  BY <1>3 DEF Typed
<1>5. /\ i \in DOMAIN file /\ i + 1 \in 1 .. Len(file) + 1
      /\ off' = StartOf(i + 1) /\ off' \in Nat /\ off' <= len /\ off < off'
      /\ handled' \in Seq(DOMAIN file) /\ stats' \in [Kinds -> Nat] /\ Recorded(i + 1)'
  BY <1>1, <1>2, <1>4, Advance
<1>6. \A k : StartOf(k)' = StartOf(k)
  BY <1>1, SameStarts
<1>7. Typed'
  BY <1>1, <1>3, <1>5 DEF Typed
<1>8. Sliced' /\ Fits'
  BY <1>1, <1>3, <1>6 DEF Sliced, Fits
<1>9. AtRecord(i + 1)'
  BY <1>1, <1>5, <1>6 DEF AtRecord, Looking, Ended
<1> QED BY <1>1, <1>5, <1>7, <1>8, <1>9 DEF IInv

\* A signal, at any moment, and the steps that change nothing of the replay.
LEMMA SignalStep ==
    ASSUME IInv, Interrupt \/ UNCHANGED vars
    PROVE  IInv'
<1>1. /\ UNCHANGED <<file, len, pc, start, end, off, ahead, warmup, handled, stats>>
      /\ running' = running \/ (running' = FALSE /\ pc # "done")
  BY DEF Interrupt, vars, input, results
<1>2. PICK i \in 1 .. Len(file) + 1 : AtRecord(i)
  BY Facts
<1>3. Typed /\ Sliced
  BY Facts
<1>4. Typed'
  BY <1>1, <1>3 DEF Typed
<1>5. Sliced'
  BY <1>1, <1>3 DEF Sliced, AtMostSlice
<1>6. \A k : StartOf(k)' = StartOf(k)
  BY <1>1, SameStarts
<1>7. Looking(i)'
  <2>1. Looking(i)
    BY <1>2 DEF AtRecord
  <2> QED BY <1>1, <1>6, <2>1 DEF Looking, AheadBy, Cut
<1>8. Ended(i)'
  <2>1. Ended(i)
    BY <1>2 DEF AtRecord
  <2> QED BY <1>1, <1>6, <2>1 DEF Ended, Cut
<1> QED BY <1>1, <1>2, <1>4, <1>5, <1>7, <1>8, Stays

\* The invariant of run_replay, in either mode and whenever a signal comes.
THEOREM Invariant == Spec => []IInv
<1>1. Init => IInv
  BY InitIInv
<1>2. IInv /\ [Next]_vars => IInv'
  <2> SUFFICES ASSUME IInv, [Next]_vars PROVE IInv'
    OBVIOUS
  <2>1. CASE Work
    BY <2>1, BeginStep, WarmUpStep, ParseRecordStep, EndSliceStep, EndStep, TimeStep DEF Work
  <2>2. CASE Interrupt \/ Finished \/ UNCHANGED vars
    BY <2>2, SignalStep DEF Finished
  <2> QED BY <2>1, <2>2 DEF Next
<1> QED BY <1>1, <1>2, PTL DEF Spec

-----------------------------------------------------------------------------
(* What it says of the replay.                                             *)

\* Every variable of the loops has its type.
THEOREM TypeCorrect == Spec => []Typed
<1>1. IInv => Typed
  BY DEF IInv
<1> QED BY <1>1, Invariant, PTL

\* The statistics and the handler have had every record before the parser, each
\* once and in the order of the file, wherever the slices cut it.
THEOREM RecordsOnce == Spec => []EachRecordOnce
<1>1. IInv => EachRecordOnce
  <2> SUFFICES ASSUME IInv PROVE EachRecordOnce
    OBVIOUS
  <2>1. PICK i \in 1 .. Len(file) + 1 : AtRecord(i)
    BY Facts
  <2>2. off = StartOf(i) /\ Recorded(i)
    BY <2>1 DEF AtRecord
  <2>3. Before(off) = 1 .. i - 1
    BY <2>2, Facts, BeforeIs
  <2>4. \A c \in Kinds : stats[c] = Count(c, off)
    BY <2>2, <2>3 DEF Recorded, CountedIn, Count
  <2> QED BY <2>2, <2>3, <2>4 DEF Recorded, EachRecordOnce
<1> QED BY <1>1, Invariant, PTL

\* The lookahead is ahead of the parser, within the slice, and by no more records
\* than its distance.
THEOREM LookaheadStays == Spec => []LookaheadInSlice
<1>1. IInv => LookaheadInSlice
  <2> SUFFICES ASSUME IInv, pc = "records", warmup = 0, Distance > 0
               PROVE  /\ off <= ahead
                      /\ \A k \in HintedAt : StartOf(k + 1) <= end
                      /\ Cardinality(HintedAt) <= Distance
                      /\ Cardinality(HintedAt) < Distance => ~Complete(ahead, end)
    BY DEF LookaheadInSlice
  <2>1. PICK i \in 1 .. Len(file) + 1 : AtRecord(i)
    BY Facts
  <2>2. PICK j \in 1 .. Len(file) + 1 : AheadBy(i, j)
    BY <2>1 DEF AtRecord, Looking
  <2>3. Framed /\ Typed /\ Sliced /\ i \in Nat /\ j \in Nat /\ Distance \in Nat
    <3>1. Framed /\ Typed /\ Sliced /\ Len(file) \in Nat
      BY Facts
    <3>2. i \in Nat /\ j \in Nat
      BY ONLY <3>1, i \in 1 .. Len(file) + 1, j \in 1 .. Len(file) + 1
    <3> QED BY <3>1, <3>2, ReplayAssumption
  <2>4. /\ off = StartOf(i) /\ ahead = StartOf(j) /\ i <= j /\ j - i <= Distance
        /\ (i < j => ahead <= end) /\ (j - i < Distance => Cut(j, end))
    BY <2>1, <2>2, <2>3 DEF AtRecord, AheadBy
  <2>5. end \in Nat /\ end <= len
    BY <2>3, SliceEnds
  <2>6. off <= ahead
    <3>1. PICK a \in Nat, b \in Nat : a = StartOf(i) /\ b = StartOf(j)
      BY <2>3 DEF Framed
    <3>2. i < j => a + 2 <= b
      BY <2>3, <3>1 DEF Framed
    <3>3. i = j => a = b
      BY <3>1
    <3>4. a <= b
      BY <2>3, <2>4, <3>2, <3>3
    <3> QED BY <2>4, <3>1, <3>4
  <2>7. HintedAt = i .. j - 1
    <3>1. ASSUME NEW k \in DOMAIN file PROVE k \in HintedAt <=> i <= k /\ k < j
      <4>1. k \in 1 .. Len(file) + 1 /\ k \in Nat
        BY <2>3 DEF Framed
      <4>2. PICK a \in Nat, b \in Nat, c \in Nat :
                a = StartOf(i) /\ b = StartOf(j) /\ c = StartOf(k)
        BY <2>3, <4>1 DEF Framed
      <4>3. /\ (i < k => a + 2 <= c) /\ (k < i => c + 2 <= a)
            /\ (j < k => b + 2 <= c) /\ (k < j => c + 2 <= b)
        BY <2>3, <4>1, <4>2 DEF Framed
      <4>4. (i = k => a = c) /\ (j = k => b = c)
        BY <4>2
      <4>5. a <= c /\ c < b <=> i <= k /\ k < j
        BY <2>3, <4>1, <4>3, <4>4
      <4> QED BY <2>4, <4>2, <4>5 DEF HintedAt
    <3>2. \A k \in i .. j - 1 : k \in DOMAIN file /\ i <= k /\ k < j
      BY <2>3 DEF Framed
    <3>3. \A k \in HintedAt : k \in DOMAIN file /\ k \in Nat
      BY <2>3 DEF HintedAt, Framed
    <3>4. \A k \in Nat : i <= k /\ k < j => k \in i .. j - 1
      BY <2>3
    <3> QED BY <3>1, <3>2, <3>3, <3>4
  <2>8. Cardinality(HintedAt) = j - i
    <3>1. i \in Int /\ j - 1 \in Int
      BY <2>3
    <3>2. Cardinality(i .. j - 1) = IF i > j - 1 THEN 0 ELSE (j - 1) - i + 1
      BY <3>1, FS_Interval
    <3> QED BY <2>3, <2>4, <2>7, <3>2
  <2>9. ASSUME NEW k \in HintedAt PROVE StartOf(k + 1) <= end
    <3>1. k \in Nat /\ k < j /\ i < j /\ k + 1 \in 1 .. Len(file) + 1 /\ k + 1 <= j
      BY <2>3, <2>7
    <3>2. PICK a \in Nat, b \in Nat : a = StartOf(k + 1) /\ b = StartOf(j)
      BY <2>3, <3>1 DEF Framed
    <3>3. k + 1 < j => a + 2 <= b
      BY <2>3, <3>1, <3>2 DEF Framed
    <3>4. k + 1 = j => a = b
      BY <3>2
    <3>5. a <= b
      BY <2>3, <3>1, <3>3, <3>4
    <3>6. b <= end
      BY <2>4, <3>1, <3>2
    <3> QED BY <2>5, <3>2, <3>5, <3>6
  <2>10. Cut(j, end) => ~Complete(ahead, end)
    BY <2>4, <2>5, Ends
  <2> QED BY <2>4, <2>6, <2>8, <2>9, <2>10
<1> QED BY <1>1, Invariant, PTL

\* What the hint of a record reads lies within it, whatever its type says of its
\* length, and an order message is hinted at with every reference it names.
HintsFit(r) ==
    r.type \in DOMAIN OrderMessages =>
        LET fields == FieldsOf(r.type)
        IN  /\ \A f \in Hinted(r) : fields[f][1] + fields[f][2] <= r.length
            /\ KindOf(r) = "message" =>
                   {"ref", "original_ref", "new_ref"} \cap DOMAIN fields \subseteq Hinted(r)

LEMMA HintsAreWithin ==
    ASSUME NEW r, r.length \in Nat
    PROVE  HintsFit(r)
<1>1. DOMAIN OrderMessages = {"A", "F", "E", "C", "X", "D", "U"}
  BY DEF OrderMessages
<1> SUFFICES ASSUME r.type \in {"A", "F", "E", "C", "X", "D", "U"} PROVE HintsFit(r)
  BY <1>1 DEF HintsFit
<1>2. \A t \in DOMAIN OrderMessages : t \notin DOMAIN StockMessages /\ AllMessages[t] = OrderMessages[t]
  <2>1. DOMAIN StockMessages = {"S", "R", "H", "Y", "L", "V", "W", "K", "J", "h"}
    BY DEF StockMessages
  <2>2. \A t \in DOMAIN OrderMessages : t \notin DOMAIN StockMessages
    BY <1>1, <2>1
  <2> HIDE DEF OrderMessages, StockMessages, TradeMessages
  <2> QED BY <2>2 DEF AllMessages
<1>3. DOMAIN HeaderFields = {"locate", "tracking", "timestamp"} /\ HeaderFields["locate"] = <<1, 2>>
  BY DEF HeaderFields
<1>4. \A t \in DOMAIN OrderMessages :
          /\ DOMAIN FieldsOf(t) = DOMAIN HeaderFields \cup DOMAIN OrderMessages[t].fields
          /\ FieldsOf(t)["locate"] = <<1, 2>>
          /\ \A f \in DOMAIN OrderMessages[t].fields :
                 f \notin DOMAIN HeaderFields => FieldsOf(t)[f] = OrderMessages[t].fields[f]
  <2> HIDE DEF OrderMessages, HeaderFields
  <2> QED BY <1>2, <1>3 DEF FieldsOf
<1>5. /\ \A t \in DOMAIN OrderMessages : OrderMessages[t].length >= 19
      /\ \A t \in {"A", "F"} : OrderMessages[t].length >= 20
      /\ OrderMessages["U"].length >= 27
  BY DEF OrderMessages, Layout
<1>6. ASSUME NEW t \in {"A", "F"}
      PROVE  /\ {"ref", "side"} \subseteq DOMAIN OrderMessages[t].fields
             /\ {"original_ref", "new_ref"} \cap DOMAIN OrderMessages[t].fields = {}
             /\ OrderMessages[t].fields["ref"] = <<11, 8>>
             /\ OrderMessages[t].fields["side"] = <<19, 1>>
  <2>1. CASE t = "A"
    <3>1. OrderMessages["A"].fields =
            [ref |-> <<11, 8>>, side |-> <<19, 1>>, shares |-> <<20, 4>>,
             stock |-> <<24, 8>>, price |-> <<32, 4>>]
      BY DEF OrderMessages, Layout
    <3> QED BY <2>1, <3>1
  <2>2. CASE t = "F"
    <3>1. OrderMessages["F"].fields =
            [ref |-> <<11, 8>>, side |-> <<19, 1>>, shares |-> <<20, 4>>,
             stock |-> <<24, 8>>, price |-> <<32, 4>>, attribution |-> <<36, 4>>]
      BY DEF OrderMessages, Layout
    <3> QED BY <2>2, <3>1
  <2> QED BY <2>1, <2>2
<1>7. ASSUME NEW t \in {"E", "C", "X", "D"}
      PROVE  /\ "ref" \in DOMAIN OrderMessages[t].fields
             /\ {"original_ref", "new_ref"} \cap DOMAIN OrderMessages[t].fields = {}
             /\ OrderMessages[t].fields["ref"] = <<11, 8>>
  <2>1. CASE t = "E"
    <3>1. OrderMessages["E"].fields =
            [ref |-> <<11, 8>>, executed_shares |-> <<19, 4>>,
             match_number |-> <<23, 8>>]
      BY DEF OrderMessages, Layout
    <3> QED BY <2>1, <3>1
  <2>2. CASE t = "C"
    <3>1. OrderMessages["C"].fields =
            [ref |-> <<11, 8>>, executed_shares |-> <<19, 4>>,
             match_number |-> <<23, 8>>, printable |-> <<31, 1>>,
             execution_price |-> <<32, 4>>]
      BY DEF OrderMessages, Layout
    <3> QED BY <2>2, <3>1
  <2>3. CASE t = "X"
    <3>1. OrderMessages["X"].fields =
            [ref |-> <<11, 8>>, cancelled_shares |-> <<19, 4>>]
      BY DEF OrderMessages, Layout
    <3> QED BY <2>3, <3>1
  <2>4. CASE t = "D"
    <3>1. OrderMessages["D"].fields =
            [ref |-> <<11, 8>>]
      BY DEF OrderMessages, Layout
    <3> QED BY <2>4, <3>1
  <2> QED BY <2>1, <2>2, <2>3, <2>4
<1>8. /\ {"original_ref", "new_ref"} \subseteq DOMAIN OrderMessages["U"].fields
      /\ "ref" \notin DOMAIN OrderMessages["U"].fields
      /\ OrderMessages["U"].fields["original_ref"] = <<11, 8>>
      /\ OrderMessages["U"].fields["new_ref"] = <<19, 8>>
  <2>1. OrderMessages["U"].fields =
            [original_ref |-> <<11, 8>>, new_ref |-> <<19, 8>>, shares |-> <<27, 4>>,
             price |-> <<31, 4>>]
    BY DEF OrderMessages, Layout
  <2> QED BY <2>1
<1> DEFINE fields == FieldsOf(r.type)
           refs == {"ref", "original_ref", "new_ref"}
<1>9. r.type \in DOMAIN OrderMessages
  BY <1>1
<1>10. /\ DOMAIN fields = {"locate", "tracking", "timestamp"} \cup DOMAIN OrderMessages[r.type].fields
       /\ fields["locate"] = <<1, 2>>
       /\ \A f \in DOMAIN OrderMessages[r.type].fields :
              f \notin {"locate", "tracking", "timestamp"} => fields[f] = OrderMessages[r.type].fields[f]
  BY <1>3, <1>4, <1>9
<1>11. KindOf(r) = "message" => /\ r.length = OrderMessages[r.type].length
                                /\ r.locate \in Wanted
  <2>1. r.type \in DOMAIN AllMessages
    <3> HIDE DEF OrderMessages, StockMessages, TradeMessages
    <3> QED BY <1>9 DEF AllMessages
  <2> QED BY <1>2, <1>9, <2>1 DEF KindOf, MessageLength
<1> HIDE DEF fields
<1>12. SUFFICES /\ \A f \in Hinted(r) : fields[f][1] + fields[f][2] <= r.length
                /\ KindOf(r) = "message" => refs \cap DOMAIN fields \subseteq Hinted(r)
  BY DEF HintsFit, fields
<1>13. CASE r.type \in {"A", "F"}
  <2>1. /\ fields["ref"] = <<11, 8>> /\ fields["side"] = <<19, 1>>
        /\ refs \cap DOMAIN fields \subseteq {"ref"}
    BY <1>6, <1>10, <1>13
  <2>2. Hinted(r) = IF r.length < 19 \/ r.locate \notin Wanted THEN {}
                    ELSE {"ref"} \cup IF r.length >= 20 THEN {"locate", "side"} ELSE {}
    BY <1>13 DEF Hinted
  <2>3. \A f \in Hinted(r) : fields[f][1] + fields[f][2] <= r.length
    BY <1>10, <2>1, <2>2
  <2>4. KindOf(r) = "message" => "ref" \in Hinted(r)
    <3>1. KindOf(r) = "message" => r.length >= 20 /\ r.locate \in Wanted
      BY <1>5, <1>11, <1>13
    <3> QED BY <2>2, <3>1
  <2> QED BY <2>1, <2>3, <2>4
<1>14. CASE r.type \in {"E", "C", "X", "D"}
  <2>1. fields["ref"] = <<11, 8>> /\ refs \cap DOMAIN fields \subseteq {"ref"}
    BY <1>7, <1>10, <1>14
  <2>2. Hinted(r) = IF r.length < 19 \/ r.locate \notin Wanted THEN {} ELSE {"ref", "locate"}
    BY <1>14 DEF Hinted
  <2>3. \A f \in Hinted(r) : fields[f][1] + fields[f][2] <= r.length
    BY <1>10, <2>1, <2>2
  <2>4. KindOf(r) = "message" => "ref" \in Hinted(r)
    <3>1. KindOf(r) = "message" => r.length >= 19 /\ r.locate \in Wanted
      BY <1>5, <1>9, <1>11
    <3> QED BY <2>2, <3>1
  <2> QED BY <2>1, <2>3, <2>4
<1>15. CASE r.type = "U"
  <2>1. /\ fields["original_ref"] = <<11, 8>> /\ fields["new_ref"] = <<19, 8>>
        /\ refs \cap DOMAIN fields \subseteq {"original_ref", "new_ref"}
    BY <1>8, <1>10, <1>15
  <2>2. Hinted(r) = IF r.length < 19 \/ r.locate \notin Wanted THEN {}
                    ELSE {"original_ref", "locate"} \cup IF r.length >= 27 THEN {"new_ref"} ELSE {}
    BY <1>15 DEF Hinted
  <2>3. \A f \in Hinted(r) : fields[f][1] + fields[f][2] <= r.length
    BY <1>10, <2>1, <2>2
  <2>4. KindOf(r) = "message" => {"original_ref", "new_ref"} \subseteq Hinted(r)
    <3>1. KindOf(r) = "message" => r.length >= 27 /\ r.locate \in Wanted
      BY <1>5, <1>11, <1>15
    <3> QED BY <2>2, <3>1
  <2> QED BY <2>1, <2>3, <2>4
<1> QED BY <1>13, <1>14, <1>15

\* The lookahead of the book builder reads no byte beyond the record it is given,
\* before the parser has checked its length, for any records.
THEOREM HintsStayWithin == Spec => []HintsWithinRecord
<1>1. IInv => HintsWithinRecord
  <2> SUFFICES ASSUME IInv, NEW k \in HintedAt PROVE HintsFit(file[k])
    BY DEF HintsWithinRecord, HintsFit
  <2>1. file[k].length \in Nat
    <3>1. k \in DOMAIN file
      BY DEF HintedAt
    <3> QED BY <3>1, Facts DEF Framed
  <2> QED BY <2>1, HintsAreWithin
<1> QED BY <1>1, Invariant, PTL

-----------------------------------------------------------------------------
(* The walk that does not decode.                                          *)

FrameKinds == {"frames", "malformed", "empty"}

\* g walks from every record to the first that does not end within the limit.
Walks(limit, g) ==
    g = [k \in 1 .. Len(file) + 1 |->
            IF k \in DOMAIN file /\ Complete(StartOf(k), limit)
            THEN [g[k + 1] EXCEPT ![FrameKind(file[k])] = @ + 1]
            ELSE [consumed |-> StartOf(k), frames |-> 0, malformed |-> 0, empty |-> 0]]

LEMMA ForEachFrameDef ==
    ASSUME NEW limit
    PROVE  ForEachFrame(limit) = (CHOOSE g : Walks(limit, g))[1]
BY DEF ForEachFrame, Walks

\* The records from k to i - 1 of a kind, and what a walk over them counts.
OfKind(kind, k, i) == {m \in k .. i - 1 : FrameKind(file[m]) = kind}

Tally(k, i) == [consumed |-> StartOf(i),
                frames |-> Cardinality(OfKind("frames", k, i)),
                malformed |-> Cardinality(OfKind("malformed", k, i)),
                empty |-> Cardinality(OfKind("empty", k, i))]

LEMMA TallyNone ==
    ASSUME NEW k \in Nat
    PROVE  Tally(k, k) = [consumed |-> StartOf(k), frames |-> 0, malformed |-> 0, empty |-> 0]
<1>1. \A kind : OfKind(kind, k, k) = {}
  BY DEF OfKind
<1> QED BY <1>1, FS_EmptySet DEF Tally

LEMMA TallyStep ==
    ASSUME NEW i \in Nat, NEW k \in Nat, k < i
    PROVE  Tally(k, i) = [Tally(k + 1, i) EXCEPT ![FrameKind(file[k])] = @ + 1]
<1> DEFINE kind == FrameKind(file[k])
<1>1. kind \in FrameKinds
  BY DEF FrameKind, FrameKinds
<1>2. ASSUME NEW c
      PROVE  Cardinality(OfKind(c, k, i)) = IF c = kind THEN Cardinality(OfKind(c, k + 1, i)) + 1
                                            ELSE Cardinality(OfKind(c, k + 1, i))
  <2>1. k .. i - 1 = (k + 1 .. i - 1) \cup {k} /\ k \notin k + 1 .. i - 1
    OBVIOUS
  <2>2. OfKind(c, k, i) = IF c = kind THEN OfKind(c, k + 1, i) \cup {k} ELSE OfKind(c, k + 1, i)
    BY <2>1 DEF OfKind
  <2>3. k \notin OfKind(c, k + 1, i) /\ OfKind(c, k + 1, i) \subseteq k + 1 .. i - 1
    BY <2>1 DEF OfKind
  <2>4. IsFiniteSet(OfKind(c, k + 1, i))
    <3>1. k + 1 \in Int /\ i - 1 \in Int
      OBVIOUS
    <3> QED BY <2>3, <3>1, FS_Interval, FS_Subset
  <2>5. Cardinality(OfKind(c, k + 1, i) \cup {k}) = Cardinality(OfKind(c, k + 1, i)) + 1
    BY <2>3, <2>4, FS_AddElement
  <2> QED BY <2>2, <2>5
<1> HIDE DEF kind
<1>3. Tally(k, i) = [Tally(k + 1, i) EXCEPT ![kind] = @ + 1]
  BY <1>1, <1>2 DEF Tally, FrameKinds
<1> QED BY <1>3 DEF kind

\* A walk stops at the first record that is cut, and counts those before it.
LEMMA WalkCounts ==
    ASSUME Framed, NEW limit \in Nat, limit <= StartOf(Len(file) + 1),
           NEW i \in 1 .. Len(file) + 1, StartOf(i) <= limit, Cut(i, limit)
    PROVE  ForEachFrame(limit) = Tally(1, i)
<1> DEFINE N == Len(file)
           More(k) == k \in DOMAIN file /\ Complete(StartOf(k), limit)
<1>1. /\ N \in Nat /\ DOMAIN file = 1 .. N
      /\ i \in Nat /\ 1 <= i /\ i <= N + 1 /\ i \in 1 .. N + 1
  BY DEF Framed
<1>2. ASSUME NEW k \in 1 .. N + 1 PROVE More(k) <=> k < i
  <2>1. More(k) <=> k \in DOMAIN file /\ StartOf(k + 1) <= limit
    BY CompleteIs
  <2>2. k \in Nat /\ StartOf(i) \in Nat
    BY <1>1 DEF Framed
  <2>3. CASE k < i
    <3>1. k \in DOMAIN file /\ k + 1 \in 1 .. N + 1 /\ k + 1 <= i /\ StartOf(k + 1) \in Nat
      BY <1>1, <2>2, <2>3 DEF Framed
    <3>2. k + 1 < i => StartOf(k + 1) + 2 <= StartOf(i)
      BY <3>1 DEF Framed
    <3>3. StartOf(k + 1) <= StartOf(i)
      BY <1>1, <2>2, <3>1, <3>2
    <3>4. StartOf(k + 1) <= limit
      BY <2>2, <3>1, <3>3
    <3> QED BY <2>1, <2>3, <3>1, <3>4
  <2>4. CASE ~(k < i) /\ k \in DOMAIN file
    <3>1. i \in DOMAIN file /\ k + 1 \in 1 .. N + 1 /\ i + 1 \in 1 .. N + 1 /\ i <= k
      BY <1>1, <2>2, <2>4
    <3>2. StartOf(k + 1) \in Nat /\ StartOf(i + 1) \in Nat /\ StartOf(i + 1) > limit
      BY <3>1 DEF Framed, Cut
    <3>3. i + 1 < k + 1 => StartOf(i + 1) + 2 <= StartOf(k + 1)
      BY <3>1 DEF Framed
    <3>4. StartOf(i + 1) <= StartOf(k + 1)
      BY <1>1, <2>2, <3>1, <3>2, <3>3
    <3> QED BY <2>1, <2>4, <3>2, <3>4
  <2>5. CASE k \notin DOMAIN file
    BY <1>1, <2>1, <2>2, <2>5
  <2> QED BY <2>3, <2>4, <2>5
<1> DEFINE None(k) == [consumed |-> StartOf(k), frames |-> 0, malformed |-> 0, empty |-> 0]
           h == [k \in 1 .. N + 1 |-> IF k < i THEN Tally(k, i) ELSE None(k)]
<1>3. \A g : Walks(limit, g) <=>
                 g = [k \in 1 .. N + 1 |-> IF More(k) THEN [g[k + 1] EXCEPT ![FrameKind(file[k])] = @ + 1]
                                           ELSE None(k)]
  BY DEF Walks
<1> HIDE DEF More
<1>4. \A g : Walks(limit, g) <=>
                 g = [k \in 1 .. N + 1 |-> IF k < i THEN [g[k + 1] EXCEPT ![FrameKind(file[k])] = @ + 1]
                                           ELSE None(k)]
  BY <1>2, <1>3
<1>5. Tally(i, i) = None(i)
  BY <1>1, TallyNone
<1> HIDE DEF None, N
<1>6. ASSUME NEW k \in 1 .. N + 1
      PROVE  h[k] = IF k < i THEN [h[k + 1] EXCEPT ![FrameKind(file[k])] = @ + 1] ELSE None(k)
  <2>1. CASE k < i
    <3>1. k \in Nat /\ k + 1 \in 1 .. N + 1 /\ (k + 1 < i \/ k + 1 = i)
      BY <1>1, <2>1
    <3>2. h[k + 1] = Tally(k + 1, i)
      BY <1>1, <1>5, <3>1
    <3>3. Tally(k, i) = [Tally(k + 1, i) EXCEPT ![FrameKind(file[k])] = @ + 1]
      BY <1>1, <2>1, <3>1, TallyStep
    <3> QED BY <2>1, <3>2, <3>3
  <2>2. CASE ~(k < i)
    BY <2>2
  <2> QED BY <2>1, <2>2
<1>7. h = [k \in 1 .. N + 1 |-> h[k]]
  OBVIOUS
<1> HIDE DEF h
<1>8. Walks(limit, h)
  <2>1. h = [k \in 1 .. N + 1 |-> IF k < i THEN [h[k + 1] EXCEPT ![FrameKind(file[k])] = @ + 1]
                                  ELSE None(k)]
    BY ONLY <1>6, <1>7
  <2> QED BY <1>4, <2>1
<1>9. PICK g : g = (CHOOSE f : Walks(limit, f)) /\ Walks(limit, g)
  BY <1>8
<1>10. \A k \in 1 .. N + 1 : g[k] = IF k < i THEN [g[k + 1] EXCEPT ![FrameKind(file[k])] = @ + 1]
                                    ELSE None(k)
  BY <1>4, <1>9
<1> DEFINE T == {n \in Nat : n < i => g[i - n] = Tally(i - n, i)}
<1>11. 0 \in T
  <2>1. g[i] = Tally(i, i)
    <3>1. ~(i < i) /\ i \in 1 .. N + 1
      BY <1>1
    <3>2. g[i] = None(i)
      BY ONLY <1>10, <3>1
    <3> QED BY <1>5, <3>2
  <2>2. i - 0 = i
    BY <1>1
  <2> QED BY <2>1, <2>2
<1>12. ASSUME NEW n \in T PROVE n + 1 \in T
  <2>1. SUFFICES ASSUME n + 1 < i PROVE g[i - (n + 1)] = Tally(i - (n + 1), i)
    OBVIOUS
  <2>2. PICK k \in Nat : k = i - (n + 1)
    BY <1>1, <2>1
  <2>3. k \in 1 .. N + 1 /\ k < i /\ k + 1 = i - n /\ n < i
    BY <1>1, <2>1, <2>2
  <2>4. g[k + 1] = Tally(k + 1, i)
    BY <2>3
  <2>5. g[k] = [Tally(k + 1, i) EXCEPT ![FrameKind(file[k])] = @ + 1]
    BY <1>10, <2>3, <2>4
  <2>6. Tally(k, i) = [Tally(k + 1, i) EXCEPT ![FrameKind(file[k])] = @ + 1]
    BY <1>1, <2>3, TallyStep
  <2> QED BY <2>2, <2>5, <2>6
<1> HIDE DEF T
<1>13. T = Nat
  <2>1. T \in SUBSET Nat
    BY DEF T
  <2> QED BY <1>11, <1>12, <2>1, AllNumbers
<1>14. g[1] = Tally(1, i)
  <2>1. i - 1 \in Nat /\ i - 1 < i /\ i - (i - 1) = 1
    BY <1>1
  <2>2. i - 1 \in T
    BY <1>13, <2>1
  <2>3. g[i - (i - 1)] = Tally(i - (i - 1), i)
    BY <2>1, <2>2 DEF T
  <2> QED BY <2>1, <2>3
<1> QED BY <1>9, <1>14, ForEachFrameDef

\* The framing of the walk and of the parser agree on every record.
LEMMA SameKinds ==
    ASSUME NEW r, r.length \in Nat
    PROVE  /\ FrameKind(r) = "frames" <=> "message" \in Counters(KindOf(r))
           /\ FrameKind(r) = "empty" <=> "empty" \in Counters(KindOf(r))
           /\ FrameKind(r) = "malformed" <=> \/ "unknown_type" \in Counters(KindOf(r))
                                             \/ "bad_length" \in Counters(KindOf(r))
           /\ ~("unknown_type" \in Counters(KindOf(r)) /\ "bad_length" \in Counters(KindOf(r)))
<1>1. PICK n : n = MessageLength(r.type)
  OBVIOUS
<1>2. PICK l \in Nat : l = r.length
  OBVIOUS
<1> QED BY <1>1, <1>2 DEF FrameKind, Counters, KindOf

\* for_each_frame consumes and counts what the parser does, for any file and any
\* slices.
THEOREM FramingAgrees == Spec => []SameFraming
<1>1. IInv => SameFraming
  <2> SUFFICES ASSUME IInv, pc = "done", running
               PROVE  LET scan == ForEachFrame(len)
                      IN  /\ scan.consumed = off
                          /\ scan.frames = stats["message"]
                          /\ scan.malformed = stats["unknown_type"] + stats["bad_length"]
                          /\ scan.empty = stats["empty"]
    BY DEF SameFraming
  <2>1. PICK i \in 1 .. Len(file) + 1 : AtRecord(i)
    BY Facts
  <2>2. /\ Framed /\ Typed /\ Fits /\ i \in Nat
        /\ off = StartOf(i) /\ off <= len /\ Recorded(i) /\ Cut(i, len)
    BY <2>1, Facts DEF AtRecord, Ended
  <2>3. ForEachFrame(len) = Tally(1, i)
    <3>1. len \in Nat /\ len <= StartOf(Len(file) + 1) /\ StartOf(i) <= len
      BY <2>2 DEF Typed, Fits
    <3> QED BY <2>2, <3>1, WalkCounts
  <2> DEFINE F(c) == CountedIn(c, i)
  <2>4. \A k \in 1 .. i - 1 : file[k].length \in Nat
    <3>1. Len(file) \in Nat /\ DOMAIN file = 1 .. Len(file)
      BY <2>2 DEF Framed
    <3>2. \A k \in 1 .. i - 1 : k \in DOMAIN file
      BY <3>1
    <3> QED BY <2>2, <3>2 DEF Framed
  <2>5. /\ OfKind("frames", 1, i) = F("message")
        /\ OfKind("empty", 1, i) = F("empty")
        /\ OfKind("malformed", 1, i) = F("unknown_type") \cup F("bad_length")
        /\ F("unknown_type") \cap F("bad_length") = {}
    BY <2>4, SameKinds DEF OfKind, CountedIn
  <2>6. \A c \in Kinds : stats[c] = Cardinality(F(c)) /\ stats[c] \in Nat
    BY <2>2 DEF Recorded, Typed
  <2>7. IsFiniteSet(F("unknown_type")) /\ IsFiniteSet(F("bad_length"))
    <3>1. 1 \in Int /\ i - 1 \in Int
      BY <2>2
    <3>2. IsFiniteSet(1 .. i - 1)
      BY <3>1, FS_Interval
    <3>3. F("unknown_type") \subseteq 1 .. i - 1 /\ F("bad_length") \subseteq 1 .. i - 1
      BY DEF CountedIn
    <3> HIDE DEF F
    <3> QED BY <3>2, <3>3, FS_Subset
  <2> HIDE DEF F
  <2>8. Cardinality(F("unknown_type") \cup F("bad_length"))
            = Cardinality(F("unknown_type")) + Cardinality(F("bad_length"))
    <3>1. Cardinality(F("unknown_type") \cup F("bad_length"))
              = Cardinality(F("unknown_type")) + Cardinality(F("bad_length"))
                    - Cardinality(F("unknown_type") \cap F("bad_length"))
      BY <2>7, FS_Union, Zenon
    <3>2. Cardinality(F("unknown_type") \cap F("bad_length")) = 0
      BY <2>5, FS_EmptySet
    <3>3. Cardinality(F("unknown_type")) \in Nat /\ Cardinality(F("bad_length")) \in Nat
      BY <2>7, FS_CardinalityType
    <3> QED BY <3>1, <3>2, <3>3
  <2>9. {"message", "unknown_type", "bad_length", "empty"} \subseteq Kinds
    BY DEF Kinds
  <2>10. PICK scan : scan = ForEachFrame(len)
    OBVIOUS
  <2>11. /\ scan.consumed = StartOf(i)
         /\ scan.frames = Cardinality(OfKind("frames", 1, i))
         /\ scan.malformed = Cardinality(OfKind("malformed", 1, i))
         /\ scan.empty = Cardinality(OfKind("empty", 1, i))
    BY <2>3, <2>10 DEF Tally
  <2>12. /\ stats["message"] = Cardinality(F("message"))
         /\ stats["empty"] = Cardinality(F("empty"))
         /\ stats["unknown_type"] = Cardinality(F("unknown_type"))
         /\ stats["bad_length"] = Cardinality(F("bad_length"))
    BY <2>6, <2>9
  <2>13. /\ scan.frames = stats["message"] /\ scan.empty = stats["empty"]
         /\ scan.malformed = stats["unknown_type"] + stats["bad_length"]
    BY <2>5, <2>8, <2>11, <2>12
  <2> QED BY <2>2, <2>10, <2>11, <2>13
<1> QED BY <1>1, Invariant, PTL

-----------------------------------------------------------------------------
(* The decoders of an add order.                                           *)

\* Byte k of the fields, of the message at p, by the table.
ByteOf(mem, p, k) == IF AddOrderSrc[k] >= 0 THEN mem[p + AddOrderSrc[k]] ELSE Zero

\* What a memory holds, and the bytes that decoding may make.
BytesOf(mem) == {mem[x] : x \in Int} \cup {Zero, Mixed}

\* A sequence of n of them.
IsBytes(s, n, mem) == s \in Seq(BytesOf(mem)) /\ Len(s) = n

\* The table, field by field.
LEMMA SourceIs ==
    /\ \A k \in 1 .. 14 : AddOrderSrc[k] = 19 - k
    /\ AddOrderSrc[15] = -1 /\ AddOrderSrc[16] = -1
    /\ \A k \in 17 .. 20 : AddOrderSrc[k] = 40 - k
    /\ \A k \in 21 .. 24 : AddOrderSrc[k] = 56 - k
    /\ AddOrderSrc[25] = 2 /\ AddOrderSrc[26] = 1
    /\ AddOrderSrc[27] = 4 /\ AddOrderSrc[28] = 3
    /\ AddOrderSrc[29] = 19
    /\ AddOrderSrc[30] = -1 /\ AddOrderSrc[31] = -1 /\ AddOrderSrc[32] = -1
BY DEF AddOrderSrc

\* The table reads the first 36 bytes, and for the low half the first 32.
LEMMA SourceIn ==
    /\ \A k \in 1 .. 32 : AddOrderSrc[k] \in -1 .. 35
    /\ \A k \in 1 .. 16 : AddOrderSrc[k] < 32
<1>1. \A k \in 1 .. 32 : \/ k \in 1 .. 14 \/ k \in 17 .. 20 \/ k \in 21 .. 24
                         \/ k \in {15, 16, 25, 26, 27, 28, 29, 30, 31, 32}
  OBVIOUS
<1>2. \A k \in 1 .. 32 : AddOrderSrc[k] \in -1 .. 35
  BY <1>1, SourceIs
<1>3. \A k \in 1 .. 16 : k \in 1 .. 14 \/ k \in {15, 16}
  OBVIOUS
<1>4. \A k \in 1 .. 16 : AddOrderSrc[k] < 32
  BY <1>3, SourceIs
<1> QED BY <1>2, <1>4

\* u is m bytes and then n bytes.
Joins(u, s, m, t, n, mem) ==
    /\ IsBytes(u, m + n, mem)
    /\ \A k \in 1 .. m : u[k] = s[k]
    /\ \A k \in 1 .. n : u[m + k] = t[k]

\* Two sequences of bytes, one after the other.
LEMMA Joined ==
    ASSUME NEW mem, NEW m \in Nat, NEW n \in Nat, NEW s, NEW t,
           IsBytes(s, m, mem), IsBytes(t, n, mem)
    PROVE  Joins(s \o t, s, m, t, n, mem)
<1> DEFINE S == BytesOf(mem)
<1>1. s \in Seq(S) /\ t \in Seq(S) /\ Len(s) = m /\ Len(t) = n
  BY DEF IsBytes
<1> HIDE DEF S
<1>2. /\ s \o t \in Seq(S) /\ Len(s \o t) = m + n
      /\ \A k \in 1 .. m + n : (s \o t)[k] = IF k <= m THEN s[k] ELSE t[k - m]
  BY <1>1, ConcatProperties
<1>3. \A k \in 1 .. m : (s \o t)[k] = s[k]
  BY <1>2
<1>4. ASSUME NEW k \in 1 .. n PROVE (s \o t)[m + k] = t[k]
  <2>1. m + k \in 1 .. m + n /\ ~(m + k <= m) /\ (m + k) - m = k
    OBVIOUS
  <2> QED BY <1>2, <2>1
<1> QED BY <1>2, <1>3, <1>4 DEF IsBytes, Joins, S

\* A function over the first n numbers is a sequence.
LEMMA AreBytes ==
    ASSUME NEW mem, NEW n \in Nat, NEW s, s \in [1 .. n -> BytesOf(mem)]
    PROVE  IsBytes(s, n, mem)
BY DEF IsBytes

\* An integer in memory: its bytes from the last to the first.
LEMMA LittleEndianIs ==
    ASSUME NEW mem, NEW p \in Int, NEW n \in Nat
    PROVE  /\ IsBytes(LittleEndian(LoadBE(mem, p, n)), n, mem)
           /\ \A k \in 1 .. n : LittleEndian(LoadBE(mem, p, n))[k] = mem[p + n - k]
<1> DEFINE s == LoadBE(mem, p, n)
           r == LittleEndian(s)
<1>1. s = [i \in 1 .. n |-> mem[p + i - 1]]
  BY DEF LoadBE
<1>2. Len(s) = n /\ \A i \in 1 .. n : s[i] = mem[p + i - 1]
  BY <1>1
<1>3. r = [i \in 1 .. n |-> s[(n - i) + 1]]
  BY <1>2 DEF LittleEndian, Reverse
<1>4. \A k \in 1 .. n : r[k] = mem[p + n - k]
  <2>1. TAKE k \in 1 .. n
  <2>2. (n - k) + 1 \in 1 .. n /\ p + ((n - k) + 1) - 1 = p + n - k
    OBVIOUS
  <2> QED BY <1>2, <1>3, <2>2
<1>5. \A k \in 1 .. n : mem[p + n - k] \in BytesOf(mem)
  <2>1. TAKE k \in 1 .. n
  <2>2. p + n - k \in Int
    OBVIOUS
  <2> QED BY <2>2 DEF BytesOf
<1>6. r \in [1 .. n -> BytesOf(mem)]
  BY <1>3, <1>4, <1>5
<1> QED BY <1>4, <1>6, AreBytes

\* The same of a timestamp, whose first two bytes are masked.
LEMMA LittleEndian48Is ==
    ASSUME NEW mem, NEW p \in Int
    PROVE  /\ IsBytes(LittleEndian(LoadBE48(mem, p)), 8, mem)
           /\ \A k \in 1 .. 6 : LittleEndian(LoadBE48(mem, p))[k] = mem[p + 6 - k]
           /\ \A k \in 7 .. 8 : LittleEndian(LoadBE48(mem, p))[k] = Zero
<1> DEFINE s == LoadBE48(mem, p)
           r == LittleEndian(s)
<1>1. s = [i \in 1 .. 8 |-> IF i <= 2 THEN Zero ELSE mem[p - 2 + i - 1]]
  BY DEF LoadBE48
<1>2. Len(s) = 8 /\ \A i \in 1 .. 8 : s[i] = IF i <= 2 THEN Zero ELSE mem[p - 2 + i - 1]
  BY <1>1
<1>3. r = [i \in 1 .. 8 |-> s[(8 - i) + 1]]
  BY <1>2 DEF LittleEndian, Reverse
<1>4. \A k \in 1 .. 6 : r[k] = mem[p + 6 - k]
  <2>1. TAKE k \in 1 .. 6
  <2>2. /\ k \in 1 .. 8 /\ (8 - k) + 1 \in 1 .. 8 /\ ~((8 - k) + 1 <= 2)
        /\ p - 2 + ((8 - k) + 1) - 1 = p + 6 - k
    OBVIOUS
  <2> QED BY <1>2, <1>3, <2>2
<1>5. \A k \in 7 .. 8 : r[k] = Zero
  <2>1. TAKE k \in 7 .. 8
  <2>2. k \in 1 .. 8 /\ (8 - k) + 1 \in 1 .. 8 /\ (8 - k) + 1 <= 2
    OBVIOUS
  <2> QED BY <1>2, <1>3, <2>2
<1>6. \A k \in 1 .. 8 : r[k] \in BytesOf(mem)
  <2>1. TAKE k \in 1 .. 8
  <2>2. p + 6 - k \in Int /\ (k \in 1 .. 6 \/ k \in 7 .. 8)
    OBVIOUS
  <2> QED BY <1>4, <1>5, <2>2 DEF BytesOf
<1>7. r \in [1 .. 8 -> BytesOf(mem)]
  BY <1>3, <1>6
<1> QED BY <1>4, <1>5, <1>7, AreBytes

\* What the scalar decoder puts together is what the table says.
LEMMA ScalarIs ==
    ASSUME NEW mem, NEW p \in Int
    PROVE  /\ IsBytes(DecodeScalar(mem, p), 32, mem)
           /\ \A k \in 1 .. 32 : DecodeScalar(mem, p)[k] = ByteOf(mem, p, k)
<1>1. PICK a : a = LittleEndian(LoadBE(mem, p + 11, 8))
  OBVIOUS
<1>2. PICK b : b = LittleEndian(LoadBE48(mem, p + 5))
  OBVIOUS
<1>3. PICK c : c = LittleEndian(LoadBE(mem, p + 20, 4))
  OBVIOUS
<1>4. PICK d : d = LittleEndian(LoadBE(mem, p + 32, 4))
  OBVIOUS
<1>5. PICK e : e = LittleEndian(LoadBE(mem, p + 1, 2))
  OBVIOUS
<1>6. PICK f : f = LittleEndian(LoadBE(mem, p + 3, 2))
  OBVIOUS
<1>7. PICK g : g = <<mem[p + 19], Zero, Zero, Zero>>
  OBVIOUS
<1>8. DecodeScalar(mem, p) = (((((a \o b) \o c) \o d) \o e) \o f) \o g
  BY <1>1, <1>2, <1>3, <1>4, <1>5, <1>6, <1>7 DEF DecodeScalar
<1>9. IsBytes(a, 8, mem) /\ \A k \in 1 .. 8 : a[k] = mem[(p + 11) + 8 - k]
  BY ONLY <1>1, p + 11 \in Int, 8 \in Nat, LittleEndianIs
<1>10. /\ IsBytes(b, 8, mem)
       /\ \A k \in 1 .. 6 : b[k] = mem[(p + 5) + 6 - k]
       /\ \A k \in 7 .. 8 : b[k] = Zero
  BY ONLY <1>2, p + 5 \in Int, LittleEndian48Is
<1>11. IsBytes(c, 4, mem) /\ \A k \in 1 .. 4 : c[k] = mem[(p + 20) + 4 - k]
  BY ONLY <1>3, p + 20 \in Int, 4 \in Nat, LittleEndianIs
<1>12. IsBytes(d, 4, mem) /\ \A k \in 1 .. 4 : d[k] = mem[(p + 32) + 4 - k]
  BY ONLY <1>4, p + 32 \in Int, 4 \in Nat, LittleEndianIs
<1>13. IsBytes(e, 2, mem) /\ \A k \in 1 .. 2 : e[k] = mem[(p + 1) + 2 - k]
  BY ONLY <1>5, p + 1 \in Int, 2 \in Nat, LittleEndianIs
<1>14. IsBytes(f, 2, mem) /\ \A k \in 1 .. 2 : f[k] = mem[(p + 3) + 2 - k]
  BY ONLY <1>6, p + 3 \in Int, 2 \in Nat, LittleEndianIs
<1>15. IsBytes(g, 4, mem) /\ g[1] = mem[p + 19] /\ \A k \in 2 .. 4 : g[k] = Zero
  <2>1. g[1] = mem[p + 19] /\ g[2] = Zero /\ g[3] = Zero /\ g[4] = Zero /\ Len(g) = 4
    BY ONLY <1>7
  <2>2. mem[p + 19] \in BytesOf(mem) /\ Zero \in BytesOf(mem)
    BY p + 19 \in Int DEF BytesOf
  <2>3. g \in Seq(BytesOf(mem))
    BY ONLY <1>7, <2>2
  <2>4. \A k \in 2 .. 4 : k = 2 \/ k = 3 \/ k = 4
    OBVIOUS
  <2> QED BY <2>1, <2>3, <2>4 DEF IsBytes
<1>16. PICK ab : ab = a \o b
  OBVIOUS
<1>17. /\ IsBytes(ab, 16, mem)
       /\ \A k \in 1 .. 8 : ab[k] = a[k] /\ ab[8 + k] = b[k]
  <2>1. Joins(a \o b, a, 8, b, 8, mem)
    BY ONLY <1>9, <1>10, Joined
  <2> QED BY ONLY <1>16, <2>1, 8 + 8 = 16 DEF Joins
<1>18. PICK abc : abc = ab \o c
  OBVIOUS
<1>19. /\ IsBytes(abc, 20, mem)
       /\ \A k \in 1 .. 16 : abc[k] = ab[k]
       /\ \A k \in 1 .. 4 : abc[16 + k] = c[k]
  <2>1. Joins(ab \o c, ab, 16, c, 4, mem)
    BY ONLY <1>11, <1>17, Joined
  <2> QED BY ONLY <1>18, <2>1, 16 + 4 = 20 DEF Joins
<1>20. PICK abcd : abcd = abc \o d
  OBVIOUS
<1>21. /\ IsBytes(abcd, 24, mem)
       /\ \A k \in 1 .. 20 : abcd[k] = abc[k]
       /\ \A k \in 1 .. 4 : abcd[20 + k] = d[k]
  <2>1. Joins(abc \o d, abc, 20, d, 4, mem)
    BY ONLY <1>12, <1>19, Joined
  <2> QED BY ONLY <1>20, <2>1, 20 + 4 = 24 DEF Joins
<1>22. PICK abcde : abcde = abcd \o e
  OBVIOUS
<1>23. /\ IsBytes(abcde, 26, mem)
       /\ \A k \in 1 .. 24 : abcde[k] = abcd[k]
       /\ \A k \in 1 .. 2 : abcde[24 + k] = e[k]
  <2>1. Joins(abcd \o e, abcd, 24, e, 2, mem)
    BY ONLY <1>13, <1>21, Joined
  <2> QED BY ONLY <1>22, <2>1, 24 + 2 = 26 DEF Joins
<1>24. PICK abcdef : abcdef = abcde \o f
  OBVIOUS
<1>25. /\ IsBytes(abcdef, 28, mem)
       /\ \A k \in 1 .. 26 : abcdef[k] = abcde[k]
       /\ \A k \in 1 .. 2 : abcdef[26 + k] = f[k]
  <2>1. Joins(abcde \o f, abcde, 26, f, 2, mem)
    BY ONLY <1>14, <1>23, Joined
  <2> QED BY ONLY <1>24, <2>1, 26 + 2 = 28 DEF Joins
<1>26. PICK all : all = abcdef \o g
  OBVIOUS
<1>27. /\ IsBytes(all, 32, mem)
       /\ \A k \in 1 .. 28 : all[k] = abcdef[k]
       /\ \A k \in 1 .. 4 : all[28 + k] = g[k]
  <2>1. Joins(abcdef \o g, abcdef, 28, g, 4, mem)
    BY ONLY <1>15, <1>25, Joined
  <2> QED BY ONLY <1>26, <2>1, 28 + 4 = 32 DEF Joins
<1>28. DecodeScalar(mem, p) = all
  BY ONLY <1>8, <1>16, <1>18, <1>20, <1>22, <1>24, <1>26
<1>29. /\ \A k \in 1 .. 20 : all[k] = abc[k]
       /\ \A k \in 1 .. 24 : all[k] = abcd[k]
       /\ \A k \in 1 .. 26 : all[k] = abcde[k]
  BY ONLY <1>21, <1>23, <1>25, <1>27
<1>30. ASSUME NEW k \in 1 .. 8 PROVE all[k] = mem[p + (19 - k)]
  <2>1. all[k] = a[k]
    BY ONLY k \in 1 .. 8, <1>17, <1>19, <1>29
  <2>2. (p + 11) + 8 - k = p + (19 - k)
    OBVIOUS
  <2> QED BY <1>9, <2>1, <2>2
<1>31. ASSUME NEW k \in 9 .. 16
       PROVE  all[k] = IF k <= 14 THEN mem[p + (19 - k)] ELSE Zero
  <2>1. k - 8 \in 1 .. 8 /\ 8 + (k - 8) = k /\ k \in 1 .. 16 /\ k \in 1 .. 20
    OBVIOUS
  <2>2. all[k] = b[k - 8]
    BY ONLY <2>1, <1>17, <1>19, <1>29
  <2>3. CASE k <= 14
    <3>1. k - 8 \in 1 .. 6 /\ (p + 5) + 6 - (k - 8) = p + (19 - k)
      BY <2>3
    <3> QED BY <1>10, <2>2, <2>3, <3>1
  <2>4. CASE ~(k <= 14)
    <3>1. k - 8 \in 7 .. 8
      BY <2>4
    <3> QED BY <1>10, <2>2, <2>4, <3>1
  <2> QED BY <2>3, <2>4
<1>32. ASSUME NEW k \in 17 .. 20 PROVE all[k] = mem[p + (40 - k)]
  <2>1. k - 16 \in 1 .. 4 /\ 16 + (k - 16) = k /\ k \in 1 .. 20
    OBVIOUS
  <2>2. all[k] = c[k - 16]
    BY ONLY <2>1, <1>19, <1>29
  <2>3. (p + 20) + 4 - (k - 16) = p + (40 - k)
    OBVIOUS
  <2> QED BY <1>11, <2>1, <2>2, <2>3
<1>33. ASSUME NEW k \in 21 .. 24 PROVE all[k] = mem[p + (56 - k)]
  <2>1. k - 20 \in 1 .. 4 /\ 20 + (k - 20) = k /\ k \in 1 .. 24
    OBVIOUS
  <2>2. all[k] = d[k - 20]
    BY ONLY <2>1, <1>21, <1>29
  <2>3. (p + 32) + 4 - (k - 20) = p + (56 - k)
    OBVIOUS
  <2> QED BY <1>12, <2>1, <2>2, <2>3
<1>34. all[25] = mem[p + 2] /\ all[26] = mem[p + 1]
  <2>1. all[25] = e[1] /\ all[26] = e[2]
    BY ONLY <1>23, <1>29
  <2>2. e[1] = mem[(p + 1) + 2 - 1] /\ e[2] = mem[(p + 1) + 2 - 2]
    BY ONLY <1>13
  <2>3. (p + 1) + 2 - 1 = p + 2 /\ (p + 1) + 2 - 2 = p + 1
    OBVIOUS
  <2> QED BY <2>1, <2>2, <2>3
<1>35. all[27] = mem[p + 4] /\ all[28] = mem[p + 3]
  <2>1. all[27] = f[1] /\ all[28] = f[2]
    BY ONLY <1>25, <1>27
  <2>2. f[1] = mem[(p + 3) + 2 - 1] /\ f[2] = mem[(p + 3) + 2 - 2]
    BY ONLY <1>14
  <2>3. (p + 3) + 2 - 1 = p + 4 /\ (p + 3) + 2 - 2 = p + 3
    OBVIOUS
  <2> QED BY <2>1, <2>2, <2>3
<1>36. all[29] = mem[p + 19] /\ all[30] = Zero /\ all[31] = Zero /\ all[32] = Zero
  BY ONLY <1>15, <1>27
<1>37. ASSUME NEW k \in 1 .. 32 PROVE all[k] = ByteOf(mem, p, k)
  <2>1. \/ k \in 1 .. 8 \/ k \in 9 .. 14 \/ k \in {15, 16} \/ k \in 17 .. 20 \/ k \in 21 .. 24
        \/ k \in {25, 26, 27, 28, 29} \/ k \in {30, 31, 32}
    OBVIOUS
  <2>2. CASE k \in 1 .. 8
    BY <1>30, <2>2, SourceIs DEF ByteOf
  <2>3. CASE k \in 9 .. 14
    BY <1>31, <2>3, SourceIs DEF ByteOf
  <2>4. CASE k \in {15, 16}
    BY <1>31, <2>4, SourceIs DEF ByteOf
  <2>5. CASE k \in 17 .. 20
    BY <1>32, <2>5, SourceIs DEF ByteOf
  <2>6. CASE k \in 21 .. 24
    BY <1>33, <2>6, SourceIs DEF ByteOf
  <2>7. CASE k \in {25, 26, 27, 28, 29}
    BY <1>34, <1>35, <1>36, <2>7, SourceIs DEF ByteOf
  <2>8. CASE k \in {30, 31, 32}
    BY <1>36, <2>8, SourceIs DEF ByteOf
  <2> QED BY <2>1, <2>2, <2>3, <2>4, <2>5, <2>6, <2>7, <2>8
<1> QED BY <1>27, <1>28, <1>37

\* The bytes of the fields that are in chunk c of the message.
InChunk(mem, p, c, k) ==
    IF AddOrderSrc[k] >= 0 /\ AddOrderSrc[k] \div 16 = c THEN mem[p + AddOrderSrc[k]] ELSE Zero

\* What a shuffle of the half behind base takes from a chunk.
PieceOf(mem, p, c, base) == Shuffle(Chunk(mem, p + 16 * c), ShuffleMask(c, base))

LEMMA PieceIs ==
    ASSUME NEW mem, NEW p \in Int, NEW c \in 0 .. 2, NEW base \in {0, 16}
    PROVE  /\ IsBytes(PieceOf(mem, p, c, base), 16, mem)
           /\ DOMAIN PieceOf(mem, p, c, base) = 1 .. 16
           /\ \A k \in 1 .. 16 : PieceOf(mem, p, c, base)[k] = InChunk(mem, p, c, base + k)
<1> DEFINE mask == ShuffleMask(c, base)
           chunk == Chunk(mem, p + 16 * c)
           piece == PieceOf(mem, p, c, base)
<1>1. DOMAIN mask = 1 .. 16
  BY DEF ShuffleMask
<1>2. piece = [k \in 1 .. 16 |-> IF mask[k] < 0 THEN Zero ELSE chunk[mask[k]]]
  BY <1>1 DEF PieceOf, Shuffle
<1>3. ASSUME NEW k \in 1 .. 16 PROVE piece[k] = InChunk(mem, p, c, base + k)
  <2>1. PICK src : src = AddOrderSrc[base + k]
    OBVIOUS
  <2>2. src \in -1 .. 35
    <3>1. base + k \in 1 .. 32
      OBVIOUS
    <3> QED BY <2>1, <3>1, SourceIn
  <2>3. mask[k] = IF src >= 0 /\ src \div 16 = c THEN src % 16 ELSE -128
    BY <2>1 DEF ShuffleMask
  <2>4. InChunk(mem, p, c, base + k) =
            IF src >= 0 /\ src \div 16 = c THEN mem[p + src] ELSE Zero
    BY <2>1 DEF InChunk
  <2>5. piece[k] = IF mask[k] < 0 THEN Zero ELSE chunk[mask[k]]
    BY <1>2
  <2> HIDE DEF piece, mask
  <2>6. CASE src >= 0 /\ src \div 16 = c
    <3>1. src % 16 \in 0 .. 15 /\ src = 16 * (src \div 16) + (src % 16)
      BY ONLY <2>2, <2>6, Z3
    <3>2. mask[k] = src % 16 /\ ~(mask[k] < 0)
      BY <2>3, <2>6, <3>1
    <3>3. chunk[src % 16] = mem[(p + 16 * c) + (src % 16)]
      BY <3>1 DEF Chunk
    <3>4. (p + 16 * c) + (src % 16) = p + src
      BY <2>2, <2>6, <3>1
    <3> QED BY <2>4, <2>5, <2>6, <3>2, <3>3, <3>4
  <2>7. CASE ~(src >= 0 /\ src \div 16 = c)
    BY <2>3, <2>4, <2>5, <2>7
  <2> QED BY <2>6, <2>7
<1>4. \A k \in 1 .. 32 : InChunk(mem, p, c, k) \in BytesOf(mem)
  <2>1. TAKE k \in 1 .. 32
  <2>2. p + AddOrderSrc[k] \in Int
    BY SourceIn
  <2> QED BY <2>2 DEF InChunk, BytesOf
<1>5. \A k \in 1 .. 16 : base + k \in 1 .. 32
  OBVIOUS
<1>6. piece \in [1 .. 16 -> BytesOf(mem)]
  <2> HIDE DEF mask, chunk
  <2>1. \A k \in 1 .. 16 : piece[k] \in BytesOf(mem)
    BY <1>3, <1>4, <1>5
  <2>2. piece = [k \in 1 .. 16 |-> piece[k]]
    BY <1>2
  <2> HIDE DEF piece
  <2> QED BY <2>1, <2>2
<1>7. IsBytes(piece, 16, mem)
  BY <1>6, AreBytes
<1> QED BY <1>3, <1>6, <1>7

\* No byte the decoders read is zero: a byte of the memory is told from padding.
Solid(mem, p) == \A x \in 0 .. 35 : mem[p + x] # Zero

\* OR of two sequences that have no byte in the same place.
LEMMA OrIs ==
    ASSUME NEW a, NEW b, NEW k \in DOMAIN a, a[k] = Zero \/ b[k] = Zero
    PROVE  /\ DOMAIN Or(a, b) = DOMAIN a
           /\ Or(a, b)[k] = IF a[k] = Zero THEN b[k] ELSE a[k]
BY DEF Or

\* The chunk of a byte.
LEMMA ChunkOf ==
    /\ \A src \in 0 .. 15 : src \div 16 = 0
    /\ \A src \in 16 .. 31 : src \div 16 = 1
    /\ \A src \in 32 .. 35 : src \div 16 = 2
<1>1. \A src \in 0 .. 15 : src \div 16 = 0
  BY Z3
<1>2. \A src \in 16 .. 31 : src \div 16 = 1
  BY Z3
<1>3. \A src \in 32 .. 35 : src \div 16 = 2
  BY Z3
<1> QED BY <1>1, <1>2, <1>3

\* The pieces of two chunks, and of three.
LEMMA TwoChunks ==
    ASSUME NEW mem, NEW p \in Int, Solid(mem, p),
           NEW a, NEW b, NEW k \in DOMAIN a, NEW j \in 1 .. 16,
           a[k] = InChunk(mem, p, 0, j), b[k] = InChunk(mem, p, 1, j)
    PROVE  Or(a, b)[k] = ByteOf(mem, p, j)
<1>1. PICK src \in Int : src = AddOrderSrc[j] /\ -1 <= src /\ src < 32
  <2>1. j \in 1 .. 32
    OBVIOUS
  <2>2. AddOrderSrc[j] \in -1 .. 35 /\ AddOrderSrc[j] < 32
    BY <2>1, SourceIn
  <2>3. AddOrderSrc[j] \in Int /\ -1 <= AddOrderSrc[j]
    BY <2>2
  <2> QED BY ONLY <2>2, <2>3
<1>2. src >= 0 => mem[p + src] # Zero
  <2>1. src >= 0 => src \in 0 .. 35
    BY ONLY <1>1, src \in Int
  <2> QED BY <2>1 DEF Solid
<1>3. src >= 0 => src \div 16 = 0 \/ src \div 16 = 1
  <2>1. src >= 0 => src \in 0 .. 15 \/ src \in 16 .. 31
    BY ONLY <1>1, src \in Int
  <2> QED BY ONLY <2>1, ChunkOf
<1>4. /\ a[k] = IF src >= 0 /\ src \div 16 = 0 THEN mem[p + src] ELSE Zero
      /\ b[k] = IF src >= 0 /\ src \div 16 = 1 THEN mem[p + src] ELSE Zero
      /\ ByteOf(mem, p, j) = IF src >= 0 THEN mem[p + src] ELSE Zero
  BY <1>1 DEF InChunk, ByteOf
<1>5. a[k] = Zero \/ b[k] = Zero
  BY <1>3, <1>4
<1>6. Or(a, b)[k] = IF a[k] = Zero THEN b[k] ELSE a[k]
  BY <1>5, OrIs
<1> QED BY <1>2, <1>3, <1>4, <1>6

LEMMA ThreeChunks ==
    ASSUME NEW mem, NEW p \in Int, Solid(mem, p),
           NEW a, NEW b, NEW c, NEW k \in DOMAIN a, NEW j \in 1 .. 32,
           a[k] = InChunk(mem, p, 0, j),
           b[k] = InChunk(mem, p, 1, j), c[k] = InChunk(mem, p, 2, j)
    PROVE  Or(Or(a, b), c)[k] = ByteOf(mem, p, j)
<1>1. PICK src \in Int : src = AddOrderSrc[j] /\ -1 <= src /\ src <= 35
  <2>1. AddOrderSrc[j] \in -1 .. 35
    BY SourceIn
  <2>2. AddOrderSrc[j] \in Int /\ -1 <= AddOrderSrc[j] /\ AddOrderSrc[j] <= 35
    BY <2>1
  <2> QED BY ONLY <2>2
<1>2. src >= 0 => mem[p + src] # Zero
  <2>1. src >= 0 => src \in 0 .. 35
    BY ONLY <1>1, src \in Int
  <2> QED BY <2>1 DEF Solid
<1>3. src >= 0 => src \div 16 = 0 \/ src \div 16 = 1 \/ src \div 16 = 2
  <2>1. src >= 0 => src \in 0 .. 15 \/ src \in 16 .. 31 \/ src \in 32 .. 35
    BY ONLY <1>1, src \in Int
  <2> QED BY ONLY <2>1, ChunkOf
<1>4. /\ a[k] = IF src >= 0 /\ src \div 16 = 0 THEN mem[p + src] ELSE Zero
      /\ b[k] = IF src >= 0 /\ src \div 16 = 1 THEN mem[p + src] ELSE Zero
      /\ c[k] = IF src >= 0 /\ src \div 16 = 2 THEN mem[p + src] ELSE Zero
      /\ ByteOf(mem, p, j) = IF src >= 0 THEN mem[p + src] ELSE Zero
  BY <1>1 DEF InChunk, ByteOf
<1>5. a[k] = Zero \/ b[k] = Zero
  BY <1>4
<1>6. DOMAIN Or(a, b) = DOMAIN a /\ Or(a, b)[k] = IF a[k] = Zero THEN b[k] ELSE a[k]
  BY <1>5, OrIs
<1>7. Or(a, b)[k] = Zero \/ c[k] = Zero
  BY <1>4, <1>6
<1>8. Or(Or(a, b), c)[k] = IF Or(a, b)[k] = Zero THEN c[k] ELSE Or(a, b)[k]
  BY <1>6, <1>7, OrIs
<1> QED BY <1>2, <1>3, <1>4, <1>6, <1>8

\* What OR makes of sequences of n bytes.
LEMMA OrBytes ==
    ASSUME NEW mem, NEW n \in Nat, NEW a, NEW b, IsBytes(a, n, mem), IsBytes(b, n, mem)
    PROVE  IsBytes(Or(a, b), n, mem) /\ DOMAIN Or(a, b) = 1 .. n
<1> DEFINE S == BytesOf(mem)
<1>1. a \in [1 .. n -> S] /\ b \in [1 .. n -> S] /\ Zero \in S /\ Mixed \in S
  BY LenProperties DEF IsBytes, BytesOf
<1> HIDE DEF S
<1>2. Or(a, b) \in [1 .. n -> S]
  BY <1>1 DEF Or
<1> HIDE DEF Or
<1> QED BY <1>2, AreBytes DEF S

\* Two sequences with the bytes of the table are one.
LEMMA SameBytes ==
    ASSUME NEW mem, NEW p, NEW s, NEW t, IsBytes(s, 32, mem), IsBytes(t, 32, mem),
           \A k \in 1 .. 32 : s[k] = ByteOf(mem, p, k) /\ t[k] = ByteOf(mem, p, k)
    PROVE  s = t
<1>1. s \in Seq(BytesOf(mem)) /\ t \in Seq(BytesOf(mem)) /\ Len(s) = 32 /\ Len(t) = 32
  BY DEF IsBytes
<1>2. \A k \in 1 .. 32 : s[k] = t[k]
  OBVIOUS
<1> QED BY ONLY <1>1, <1>2, SeqEqual

\* The SSSE3 decoder: the low half from two chunks, the high half from three.
LEMMA Ssse3Is ==
    ASSUME NEW mem, NEW p \in Int, Solid(mem, p)
    PROVE  /\ IsBytes(DecodeSsse3(mem, p), 32, mem)
           /\ \A k \in 1 .. 32 : DecodeSsse3(mem, p)[k] = ByteOf(mem, p, k)
<1>1. PICK a, b : a = PieceOf(mem, p, 0, 0) /\ b = PieceOf(mem, p, 1, 0)
  OBVIOUS
<1>2. PICK c, d, e : c = PieceOf(mem, p, 0, 16) /\ d = PieceOf(mem, p, 1, 16)
                     /\ e = PieceOf(mem, p, 2, 16)
  OBVIOUS
<1>3. DecodeSsse3(mem, p) = Or(a, b) \o Or(Or(c, d), e)
  BY <1>1, <1>2 DEF DecodeSsse3, PieceOf
<1>4. \A i \in 0 .. 2, base \in {0, 16} :
          /\ IsBytes(PieceOf(mem, p, i, base), 16, mem)
          /\ DOMAIN PieceOf(mem, p, i, base) = 1 .. 16
          /\ \A k \in 1 .. 16 : PieceOf(mem, p, i, base)[k] = InChunk(mem, p, i, base + k)
  BY PieceIs
<1>5. /\ IsBytes(a, 16, mem) /\ IsBytes(b, 16, mem) /\ DOMAIN a = 1 .. 16
      /\ \A k \in 1 .. 16 : /\ a[k] = InChunk(mem, p, 0, 0 + k)
                            /\ b[k] = InChunk(mem, p, 1, 0 + k)
  BY <1>1, <1>4
<1>6. /\ IsBytes(c, 16, mem) /\ IsBytes(d, 16, mem) /\ IsBytes(e, 16, mem) /\ DOMAIN c = 1 .. 16
      /\ \A k \in 1 .. 16 : /\ c[k] = InChunk(mem, p, 0, 16 + k)
                            /\ d[k] = InChunk(mem, p, 1, 16 + k)
                            /\ e[k] = InChunk(mem, p, 2, 16 + k)
  BY <1>2, <1>4
<1>7. PICK n \in Nat : n = 16
  OBVIOUS
<1>8. PICK low : low = Or(a, b)
  OBVIOUS
<1>9. PICK high : high = Or(Or(c, d), e)
  OBVIOUS
<1>10. IsBytes(low, 16, mem) /\ IsBytes(high, 16, mem)
  <2>1. IsBytes(Or(a, b), n, mem) /\ IsBytes(Or(c, d), n, mem)
    BY <1>5, <1>6, <1>7, OrBytes
  <2>2. IsBytes(Or(Or(c, d), e), n, mem)
    BY <1>6, <1>7, <2>1, OrBytes
  <2> QED BY ONLY <1>7, <1>8, <1>9, <2>1, <2>2
<1>11. ASSUME NEW k \in 1 .. 16 PROVE low[k] = ByteOf(mem, p, k)
  <2>1. 0 + k = k
    OBVIOUS
  <2>2. a[k] = InChunk(mem, p, 0, k) /\ b[k] = InChunk(mem, p, 1, k) /\ k \in DOMAIN a
    BY <1>5, <2>1
  <2>3. Or(a, b)[k] = ByteOf(mem, p, k)
    BY ONLY <2>2, Solid(mem, p), p \in Int, k \in 1 .. 16, TwoChunks
  <2> QED BY <1>8, <2>3
<1>12. ASSUME NEW k \in 1 .. 16 PROVE high[k] = ByteOf(mem, p, 16 + k)
  <2>1. PICK j \in 1 .. 32 : j = 16 + k
    OBVIOUS
  <2>2. /\ c[k] = InChunk(mem, p, 0, j) /\ d[k] = InChunk(mem, p, 1, j)
        /\ e[k] = InChunk(mem, p, 2, j) /\ k \in DOMAIN c
    BY <1>6, <2>1
  <2>3. Or(Or(c, d), e)[k] = ByteOf(mem, p, j)
    BY ONLY <2>2, Solid(mem, p), p \in Int, j \in 1 .. 32, ThreeChunks
  <2> QED BY <1>9, <2>1, <2>3
<1>13. PICK all : all = low \o high
  OBVIOUS
<1>14. /\ IsBytes(all, 32, mem)
       /\ \A k \in 1 .. 16 : all[k] = low[k] /\ all[16 + k] = high[k]
  <2>1. Joins(low \o high, low, 16, high, 16, mem)
    BY ONLY <1>10, Joined
  <2> QED BY ONLY <1>13, <2>1, 16 + 16 = 32 DEF Joins
<1>15. ASSUME NEW k \in 1 .. 32 PROVE all[k] = ByteOf(mem, p, k)
  <2>1. k \in 1 .. 16 \/ (k - 16 \in 1 .. 16 /\ 16 + (k - 16) = k)
    OBVIOUS
  <2>2. CASE k \in 1 .. 16
    BY <1>11, <1>14, <2>2
  <2>3. CASE k - 16 \in 1 .. 16 /\ 16 + (k - 16) = k
    <3>1. PICK j \in 1 .. 16 : j = k - 16 /\ 16 + j = k
      BY <2>3
    <3>2. all[16 + j] = high[j] /\ high[j] = ByteOf(mem, p, 16 + j)
      BY <1>12, <1>14
    <3> QED BY <3>1, <3>2
  <2> QED BY <2>1, <2>2, <2>3
<1>16. DecodeSsse3(mem, p) = all
  BY ONLY <1>3, <1>8, <1>9, <1>13
<1> QED BY ONLY <1>14, <1>15, <1>16

\* The AVX2 decoder: every chunk in both lanes.
LEMMA Avx2Is ==
    ASSUME NEW mem, NEW p \in Int, Solid(mem, p)
    PROVE  /\ IsBytes(DecodeAvx2(mem, p), 32, mem)
           /\ \A k \in 1 .. 32 : DecodeAvx2(mem, p)[k] = ByteOf(mem, p, k)
<1> DEFINE LanesOf(i) == PieceOf(mem, p, i, 0) \o PieceOf(mem, p, i, 16)
<1>1. DecodeAvx2(mem, p) = Or(Or(LanesOf(0), LanesOf(1)), LanesOf(2))
  BY DEF DecodeAvx2, PieceOf
<1>2. ASSUME NEW i \in 0 .. 2
      PROVE  /\ IsBytes(LanesOf(i), 32, mem) /\ DOMAIN LanesOf(i) = 1 .. 32
             /\ \A k \in 1 .. 32 : LanesOf(i)[k] = InChunk(mem, p, i, k)
  <2>1. PICK s, t : s = PieceOf(mem, p, i, 0) /\ t = PieceOf(mem, p, i, 16)
    OBVIOUS
  <2>2. /\ IsBytes(s, 16, mem)
        /\ \A k \in 1 .. 16 : s[k] = InChunk(mem, p, i, 0 + k)
    BY <2>1, PieceIs
  <2>3. /\ IsBytes(t, 16, mem)
        /\ \A k \in 1 .. 16 : t[k] = InChunk(mem, p, i, 16 + k)
    BY <2>1, PieceIs
  <2>4. PICK u : u = s \o t
    OBVIOUS
  <2>5. /\ IsBytes(u, 32, mem)
        /\ \A k \in 1 .. 16 : u[k] = s[k] /\ u[16 + k] = t[k]
    <3>1. Joins(s \o t, s, 16, t, 16, mem)
      BY ONLY <2>2, <2>3, Joined
    <3> QED BY ONLY <2>4, <3>1, 16 + 16 = 32 DEF Joins
  <2>6. ASSUME NEW k \in 1 .. 32 PROVE u[k] = InChunk(mem, p, i, k)
    <3>1. CASE k \in 1 .. 16
      <4>1. 0 + k = k
        OBVIOUS
      <4> QED BY <2>2, <2>5, <3>1, <4>1
    <3>2. CASE k \notin 1 .. 16
      <4>1. PICK j \in 1 .. 16 : 16 + j = k
        <5>1. k - 16 \in 1 .. 16 /\ 16 + (k - 16) = k
          BY <3>2
        <5> QED BY <5>1
      <4>2. u[16 + j] = t[j] /\ t[j] = InChunk(mem, p, i, 16 + j)
        BY <2>3, <2>5
      <4> QED BY <4>1, <4>2
    <3> QED BY <3>1, <3>2
  <2>7. DOMAIN u = 1 .. 32
    BY <2>5, LenProperties DEF IsBytes
  <2>8. LanesOf(i) = u
    BY ONLY <2>1, <2>4
  <2> HIDE DEF LanesOf
  <2> QED BY ONLY <2>5, <2>6, <2>7, <2>8
<1>3. PICK a, b, c : a = LanesOf(0) /\ b = LanesOf(1) /\ c = LanesOf(2)
  OBVIOUS
<1> HIDE DEF LanesOf
<1>4. PICK n \in Nat : n = 32
  OBVIOUS
<1>5. IsBytes(Or(Or(a, b), c), n, mem)
  <2>1. IsBytes(a, n, mem) /\ IsBytes(b, n, mem) /\ IsBytes(c, n, mem)
    BY <1>2, <1>3, <1>4
  <2>2. IsBytes(Or(a, b), n, mem)
    BY <2>1, OrBytes
  <2> QED BY <2>1, <2>2, OrBytes
<1>6. ASSUME NEW k \in 1 .. 32 PROVE Or(Or(a, b), c)[k] = ByteOf(mem, p, k)
  <2>1. /\ a[k] = InChunk(mem, p, 0, k) /\ b[k] = InChunk(mem, p, 1, k)
        /\ c[k] = InChunk(mem, p, 2, k) /\ k \in DOMAIN a
    BY <1>2, <1>3
  <2> QED BY ONLY <2>1, Solid(mem, p), p \in Int, k \in 1 .. 32, ThreeChunks
<1>7. DecodeAvx2(mem, p) = Or(Or(a, b), c)
  BY ONLY <1>1, <1>3
<1> QED BY ONLY <1>4, <1>5, <1>6, <1>7

-----------------------------------------------------------------------------
(* Decoding and encoding.                                                  *)

HeaderNames == {"locate", "tracking", "timestamp"}

\* The fields of a message have an offset and a width, and no name of the header.
Proper(fields) ==
    /\ \A f \in DOMAIN fields : fields[f][1] \in Nat /\ fields[f][2] \in Nat
    /\ DOMAIN fields \cap HeaderNames = {}

ProperMessage(m) == m.length \in Nat /\ Proper(m.fields)

LEMMA ProperStock == \A t \in DOMAIN StockMessages : ProperMessage(StockMessages[t])
<1>1. DOMAIN StockMessages = {"S", "R", "H", "Y", "L", "V", "W", "K", "J", "h"}
  BY DEF StockMessages
<1>2. ProperMessage(StockMessages["S"])
  BY DEF StockMessages, Layout, ProperMessage, Proper, HeaderNames
<1>3. ProperMessage(StockMessages["R"])
  BY DEF StockMessages, Layout, ProperMessage, Proper, HeaderNames
<1>4. ProperMessage(StockMessages["H"])
  BY DEF StockMessages, Layout, ProperMessage, Proper, HeaderNames
<1>5. ProperMessage(StockMessages["Y"])
  BY DEF StockMessages, Layout, ProperMessage, Proper, HeaderNames
<1>6. ProperMessage(StockMessages["L"])
  BY DEF StockMessages, Layout, ProperMessage, Proper, HeaderNames
<1>7. ProperMessage(StockMessages["V"])
  BY DEF StockMessages, Layout, ProperMessage, Proper, HeaderNames
<1>8. ProperMessage(StockMessages["W"])
  BY DEF StockMessages, Layout, ProperMessage, Proper, HeaderNames
<1>9. ProperMessage(StockMessages["K"])
  BY DEF StockMessages, Layout, ProperMessage, Proper, HeaderNames
<1>10. ProperMessage(StockMessages["J"])
  BY DEF StockMessages, Layout, ProperMessage, Proper, HeaderNames
<1>11. ProperMessage(StockMessages["h"])
  BY DEF StockMessages, Layout, ProperMessage, Proper, HeaderNames
<1> QED BY <1>1, <1>2, <1>3, <1>4, <1>5, <1>6, <1>7, <1>8, <1>9, <1>10, <1>11

LEMMA ProperOrders == \A t \in DOMAIN OrderMessages : ProperMessage(OrderMessages[t])
<1>1. DOMAIN OrderMessages = {"A", "F", "E", "C", "X", "D", "U"}
  BY DEF OrderMessages
<1>2. ProperMessage(OrderMessages["A"])
  BY DEF OrderMessages, Layout, ProperMessage, Proper, HeaderNames
<1>3. ProperMessage(OrderMessages["F"])
  BY DEF OrderMessages, Layout, ProperMessage, Proper, HeaderNames
<1>4. ProperMessage(OrderMessages["E"])
  BY DEF OrderMessages, Layout, ProperMessage, Proper, HeaderNames
<1>5. ProperMessage(OrderMessages["C"])
  BY DEF OrderMessages, Layout, ProperMessage, Proper, HeaderNames
<1>6. ProperMessage(OrderMessages["X"])
  BY DEF OrderMessages, Layout, ProperMessage, Proper, HeaderNames
<1>7. ProperMessage(OrderMessages["D"])
  BY DEF OrderMessages, Layout, ProperMessage, Proper, HeaderNames
<1>8. ProperMessage(OrderMessages["U"])
  BY DEF OrderMessages, Layout, ProperMessage, Proper, HeaderNames
<1> QED BY <1>1, <1>2, <1>3, <1>4, <1>5, <1>6, <1>7, <1>8

LEMMA ProperTrades == \A t \in DOMAIN TradeMessages : ProperMessage(TradeMessages[t])
<1>1. DOMAIN TradeMessages = {"P", "Q", "B", "I", "N", "O"}
  BY DEF TradeMessages
<1>2. ProperMessage(TradeMessages["P"])
  BY DEF TradeMessages, Layout, ProperMessage, Proper, HeaderNames
<1>3. ProperMessage(TradeMessages["Q"])
  BY DEF TradeMessages, Layout, ProperMessage, Proper, HeaderNames
<1>4. ProperMessage(TradeMessages["B"])
  BY DEF TradeMessages, Layout, ProperMessage, Proper, HeaderNames
<1>5. ProperMessage(TradeMessages["I"])
  BY DEF TradeMessages, Layout, ProperMessage, Proper, HeaderNames
<1>6. ProperMessage(TradeMessages["N"])
  BY DEF TradeMessages, Layout, ProperMessage, Proper, HeaderNames
<1>7. ProperMessage(TradeMessages["O"])
  BY DEF TradeMessages, Layout, ProperMessage, Proper, HeaderNames
<1> QED BY <1>1, <1>2, <1>3, <1>4, <1>5, <1>6, <1>7

LEMMA AreProper ==
    ASSUME NEW t \in DOMAIN AllMessages
    PROVE  ProperMessage(AllMessages[t])
<1>1. t \in DOMAIN StockMessages \cup DOMAIN OrderMessages \cup DOMAIN TradeMessages
  BY DEF AllMessages
<1>2. \/ t \in DOMAIN StockMessages /\ AllMessages[t] = StockMessages[t]
      \/ t \in DOMAIN OrderMessages /\ AllMessages[t] = OrderMessages[t]
      \/ t \in DOMAIN TradeMessages /\ AllMessages[t] = TradeMessages[t]
  BY <1>1 DEF AllMessages
<1> QED BY <1>2, ProperStock, ProperOrders, ProperTrades

\* The fields of a message with those of its header, and what each of them gives.
LEMMA FieldsAre ==
    ASSUME NEW t \in DOMAIN AllMessages
    PROVE  /\ FieldsOf(t)["locate"] = <<1, 2>> /\ FieldsOf(t)["tracking"] = <<3, 2>>
           /\ FieldsOf(t)["timestamp"] = <<5, 6>>
           /\ DOMAIN FieldsOf(t) = HeaderNames \cup DOMAIN AllMessages[t].fields
           /\ \A f \in DOMAIN FieldsOf(t) : FieldsOf(t)[f][1] \in Nat /\ FieldsOf(t)[f][2] \in Nat
           /\ \A f \in DOMAIN AllMessages[t].fields : FieldsOf(t)[f] = AllMessages[t].fields[f]
<1>1. PICK fields : fields = AllMessages[t].fields /\ Proper(fields)
  BY AreProper DEF ProperMessage
<1>2. DOMAIN HeaderFields = HeaderNames
  BY DEF HeaderFields, HeaderNames
<1>3. /\ HeaderFields["locate"] = <<1, 2>> /\ HeaderFields["tracking"] = <<3, 2>>
      /\ HeaderFields["timestamp"] = <<5, 6>>
  BY DEF HeaderFields
<1>4. FieldsOf(t) = [f \in HeaderNames \cup DOMAIN fields |->
                        IF f \in HeaderNames THEN HeaderFields[f] ELSE fields[f]]
  BY <1>1, <1>2 DEF FieldsOf
<1>5. DOMAIN FieldsOf(t) = HeaderNames \cup DOMAIN fields
  BY <1>4
<1>6. \A f \in DOMAIN fields : FieldsOf(t)[f] = fields[f]
  BY <1>1, <1>4 DEF Proper
<1>7. \A f \in HeaderNames : FieldsOf(t)[f] = HeaderFields[f]
  BY <1>4
<1>8. \A f \in HeaderNames : HeaderFields[f][1] \in Nat /\ HeaderFields[f][2] \in Nat
  BY <1>3 DEF HeaderNames
<1>9. \A f \in DOMAIN FieldsOf(t) : FieldsOf(t)[f][1] \in Nat /\ FieldsOf(t)[f][2] \in Nat
  BY <1>1, <1>5, <1>6, <1>7, <1>8 DEF Proper
<1> QED BY <1>1, <1>3, <1>5, <1>6, <1>7, <1>9 DEF HeaderNames

\* Every byte behind the type belongs to a field.
LEMMA Covered ==
    ASSUME NEW t \in DOMAIN AllMessages, NEW b \in 1 .. MessageLength(t) - 1
    PROVE  \E f \in DOMAIN FieldsOf(t) : Covers(FieldsOf(t)[f], b)
<1>1. /\ {"locate", "tracking", "timestamp"} \subseteq DOMAIN FieldsOf(t)
      /\ DOMAIN AllMessages[t].fields \subseteq DOMAIN FieldsOf(t)
      /\ FieldsOf(t)["locate"] = <<1, 2>> /\ FieldsOf(t)["tracking"] = <<3, 2>>
      /\ FieldsOf(t)["timestamp"] = <<5, 6>>
  BY FieldsAre DEF HeaderNames
<1>2. MessageLength(t) \in Nat
  BY AreProper DEF ProperMessage, MessageLength
<1>3. b \in Int /\ 1 <= b /\ b <= MessageLength(t) - 1
  BY <1>2
<1>4. CASE b < 3
  <2>1. Covers(FieldsOf(t)["locate"], b)
    BY <1>1, <1>3, <1>4 DEF Covers
  <2> QED BY <1>1, <2>1
<1>5. CASE 3 <= b /\ b < 5
  <2>1. Covers(FieldsOf(t)["tracking"], b)
    BY <1>1, <1>3, <1>5 DEF Covers
  <2> QED BY <1>1, <2>1
<1>6. CASE 5 <= b /\ b < 11
  <2>1. Covers(FieldsOf(t)["timestamp"], b)
    BY <1>1, <1>3, <1>6 DEF Covers
  <2> QED BY <1>1, <2>1
<1>7. CASE 11 <= b
  <2>1. b \in HeaderLength .. MessageLength(t) - 1
    BY <1>2, <1>3, <1>7 DEF HeaderLength
  <2>2. Cardinality({f \in DOMAIN AllMessages[t].fields : Covers(AllMessages[t].fields[f], b)}) = 1
    BY <2>1, FieldsTileMessages
  <2>3. {f \in DOMAIN AllMessages[t].fields : Covers(AllMessages[t].fields[f], b)} # {}
    BY <2>2, FS_EmptySet
  <2>4. PICK f \in DOMAIN AllMessages[t].fields : Covers(AllMessages[t].fields[f], b)
    BY <2>3
  <2>5. f \in DOMAIN FieldsOf(t) /\ FieldsOf(t)[f] = AllMessages[t].fields[f]
    BY <1>1, FieldsAre
  <2> QED BY <2>4, <2>5
<1> QED BY <1>3, <1>4, <1>5, <1>6, <1>7

\* A decoded message, encoded again, is the bytes it was decoded from.
LEMMA EncodeDecode ==
    ASSUME NEW t \in DOMAIN AllMessages, NEW mem, NEW p \in Int,
           NEW b \in 1 .. MessageLength(t) - 1
    PROVE  Encode(t, Decode(t, mem, p))[b] = mem[p + b]
<1>1. PICK m : m = Decode(t, mem, p)
  OBVIOUS
<1>2. PICK fields : fields = FieldsOf(t)
  OBVIOUS
<1>3. PICK f : f = CHOOSE g \in DOMAIN fields : Covers(fields[g], b)
  OBVIOUS
<1>4. f \in DOMAIN fields /\ Covers(fields[f], b)
  BY <1>2, <1>3, Covered
<1>5. PICK o \in Nat, w \in Nat : fields[f][1] = o /\ fields[f][2] = w
  BY <1>2, <1>4, FieldsAre
<1>6. b \in Int /\ 1 <= b /\ b \in 0 .. MessageLength(t) - 1 /\ b # 0
  <2>1. MessageLength(t) \in Nat
    BY AreProper DEF ProperMessage, MessageLength
  <2> QED BY <2>1
<1>7. o <= b /\ b < o + w
  BY <1>4, <1>5 DEF Covers
<1>8. Encode(t, m)[b] = m[f][b - o + 1 + Len(m[f]) - w]
  BY <1>2, <1>3, <1>5, <1>6 DEF Encode
<1>9. m[f] = IF f = "timestamp" THEN LoadBE48(mem, p + 5) ELSE LoadBE(mem, p + o, w)
  BY <1>1, <1>2, <1>4, <1>5 DEF Decode
<1>10. CASE f = "timestamp"
  <2>1. o = 5 /\ w = 6
    <3>1. fields[f] = <<5, 6>>
      BY <1>2, <1>10, FieldsAre
    <3> QED BY <1>5, <3>1
  <2>2. PICK s : s = LoadBE48(mem, p + 5)
    OBVIOUS
  <2>3. Len(s) = 8
    BY <2>2 DEF LoadBE48
  <2>4. b - o + 1 + 8 - w = b - 2 /\ b - 2 \in 1 .. 8 /\ ~(b - 2 <= 2)
        /\ p + 5 - 2 + (b - 2) - 1 = p + b
    BY <1>6, <1>7, <2>1
  <2>5. s[b - 2] = mem[p + 5 - 2 + (b - 2) - 1]
    BY <2>2, <2>4 DEF LoadBE48
  <2>6. m[f] = s
    BY <1>9, <1>10, <2>2
  <2>7. Encode(t, m)[b] = s[b - 2]
    BY <1>8, <2>3, <2>4, <2>6
  <2> QED BY <1>1, <2>4, <2>5, <2>7
<1>11. CASE f # "timestamp"
  <2>1. PICK s : s = LoadBE(mem, p + o, w)
    OBVIOUS
  <2>2. Len(s) = w
    BY <2>1 DEF LoadBE
  <2>3. b - o + 1 + w - w = b - o + 1 /\ b - o + 1 \in 1 .. w
        /\ p + o + (b - o + 1) - 1 = p + b
    BY <1>6, <1>7
  <2>4. s[b - o + 1] = mem[p + o + (b - o + 1) - 1]
    BY <2>1, <2>3 DEF LoadBE
  <2>5. m[f] = s
    BY <1>9, <1>11, <2>1
  <2>6. Encode(t, m)[b] = s[b - o + 1]
    BY <1>8, <2>2, <2>3, <2>5
  <2> QED BY <1>1, <2>3, <2>4, <2>6
<1> QED BY <1>10, <1>11

\* The handler has its last message as parse() decoded it.
Decoded ==
    handled # <<>> =>
        LET k == Last(handled)
        IN  message = Decode(file[k].type, Buffer, StartOf(k) + 2)

LEMMA ParseDecodes ==
    ASSUME IInv, Decoded, NEW limit \in Nat, limit <= len, Complete(off, limit), Parse,
           UNCHANGED <<file, len>>
    PROVE  Decoded'
<1>1. PICK i \in 1 .. Len(file) + 1 : AtRecord(i)
  BY Facts
<1>2. i \in DOMAIN file /\ off = StartOf(i) /\ At(off) = i
  <2>1. i \in DOMAIN file
    BY <1>1, Advance
  <2>2. off = StartOf(i)
    BY <1>1 DEF AtRecord
  <2> QED BY <2>1, <2>2, Facts DEF Framed
<1>3. handled \in Seq(DOMAIN file)
  BY Facts DEF Typed
<1>4. \A k : StartOf(k)' = StartOf(k)
  BY SameStarts
<1>5. Buffer' = Buffer
  BY DEF Buffer
<1>6. CASE KindOf(file[i]) = "message"
  <2>1. handled' = Append(handled, i) /\ message' = Decode(file[i].type, Buffer, off + 2)
    BY <1>2, <1>6 DEF Parse
  <2>2. Last(handled') = i
    <3>1. Len(Append(handled, i)) = Len(handled) + 1 /\ Append(handled, i)[Len(handled) + 1] = i
      BY <1>2, <1>3, AppendProperties
    <3> QED BY <2>1, <3>1 DEF Last
  <2>3. Decoded' <=> (handled' # <<>> =>
                          message' = Decode(file[i].type, Buffer, StartOf(i) + 2))
    BY <1>4, <1>5, <2>2 DEF Decoded
  <2> QED BY <1>2, <2>1, <2>3
<1>7. CASE KindOf(file[i]) # "message"
  <2>1. handled' = handled /\ message' = message
    BY <1>2, <1>7 DEF Parse
  <2> QED BY <1>4, <1>5, <2>1 DEF Decoded
<1> QED BY <1>6, <1>7

LEMMA KeepsDecoded ==
    ASSUME Decoded, UNCHANGED <<file, len, handled, message>>
    PROVE  Decoded'
<1>1. \A k : StartOf(k)' = StartOf(k)
  BY SameStarts
<1>2. Buffer' = Buffer
  BY DEF Buffer
<1> QED BY <1>1, <1>2 DEF Decoded

LEMMA DecodedStep ==
    ASSUME IInv, Decoded, [Next]_vars
    PROVE  Decoded'
<1>1. CASE ParseRecord
  <2>1. pc = "records" /\ Complete(off, end) /\ Parse /\ UNCHANGED <<file, len>>
    BY <1>1 DEF ParseRecord, input
  <2>2. end \in Nat /\ end <= len
    BY <2>1, Facts, SliceEnds
  <2> QED BY <2>1, <2>2, ParseDecodes
<1>2. CASE TimeRecord
  <2>1. Complete(off, len) /\ Parse /\ UNCHANGED <<file, len>>
    BY <1>2 DEF TimeRecord, input
  <2>2. len \in Nat /\ len <= len
    BY Facts DEF Typed
  <2> QED BY <2>1, <2>2, ParseDecodes
<1>3. CASE BeginSlice \/ WarmUp \/ EndSlice \/ EndFile \/ EndLatency \/ Interrupt
           \/ UNCHANGED vars
  <2>1. UNCHANGED <<file, len, handled, message>>
    BY <1>3 DEF BeginSlice, WarmUp, EndSlice, EndFile, EndLatency, Interrupt, vars, input, results
  <2> QED BY <2>1, KeepsDecoded
<1> QED BY <1>1, <1>2, <1>3 DEF Next, Work, Finished

\* A memory in which no byte is zero.
LEMMA BufferSolid ==
    ASSUME len \in Nat, NEW p \in Nat, p + Overread <= len
    PROVE  Solid(Buffer, p)
<1> SUFFICES ASSUME NEW x \in 0 .. 35 PROVE Buffer[p + x] # Zero
  BY DEF Solid
<1>1. PICK y : y = p + x
  OBVIOUS
<1>2. y \in 0 .. len + Overread /\ y < len /\ y \in Nat
  BY <1>1 DEF Overread
<1>3. Buffer[y] = y
  BY <1>2 DEF Buffer
<1> QED BY <1>1, <1>2, <1>3 DEF Zero

\* The message the handler gets last, encoded again, is its record, whatever the
\* records and wherever the slices cut the file; and the decoders of an add order
\* agree on it wherever they may read past its end.
THEOREM DecodesOwnBytes == Spec => []DecodesItsBytes
<1>1. Init => IInv /\ Decoded
  BY InitIInv DEF Init, Decoded
<1>2. IInv /\ Decoded /\ [Next]_vars => Decoded'
  BY DecodedStep
<1>3. IInv /\ Decoded => DecodesItsBytes
  <2> SUFFICES ASSUME IInv, Decoded, handled # <<>> PROVE DecodesItsBytes
    BY DEF DecodesItsBytes
  <2>1. PICK k : k = Last(handled)
    OBVIOUS
  <2>2. PICK i \in 1 .. Len(file) + 1 : AtRecord(i)
    BY Facts
  <2>3. k \in 1 .. i - 1 /\ KindOf(file[k]) = "message"
    <3>1. handled \in Seq(DOMAIN file) /\ Len(handled) \in DOMAIN handled
      BY Facts DEF Typed
    <3>2. k \in ToSet(handled)
      BY <2>1, <3>1 DEF Last, ToSet
    <3> QED BY <2>2, <3>2 DEF AtRecord, Recorded
  <2>4. PICK r : r = file[k]
    OBVIOUS
  <2>5. PICK p \in Nat : p = StartOf(k) + 2
    <3>1. k \in 1 .. Len(file) + 1
      BY <2>2, <2>3, Facts
    <3> QED BY <3>1, Facts DEF Framed
  <2>6. k \in DOMAIN file /\ r.length \in Nat /\ p + r.length <= len
    <3>1. i \in Nat /\ k \in Nat /\ k + 1 <= i /\ k \in DOMAIN file
          /\ i \in 1 .. Len(file) + 1 /\ k + 1 \in 1 .. Len(file) + 1
      BY <2>2, <2>3, Facts DEF Framed
    <3>2. /\ StartOf(k + 1) = StartOf(k) + 2 + r.length /\ r.length \in Nat
          /\ StartOf(k) \in Nat /\ StartOf(k + 1) \in Nat /\ StartOf(i) \in Nat
      BY <2>4, <3>1, Facts DEF Framed
    <3>3. k + 1 < i => StartOf(k + 1) + 2 <= StartOf(i)
      BY <3>1, Facts DEF Framed
    <3>4. StartOf(k + 1) <= StartOf(i)
      BY <3>1, <3>2, <3>3
    <3>5. StartOf(i) <= len /\ len \in Nat
      BY <2>2, Facts DEF AtRecord, Typed
    <3> QED BY <2>5, <3>1, <3>2, <3>4, <3>5
  <2>7. r.type \in DOMAIN AllMessages /\ MessageLength(r.type) = r.length
    <3>1. KindOf(r) = "message"
      BY <2>3, <2>4
    <3>2. MessageLength(r.type) # 0 /\ MessageLength(r.type) = r.length
      BY <3>1 DEF KindOf
    <3> QED BY <3>2 DEF MessageLength
  <2>8. message = Decode(r.type, Buffer, p)
    BY <2>1, <2>4, <2>5 DEF Decoded
  <2>9. ASSUME NEW b \in 1 .. r.length - 1
        PROVE  Encode(r.type, message)[b] = p + b
    <3>1. b \in 1 .. MessageLength(r.type) - 1
      BY <2>7
    <3>2. Encode(r.type, message)[b] = Buffer[p + b]
      BY <2>7, <2>8, <3>1, EncodeDecode
    <3>3. PICK y : y = p + b
      OBVIOUS
    <3>4. len \in Nat /\ y \in 0 .. len + Overread /\ y < len
      <4>1. len \in Nat
        BY Facts DEF Typed
      <4> QED BY <2>6, <3>3, <4>1 DEF Overread
    <3>5. Buffer[y] = y
      BY <3>4 DEF Buffer
    <3> QED BY <3>2, <3>3, <3>5
  <2>10. ASSUME p + Overread <= len
         PROVE  /\ DecodeSsse3(Buffer, p) = DecodeScalar(Buffer, p)
                /\ DecodeAvx2(Buffer, p) = DecodeScalar(Buffer, p)
    <3>1. PICK mem : mem = Buffer
      OBVIOUS
    <3>2. Solid(mem, p)
      <4>1. len \in Nat
        BY Facts DEF Typed
      <4> QED BY <2>10, <3>1, <4>1, BufferSolid
    <3>3. /\ DecodeSsse3(mem, p) = DecodeScalar(mem, p)
          /\ DecodeAvx2(mem, p) = DecodeScalar(mem, p)
      <4>0. p \in Int
        OBVIOUS
      <4>1. PICK s, t, u : s = DecodeScalar(mem, p) /\ t = DecodeSsse3(mem, p)
                           /\ u = DecodeAvx2(mem, p)
        OBVIOUS
      <4>2. IsBytes(s, 32, mem) /\ \A b \in 1 .. 32 : s[b] = ByteOf(mem, p, b)
        BY ONLY <4>0, <4>1, ScalarIs
      <4>3. IsBytes(t, 32, mem) /\ \A b \in 1 .. 32 : t[b] = ByteOf(mem, p, b)
        BY ONLY <3>2, <4>0, <4>1, Ssse3Is
      <4>4. IsBytes(u, 32, mem) /\ \A b \in 1 .. 32 : u[b] = ByteOf(mem, p, b)
        BY ONLY <3>2, <4>0, <4>1, Avx2Is
      <4>5. t = s
        BY ONLY <4>2, <4>3, SameBytes
      <4>6. u = s
        BY ONLY <4>2, <4>4, SameBytes
      <4> QED BY <4>1, <4>5, <4>6
    <3> QED BY <3>1, <3>3
  <2> QED BY <2>1, <2>4, <2>5, <2>9, <2>10 DEF DecodesItsBytes
<1> QED BY <1>1, <1>2, <1>3, Invariant, PTL DEF Spec

-----------------------------------------------------------------------------
(* Sums over a finite set, which the histogram and its percentiles take.   *)

\* A non-empty set of finite sets has a member with no smaller member in it.
LEMMA LeastSubset ==
  ASSUME NEW S, NEW T, T # {}, T \subseteq FiniteSubsetsOf(S)
  PROVE  \E X \in T : \A Y \in T : Y \subseteq X => Y = X
<1> DEFINE R == StrictSubsetOrdering(S)
<1>2. PICK X \in T : \A Y \in T : ~(<<Y, X>> \in R)
  <2> HIDE DEF R
  <2>1. IsWellFoundedOn(R, FiniteSubsetsOf(S))
    BY FS_StrictSubsetOrderingWellFounded DEF R
  <2> QED BY <2>1, WFMin
<1>3. ASSUME NEW Y \in T, Y \subseteq X, Y # X PROVE FALSE
  <2>1. <<Y, X>> \in R
    BY <1>3 DEF StrictSubsetOrdering, FiniteSubsetsOf
  <2> QED BY <1>2, <2>1
<1> QED BY <1>3

\* The element the fold of the community module takes first.
Chosen(S) == CHOOSE x \in S : TRUE

\* g sums over every set in D.
Adding(f, D, g) ==
    g = [S \in D |-> IF S = {} THEN 0 ELSE f[Chosen(S)] + g[S \ {Chosen(S)}]]

\* The definition of the fold.
LEMMA TotalDef ==
    ASSUME NEW f, NEW S
    PROVE  Total(f, S) = (CHOOSE g : Adding(f, SUBSET S, g))[S]
BY DEF Total, Adding, Chosen, MapThenSumSet, MapThenFoldSet

\* A set without its chosen element.
LEMMA Less ==
    ASSUME NEW S, IsFiniteSet(S), S # {}
    PROVE  /\ Chosen(S) \in S /\ IsFiniteSet(S \ {Chosen(S)})
           /\ S \ {Chosen(S)} \subseteq S /\ S \ {Chosen(S)} # S
           /\ Cardinality(S) \in Nat /\ Cardinality(S) > 0
           /\ Cardinality(S \ {Chosen(S)}) = Cardinality(S) - 1
<1>1. Chosen(S) \in S
  BY DEF Chosen
<1>2. Cardinality(S) \in Nat /\ Cardinality(S) # 0
  BY FS_CardinalityType, FS_EmptySet
<1>3. IsFiniteSet(S \ {Chosen(S)}) /\ Cardinality(S \ {Chosen(S)}) = Cardinality(S) - 1
  BY <1>1, FS_RemoveElement
<1> QED BY <1>1, <1>2, <1>3

\* There are such sums: first for sets of at most n elements.
OfSize(S, n) == {X \in SUBSET S : Cardinality(X) <= n}

LEMMA AddingUpTo ==
    ASSUME NEW f, NEW S, IsFiniteSet(S), NEW n \in Nat
    PROVE  \E g : Adding(f, OfSize(S, n), g)
<1> DEFINE D(m) == OfSize(S, m)
           T == {m \in Nat : ~ \E g : Adding(f, D(m), g)}
<1> USE DEF OfSize
<1>0. \A X \in SUBSET S : IsFiniteSet(X) /\ Cardinality(X) \in Nat
  BY FS_Subset, FS_CardinalityType
<1>1. SUFFICES ASSUME T # {} PROVE FALSE
  OBVIOUS
<1>2. PICK m \in T : \A k \in T : m <= k
  <2> HIDE DEF D
  <2>1. T \in SUBSET Nat
    OBVIOUS
  <2> HIDE DEF T
  <2> QED BY <1>1, <2>1, Least
<1>3. m \in Nat
  OBVIOUS
<1>4. CASE m = 0
  <2>1. \A X \in D(0) : X = {}
    <3>1. TAKE X \in D(0)
    <3>2. Cardinality(X) = 0 /\ IsFiniteSet(X)
      BY <1>0
    <3> QED BY <3>2, FS_EmptySet
  <2> DEFINE g == [X \in D(0) |-> 0]
  <2>2. Adding(f, D(0), g)
    <3> HIDE DEF D
    <3> QED BY <2>1 DEF Adding
  <2> QED BY <1>4, <2>2
<1>5. CASE m # 0
  <2>1. m - 1 \in Nat /\ m - 1 \notin T
    <3> HIDE DEF T
    <3> QED BY <1>2, <1>3, <1>5
  <2>2. PICK g : Adding(f, D(m - 1), g)
    BY <2>1
  <2> DEFINE h == [X \in D(m) |-> IF X = {} THEN 0
                                  ELSE f[Chosen(X)] + g[X \ {Chosen(X)}]]
  <2>3. ASSUME NEW X \in D(m - 1) PROVE h[X] = g[X]
    <3>1. X \in D(m)
      BY <1>0, <1>3
    <3> HIDE DEF D
    <3> QED BY <2>2, <3>1 DEF Adding
  <2>4. ASSUME NEW X \in D(m), X # {} PROVE h[X \ {Chosen(X)}] = g[X \ {Chosen(X)}]
    <3>1. IsFiniteSet(X) /\ X \in SUBSET S
      BY <1>0
    <3>2. /\ X \ {Chosen(X)} \in SUBSET S
          /\ Cardinality(X \ {Chosen(X)}) = Cardinality(X) - 1
          /\ Cardinality(X) \in Nat
      BY <2>4, <3>1, Less
    <3>3. X \ {Chosen(X)} \in D(m - 1)
      BY <1>3, <3>2
    <3> QED BY <2>3, <3>3
  <2>5. Adding(f, D(m), h)
    <3> HIDE DEF D
    <3> QED BY <2>4 DEF Adding
  <2> QED BY <1>3, <2>5
<1> QED BY <1>4, <1>5

\* Then for all subsets.
LEMMA AddingExists ==
    ASSUME NEW f, NEW S, IsFiniteSet(S)
    PROVE  \E g : Adding(f, SUBSET S, g)
<1>1. Cardinality(S) \in Nat /\ \A X \in SUBSET S : Cardinality(X) <= Cardinality(S)
  BY FS_CardinalityType, FS_Subset
<1>2. SUBSET S = OfSize(S, Cardinality(S))
  BY <1>1 DEF OfSize
<1>3. \E g : Adding(f, OfSize(S, Cardinality(S)), g)
  BY <1>1, AddingUpTo
<1> QED BY <1>2, <1>3

\* Two of them agree.
LEMMA AddingAgrees ==
    ASSUME NEW f, NEW S, NEW Q, IsFiniteSet(Q), Q \subseteq S, NEW g, NEW h,
           Adding(f, SUBSET S, g), Adding(f, SUBSET Q, h)
    PROVE  g[Q] = h[Q]
<1> DEFINE T == {X \in SUBSET Q : g[X] # h[X]}
<1>1. SUFFICES ASSUME T # {} PROVE FALSE
  OBVIOUS
<1>2. T \subseteq FiniteSubsetsOf(Q)
  BY FS_Subset DEF FiniteSubsetsOf
<1>3. PICK X \in T : \A Y \in T : Y \subseteq X => Y = X
  <2> HIDE DEF T
  <2> QED BY <1>1, <1>2, LeastSubset
<1>4. X \in SUBSET Q /\ X \in SUBSET S /\ IsFiniteSet(X) /\ g[X] # h[X]
  BY <1>2 DEF FiniteSubsetsOf
<1>5. CASE X = {}
  BY <1>4, <1>5 DEF Adding
<1>6. CASE X # {}
  <2>1. /\ X \ {Chosen(X)} \subseteq X /\ X \ {Chosen(X)} # X
    BY <1>4, <1>6, Less
  <2>2. g[X \ {Chosen(X)}] = h[X \ {Chosen(X)}]
    BY <1>3, <1>4, <2>1
  <2>3. /\ g[X] = f[Chosen(X)] + g[X \ {Chosen(X)}]
        /\ h[X] = f[Chosen(X)] + h[X \ {Chosen(X)}]
    BY <1>4, <1>6 DEF Adding
  <2> QED BY <1>4, <2>2, <2>3
<1> QED BY <1>5, <1>6

\* A sum is that of the chosen element and the others.
LEMMA TotalStep ==
    ASSUME NEW f, NEW S, IsFiniteSet(S)
    PROVE  Total(f, S) = IF S = {} THEN 0
                          ELSE f[Chosen(S)] + Total(f, S \ {Chosen(S)})
<1> DEFINE G(X) == CHOOSE g : Adding(f, SUBSET X, g)
<1>1. \A X : IsFiniteSet(X) => Adding(f, SUBSET X, G(X))
  BY AddingExists
<1>2. \A X : Total(f, X) = G(X)[X]
  BY TotalDef
<1> HIDE DEF G
<1>3. CASE S = {}
  <2>1. Adding(f, SUBSET S, G(S))
    BY <1>1
  <2> QED BY <1>2, <1>3, <2>1 DEF Adding
<1>4. CASE S # {}
  <2> DEFINE Q == S \ {Chosen(S)}
  <2>1. IsFiniteSet(Q) /\ Q \subseteq S /\ Q \in SUBSET S
    BY <1>4, Less
  <2>2. Adding(f, SUBSET S, G(S)) /\ Adding(f, SUBSET Q, G(Q))
    BY <1>1, <2>1
  <2>3. G(S)[Q] = G(Q)[Q]
    <3> HIDE DEF Q
    <3> QED BY <2>1, <2>2, AddingAgrees
  <2>4. G(S)[S] = f[Chosen(S)] + G(S)[Q]
    BY <1>4, <2>2 DEF Adding
  <2> QED BY <1>2, <1>4, <2>3, <2>4
<1> QED BY <1>3, <1>4

\* The empty sum.
LEMMA TotalEmpty == ASSUME NEW f PROVE Total(f, {}) = 0
BY FS_EmptySet, TotalStep

\* The sum of natural numbers is one.
LEMMA TotalType ==
    ASSUME NEW f, NEW S, IsFiniteSet(S), \A r \in S : f[r] \in Nat
    PROVE  Total(f, S) \in Nat
<1> DEFINE T == {X \in SUBSET S : Total(f, X) \notin Nat}
<1>1. SUFFICES ASSUME T # {} PROVE FALSE
  OBVIOUS
<1>2. T \subseteq FiniteSubsetsOf(S)
  BY FS_Subset DEF FiniteSubsetsOf
<1>3. PICK X \in T : \A Y \in T : Y \subseteq X => Y = X
  <2> HIDE DEF T
  <2> QED BY <1>1, <1>2, LeastSubset
<1>4. X \in SUBSET S /\ IsFiniteSet(X) /\ Total(f, X) \notin Nat
  BY <1>2 DEF FiniteSubsetsOf
<1>5. X # {}
  BY <1>4, TotalEmpty
<1> DEFINE Y == X \ {Chosen(X)}
<1>6. Chosen(X) \in X /\ Y \in SUBSET S /\ Y \subseteq X /\ Y # X
  BY <1>4, <1>5, Less
<1>7. Total(f, X) = f[Chosen(X)] + Total(f, Y)
  BY <1>4, <1>5, TotalStep
<1> HIDE DEF Y
<1>8. Total(f, Y) \in Nat
  BY <1>3, <1>6
<1>9. f[Chosen(X)] \in Nat
  BY <1>4, <1>6
<1> QED BY <1>4, <1>7, <1>8, <1>9

\* Any element may be taken out first.
LEMMA TotalWithout ==
    ASSUME NEW f, NEW S, IsFiniteSet(S), \A r \in S : f[r] \in Nat, NEW x \in S
    PROVE  Total(f, S) = f[x] + Total(f, S \ {x})
<1> DEFINE T == {X \in SUBSET S : \E y \in X : Total(f, X) # f[y] + Total(f, X \ {y})}
<1>1. SUFFICES ASSUME T # {} PROVE FALSE
  OBVIOUS
<1>2. T \subseteq FiniteSubsetsOf(S)
  BY FS_Subset DEF FiniteSubsetsOf
<1>3. PICK X \in T : \A Y \in T : Y \subseteq X => Y = X
  <2> HIDE DEF T
  <2> QED BY <1>1, <1>2, LeastSubset
<1>4. X \in SUBSET S /\ IsFiniteSet(X)
  BY <1>2 DEF FiniteSubsetsOf
<1>5. PICK y \in X : Total(f, X) # f[y] + Total(f, X \ {y})
  OBVIOUS
<1>6. PICK c : c = Chosen(X)
  OBVIOUS
<1>7. c \in X /\ Total(f, X) = f[c] + Total(f, X \ {c})
  BY <1>4, <1>6, Less, TotalStep
<1>8. c # y
  BY <1>5, <1>7
<1>9. \A Y, z : Y \in SUBSET X /\ Y # X /\ z \in Y =>
                  Total(f, Y) = f[z] + Total(f, Y \ {z})
  BY <1>3, <1>4
<1>10. Total(f, X \ {c}) = f[y] + Total(f, (X \ {c}) \ {y})
  BY <1>7, <1>8, <1>9
<1>11. Total(f, X \ {y}) = f[c] + Total(f, (X \ {y}) \ {c})
  BY <1>7, <1>8, <1>9
<1>12. (X \ {c}) \ {y} = (X \ {y}) \ {c}
  OBVIOUS
<1> DEFINE rest == Total(f, (X \ {y}) \ {c})
<1>13. rest \in Nat /\ f[c] \in Nat /\ f[y] \in Nat
  <2>1. IsFiniteSet((X \ {y}) \ {c})
    BY <1>4, FS_RemoveElement
  <2> QED BY <1>4, <1>7, <2>1, TotalType
<1> HIDE DEF rest
<1>14. Total(f, X) = f[c] + (f[y] + rest)
  BY <1>7, <1>10, <1>12 DEF rest
<1>15. Total(f, X \ {y}) = f[c] + rest
  BY <1>11 DEF rest
<1>16. f[c] + (f[y] + rest) = f[y] + (f[c] + rest)
  BY <1>13
<1> QED BY <1>5, <1>14, <1>15, <1>16

\* Functions that agree on a set have the same sum over it.
LEMMA TotalSame ==
    ASSUME NEW f, NEW g, NEW S, IsFiniteSet(S), \A r \in S : f[r] = g[r]
    PROVE  Total(f, S) = Total(g, S)
<1> DEFINE T == {X \in SUBSET S : Total(f, X) # Total(g, X)}
<1>1. SUFFICES ASSUME T # {} PROVE FALSE
  OBVIOUS
<1>2. T \subseteq FiniteSubsetsOf(S)
  BY FS_Subset DEF FiniteSubsetsOf
<1>3. PICK X \in T : \A Y \in T : Y \subseteq X => Y = X
  <2> HIDE DEF T
  <2> QED BY <1>1, <1>2, LeastSubset
<1>4. X \in SUBSET S /\ IsFiniteSet(X) /\ Total(f, X) # Total(g, X)
  BY <1>2 DEF FiniteSubsetsOf
<1>5. X # {}
  BY <1>4, TotalEmpty
<1> DEFINE Y == X \ {Chosen(X)}
<1>6. Chosen(X) \in X /\ Y \in SUBSET S /\ Y \subseteq X /\ Y # X
  BY <1>4, <1>5, Less
<1>7. /\ Total(f, X) = f[Chosen(X)] + Total(f, Y)
      /\ Total(g, X) = g[Chosen(X)] + Total(g, Y)
  BY <1>4, <1>5, TotalStep
<1> HIDE DEF Y
<1>8. Total(f, Y) = Total(g, Y)
  BY <1>3, <1>6
<1> QED BY <1>4, <1>6, <1>7, <1>8

\* One more at x adds one to the sums over the sets that x is in.
LEMMA TotalGrows ==
    ASSUME NEW f, NEW g, NEW S, IsFiniteSet(S), \A r \in S : f[r] \in Nat, NEW x,
           \A r \in S : g[r] = IF r = x THEN f[r] + 1 ELSE f[r]
    PROVE  Total(g, S) = IF x \in S THEN Total(f, S) + 1 ELSE Total(f, S)
<1>1. CASE x \notin S
  BY <1>1, TotalSame
<1>2. CASE x \in S
  <2> DEFINE R == S \ {x}
  <2>1. IsFiniteSet(R) /\ \A r \in R : f[r] = g[r] /\ f[r] \in Nat
    BY FS_RemoveElement
  <2>2. \A r \in S : g[r] \in Nat
    OBVIOUS
  <2>3. Total(f, S) = f[x] + Total(f, R) /\ Total(g, S) = g[x] + Total(g, R)
    BY <1>2, <2>2, TotalWithout
  <2> HIDE DEF R
  <2>4. Total(g, R) = Total(f, R) /\ Total(f, R) \in Nat
    BY <2>1, TotalSame, TotalType
  <2>5. g[x] = f[x] + 1 /\ f[x] \in Nat
    BY <1>2
  <2> QED BY <1>2, <2>3, <2>4, <2>5
<1> QED BY <1>1, <1>2

\* A part adds up to no more than the whole, and to as much when the rest is 0.
LEMMA TotalPart ==
    ASSUME NEW f, NEW S, IsFiniteSet(S), \A r \in S : f[r] \in Nat, NEW A \in SUBSET S
    PROVE  /\ Total(f, A) <= Total(f, S)
           /\ (\A r \in S \ A : f[r] = 0) => Total(f, A) = Total(f, S)
<1> DEFINE Rest == S \ A
           T == {X \in SUBSET Rest : ~ /\ Total(f, A) <= Total(f, A \cup X)
                                       /\ (\A r \in Rest : f[r] = 0) => Total(f, A) = Total(f, A \cup X)}
<1>1. SUFFICES ASSUME T # {} PROVE FALSE
  <2>1. Rest \notin T
    BY <1>1
  <2>2. A \cup Rest = S
    OBVIOUS
  <2> QED BY <2>1, <2>2
<1>2. T \subseteq FiniteSubsetsOf(Rest)
  BY FS_Subset DEF FiniteSubsetsOf
<1>3. PICK X \in T : \A Y \in T : Y \subseteq X => Y = X
  <2> HIDE DEF T
  <2> QED BY <1>1, <1>2, LeastSubset
<1>4. X \in SUBSET Rest /\ IsFiniteSet(X)
  BY <1>2 DEF FiniteSubsetsOf
<1>5. \A B \in SUBSET S : IsFiniteSet(B) /\ (\A r \in B : f[r] \in Nat) /\ Total(f, B) \in Nat
  <2>1. TAKE B \in SUBSET S
  <2>2. IsFiniteSet(B) /\ \A r \in B : f[r] \in Nat
    BY FS_Subset
  <2> QED BY <2>2, TotalType
<1>6. X # {}
  <2>1. SUFFICES ASSUME X = {} PROVE FALSE
    OBVIOUS
  <2>2. A \cup X = A
    BY <2>1
  <2>3. Total(f, A) \in Nat
    BY <1>5
  <2> QED BY <2>2, <2>3
<1>7. PICK x : x \in X
  BY <1>6
<1>8. PICK Y : Y = X \ {x}
  OBVIOUS
<1>9. Y \subseteq X /\ Y # X /\ Y \in SUBSET Rest /\ Y \notin T
  BY <1>3, <1>4, <1>7, <1>8
<1>10. A \cup X \in SUBSET S /\ x \in A \cup X /\ (A \cup X) \ {x} = A \cup Y /\ A \cup Y \in SUBSET S
  BY <1>4, <1>7, <1>8
<1>11. Total(f, A \cup X) = f[x] + Total(f, A \cup Y)
  <2>1. IsFiniteSet(A \cup X) /\ \A r \in A \cup X : f[r] \in Nat
    BY <1>5, <1>10
  <2>2. Total(f, A \cup X) = f[x] + Total(f, (A \cup X) \ {x})
    BY <1>10, <2>1, TotalWithout
  <2> QED BY <1>10, <2>2
<1>12. f[x] \in Nat /\ Total(f, A) \in Nat /\ Total(f, A \cup Y) \in Nat /\ x \in Rest
  BY <1>4, <1>5, <1>7, <1>10
<1>13. /\ Total(f, A) <= Total(f, A \cup Y)
       /\ (\A r \in Rest : f[r] = 0) => Total(f, A) = Total(f, A \cup Y)
  BY <1>9
<1>14. ~ /\ Total(f, A) <= Total(f, A \cup X)
         /\ (\A r \in Rest : f[r] = 0) => Total(f, A) = Total(f, A \cup X)
  BY <1>3
<1> HIDE DEF T, Rest
<1> QED BY <1>11, <1>12, <1>13, <1>14

-----------------------------------------------------------------------------
(* Powers of two, and products.                                            *)

\* Products with the same factor are ordered as the other factors are.
LEMMA ProductGrows ==
    ASSUME NEW a \in Int, NEW b \in Int, a <= b, NEW d \in Nat
    PROVE  a * d <= b * d
<1>1. (b - a) * d >= 0
  OBVIOUS
<1>2. (b - a) * d = b * d - a * d
  OBVIOUS
<1>3. a * d \in Int /\ b * d \in Int
  OBVIOUS
<1> QED BY ONLY <1>1, <1>2, <1>3

LEMMA ProductCancels ==
    ASSUME NEW a \in Int, NEW b \in Int, NEW d \in Nat, a * d < b * d
    PROVE  a < b
<1>1. SUFFICES ASSUME b <= a PROVE FALSE
  OBVIOUS
<1>2. b * d <= a * d
  BY <1>1, ProductGrows
<1>3. a * d \in Int /\ b * d \in Int
  OBVIOUS
<1> QED BY <1>2, <1>3

\* A quotient and the remainder.
LEMMA QuotientIs ==
    ASSUME NEW v \in Nat, NEW d \in Nat \ {0}
    PROVE  v \div d \in Nat /\ (v \div d) * d <= v /\ v < ((v \div d) + 1) * d
BY Z3

\* q is the quotient of j and d, and r the remainder.
Divides(j, d, q, r) == j \div d = q /\ j % d = r

LEMMA DivideSum ==
    ASSUME NEW q \in Nat, NEW d \in Nat \ {0}, NEW r \in 0 .. d - 1, NEW j \in Nat, j = q * d + r
    PROVE  Divides(j, d, q, r)
<1>1. j \in Nat
  OBVIOUS
<1>2. PICK k : k = j \div d
  OBVIOUS
<1>3. k \in Nat /\ k * d <= j /\ j < (k + 1) * d
  BY <1>1, <1>2, QuotientIs
<1>4. j < (q + 1) * d /\ q * d <= j
  OBVIOUS
<1>5. k < q + 1 /\ q < k + 1
  <2>1. k * d < (q + 1) * d
    BY <1>3, <1>4
  <2>2. q * d < (k + 1) * d
    BY <1>3, <1>4
  <2> QED BY <1>3, <2>1, <2>2, ProductCancels
<1>6. k = q
  BY <1>3, <1>5
<1>7. j % d = j - k * d
  BY <1>1, <1>2, Z3
<1> QED BY <1>2, <1>6, <1>7 DEF Divides

\* g holds the powers of two up to n.
Doubles(n, g) == g = [k \in 0 .. n |-> IF k = 0 THEN 1 ELSE 2 * g[k - 1]]

LEMMA DoublesExist == ASSUME NEW n \in Nat PROVE \E g : Doubles(n, g)
<1> DEFINE T == {m \in Nat : \E g : Doubles(m, g)}
<1>1. 0 \in T
  <2>1. Doubles(0, [k \in 0 .. 0 |-> 1])
    BY DEF Doubles
  <2> QED BY <2>1
<1>2. ASSUME NEW m \in T PROVE m + 1 \in T
  <2>1. PICK g : Doubles(m, g)
    OBVIOUS
  <2> DEFINE h == [k \in 0 .. m + 1 |-> IF k = 0 THEN 1 ELSE 2 * g[k - 1]]
  <2>2. m \in Nat
    OBVIOUS
  <2>3. ASSUME NEW k \in 0 .. m PROVE h[k] = g[k]
    BY <2>1, <2>2 DEF Doubles
  <2>4. ASSUME NEW k \in 0 .. m + 1, k # 0 PROVE h[k - 1] = g[k - 1]
    <3>1. k - 1 \in 0 .. m
      BY <2>2, <2>4
    <3> QED BY <2>3, <3>1
  <2>5. Doubles(m + 1, h)
    BY <2>4 DEF Doubles
  <2> QED BY <2>2, <2>5
<1> HIDE DEF T
<1>3. T = Nat
  <2>1. T \in SUBSET Nat
    BY DEF T
  <2> QED BY <1>1, <1>2, <2>1, AllNumbers
<1> QED BY <1>3 DEF T

LEMMA PowIs ==
    /\ Pow2[0] = 1
    /\ \A k \in 0 .. WordBits : Pow2[k] \in Nat \ {0}
    /\ \A k \in Nat : k < WordBits => Pow2[k + 1] = 2 * Pow2[k]
<1>1. WordBits \in Nat
  BY HistogramAssumption
<1>2. Doubles(WordBits, Pow2)
  <2>1. \E g : Doubles(WordBits, g)
    BY <1>1, DoublesExist
  <2> QED BY <2>1 DEF Doubles, Pow2
<1>3. Pow2[0] = 1
  BY <1>1, <1>2 DEF Doubles
<1>4. ASSUME NEW k \in Nat, k < WordBits PROVE Pow2[k + 1] = 2 * Pow2[k]
  <2>1. k + 1 \in 0 .. WordBits /\ k + 1 # 0 /\ (k + 1) - 1 = k
    BY <1>1, <1>4
  <2> QED BY <1>2, <2>1 DEF Doubles
<1> DEFINE T == {k \in Nat : k <= WordBits => Pow2[k] \in Nat \ {0}}
<1>5. T = Nat
  <2>1. T \in SUBSET Nat /\ 0 \in T
    BY <1>3
  <2>2. ASSUME NEW k \in T PROVE k + 1 \in T
    <3>1. k \in Nat /\ k + 1 \in Nat
      OBVIOUS
    <3>2. ASSUME k + 1 <= WordBits PROVE Pow2[k + 1] \in Nat \ {0}
      <4>1. k < WordBits /\ k <= WordBits
        BY <1>1, <3>1, <3>2
      <4>2. Pow2[k] \in Nat \ {0} /\ Pow2[k + 1] = 2 * Pow2[k]
        BY <1>4, <3>1, <4>1
      <4> QED BY <4>2
    <3> QED BY <3>1, <3>2
  <2> HIDE DEF T
  <2> QED BY <2>1, <2>2, AllNumbers
<1>6. \A k \in 0 .. WordBits : Pow2[k] \in Nat \ {0}
  <2>1. TAKE k \in 0 .. WordBits
  <2>2. k \in Nat /\ k <= WordBits
    BY <1>1
  <2>3. k \in T
    BY <1>5, <2>2
  <2> QED BY <2>2, <2>3
<1> QED BY <1>3, <1>4, <1>6

LEMMA PowAdds ==
    ASSUME NEW a \in Nat, NEW b \in Nat, a + b <= WordBits
    PROVE  Pow2[a + b] = Pow2[a] * Pow2[b]
<1> DEFINE T == {n \in Nat : a + n <= WordBits => Pow2[a + n] = Pow2[a] * Pow2[n]}
<1>0. WordBits \in Nat
  BY HistogramAssumption
<1>1. 0 \in T
  <2>1. a + 0 = a
    OBVIOUS
  <2>2. ASSUME a + 0 <= WordBits PROVE Pow2[a + 0] = Pow2[a] * Pow2[0]
    <3>1. a \in 0 .. WordBits
      BY <1>0, <2>2
    <3>2. Pow2[a] \in Nat /\ Pow2[0] = 1
      BY <3>1, PowIs
    <3> QED BY <2>1, <3>2
  <2> QED BY <2>2
<1>2. ASSUME NEW n \in T PROVE n + 1 \in T
  <2>1. n \in Nat
    OBVIOUS
  <2>2. ASSUME a + (n + 1) <= WordBits PROVE Pow2[a + (n + 1)] = Pow2[a] * Pow2[n + 1]
    <3>1. a + n < WordBits /\ n < WordBits /\ a + (n + 1) = (a + n) + 1 /\ a + n \in Nat
          /\ a \in 0 .. WordBits /\ n \in 0 .. WordBits /\ a + n <= WordBits
      BY <1>0, <2>1, <2>2
    <3>2. Pow2[a + n] = Pow2[a] * Pow2[n]
      BY <3>1
    <3>3. Pow2[(a + n) + 1] = 2 * Pow2[a + n] /\ Pow2[n + 1] = 2 * Pow2[n]
      BY <2>1, <3>1, PowIs
    <3>4. Pow2[a] \in Nat /\ Pow2[n] \in Nat
      BY <3>1, PowIs
    <3>5. \A x, y \in Nat : 2 * (x * y) = x * (2 * y)
      OBVIOUS
    <3> HIDE DEF T
    <3>6. Pow2[(a + n) + 1] = Pow2[a] * (2 * Pow2[n])
      BY <3>2, <3>3, <3>4, <3>5
    <3> QED BY <3>1, <3>3, <3>6
  <2> QED BY <2>1, <2>2
<1>3. T = Nat
  <2>1. T \in SUBSET Nat
    OBVIOUS
  <2> HIDE DEF T
  <2> QED BY <1>1, <1>2, <2>1, AllNumbers
<1>4. b \in T
  BY <1>3
<1> QED BY <1>4

LEMMA PowGrows ==
    ASSUME NEW a \in Nat, NEW b \in Nat, a <= b, b <= WordBits
    PROVE  Pow2[a] <= Pow2[b]
<1>0. WordBits \in Nat
  BY HistogramAssumption
<1>1. b - a \in Nat /\ a + (b - a) = b /\ a \in 0 .. WordBits /\ b - a \in 0 .. WordBits
  BY <1>0
<1>2. PICK x \in Nat \ {0}, y \in Nat \ {0} : x = Pow2[a] /\ y = Pow2[b - a]
  BY <1>1, PowIs
<1>3. Pow2[b] = x * y
  BY <1>1, <1>2, PowAdds
<1>4. 1 * x <= y * x
  <2>1. 1 <= y
    BY <1>2
  <2> QED BY <1>2, <2>1, ProductGrows
<1>5. 1 * x = x /\ y * x = x * y
  OBVIOUS
<1> QED BY <1>2, <1>3, <1>4, <1>5

-----------------------------------------------------------------------------
(* The buckets.                                                            *)

\* What a sample may be.
Words == 0 .. Pow2[WordBits] - 1

\* Half, Linear and the number of bits fit together.
LEMMA Sizes ==
    /\ Half \in Nat \ {0} /\ Linear = 2 * Half
    /\ WordBits \in Nat /\ SubBits \in Nat /\ 1 <= SubBits /\ SubBits <= WordBits
    /\ Words \subseteq Nat
<1>1. WordBits \in Nat /\ SubBits \in Nat /\ 1 <= SubBits /\ SubBits <= WordBits
  BY HistogramAssumption
<1>2. SubBits - 1 \in Nat /\ SubBits - 1 < WordBits /\ SubBits - 1 \in 0 .. WordBits
      /\ (SubBits - 1) + 1 = SubBits
  BY <1>1
<1>3. Pow2[SubBits - 1] \in Nat \ {0} /\ Pow2[SubBits] = 2 * Pow2[SubBits - 1]
  BY <1>2, PowIs
<1> QED BY <1>1, <1>3 DEF Half, Linear, Words

\* The leading bit of a value that is not 0.
LEMMA TopBitIs ==
    ASSUME NEW v \in Words, v # 0
    PROVE  TopBit(v) \in 0 .. WordBits - 1 /\ Pow2[TopBit(v)] <= v /\ v < Pow2[TopBit(v) + 1]
<1> DEFINE T == {n \in 0 .. WordBits : v < Pow2[n]}
<1>1. WordBits \in Nat /\ v \in Nat /\ v < Pow2[WordBits] /\ Pow2[0] = 1
  <2>1. WordBits \in 0 .. WordBits /\ WordBits \in Nat
    BY Sizes
  <2>2. Pow2[WordBits] \in Nat
    BY <2>1, PowIs
  <2> QED BY <2>1, <2>2, PowIs DEF Words
<1>2. T # {} /\ T \in SUBSET Nat
  BY <1>1
<1>3. PICK n \in T : \A m \in T : n <= m
  <2> HIDE DEF T
  <2> QED BY <1>2, Least
<1>4. n \in 0 .. WordBits /\ v < Pow2[n]
  OBVIOUS
<1>5. n # 0
  BY <1>1, <1>4
<1>6. n - 1 \in 0 .. WordBits /\ n - 1 \in 0 .. WordBits - 1 /\ n - 1 < n /\ (n - 1) + 1 = n
  BY <1>1, <1>4, <1>5
<1>7. ~ (v < Pow2[n - 1])
  <2>1. n - 1 \notin T
    <3> HIDE DEF T
    <3> QED BY <1>3, <1>4, <1>6
  <2> QED BY <1>6, <2>1
<1>8. Pow2[n - 1] \in Nat
  BY <1>6, PowIs
<1>9. Pow2[n - 1] <= v /\ v < Pow2[(n - 1) + 1]
  BY <1>1, <1>4, <1>6, <1>7, <1>8
<1> HIDE DEF T
<1> QED BY <1>6, <1>9 DEF TopBit

\* The value v is above Linear: t is its leading bits, and s bits follow.
InOctave(v, s, t) ==
    /\ s \in 1 .. WordBits - SubBits
    /\ t \in Half .. 2 * Half - 1
    /\ Index(v) = 2 * Half + (s - 1) * Half + (t - Half)
    /\ t * Pow2[s] <= v /\ v < (t + 1) * Pow2[s]
    /\ Pow2[s + SubBits - 1] <= v /\ v < Pow2[s + SubBits]
    /\ Half * Pow2[s] <= v

LEMMA OctaveIs ==
    ASSUME NEW v \in Words, v >= Linear
    PROVE  \E s, t : InOctave(v, s, t)
<1>1. /\ v \in Nat /\ v # 0
      /\ Half \in Nat \ {0} /\ Linear = 2 * Half
      /\ WordBits \in Nat /\ SubBits \in Nat /\ 1 <= SubBits /\ SubBits <= WordBits
  BY Sizes
<1>2. PICK e : e = TopBit(v)
  OBVIOUS
<1>3. e \in 0 .. WordBits - 1 /\ Pow2[e] <= v /\ v < Pow2[e + 1]
  BY <1>1, <1>2, TopBitIs
<1>4. SubBits <= e
  <2>1. SUFFICES ASSUME e < SubBits PROVE FALSE
    BY <1>1, <1>3
  <2>2. e + 1 \in Nat /\ e + 1 <= SubBits /\ e + 1 \in 0 .. WordBits /\ SubBits \in 0 .. WordBits
    BY <1>1, <1>3, <2>1
  <2>3. Pow2[e + 1] <= Pow2[SubBits] /\ Pow2[e + 1] \in Nat /\ Pow2[SubBits] \in Nat
    BY <1>1, <2>2, PowGrows, PowIs
  <2> QED BY <1>1, <1>3, <2>3 DEF Linear
<1>5. PICK s : s = e - (SubBits - 1)
  OBVIOUS
<1>6. /\ s \in 1 .. WordBits - SubBits /\ s \in Nat /\ s \in 0 .. WordBits
      /\ e = s + SubBits - 1 /\ e + 1 = s + SubBits
  BY <1>1, <1>3, <1>4, <1>5
<1>7. PICK d \in Nat \ {0} : d = Pow2[s]
  BY <1>6, PowIs
<1>8. Pow2[e] = d * Half /\ Pow2[e + 1] = d * (2 * Half)
  <2>1. SubBits - 1 \in Nat /\ s + (SubBits - 1) = e /\ s + (SubBits - 1) <= WordBits
        /\ s + SubBits <= WordBits
    BY <1>1, <1>3, <1>6
  <2>2. Pow2[s + (SubBits - 1)] = Pow2[s] * Pow2[SubBits - 1] /\ Pow2[s + SubBits] = Pow2[s] * Pow2[SubBits]
    BY <1>1, <1>6, <2>1, PowAdds
  <2> QED BY <1>1, <1>6, <1>7, <2>1, <2>2 DEF Half, Linear
<1>9. PICK t : t = v \div d
  OBVIOUS
<1>10. t \in Nat /\ t * d <= v /\ v < (t + 1) * d
  BY <1>1, <1>9, QuotientIs
<1>11. d * Half = Half * d /\ d * (2 * Half) = (2 * Half) * d
  BY <1>1
<1>12. Half * d <= v /\ v < (2 * Half) * d
  BY <1>3, <1>8, <1>11
<1>13. Half < t + 1 /\ t < 2 * Half
  <2>1. Half * d \in Int /\ (t + 1) * d \in Int /\ t * d \in Int /\ (2 * Half) * d \in Int
    BY <1>1, <1>10
  <2>2. Half * d < (t + 1) * d /\ t * d < (2 * Half) * d
    BY <1>1, <1>10, <1>12, <2>1
  <2> QED BY <1>1, <1>10, <2>2, ProductCancels
<1>14. t \in Half .. 2 * Half - 1
  BY <1>1, <1>10, <1>13
<1>15. Index(v) = 2 * Half + (s - 1) * Half + (t - Half)
  <2>1. ~ (v < Linear)
    BY <1>1
  <2> QED BY <1>1, <1>2, <1>5, <1>7, <1>9, <2>1 DEF Index
<1>16. InOctave(v, s, t)
  BY <1>3, <1>6, <1>7, <1>10, <1>12, <1>14, <1>15 DEF InOctave
<1> QED BY <1>16

\* What the bucket of an octave says of it.
LEMMA BucketIs ==
    ASSUME NEW i, NEW s \in Nat \ {0}, NEW t \in Half .. 2 * Half - 1,
           i = 2 * Half + (s - 1) * Half + (t - Half)
    PROVE  /\ i \in Nat /\ i >= Linear
           /\ i < 2 * Half + s * Half
           /\ i >= 2 * Half + (s - 1) * Half
           /\ LowerBound(i) = t * Pow2[s]
           /\ UpperBound(i) = (t + 1) * Pow2[s] - 1
<1>1. Half \in Nat \ {0} /\ Linear = 2 * Half
  BY Sizes
<1>2. PICK m \in Nat : m = (s - 1) * Half
  BY <1>1
<1>3. s * Half = m + Half
  BY <1>1, <1>2
<1>4. PICK r \in 0 .. Half - 1 : r = t - Half
  BY <1>1
<1>5. i = 2 * Half + m + r
  BY <1>2, <1>4
<1>6. i \in Nat /\ i >= Linear /\ i < 2 * Half + s * Half /\ i >= 2 * Half + (s - 1) * Half
  BY <1>1, <1>2, <1>3, <1>4, <1>5
<1>7. i - Linear = m + r
  BY <1>1, <1>4, <1>5
<1>8. (i - Linear) \div Half = s - 1 /\ (i - Linear) % Half = r
  <2>1. PICK j \in Nat, q \in Nat, d \in Nat \ {0} : j = i - Linear /\ q = s - 1 /\ d = Half
    BY <1>1, <1>7, <1>2, <1>4
  <2>2. j = q * d + r /\ r \in 0 .. d - 1
    BY <1>2, <1>4, <1>7, <2>1
  <2>3. Divides(j, d, q, r)
    BY <2>2, DivideSum
  <2> QED BY <2>1, <2>3 DEF Divides
<1>9. Shift(i) = s /\ Leading(i) = t
  <2>1. (s - 1) + 1 = s /\ Half + r = t
    BY <1>1, <1>4
  <2> QED BY <1>8, <2>1 DEF Shift, Leading
<1>10. ~ (i < Linear)
  BY <1>1, <1>6
<1> QED BY <1>6, <1>9, <1>10 DEF LowerBound, UpperBound

\* A value is in its bucket, whose end is above it by no more than one part in Half.
LEMMA BoundsHold ==
    ASSUME NEW v \in Words
    PROVE  /\ Index(v) \in 0 .. Buckets - 1
           /\ UpperBound(Index(v)) \in Nat
           /\ LowerBound(Index(v)) <= v /\ v <= UpperBound(Index(v))
           /\ (UpperBound(Index(v)) - v) * Half <= v
<1>1. /\ v \in Nat
      /\ Half \in Nat \ {0} /\ Linear = 2 * Half
      /\ WordBits \in Nat /\ SubBits \in Nat /\ 1 <= SubBits /\ SubBits <= WordBits
  BY Sizes
<1>2. Buckets = 2 * Half + (WordBits - SubBits) * Half /\ Buckets \in Nat /\ Buckets >= 2 * Half
  <2>1. (WordBits - SubBits) * Half \in Nat
    BY <1>1
  <2> QED BY <1>1, <2>1 DEF Buckets
<1>3. CASE v < Linear
  <2>1. Index(v) = v /\ LowerBound(v) = v /\ UpperBound(v) = v
    BY <1>3 DEF Index, LowerBound, UpperBound
  <2>2. (v - v) * Half = 0
    BY <1>1
  <2> QED BY <1>1, <1>2, <1>3, <2>1, <2>2
<1>4. CASE v >= Linear
  <2>1. PICK s, t : InOctave(v, s, t)
    BY <1>4, OctaveIs
  <2>2. s \in Nat \ {0} /\ s <= WordBits - SubBits /\ t \in Half .. 2 * Half - 1 /\ s \in 0 .. WordBits
    BY <1>1, <2>1 DEF InOctave
  <2>3. PICK i : i = Index(v)
    OBVIOUS
  <2>4. i = 2 * Half + (s - 1) * Half + (t - Half)
    BY <2>1, <2>3 DEF InOctave
  <2>5. /\ i \in Nat /\ i >= Linear /\ i < 2 * Half + s * Half
        /\ LowerBound(i) = t * Pow2[s] /\ UpperBound(i) = (t + 1) * Pow2[s] - 1
    BY <2>2, <2>4, BucketIs
  <2>6. i < Buckets
    <3>1. s * Half <= (WordBits - SubBits) * Half
      BY <1>1, <2>2, ProductGrows
    <3>2. s * Half \in Int /\ (WordBits - SubBits) * Half \in Int
      BY <1>1, <2>2
    <3> QED BY <1>1, <1>2, <2>5, <3>1, <3>2
  <2>7. PICK d \in Nat \ {0} : d = Pow2[s]
    BY <2>2, PowIs
  <2>8. t * d <= v /\ v < (t + 1) * d /\ Half * d <= v
    BY <2>1, <2>7 DEF InOctave
  <2>9. PICK x \in Nat, y \in Nat : x = t * d /\ y = Half * d
    BY <1>1, <2>2, <2>7
  <2>10. (t + 1) * d = x + d
    BY <1>1, <2>2, <2>7, <2>9
  <2>11. UpperBound(i) = x + d - 1 /\ LowerBound(i) = x
    BY <2>5, <2>7, <2>9, <2>10
  <2>12. PICK u \in Nat : u = x + d - 1
    BY <2>7
  <2>13. x <= v /\ v <= u /\ u - v \in Int /\ u - v <= d /\ y <= v
    BY <1>1, <2>7, <2>8, <2>9, <2>10, <2>12
  <2>14. (u - v) * Half <= d * Half
    BY <1>1, <2>7, <2>13, ProductGrows
  <2>15. d * Half = y /\ (u - v) * Half \in Int
    BY <1>1, <2>7, <2>9, <2>13
  <2>16. (u - v) * Half <= v
    BY <1>1, <2>9, <2>13, <2>14, <2>15
  <2>17. i \in 0 .. Buckets - 1
    BY <1>2, <2>5, <2>6
  <2> QED BY <2>3, <2>11, <2>12, <2>13, <2>16, <2>17
<1> QED BY <1>1, <1>3, <1>4

\* Larger values have no smaller buckets.
LEMMA IndexGrows ==
    ASSUME NEW u \in Words, NEW v \in Words, u <= v
    PROVE  Index(u) <= Index(v)
<1>1. /\ u \in Nat /\ v \in Nat
      /\ Half \in Nat \ {0} /\ Linear = 2 * Half
      /\ WordBits \in Nat /\ SubBits \in Nat /\ 1 <= SubBits /\ SubBits <= WordBits
  BY Sizes
<1>2. CASE v < Linear
  <2>1. u < Linear
    BY <1>1, <1>2
  <2> QED BY <1>2, <2>1 DEF Index
<1>3. CASE v >= Linear /\ u < Linear
  <2>1. PICK s, t : InOctave(v, s, t)
    BY <1>3, OctaveIs
  <2>2. s \in Nat \ {0} /\ t \in Half .. 2 * Half - 1 /\ Index(v) = 2 * Half + (s - 1) * Half + (t - Half)
    BY <1>1, <2>1 DEF InOctave
  <2>3. Index(v) \in Nat /\ Index(v) >= Linear
    BY <2>2, BucketIs
  <2>4. Index(u) = u
    BY <1>3 DEF Index
  <2> QED BY <1>1, <1>3, <2>3, <2>4
<1>4. CASE u >= Linear /\ v >= Linear
  <2>1. PICK s, t : InOctave(v, s, t)
    BY <1>4, OctaveIs
  <2>2. PICK r, q : InOctave(u, r, q)
    BY <1>4, OctaveIs
  <2>3. /\ s \in Nat \ {0} /\ s <= WordBits - SubBits /\ t \in Half .. 2 * Half - 1 /\ s \in 0 .. WordBits
        /\ Index(v) = 2 * Half + (s - 1) * Half + (t - Half)
        /\ v < (t + 1) * Pow2[s] /\ v < Pow2[s + SubBits]
    BY <1>1, <2>1 DEF InOctave
  <2>4. /\ r \in Nat \ {0} /\ r <= WordBits - SubBits /\ q \in Half .. 2 * Half - 1
        /\ Index(u) = 2 * Half + (r - 1) * Half + (q - Half)
        /\ q * Pow2[r] <= u /\ Pow2[r + SubBits - 1] <= u
    BY <1>1, <2>2 DEF InOctave
  <2>5. r <= s
    <3>1. SUFFICES ASSUME s < r PROVE FALSE
      BY <2>3, <2>4
    <3>2. /\ s + SubBits \in Nat /\ r + SubBits - 1 \in Nat
          /\ s + SubBits <= r + SubBits - 1 /\ r + SubBits - 1 <= WordBits
          /\ s + SubBits \in 0 .. WordBits /\ r + SubBits - 1 \in 0 .. WordBits
      BY <1>1, <2>3, <2>4, <3>1
    <3>3. Pow2[s + SubBits] <= Pow2[r + SubBits - 1]
      BY <3>2, PowGrows
    <3>4. Pow2[s + SubBits] \in Nat /\ Pow2[r + SubBits - 1] \in Nat
      BY <3>2, PowIs
    <3> QED BY <1>1, <2>3, <2>4, <3>3, <3>4
  <2>6. CASE r = s
    <3>1. PICK d \in Nat \ {0} : d = Pow2[s]
      BY <2>3, PowIs
    <3>2. q * d <= u /\ v < (t + 1) * d
      BY <2>3, <2>4, <2>6, <3>1
    <3>3. q \in Int /\ t + 1 \in Int /\ q * d \in Int /\ (t + 1) * d \in Int
      BY <1>1, <2>3, <2>4, <3>1
    <3>4. q * d < (t + 1) * d
      BY <1>1, <3>2, <3>3
    <3>5. q < t + 1
      BY <3>1, <3>3, <3>4, ProductCancels
    <3>6. PICK m \in Nat : m = (s - 1) * Half
      BY <1>1, <2>3
    <3>7. Index(u) = 2 * Half + m + (q - Half) /\ Index(v) = 2 * Half + m + (t - Half)
      BY <2>3, <2>4, <2>6, <3>6
    <3> QED BY <1>1, <2>3, <2>4, <3>5, <3>6, <3>7
  <2>7. CASE r < s
    <3>1. Index(u) \in Nat /\ Index(u) < 2 * Half + r * Half
      BY <2>4, BucketIs
    <3>2. Index(v) \in Nat /\ Index(v) >= 2 * Half + (s - 1) * Half
      BY <2>3, BucketIs
    <3>3. r * Half <= (s - 1) * Half
      <4>1. r \in Int /\ s - 1 \in Int /\ r <= s - 1
        BY <2>3, <2>4, <2>7
      <4> QED BY <1>1, <4>1, ProductGrows
    <3>4. r * Half \in Int /\ (s - 1) * Half \in Int
      BY <1>1, <2>3, <2>4
    <3> QED BY <1>1, <3>1, <3>2, <3>3, <3>4
  <2> QED BY <2>3, <2>4, <2>5, <2>6, <2>7
<1> QED BY <1>1, <1>2, <1>3, <1>4

-----------------------------------------------------------------------------
(* The histogram holds the samples.                                        *)

\* The samples of the buckets up to i.
UpTo(i) == {u \in Samples : Index(u) <= i}

Histograms == [counts : [0 .. Buckets - 1 -> Nat], count : Nat, min : Words, max : Words]

\* The histogram h is that of the samples that were taken as often as t says.
Holds(h, t) ==
    /\ h \in Histograms
    /\ t \in [Samples -> Nat]
    /\ h.count = Total(t, Samples)
    /\ \A i \in 0 .. Buckets - 1 : Total(h.counts, 0 .. i) = Total(t, UpTo(i))
    /\ \A v \in Samples : t[v] > 0 => h.min <= v /\ v <= h.max
    /\ h.count > 0 => /\ h.min \in Samples /\ t[h.min] > 0
                      /\ h.max \in Samples /\ t[h.max] > 0
    /\ h.count = 0 => h.min = Pow2[WordBits] - 1 /\ h.max = 0

LEMMA SamplesAre ==
    /\ Samples \subseteq Words /\ Words \subseteq Nat
    /\ \A S \in SUBSET Samples : IsFiniteSet(S)
    /\ Buckets \in Nat \ {0}
    /\ \A i \in 0 .. Buckets - 1 : IsFiniteSet(0 .. i) /\ 0 .. i \subseteq 0 .. Buckets - 1
<1>1. Samples \subseteq Words
  BY ReplayAssumption DEF Words
<1>2. Words \subseteq Nat /\ WordBits \in Nat
  BY Sizes
<1>3. Pow2[WordBits] \in Nat \ {0}
  <2>1. WordBits \in 0 .. WordBits
    BY <1>2
  <2> QED BY <2>1, PowIs
<1>4. IsFiniteSet(Words)
  <2>1. 0 \in Int /\ Pow2[WordBits] - 1 \in Int
    BY <1>3
  <2> QED BY <2>1, FS_Interval DEF Words
<1>5. \A S \in SUBSET Samples : IsFiniteSet(S)
  <2>1. TAKE S \in SUBSET Samples
  <2>2. S \in SUBSET Words
    BY <1>1
  <2> QED BY <1>4, <2>2, FS_Subset
<1>6. Buckets \in Nat \ {0}
  <2>1. (WordBits - SubBits) * Half \in Nat /\ Half \in Nat \ {0} /\ Linear = 2 * Half
    BY Sizes
  <2> QED BY <2>1 DEF Buckets
<1>7. \A i \in 0 .. Buckets - 1 : IsFiniteSet(0 .. i) /\ 0 .. i \subseteq 0 .. Buckets - 1
  <2>1. TAKE i \in 0 .. Buckets - 1
  <2>2. i \in Int /\ 0 \in Int /\ 0 .. i \subseteq 0 .. Buckets - 1
    BY <1>6
  <2> QED BY <2>2, FS_Interval
<1> QED BY <1>1, <1>2, <1>5, <1>6, <1>7

\* A sum of nothing but zeros.
LEMMA TotalZero ==
    ASSUME NEW f, NEW S, IsFiniteSet(S), \A r \in S : f[r] = 0
    PROVE  Total(f, S) = 0
<1>1. {} \in SUBSET S /\ \A r \in S : f[r] \in Nat
  OBVIOUS
<1>2. Total(f, {}) = Total(f, S)
  BY <1>1, TotalPart
<1> QED BY <1>2, TotalEmpty

LEMMA EmptyHolds == Holds(Empty, [v \in Samples |-> 0])
<1> DEFINE t == [v \in Samples |-> 0]
<1>1. Pow2[WordBits] - 1 \in Words /\ 0 \in Words
  <2>1. WordBits \in 0 .. WordBits
    BY Sizes
  <2>2. Pow2[WordBits] \in Nat \ {0}
    BY <2>1, PowIs
  <2> QED BY <2>2 DEF Words
<1>2. Empty \in Histograms /\ Empty.count = 0 /\ \A j \in 0 .. Buckets - 1 : Empty.counts[j] = 0
  BY <1>1 DEF Empty, Histograms
<1>3. t \in [Samples -> Nat] /\ \A v \in Samples : t[v] = 0
  OBVIOUS
<1> HIDE DEF t
<1>4. Total(t, Samples) = 0
  BY <1>3, SamplesAre, TotalZero
<1>5. ASSUME NEW i \in 0 .. Buckets - 1 PROVE Total(Empty.counts, 0 .. i) = Total(t, UpTo(i))
  <2>1. UpTo(i) \in SUBSET Samples
    BY DEF UpTo
  <2>2. IsFiniteSet(UpTo(i)) /\ \A v \in UpTo(i) : t[v] = 0
    BY <1>3, <2>1, SamplesAre
  <2>3. IsFiniteSet(0 .. i) /\ \A j \in 0 .. i : Empty.counts[j] = 0
    BY <1>2, SamplesAre
  <2>4. Total(t, UpTo(i)) = 0 /\ Total(Empty.counts, 0 .. i) = 0
    BY <2>2, <2>3, TotalZero
  <2> QED BY <2>4
<1>6. Empty.min = Pow2[WordBits] - 1 /\ Empty.max = 0
  BY DEF Empty
<1>7. Holds(Empty, t)
  BY <1>2, <1>3, <1>4, <1>5, <1>6 DEF Holds
<1> QED BY <1>7 DEF t

\* Another sample v.
Taken(t, v) == [t EXCEPT ![v] = @ + 1]

LEMMA RecordHolds ==
    ASSUME NEW h, NEW t, Holds(h, t), NEW v \in Samples
    PROVE  Holds(Record(h, v), Taken(t, v))
<1>1. PICK g : g = Record(h, v)
  OBVIOUS
<1>2. PICK u : u = Taken(t, v)
  OBVIOUS
<1>3. PICK k : k = Index(v)
  OBVIOUS
<1>4. v \in Words /\ v \in Nat /\ k \in 0 .. Buckets - 1
  BY <1>3, SamplesAre, BoundsHold
<1>5. h \in Histograms /\ t \in [Samples -> Nat] /\ Words \subseteq Nat
  BY SamplesAre DEF Holds
<1>6. /\ g = [counts |-> [h.counts EXCEPT ![k] = @ + 1], count |-> h.count + 1,
              min |-> Smaller(h.min, v), max |-> Larger(h.max, v)]
  BY <1>1, <1>3 DEF Record
<1>7. h.counts \in [0 .. Buckets - 1 -> Nat] /\ h.count \in Nat /\ h.min \in Words /\ h.max \in Words
  BY <1>5 DEF Histograms
<1>8. /\ [h.counts EXCEPT ![k] = @ + 1] \in [0 .. Buckets - 1 -> Nat]
      /\ Smaller(h.min, v) \in Words /\ Larger(h.max, v) \in Words
  <2>1. Smaller(h.min, v) \in Words /\ Larger(h.max, v) \in Words
    BY <1>4, <1>7, Zenon DEF Smaller, Larger
  <2>2. PICK c : c = h.counts
    OBVIOUS
  <2>3. c \in [0 .. Buckets - 1 -> Nat]
    BY <1>7, <2>2
  <2>4. c[k] + 1 \in Nat
    BY <1>4, <2>3
  <2>5. [c EXCEPT ![k] = c[k] + 1] \in [0 .. Buckets - 1 -> Nat]
    BY <1>4, <2>3, <2>4
  <2> QED BY <2>1, <2>2, <2>5
<1>9. g \in Histograms
  BY <1>6, <1>7, <1>8 DEF Histograms
<1>10. \A r \in Samples : u[r] = IF r = v THEN t[r] + 1 ELSE t[r]
  BY <1>2, <1>5 DEF Taken
<1>11. u \in [Samples -> Nat]
  BY <1>2, <1>5 DEF Taken
<1>12. \A S \in SUBSET Samples : Total(u, S) = IF v \in S THEN Total(t, S) + 1 ELSE Total(t, S)
  <2>1. TAKE S \in SUBSET Samples
  <2>2. IsFiniteSet(S) /\ \A r \in S : t[r] \in Nat /\ u[r] = IF r = v THEN t[r] + 1 ELSE t[r]
    BY <1>5, <1>10, SamplesAre
  <2> QED BY <2>2, TotalGrows
<1>13. g.count = Total(u, Samples)
  <2>1. Samples \in SUBSET Samples /\ v \in Samples
    OBVIOUS
  <2> QED BY <1>6, <1>12, <2>1 DEF Holds
<1>14. ASSUME NEW i \in 0 .. Buckets - 1 PROVE Total(g.counts, 0 .. i) = Total(u, UpTo(i))
  <2>1. PICK c : c = h.counts
    OBVIOUS
  <2>2. PICK d : d = g.counts
    OBVIOUS
  <2>3. IsFiniteSet(0 .. i) /\ 0 .. i \subseteq 0 .. Buckets - 1
    BY SamplesAre
  <2>4. \A r \in 0 .. i : c[r] \in Nat /\ d[r] = IF r = k THEN c[r] + 1 ELSE c[r]
    BY <1>6, <1>7, <2>1, <2>2, <2>3
  <2>5. Total(d, 0 .. i) = IF k \in 0 .. i THEN Total(c, 0 .. i) + 1 ELSE Total(c, 0 .. i)
    <3>1. PICK S : S = 0 .. i
      OBVIOUS
    <3>2. IsFiniteSet(S) /\ \A r \in S : c[r] \in Nat /\ d[r] = IF r = k THEN c[r] + 1 ELSE c[r]
      BY <2>3, <2>4, <3>1
    <3>3. Total(d, S) = IF k \in S THEN Total(c, S) + 1 ELSE Total(c, S)
      BY <3>2, TotalGrows
    <3> QED BY <3>1, <3>3
  <2>6. UpTo(i) \in SUBSET Samples /\ (v \in UpTo(i) <=> k \in 0 .. i)
    <3>1. k \in Nat /\ i \in Nat
      BY <1>4, SamplesAre
    <3> QED BY <1>3, <3>1 DEF UpTo
  <2>7. Total(c, 0 .. i) = Total(t, UpTo(i))
    BY <2>1 DEF Holds
  <2> QED BY <1>12, <2>2, <2>5, <2>6, <2>7
<1>15. h.min \in Nat /\ h.max \in Nat /\ g.min = Smaller(h.min, v) /\ g.max = Larger(h.max, v)
  BY <1>5, <1>6, <1>7
<1>16. ASSUME NEW w \in Samples, u[w] > 0 PROVE g.min <= w /\ w <= g.max
  <2>1. w \in Nat
    BY SamplesAre
  <2>2. CASE w = v
    BY <1>4, <1>15, <2>2 DEF Smaller, Larger
  <2>3. CASE w # v
    <3>1. t[w] > 0
      BY <1>10, <1>16, <2>3
    <3>2. h.min <= w /\ w <= h.max
      BY <3>1 DEF Holds
    <3> QED BY <1>4, <1>15, <2>1, <3>2 DEF Smaller, Larger
  <2> QED BY <2>2, <2>3
<1>17. u[v] > 0 /\ \A w \in Samples : t[w] > 0 => u[w] > 0
  <2>1. \A w \in Samples : t[w] \in Nat
    BY <1>5
  <2> QED BY <1>10, <2>1
<1>18. g.min \in Samples /\ u[g.min] > 0 /\ g.max \in Samples /\ u[g.max] > 0
  <2>1. CASE h.count > 0
    <3>1. h.min \in Samples /\ t[h.min] > 0 /\ h.max \in Samples /\ t[h.max] > 0
      BY <2>1 DEF Holds
    <3> QED BY <1>15, <1>17, <3>1 DEF Smaller, Larger
  <2>2. CASE ~ (h.count > 0)
    <3>1. Total(t, Samples) = 0
      BY <1>7, <2>2 DEF Holds
    <3>2. Total(u, Samples) = 1
      BY <1>12, <3>1
    <3>3. g.min = v /\ g.max = v
      <4>1. h.min = Pow2[WordBits] - 1 /\ h.max = 0
        BY <1>7, <2>2 DEF Holds
      <4>2. PICK top : top = Pow2[WordBits] - 1
        OBVIOUS
      <4>3. v \in 0 .. top /\ h.min = top /\ h.max = 0 /\ top \in Nat
        BY <1>4, <1>15, <4>1, <4>2 DEF Words
      <4> QED BY <1>15, <4>3 DEF Smaller, Larger
    <3> QED BY <1>17, <3>3
  <2> QED BY <2>1, <2>2
<1>19. g.count # 0
  BY <1>6, <1>7
<1>20. Holds(g, u)
  BY <1>9, <1>11, <1>13, <1>14, <1>16, <1>18, <1>19 DEF Holds
<1> QED BY <1>1, <1>2, <1>20

\* A non-empty set of samples has a greatest one.
LEMMA Greatest ==
    ASSUME NEW U \in SUBSET Samples, U # {}
    PROVE  \E u \in U : \A w \in U : w <= u
<1>1. PICK top \in Nat : top = Pow2[WordBits] - 1
  <2>1. WordBits \in 0 .. WordBits
    BY Sizes
  <2> QED BY <2>1, PowIs
<1>2. \A w \in U : w \in 0 .. top
  BY <1>1, SamplesAre DEF Words
<1> DEFINE T == {top - w : w \in U}
<1>3. PICK m \in T : \A n \in T : m <= n
  <2>1. T \in SUBSET Nat /\ T # {}
    BY <1>2
  <2> HIDE DEF T
  <2> QED BY <2>1, Least
<1>4. PICK u \in U : m = top - u
  OBVIOUS
<1>5. \A w \in U : w <= u
  <2>1. TAKE w \in U
  <2>2. m <= top - w
    BY <1>3
  <2> QED BY <1>2, <1>4, <2>2
<1> QED BY <1>5

-----------------------------------------------------------------------------
(* The percentiles.                                                        *)

\* What may be asked for, and what percentile() answers from the buckets.
Percentages == 0 .. 10000
Inner == 1 .. 9999

\* The histogram is not empty.
Sampled == Holds(hist, timed) /\ hist.count > 0

\* k is the least rank that covers p percent of n samples, but at least 1.
IsTarget(k, p, n) ==
    /\ k \in 1 .. n
    /\ \A a \in Nat : a >= k <=> a >= 1 /\ 10000 * a >= Asked(p, n)

\* What p percent of n samples ask for: at most one part more than they are, and
\* just what they are at both ends.
LEMMA AskedIs ==
    ASSUME NEW p \in Percentages, NEW n \in Nat
    PROVE  /\ Asked(p, n) \in Nat /\ p * n \in Nat /\ Asked(p, n) <= p * n + 1
           /\ p \notin Inner => Asked(p, n) = p * n
<1>1. PICK y \in Nat : y = p * n
  BY DEF Percentages
<1>2. Asked(p, n) = y + (IF <<p, n>> \in Carries THEN 1 ELSE 0)
  BY <1>1 DEF Asked
<1>3. <<p, n>> \in Carries => p \in Inner
  BY HistogramAssumption DEF Inner
<1> QED BY <1>1, <1>2, <1>3

LEMMA TargetIs ==
    ASSUME NEW p \in Inner, NEW n \in Nat \ {0}
    PROVE  IsTarget(Target(p, n), p, n)
<1>0. p \in Nat /\ p <= 9999 /\ p \in Percentages
  BY DEF Inner, Percentages
<1>1. PICK x \in Nat : x = Asked(p, n)
  BY <1>0, AskedIs
<1>2. x <= 9999 * n + 1
  <2>1. PICK m \in Nat : m = 9999
    OBVIOUS
  <2>2. p * n <= m * n
    BY <1>0, <2>1, ProductGrows
  <2>3. p * n \in Nat /\ x <= p * n + 1
    BY <1>0, <1>1, AskedIs
  <2> QED BY <2>1, <2>2, <2>3
<1>3. PICK c \in Nat : c = (x + 9999) \div 10000
  BY <1>1
<1>4. 10000 * c <= x + 9999 /\ x + 9999 < 10000 * c + 10000
  BY <1>3, Z3
<1>5. c <= n
  BY <1>2, <1>4
<1>6. Target(p, n) = Larger(c, 1)
  BY <1>1, <1>3 DEF Target
<1>7. Larger(c, 1) \in 1 .. n
  BY <1>5 DEF Larger
<1>8. ASSUME NEW a \in Nat PROVE a >= Larger(c, 1) <=> a >= 1 /\ 10000 * a >= x
  <2>1. a >= c <=> 10000 * a >= x
    BY <1>4
  <2> QED BY <2>1 DEF Larger
<1> QED BY <1>1, <1>6, <1>7, <1>8 DEF IsTarget

\* Everything taken.
LEMMA UpToMax ==
    ASSUME Sampled
    PROVE  /\ AtMost(hist.max) = hist.count
           /\ \A v \in Samples : AtMost(v) \in Nat /\ (timed[v] > 0 => AtMost(v) >= 1)
           /\ \A v \in Samples : v < hist.max => AtMost(v) < hist.count
<1>1. /\ hist.max \in Samples /\ timed[hist.max] > 0 /\ hist.count = Total(timed, Samples)
      /\ timed \in [Samples -> Nat] /\ \A v \in Samples : timed[v] > 0 => v <= hist.max
  BY DEF Sampled, Holds
<1> DEFINE A(v) == {u \in Samples : u <= v}
<1>2. IsFiniteSet(Samples) /\ \A v \in Samples : v \in Nat /\ timed[v] \in Nat
  BY <1>1, SamplesAre
<1>3. \A v \in Samples : A(v) \in SUBSET Samples /\ v \in A(v) /\ AtMost(v) = Total(timed, A(v))
  BY <1>2 DEF AtMost
<1>4. AtMost(hist.max) = hist.count
  <2>1. \A r \in Samples \ A(hist.max) : timed[r] = 0
    <3>1. TAKE r \in Samples \ A(hist.max)
    <3>2. ~ (timed[r] > 0)
      BY <1>1
    <3> QED BY <1>2, <3>2
  <2> HIDE DEF A
  <2> QED BY <1>1, <1>2, <1>3, <2>1, TotalPart
<1>5. ASSUME NEW v \in Samples PROVE AtMost(v) \in Nat /\ (timed[v] > 0 => AtMost(v) >= 1)
  <2>1. PICK S : S = A(v)
    OBVIOUS
  <2>2. S \in SUBSET Samples /\ v \in S /\ AtMost(v) = Total(timed, S)
    BY <1>3, <2>1
  <2>3. IsFiniteSet(S) /\ IsFiniteSet(S \ {v}) /\ \A r \in S : timed[r] \in Nat
    BY <1>2, <2>2, SamplesAre
  <2>4. Total(timed, S) = timed[v] + Total(timed, S \ {v})
    BY <2>2, <2>3, TotalWithout
  <2>5. Total(timed, S \ {v}) \in Nat
    BY <2>3, TotalType
  <2> QED BY <1>2, <2>2, <2>4, <2>5
<1>6. ASSUME NEW v \in Samples, v < hist.max PROVE AtMost(v) < hist.count
  <2>1. PICK S : S = A(v)
    OBVIOUS
  <2>2. PICK R : R = Samples \ {hist.max}
    OBVIOUS
  <2>3. S \in SUBSET R /\ AtMost(v) = Total(timed, S)
    BY <1>1, <1>2, <1>3, <1>6, <2>1, <2>2
  <2>4. R \in SUBSET Samples /\ IsFiniteSet(R) /\ \A r \in R : timed[r] \in Nat
    BY <1>2, <2>2, SamplesAre
  <2>5. Total(timed, S) <= Total(timed, R)
    BY <2>3, <2>4, TotalPart
  <2>6. Total(timed, Samples) = timed[hist.max] + Total(timed, R)
    BY <1>1, <1>2, <2>2, TotalWithout
  <2>7. Total(timed, R) \in Nat
    BY <2>4, TotalType
  <2>8. AtMost(v) \in Nat
    BY <1>5
  <2> QED BY <1>1, <1>2, <2>3, <2>5, <2>6, <2>7, <2>8
<1> QED BY <1>4, <1>5, <1>6

\* e is the sample of the nearest rank.
IsNearest(e, p) ==
    /\ e \in Samples
    /\ timed[e] > 0 /\ 10000 * AtMost(e) >= Asked(p, hist.count)
    /\ \A u \in Samples : u < e /\ timed[u] > 0 => 10000 * AtMost(u) < Asked(p, hist.count)

LEMMA NearestIs ==
    ASSUME Sampled, NEW p \in Percentages
    PROVE  IsNearest(NearestRank(p), p)
<1> DEFINE T == {v \in Samples : timed[v] > 0 /\ 10000 * AtMost(v) >= Asked(p, hist.count)}
<1>1. PICK n \in Nat \ {0} : n = hist.count
  BY DEF Sampled, Holds, Histograms
<1>2. PICK x \in Nat : x = Asked(p, n)
  BY <1>1, AskedIs
<1>3. hist.max \in T
  <2>1. hist.max \in Samples /\ timed[hist.max] > 0 /\ AtMost(hist.max) = n
    BY <1>1, UpToMax DEF Sampled, Holds
  <2>2. x <= 10000 * n
    <3>1. p * n \in Nat /\ x <= p * n + 1 /\ (p \notin Inner => x = p * n)
      BY <1>1, <1>2, AskedIs
    <3>2. PICK m \in Nat : m = IF p \in Inner THEN 9999 ELSE 10000
      OBVIOUS
    <3>3. p \in Int /\ p <= m
      <4>1. p \in Nat /\ p <= 10000 /\ (p \in Inner => p <= 9999)
        BY DEF Percentages, Inner
      <4> QED BY <3>2, <4>1
    <3>4. p * n <= m * n
      BY <3>2, <3>3, ProductGrows
    <3>5. CASE p \in Inner
      BY <1>1, <3>1, <3>2, <3>4, <3>5
    <3>6. CASE p \notin Inner
      BY <1>1, <3>1, <3>2, <3>4, <3>6
    <3> QED BY <3>5, <3>6
  <2> QED BY <1>1, <1>2, <2>1, <2>2
<1>4. T \in SUBSET Nat
  <2>1. T \subseteq Samples /\ Samples \subseteq Nat
    BY SamplesAre
  <2> HIDE DEF T
  <2> QED BY <2>1
<1>5. PICK e \in T : \A m \in T : e <= m
  <2> HIDE DEF T
  <2> QED BY <1>3, <1>4, Least
<1>6. ASSUME NEW u \in Samples, u < e, timed[u] > 0 PROVE 10000 * AtMost(u) < Asked(p, hist.count)
  <2>1. u \in Nat /\ e \in Nat /\ AtMost(u) \in Nat
    BY <1>4, SamplesAre, UpToMax
  <2>2. u \notin T
    <3> HIDE DEF T
    <3> QED BY <1>5, <1>6, <2>1
  <2>3. ~ (10000 * AtMost(u) >= x)
    BY <1>1, <1>2, <1>6, <2>2
  <2>4. 10000 * AtMost(u) < x
    BY <2>1, <2>3
  <2> QED BY <1>1, <1>2, <2>4
<1>7. IsNearest(e, p)
  BY <1>6 DEF IsNearest
<1>8. NearestRank(p) = CHOOSE v : v \in Samples /\ IsNearest(v, p)
  BY DEF NearestRank, IsNearest
<1> HIDE DEF T
<1>9. e \in Samples
  BY <1>7 DEF IsNearest
<1> QED BY <1>7, <1>8, <1>9

\* b is the bucket that percentile() stops at.
StopsAt(b, p) ==
    /\ b \in 0 .. Buckets - 1
    /\ Total(hist.counts, 0 .. b) >= Target(p, hist.count)
    /\ \A c \in 0 .. b - 1 : Total(hist.counts, 0 .. c) < Target(p, hist.count)

LEMMA PercentileIs ==
    ASSUME Sampled, NEW p \in Inner
    PROVE  \E b : StopsAt(b, p) /\ Percentile(hist, p) = Smaller(UpperBound(b), hist.max)
<1>1. PICK n \in Nat \ {0} : n = hist.count
  BY DEF Sampled, Holds, Histograms
<1>2. PICK k : k = Target(p, n)
  OBVIOUS
<1>3. k \in 1 .. n
  BY <1>2, TargetIs DEF IsTarget
<1> DEFINE Sum(i) == Total(hist.counts, 0 .. i)
           T == {i \in 0 .. Buckets - 1 : Sum(i) >= k}
<1>4. DOMAIN hist.counts = 0 .. Buckets - 1 /\ Buckets \in Nat \ {0}
  BY SamplesAre DEF Sampled, Holds, Histograms
<1>5. \A i \in 0 .. Buckets - 1 : Sum(i) \in Nat
  <2>1. TAKE i \in 0 .. Buckets - 1
  <2>2. \A j \in 0 .. i : hist.counts[j] \in Nat
    BY <1>4, SamplesAre DEF Sampled, Holds, Histograms
  <2> QED BY <2>2, SamplesAre, TotalType
<1>6. Buckets - 1 \in T
  <2>1. UpTo(Buckets - 1) = Samples
    <3>1. \A u \in Samples : Index(u) \in 0 .. Buckets - 1
      BY SamplesAre, BoundsHold
    <3>2. \A u \in Samples : Index(u) <= Buckets - 1
      BY <1>4, <3>1
    <3> QED BY <3>2 DEF UpTo
  <2>2. Buckets - 1 \in 0 .. Buckets - 1
    BY <1>4
  <2>3. Sum(Buckets - 1) = n
    BY <1>1, <2>1, <2>2 DEF Sampled, Holds
  <2> QED BY <1>3, <2>2, <2>3
<1>7. PICK b \in T : \A m \in T : b <= m
  <2>1. T \in SUBSET Nat
    BY <1>4
  <2> HIDE DEF T
  <2> QED BY <1>6, <2>1, Least
<1>8. b \in 0 .. Buckets - 1 /\ Sum(b) >= k
  OBVIOUS
<1>9. ASSUME NEW c \in 0 .. b - 1 PROVE Sum(c) < k
  <2>1. c \in 0 .. Buckets - 1 /\ c < b
    BY <1>4, <1>8, <1>9
  <2>2. c \notin T
    <3> HIDE DEF T
    <3> QED BY <1>7, <1>8, <1>4, <2>1
  <2>3. ~ (Sum(c) >= k) /\ Sum(c) \in Nat
    BY <1>5, <2>1, <2>2
  <2> HIDE DEF Sum
  <2> QED BY <1>3, <2>3
<1>10. StopsAt(b, p)
  BY <1>1, <1>2, <1>8, <1>9 DEF StopsAt
<1>11. PICK d : d = CHOOSE i : StopsAt(i, p)
  OBVIOUS
<1>12. StopsAt(d, p)
  BY <1>10, <1>11
<1>13. Percentile(hist, p) = Smaller(UpperBound(d), hist.max)
  <2>1. ~ (hist.count = 0) /\ ~ (p <= 0) /\ ~ (p >= 10000)
    BY <1>1 DEF Inner
  <2>2. d = CHOOSE i \in DOMAIN hist.counts :
                /\ Sum(i) >= Target(p, hist.count)
                /\ \A c \in 0 .. i - 1 : Sum(c) < Target(p, hist.count)
    BY <1>4, <1>11 DEF StopsAt
  <2> QED BY <2>1, <2>2 DEF Percentile
<1> QED BY <1>12, <1>13

\* percentile() stops at the bucket of the sample of the nearest rank.
LEMMA StopsThere ==
    ASSUME Sampled, NEW p \in Inner, NEW e, IsNearest(e, p),
           NEW b, StopsAt(b, p)
    PROVE  b = Index(e)
<1>1. PICK n \in Nat \ {0} : n = hist.count
  BY DEF Sampled, Holds, Histograms
<1>2. PICK x \in Nat : x = Asked(p, n)
  <2>1. p \in Percentages
    BY DEF Inner, Percentages
  <2> QED BY <1>1, <2>1, AskedIs
<1>3. PICK k : k = Target(p, n)
  OBVIOUS
<1>4. k \in 1 .. n /\ \A a \in Nat : a >= k <=> a >= 1 /\ 10000 * a >= x
  <2>1. IsTarget(k, p, n)
    BY <1>3, TargetIs
  <2> QED BY <1>2, <2>1 DEF IsTarget
<1>5. /\ \A v \in Samples : v \in Words /\ v \in Nat /\ timed[v] \in Nat /\ Index(v) \in 0 .. Buckets - 1
      /\ Buckets \in Nat \ {0}
      /\ \A S \in SUBSET Samples : /\ IsFiniteSet(S) /\ Total(timed, S) \in Nat
                                   /\ \A r \in S : timed[r] \in Nat
  <2>1. \A v \in Samples : v \in Words /\ v \in Nat /\ timed[v] \in Nat
    BY SamplesAre DEF Sampled, Holds
  <2>2. \A v \in Samples : Index(v) \in 0 .. Buckets - 1
    BY <2>1, BoundsHold
  <2>3. ASSUME NEW S \in SUBSET Samples
        PROVE  IsFiniteSet(S) /\ Total(timed, S) \in Nat /\ \A r \in S : timed[r] \in Nat
    <3>1. IsFiniteSet(S) /\ \A r \in S : timed[r] \in Nat
      BY <2>1, SamplesAre
    <3> QED BY <3>1, TotalType
  <2> QED BY <2>1, <2>2, <2>3, SamplesAre
<1>6. e \in Samples /\ timed[e] > 0 /\ 10000 * AtMost(e) >= x
  BY <1>1, <1>2 DEF IsNearest
<1>7. PICK i : i = Index(e)
  OBVIOUS
<1>8. i \in 0 .. Buckets - 1 /\ b \in 0 .. Buckets - 1 /\ i \in Nat /\ b \in Nat
  BY <1>5, <1>6, <1>7 DEF StopsAt
<1>9. \A j \in 0 .. Buckets - 1 : UpTo(j) \in SUBSET Samples /\ Total(hist.counts, 0 .. j) = Total(timed, UpTo(j))
  BY DEF Sampled, Holds, UpTo
<1>10. b <= i
  <2>1. PICK A : A = {u \in Samples : u <= e}
    BY Zenon
  <2>2. A \in SUBSET UpTo(i)
    BY <1>5, <1>6, <1>7, <2>1, IndexGrows DEF UpTo
  <2>3. AtMost(e) = Total(timed, A)
    BY <2>1 DEF AtMost
  <2>4. Total(timed, A) <= Total(timed, UpTo(i))
    BY <1>5, <1>8, <1>9, <2>2, TotalPart
  <2>5. AtMost(e) \in Nat /\ AtMost(e) >= 1
    BY <1>6, UpToMax
  <2>6. AtMost(e) >= k
    BY <1>4, <1>6, <2>5
  <2>7. Total(timed, UpTo(i)) \in Nat
    BY <1>5, <1>8, <1>9
  <2>8. Total(timed, UpTo(i)) >= k
    BY <1>4, <2>3, <2>4, <2>5, <2>6, <2>7
  <2>9. SUFFICES ASSUME i < b PROVE FALSE
    BY <1>8
  <2>10. i \in 0 .. b - 1
    BY <1>8, <2>9
  <2>11. Total(timed, UpTo(i)) < k
    BY <1>1, <1>3, <1>8, <1>9, <2>10 DEF StopsAt
  <2> QED BY <1>4, <2>7, <2>8, <2>11
<1>11. SUFFICES ASSUME b < i PROVE FALSE
  BY <1>7, <1>8, <1>10
<1>12. PICK B : B = UpTo(b)
  OBVIOUS
<1>13. B \in SUBSET Samples /\ Total(timed, B) \in Nat /\ Total(timed, B) >= k
  BY <1>1, <1>3, <1>5, <1>8, <1>9, <1>12 DEF StopsAt
<1>14. \A u \in B : u < e
  <2>1. TAKE u \in B
  <2>2. u \in Samples /\ Index(u) <= b /\ Index(u) \in Nat
    BY <1>5, <1>12 DEF UpTo
  <2>3. SUFFICES ASSUME e <= u PROVE FALSE
    BY <1>5, <1>6, <2>2
  <2>4. Index(e) <= Index(u)
    BY <1>5, <1>6, <2>2, <2>3, IndexGrows
  <2> QED BY <1>7, <1>8, <1>11, <2>2, <2>4
<1> DEFINE U == {u \in B : timed[u] > 0}
<1>15. U # {}
  <2>1. SUFFICES ASSUME U = {} PROVE FALSE
    OBVIOUS
  <2>2. \A r \in B : timed[r] = 0
    BY <1>5, <1>13, <2>1
  <2>3. Total(timed, B) = 0
    BY <1>5, <1>13, <2>2, TotalZero
  <2> QED BY <1>4, <1>13, <2>3
<1>16. PICK u \in U : \A w \in U : w <= u
  <2>1. U \in SUBSET Samples
    BY <1>13
  <2> HIDE DEF U
  <2> QED BY <1>15, <2>1, Greatest
<1>17. u \in Samples /\ u \in Nat /\ u < e /\ timed[u] > 0
  BY <1>5, <1>13, <1>14
<1>18. Total(timed, B) <= AtMost(u)
  <2>1. PICK A : A = {w \in Samples : w <= u}
    BY Zenon
  <2>2. U \in SUBSET A /\ U \in SUBSET B /\ A \in SUBSET Samples
    BY <1>13, <1>16, <2>1
  <2>3. \A r \in B \ U : timed[r] = 0
    <3>1. TAKE r \in B \ U
    <3>2. ~ (timed[r] > 0) /\ timed[r] \in Nat
      BY <1>5, <1>13
    <3> QED BY <3>2
  <2> HIDE DEF U
  <2>4. Total(timed, U) = Total(timed, B)
    BY <1>5, <1>13, <2>2, <2>3, TotalPart
  <2>5. Total(timed, U) <= Total(timed, A)
    BY <1>5, <2>2, TotalPart
  <2>6. AtMost(u) = Total(timed, A)
    BY <2>1 DEF AtMost
  <2> QED BY <2>4, <2>5, <2>6
<1>19. AtMost(u) \in Nat
  BY <1>17, UpToMax
<1>20. 10000 * AtMost(u) >= x
  <2>1. AtMost(u) >= k
    BY <1>4, <1>13, <1>18, <1>19
  <2> QED BY <1>4, <1>19, <2>1
<1>21. 10000 * AtMost(u) < x
  BY <1>1, <1>2, <1>17 DEF IsNearest
<1> QED BY <1>19, <1>20, <1>21

\* The percentile of p.
PercentileOf(p) ==
    LET exact == NearestRank(p)
    IN  /\ exact <= Percentile(hist, p)
        /\ (Percentile(hist, p) - exact) * Half <= exact
        /\ Percentile(hist, p) <= hist.max

LEMMA PercentileHolds ==
    ASSUME Sampled, NEW p \in Percentages
    PROVE  PercentileOf(p)
<1>1. PICK e : e = NearestRank(p)
  OBVIOUS
<1>2. IsNearest(e, p)
  BY <1>1, NearestIs
<1>3. e \in Samples /\ timed[e] > 0 /\ e \in Nat /\ e \in Words
  BY <1>2, SamplesAre DEF IsNearest
<1>4. /\ hist.min \in Samples /\ timed[hist.min] > 0 /\ hist.max \in Samples
      /\ hist.min <= e /\ e <= hist.max /\ hist.min \in Nat /\ hist.max \in Nat
  <2>1. hist.min \in Samples /\ timed[hist.min] > 0 /\ hist.max \in Samples
    BY DEF Sampled, Holds
  <2>2. hist.min <= e /\ e <= hist.max
    BY <1>3 DEF Sampled, Holds
  <2> QED BY <2>1, <2>2, SamplesAre
<1>5. Half \in Nat
  BY Sizes
<1>6. PICK q : q = Percentile(hist, p)
  OBVIOUS
<1>7. SUFFICES e <= q /\ (q - e) * Half <= e /\ q <= hist.max
  BY <1>1, <1>6 DEF PercentileOf
<1>8. CASE p = 0
  <2>1. q = hist.min
    <3>1. ~ (hist.count = 0)
      BY DEF Sampled, Holds, Histograms
    <3> QED BY <1>6, <1>8, <3>1 DEF Percentile
  <2>2. e <= hist.min
    <3>1. SUFFICES ASSUME hist.min < e PROVE FALSE
      BY <1>3, <1>4
    <3>2. 10000 * AtMost(hist.min) < Asked(p, hist.count)
      BY <1>2, <1>4, <3>1 DEF IsNearest
    <3>3. hist.count \in Nat /\ AtMost(hist.min) \in Nat
      BY <1>4, UpToMax DEF Sampled, Holds, Histograms
    <3>4. Asked(p, hist.count) = 0
      <4>1. p \notin Inner
        BY <1>8 DEF Inner
      <4>2. Asked(p, hist.count) = p * hist.count
        BY <3>3, <4>1, AskedIs
      <4> QED BY <1>8, <3>3, <4>2
    <3> QED BY <3>2, <3>3, <3>4
  <2>3. q = e
    BY <1>3, <1>4, <2>1, <2>2
  <2>4. (q - e) * Half = 0
    BY <1>3, <1>5, <2>3
  <2> QED BY <1>3, <1>4, <2>3, <2>4
<1>9. CASE p = 10000
  <2>1. q = hist.max
    <3>1. ~ (hist.count = 0)
      BY DEF Sampled, Holds, Histograms
    <3> QED BY <1>6, <1>9, <3>1 DEF Percentile
  <2>2. hist.max <= e
    <3>1. SUFFICES ASSUME e < hist.max PROVE FALSE
      BY <1>3, <1>4
    <3>2. AtMost(e) < hist.count /\ AtMost(e) \in Nat
      BY <1>3, <3>1, UpToMax
    <3>3. hist.count \in Nat /\ 10000 * AtMost(e) >= Asked(p, hist.count)
      BY <1>2 DEF IsNearest, Sampled, Holds, Histograms
    <3>4. Asked(p, hist.count) = 10000 * hist.count
      <4>1. p \notin Inner
        BY <1>9 DEF Inner
      <4>2. Asked(p, hist.count) = p * hist.count
        BY <3>3, <4>1, AskedIs
      <4> QED BY <1>9, <4>2
    <3> QED BY <3>2, <3>3, <3>4
  <2>3. q = e
    BY <1>3, <1>4, <2>1, <2>2
  <2>4. (q - e) * Half = 0
    BY <1>3, <1>5, <2>3
  <2> QED BY <1>3, <1>4, <2>3, <2>4
<1>10. CASE p \in Inner
  <2>1. PICK b : StopsAt(b, p) /\ q = Smaller(UpperBound(b), hist.max)
    BY <1>6, <1>10, PercentileIs
  <2>2. b = Index(e)
    BY <1>2, <1>10, <2>1, StopsThere
  <2>3. PICK u \in Nat : u = UpperBound(b)
    BY <1>3, <2>2, BoundsHold
  <2>4. e <= u /\ (u - e) * Half <= e
    BY <1>3, <2>2, <2>3, BoundsHold
  <2>5. q = u \/ q = hist.max
    BY <2>1, <2>3 DEF Smaller
  <2>6. q \in Nat /\ e <= q /\ q <= u /\ q <= hist.max
    BY <1>3, <1>4, <2>1, <2>3, <2>4 DEF Smaller
  <2>7. (q - e) * Half <= (u - e) * Half
    <3>1. q - e \in Int /\ u - e \in Int /\ q - e <= u - e
      BY <1>3, <2>6
    <3> QED BY <1>5, <3>1, ProductGrows
  <2>8. (q - e) * Half \in Int /\ (u - e) * Half \in Int
    BY <1>3, <1>5, <2>6
  <2> QED BY <1>3, <2>4, <2>6, <2>7, <2>8
<1> QED BY <1>8, <1>9, <1>10 DEF Percentages, Inner

\* To merge histograms is to record the samples of both in one.
LEMMA MergeHolds ==
    ASSUME NEW h, NEW t, Holds(h, t)
    PROVE  /\ \A v \in Samples : Merge(h, Record(Empty, v)) = Record(h, v)
           /\ Merge(h, Empty) = h /\ Merge(Empty, h) = h
<1>1. PICK top : top = Pow2[WordBits] - 1
  OBVIOUS
<1>2. top \in Nat /\ Words = 0 .. top
  <2>1. WordBits \in 0 .. WordBits
    BY Sizes
  <2>2. Pow2[WordBits] \in Nat \ {0}
    BY <2>1, PowIs
  <2> QED BY <1>1, <2>2 DEF Words
<1>3. PICK D : D = 0 .. Buckets - 1
  OBVIOUS
<1>4. PICK c \in [D -> Nat], n \in Nat, a \in 0 .. top, b \in 0 .. top :
          h = [counts |-> c, count |-> n, min |-> a, max |-> b]
  BY <1>2, <1>3 DEF Holds, Histograms
<1>5. n = 0 => a = top
  BY <1>1, <1>4 DEF Holds
<1>6. Empty = [counts |-> [i \in D |-> 0], count |-> 0, min |-> top, max |-> 0]
  BY <1>1, <1>3 DEF Empty
<1>7. \A i \in D : c[i] + 0 = c[i] /\ 0 + c[i] = c[i]
  BY <1>4
<1>8. Merge(h, Empty) = h
  <2>1. [i \in D |-> c[i] + [j \in D |-> 0][i]] = c
    BY <1>4, <1>7
  <2>2. n + 0 = n /\ Larger(b, 0) = b
    BY <1>4 DEF Larger
  <2>3. Merge(h, Empty) = [counts |-> [i \in D |-> c[i] + [j \in D |-> 0][i]], count |-> n + 0,
                           min |-> a, max |-> Larger(b, 0)]
    BY <1>4, <1>6 DEF Merge
  <2> QED BY <1>4, <2>1, <2>2, <2>3
<1>9. Merge(Empty, h) = h
  <2>1. [i \in D |-> [j \in D |-> 0][i] + c[i]] = c
    BY <1>4, <1>7
  <2>2. 0 + n = n /\ Larger(0, b) = b
    BY <1>4 DEF Larger
  <2>3. (IF n # 0 THEN Smaller(top, a) ELSE top) = a
    BY <1>2, <1>4, <1>5 DEF Smaller
  <2>4. Merge(Empty, h) = [counts |-> [i \in D |-> [j \in D |-> 0][i] + c[i]], count |-> 0 + n,
                           min |-> IF n # 0 THEN Smaller(top, a) ELSE top, max |-> Larger(0, b)]
    BY <1>4, <1>6 DEF Merge
  <2> QED BY <1>4, <2>1, <2>2, <2>3, <2>4
<1>10. ASSUME NEW v \in Samples PROVE Merge(h, Record(Empty, v)) = Record(h, v)
  <2>1. PICK k : k = Index(v)
    OBVIOUS
  <2>2. v \in 0 .. top /\ k \in D
    BY <1>2, <1>3, <2>1, SamplesAre, BoundsHold
  <2>3. PICK one : one = [[i \in D |-> 0] EXCEPT ![k] = @ + 1]
    BY Zenon
  <2>4. Smaller(top, v) = v /\ Larger(0, v) = v
    BY <1>2, <2>2 DEF Smaller, Larger
  <2>5. Record(Empty, v) = [counts |-> one, count |-> 0 + 1, min |-> v, max |-> v]
    BY <1>6, <2>1, <2>3, <2>4 DEF Record
  <2>6. [i \in D |-> c[i] + one[i]] = [c EXCEPT ![k] = @ + 1]
    <3>1. \A i \in D : one[i] = IF i = k THEN 1 ELSE 0
      BY <2>3
    <3>2. \A i \in D : c[i] + one[i] = [c EXCEPT ![k] = @ + 1][i]
      BY <1>4, <2>2, <3>1
    <3> QED BY <1>4, <3>2
  <2>7. Merge(h, Record(Empty, v))
            = [counts |-> [i \in D |-> c[i] + one[i]], count |-> n + (0 + 1),
               min |-> Smaller(a, v), max |-> Larger(b, v)]
    BY <1>4, <2>5 DEF Merge
  <2>8. Record(h, v) = [counts |-> [c EXCEPT ![k] = @ + 1], count |-> n + 1,
                        min |-> Smaller(a, v), max |-> Larger(b, v)]
    BY <1>4, <2>1 DEF Record
  <2>9. n + (0 + 1) = n + 1
    BY <1>4
  <2> QED BY <2>6, <2>7, <2>8, <2>9
<1> QED BY <1>8, <1>9, <1>10

\* What the histogram holds answers for every percentile.
LEMMA BoundHolds == Holds(hist, timed) => PercentileBound
<1>1. SUFFICES ASSUME Sampled
               PROVE  /\ \A p \in Percents : PercentileOf(p)
                      /\ \A v \in {u \in Samples : timed[u] > 0} :
                             LowerBound(Index(v)) <= v /\ v <= UpperBound(Index(v))
                      /\ \A v \in Samples : Merge(hist, Record(Empty, v)) = Record(hist, v)
                      /\ Merge(hist, Empty) = hist /\ Merge(Empty, hist) = hist
  BY DEF Sampled, PercentileBound, PercentileOf
<1>2. ASSUME NEW p \in Percents PROVE PercentileOf(p)
  <2>1. p \in Percentages
    BY ReplayAssumption DEF Percentages
  <2> QED BY <1>1, <2>1, PercentileHolds
<1>3. ASSUME NEW v \in Samples PROVE LowerBound(Index(v)) <= v /\ v <= UpperBound(Index(v))
  BY SamplesAre, BoundsHold
<1>4. Holds(hist, timed)
  BY <1>1 DEF Sampled
<1> QED BY <1>2, <1>3, <1>4, MergeHolds

\* Only timed records go into the histogram.
LEMMA HistogramStep ==
    ASSUME Holds(hist, timed), [Next]_vars
    PROVE  Holds(hist, timed)'
<1>1. CASE TimeRecord
  <2>1. PICK v \in Samples : hist' = Record(hist, v) /\ timed' = Taken(timed, v)
    BY <1>1 DEF TimeRecord, Taken
  <2>2. Holds(hist', timed')
    BY <2>1, RecordHolds
  <2> QED BY <2>2 DEF Holds, Histograms, UpTo
<1>2. CASE UNCHANGED <<hist, timed>>
  BY <1>2 DEF Holds, Histograms, UpTo
<1>3. ~ TimeRecord => UNCHANGED <<hist, timed>>
  BY DEF Next, Work, vars, BeginSlice, WarmUp, ParseRecord, EndSlice, EndFile, EndLatency,
         Interrupt, Finished
<1> QED BY <1>1, <1>2, <1>3

\* A percentile is less than one part in Half above the sample of the nearest rank,
\* or of the next one where the rank carries, for any samples, word size and
\* resolution, and histograms merge without loss.
THEOREM PercentilesBounded == Spec => []PercentileBound
<1>1. Init => Holds(hist, timed)
  BY EmptyHolds DEF Init
<1>2. Holds(hist, timed) /\ [Next]_vars => Holds(hist, timed)'
  BY HistogramStep
<1>3. Holds(hist, timed) => PercentileBound
  BY BoundHolds
<1> QED BY <1>1, <1>2, <1>3, PTL DEF Spec
=============================================================================
