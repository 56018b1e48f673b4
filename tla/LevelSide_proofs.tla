---------------------------- MODULE LevelSide_proofs --------------------------
(***************************************************************************)
(* Proofs about the stored side of a book, for any prices, shares, chunk   *)
(* sizes, chunk counts and initial capacities: first that both searches    *)
(* find the place of a key in a sorted array, then that the block moves    *)
(* shift, and last that the arrays implement the map of LevelMap.          *)
(***************************************************************************)
EXTENDS LevelSide, FiniteSetTheorems, SequenceTheorems, WellFoundedInduction, TLAPS

-----------------------------------------------------------------------------
(* Induction.                                                              *)

\* A non-empty set of numbers has a least one.
LEMMA Least ==
    ASSUME NEW T \in SUBSET Nat, T # {}
    PROVE  \E n \in T : \A m \in T : n <= m
<1> DEFINE R == {ss \in Nat \X Nat : ss[1] < ss[2]}
<1>1. IsWellFoundedOn(R, Nat)
  BY NatLessThanWellFounded DEF OpToRel
<1>2. \A x, y \in Nat : <<y, x>> \in R <=> y < x
  OBVIOUS
<1> HIDE DEF R
<1>3. T \subseteq Nat
  OBVIOUS
<1>4. PICK n \in T : \A m \in T : ~(<<m, n>> \in R)
  BY ONLY <1>1, <1>3, T # {}, WFMin, Zenon
<1>5. ASSUME NEW m \in T PROVE n <= m
  <2>1. m \in Nat /\ n \in Nat /\ ~(m < n)
    BY <1>2, <1>3, <1>4
  <2> QED BY ONLY <2>1
<1> QED BY <1>5

\* What holds of 0 and of the successor of every number it holds of, holds of all.
LEMMA AllNumbers ==
    ASSUME NEW T \in SUBSET Nat, 0 \in T, \A n \in T : n + 1 \in T
    PROVE  T = Nat
<1> DEFINE U == Nat \ T
<1>1. SUFFICES ASSUME U # {} PROVE FALSE
  OBVIOUS
<1>2. PICK n \in U : \A m \in U : n <= m
  <2>1. U \in SUBSET Nat
    OBVIOUS
  <2> HIDE DEF U
  <2> QED BY <1>1, <2>1, Least
<1>3. n \in Nat /\ n # 0 /\ n \notin T
  OBVIOUS
<1>4. n - 1 \in Nat /\ n - 1 < n /\ (n - 1) + 1 = n
  BY <1>3
<1>5. n - 1 \in T
  BY <1>2, <1>4
<1> QED BY <1>3, <1>4, <1>5

-----------------------------------------------------------------------------
(* The searches.                                                           *)

\* The keys below key are the first p of the n in array a.
Splits(a, n, key, p) ==
    /\ n \in Nat /\ p \in 0 .. n
    /\ \A i \in 0 .. n - 1 : (a[i] < key <=> i < p) /\ (a[i] >= key <=> p <= i)

\* The binary search by its definition,
Searches(a, n, key, g) ==
    g = [m \in 1 .. n |->
            [base \in 0 .. n - m |->
                IF m = 1 THEN IF a[base] < key THEN base + 1 ELSE base
                ELSE g[m - m \div 2][IF a[base + m \div 2] < key THEN base + m \div 2 ELSE base]]]

LEMMA SearchDef ==
    ASSUME NEW a, NEW n, NEW key
    PROVE  LowerBoundBranchless(a, n, key) = (CHOOSE g : Searches(a, n, key, g))[n][0]
BY DEF LowerBoundBranchless, Searches

\* and by its result: of the m keys from base on, those before p are below key.
Within(p, base, m) == IF p < base THEN base ELSE IF p > base + m THEN base + m ELSE p

\* A step halves the range and keeps the answer in it.
LEMMA SearchStep ==
    ASSUME NEW a, NEW n, NEW key, NEW p, Splits(a, n, key, p),
           NEW m \in 1 .. n, m # 1, NEW base \in 0 .. n - m
    PROVE  LET half == m \div 2
               b    == IF a[base + half] < key THEN base + half ELSE base
           IN  /\ m - half \in 1 .. n /\ m - half < m /\ b \in 0 .. n - (m - half)
               /\ Within(p, b, m - half) = Within(p, base, m)
<1> DEFINE half == m \div 2
<1>1. n \in Nat /\ m \in Nat /\ base \in Nat /\ p \in Nat /\ 1 < m /\ base + m <= n
  BY DEF Splits
<1>2. half \in Nat /\ 0 < half /\ half <= m - half /\ half < m
  BY <1>1
<1> HIDE DEF half
<1>3. base + half \in 0 .. n - 1
  BY <1>1, <1>2
<1>4. a[base + half] < key <=> base + half < p
  BY <1>3 DEF Splits
<1>5. CASE base + half < p
  BY <1>1, <1>2, <1>4, <1>5 DEF Within, half
<1>6. CASE ~(base + half < p)
  BY <1>1, <1>2, <1>4, <1>6 DEF Within, half
<1> QED BY <1>5, <1>6

\* The binary search finds the place of a key.
LEMMA BinarySearch ==
    ASSUME NEW a, NEW n, NEW key, NEW p, Splits(a, n, key, p), n # 0
    PROVE  LowerBoundBranchless(a, n, key) = p
<1> DEFINE Half(m) == m \div 2
           Next1(m, base) == IF a[base + Half(m)] < key THEN base + Half(m) ELSE base
           Last1(base) == IF a[base] < key THEN base + 1 ELSE base
           Row(g, m) == [base \in 0 .. n - m |->
                            IF m = 1 THEN Last1(base) ELSE g[m - Half(m)][Next1(m, base)]]
           h == [m \in 1 .. n |-> [base \in 0 .. n - m |-> Within(p, base, m)]]
<1>1. n \in Nat /\ 0 < n /\ p \in 0 .. n
  BY DEF Splits
<1>2. \A g : Searches(a, n, key, g) <=> g = [m \in 1 .. n |-> Row(g, m)]
  BY DEF Searches
<1>3. ASSUME NEW m \in 1 .. n, m # 1, NEW base \in 0 .. n - m
      PROVE  /\ m - Half(m) \in 1 .. n /\ m - Half(m) < m /\ Next1(m, base) \in 0 .. n - (m - Half(m))
             /\ Within(p, Next1(m, base), m - Half(m)) = Within(p, base, m)
  BY <1>3, SearchStep
<1>4. ASSUME NEW base \in 0 .. n - 1 PROVE Last1(base) = Within(p, base, 1)
  <2>1. a[base] < key <=> base < p
    BY DEF Splits
  <2>2. base \in Nat /\ p \in Nat
    BY <1>1
  <2> QED BY <2>1, <2>2 DEF Within
<1> HIDE DEF Half, Next1, Last1
<1>5. Searches(a, n, key, h)
  <2>1. ASSUME NEW m \in 1 .. n, NEW base \in 0 .. n - m
        PROVE  h[m][base] = IF m = 1 THEN Last1(base) ELSE h[m - Half(m)][Next1(m, base)]
    <3>1. CASE m = 1
      BY <1>4, <3>1
    <3>2. CASE m # 1
      BY <1>3, <3>2
    <3> QED BY <3>1, <3>2
  <2>2. h = [m \in 1 .. n |-> h[m]]
    OBVIOUS
  <2>3. ASSUME NEW m \in 1 .. n PROVE h[m] = Row(h, m)
    <3>1. h[m] = [base \in 0 .. n - m |-> h[m][base]]
      OBVIOUS
    <3> HIDE DEF h
    <3> QED BY ONLY <2>1, <3>1, m \in 1 .. n
  <2> HIDE DEF h, Row
  <2>4. h = [m \in 1 .. n |-> Row(h, m)]
    BY ONLY <2>2, <2>3
  <2> QED BY <1>2, <2>4
<1>6. PICK g : g = (CHOOSE f : Searches(a, n, key, f)) /\ Searches(a, n, key, g)
  BY <1>5
<1>7. ASSUME NEW m \in 1 .. n, NEW base \in 0 .. n - m
      PROVE  g[m][base] = IF m = 1 THEN Last1(base) ELSE g[m - Half(m)][Next1(m, base)]
  <2>1. g[m] = Row(g, m)
    <3> HIDE DEF Row
    <3> QED BY <1>2, <1>6
  <2> QED BY ONLY <2>1, base \in 0 .. n - m
<1> DEFINE Wrong == {m \in 1 .. n : \E base \in 0 .. n - m : g[m][base] # Within(p, base, m)}
<1>8. Wrong = {}
  <2>1. SUFFICES ASSUME Wrong # {} PROVE FALSE
    OBVIOUS
  <2>2. Wrong \in SUBSET Nat
    OBVIOUS
  <2>3. PICK m \in Wrong : \A k \in Wrong : m <= k
    <3> HIDE DEF Wrong
    <3> QED BY <2>1, <2>2, Least
  <2>4. m \in 1 .. n
    OBVIOUS
  <2>5. PICK base \in 0 .. n - m : g[m][base] # Within(p, base, m)
    OBVIOUS
  <2>6. CASE m = 1
    BY <1>4, <1>7, <2>4, <2>5, <2>6
  <2>7. CASE m # 1
    <3>1. /\ m - Half(m) \in 1 .. n /\ m - Half(m) < m
          /\ Next1(m, base) \in 0 .. n - (m - Half(m))
          /\ Within(p, Next1(m, base), m - Half(m)) = Within(p, base, m)
      BY <1>3, <2>4, <2>7
    <3>2. m - Half(m) \notin Wrong
      <4>1. \A k \in 1 .. n : k < m => ~(m <= k)
        BY <1>1, <2>4
      <4> QED BY <2>3, <3>1, <4>1
    <3>3. g[m - Half(m)][Next1(m, base)] = Within(p, Next1(m, base), m - Half(m))
      BY <3>1, <3>2
    <3> QED BY <1>7, <2>4, <2>5, <2>7, <3>1, <3>3
  <2> QED BY <2>6, <2>7
<1>9. g[n][0] = p
  <2>1. n \in 1 .. n /\ 0 \in 0 .. n - n
    BY <1>1
  <2>2. Within(p, 0, n) = p
    BY <1>1 DEF Within
  <2> QED BY <1>8, <2>1, <2>2
<1> QED BY <1>6, <1>9, SearchDef

\* A place among the first n keys is the place among the first m of them too.
LEMMA SplitsPrefix ==
    ASSUME NEW a, NEW n, NEW key, NEW p, Splits(a, n, key, p), NEW m \in p .. n
    PROVE  Splits(a, m, key, p)
BY DEF Splits

\* The keys of a chunk that are not below key lie behind p.
LEMMA ChunkCount ==
    ASSUME NEW a, NEW n, NEW key, NEW p, Splits(a, n, key, p),
           NEW base \in Nat, NEW i \in 0 .. n, base <= i,
           NEW e, e = IF base + Pad <= i THEN base + Pad ELSE i
    PROVE  GE(a, base, i, key) = IF p <= base THEN e - base ELSE IF p <= e THEN e - p ELSE 0
<1> DEFINE b == IF p <= base THEN base ELSE p
           S == {j \in base .. base + Pad - 1 : j < i /\ a[j] >= key}
<1>1. /\ n \in Nat /\ p \in Nat /\ i \in Nat /\ i <= n /\ Pad \in Nat
      /\ b \in Nat /\ e \in Nat /\ base <= e /\ e <= i
  BY LevelAssumption DEF Splits
<1>2. \A j \in base .. base + Pad - 1 : j < i => (a[j] >= key <=> p <= j)
  BY <1>1 DEF Splits
<1>3. S = b .. e - 1
  BY <1>1, <1>2
<1>4. Cardinality(b .. e - 1) = IF b > e - 1 THEN 0 ELSE (e - 1) - b + 1
  <2>1. b \in Int /\ e - 1 \in Int
    BY <1>1
  <2> HIDE DEF b
  <2> QED BY <2>1, FS_Interval
<1>5. (IF b > e - 1 THEN 0 ELSE (e - 1) - b + 1) =
          IF p <= base THEN e - base ELSE IF p <= e THEN e - p ELSE 0
  BY <1>1
<1> QED BY <1>3, <1>4, <1>5 DEF GE

\* The scalar search finds the place of a key.
LEMMA ScalarSearch ==
    ASSUME NEW a, NEW n, NEW key, NEW p, Splits(a, n, key, p)
    PROVE  ScalarLowerBoundFromBack(a, n, key) = p
<1> DEFINE stop  == IF n > Chunks * Pad THEN n - Chunks * Pad ELSE 0
           below == {i \in stop .. n - 1 : a[i] < key}
           left  == IF below = {} THEN stop ELSE Max(below) + 1
<1>1. n \in Nat /\ p \in Nat /\ p <= n
  BY DEF Splits
<1>2. stop \in Nat /\ stop <= n
  <2>1. PICK d \in Nat : d = Chunks * Pad
    BY LevelAssumption
  <2> QED BY <1>1, <2>1
<1> HIDE DEF stop
<1>3. below = stop .. p - 1
  BY <1>1, <1>2 DEF Splits
<1>4. left = IF p <= stop THEN stop ELSE p
  <2>1. CASE p <= stop
    BY <1>1, <1>2, <1>3, <2>1
  <2>2. CASE ~(p <= stop)
    <3>1. below # {} /\ p - 1 \in below /\ \A x \in below : x \in Nat /\ x <= p - 1
      BY <1>1, <1>2, <1>3, <2>2
    <3> HIDE DEF below
    <3>2. Max(below) \in below /\ \A y \in below : Max(below) >= y
      BY <3>1 DEF Max
    <3>3. Max(below) = p - 1
      BY <1>1, <3>1, <3>2
    <3> QED BY <1>1, <2>2, <3>1, <3>3
  <2> QED BY <2>1, <2>2
<1> HIDE DEF left
<1>5. CASE left > stop \/ left = 0
  <2>1. left = p
    BY <1>1, <1>2, <1>4, <1>5
  <2> QED BY <1>5, <2>1 DEF ScalarLowerBoundFromBack, left, stop
<1>6. CASE ~(left > stop \/ left = 0)
  <2>1. left \in p .. n /\ left # 0
    BY <1>1, <1>2, <1>4, <1>6
  <2>2. LowerBoundBranchless(a, left, key) = p
    BY <2>1, SplitsPrefix, BinarySearch
  <2> QED BY <1>6, <2>2 DEF ScalarLowerBoundFromBack, left, stop
<1> QED BY <1>5, <1>6

\* c chunks of Pad keys.
InChunks(c) == c * Pad

\* Chunks add up, and as many as fit in n keys do.
LEMMA ChunkSizes ==
    ASSUME NEW n \in Nat
    PROVE  /\ InChunks(0) = 0 /\ InChunks(1) = Pad
           /\ \A c \in Nat : InChunks(c) \in Nat /\ InChunks(c + 1) = InChunks(c) + Pad
           /\ n \div Pad \in Nat
           /\ \A c \in Nat : c <= n \div Pad <=> InChunks(c) <= n
           /\ n - InChunks(n \div Pad) < Pad
<1>1. Pad \in Nat /\ Pad > 0
  BY LevelAssumption
<1>2. InChunks(0) = 0 /\ InChunks(1) = Pad
  BY <1>1 DEF InChunks
<1>3. \A c \in Nat : InChunks(c) \in Nat /\ InChunks(c + 1) = InChunks(c) + Pad
  BY <1>1 DEF InChunks
<1>4. /\ n \div Pad \in Nat /\ n % Pad \in 0 .. Pad - 1
      /\ n = Pad * (n \div Pad) + (n % Pad)
  BY <1>1, Z3
<1>5. PICK q \in Nat : q = n \div Pad
  BY <1>4
<1>6. \A c, d \in Nat : c <= d => c * Pad <= d * Pad
  BY <1>1
<1>7. InChunks(q) <= n /\ n < InChunks(q + 1)
  BY <1>1, <1>3, <1>4, <1>5 DEF InChunks
<1>8. ASSUME NEW c \in Nat PROVE c <= q <=> InChunks(c) <= n
  <2>1. c <= q => InChunks(c) <= InChunks(q)
    BY <1>6 DEF InChunks
  <2>2. q + 1 <= c => InChunks(q + 1) <= InChunks(c)
    BY <1>6, <1>5 DEF InChunks
  <2> QED BY <1>3, <1>5, <1>7, <2>1, <2>2
<1> QED BY <1>1, <1>2, <1>3, <1>4, <1>5, <1>7, <1>8

\* What the search from the back has looked at: scanned chunks, of which those
\* in stops hold a key below the one searched for.
Scanned(n) == IF n \div Pad < Chunks THEN n \div Pad ELSE Chunks

Stops(a, n, key) ==
    {c \in 1 .. Scanned(n) : GE(a, n - InChunks(c), n, key) # Pad}

\* The chunks that stop the search are those that start before the place.
LEMMA StopsAre ==
    ASSUME NEW a, NEW n, NEW key, NEW p, Splits(a, n, key, p)
    PROVE  /\ Scanned(n) \in Nat /\ Scanned(n) <= n \div Pad
           /\ \A c \in 0 .. Scanned(n) : /\ c \in Nat /\ InChunks(c) \in Nat
                                         /\ n - InChunks(c) \in Nat
           /\ \A c \in 1 .. Scanned(n) : c \in Stops(a, n, key) <=> n - InChunks(c) < p
           /\ \A c \in Stops(a, n, key) : p <= n - InChunks(c) + Pad =>
                  GE(a, n - InChunks(c), n, key) = n - InChunks(c) + Pad - p
<1>1. n \in Nat /\ p \in Nat /\ p <= n /\ Pad \in Nat /\ Pad > 0 /\ Chunks \in Nat
  BY LevelAssumption DEF Splits
<1>2. n \div Pad \in Nat
  BY <1>1, ChunkSizes
<1>3. Scanned(n) \in Nat /\ Scanned(n) <= n \div Pad
  BY <1>1, <1>2 DEF Scanned
<1>4. ASSUME NEW c \in 0 .. Scanned(n)
      PROVE  c \in Nat /\ InChunks(c) \in Nat /\ n - InChunks(c) \in Nat
  <2>1. c \in Nat /\ c <= n \div Pad
    BY <1>2, <1>3
  <2>2. InChunks(c) \in Nat /\ InChunks(c) <= n
    BY <1>1, <2>1, ChunkSizes
  <2> QED BY <1>1, <2>1, <2>2
<1>5. ASSUME NEW c \in 1 .. Scanned(n)
      PROVE  GE(a, n - InChunks(c), n, key) =
                 IF p <= n - InChunks(c) THEN Pad
                 ELSE IF p <= n - InChunks(c) + Pad THEN n - InChunks(c) + Pad - p ELSE 0
  <2>1. c \in 0 .. Scanned(n) /\ c - 1 \in Nat /\ (c - 1) + 1 = c
    BY <1>3
  <2>2. InChunks(c) \in Nat /\ n - InChunks(c) \in Nat
    BY <1>4, <2>1
  <2>3. InChunks(c - 1) \in Nat /\ InChunks(c) = InChunks(c - 1) + Pad
    BY <1>1, <2>1, ChunkSizes
  <2>4. PICK base \in Nat : base = n - InChunks(c)
    BY <2>2
  <2>5. base <= n /\ base + Pad <= n /\ n \in 0 .. n
    BY <1>1, <2>2, <2>3, <2>4
  <2>6. GE(a, base, n, key) = IF p <= base THEN (base + Pad) - base
                              ELSE IF p <= base + Pad THEN (base + Pad) - p ELSE 0
    <3>1. PICK e : e = base + Pad
      OBVIOUS
    <3>2. base \in Nat /\ n \in 0 .. n /\ base <= n /\ e = IF base + Pad <= n THEN base + Pad ELSE n
      BY <2>5, <3>1
    <3>3. GE(a, base, n, key) = IF p <= base THEN e - base ELSE IF p <= e THEN e - p ELSE 0
      BY ONLY Splits(a, n, key, p), <3>2, ChunkCount
    <3> QED BY <3>1, <3>3
  <2>7. GE(a, base, n, key) = IF p <= base THEN Pad ELSE IF p <= base + Pad THEN base + Pad - p ELSE 0
    BY <1>1, <2>6
  <2> QED BY ONLY <2>4, <2>7
<1>6. ASSUME NEW c \in 1 .. Scanned(n)
      PROVE  c \in Stops(a, n, key) <=> n - InChunks(c) < p
  <2>1. n - InChunks(c) \in Nat
    BY <1>4
  <2>2. GE(a, n - InChunks(c), n, key) # Pad <=> n - InChunks(c) < p
    BY <1>1, <1>5, <2>1
  <2> QED BY <2>2 DEF Stops
<1>7. ASSUME NEW c \in Stops(a, n, key), p <= n - InChunks(c) + Pad
      PROVE  GE(a, n - InChunks(c), n, key) = n - InChunks(c) + Pad - p
  <2>1. c \in 1 .. Scanned(n)
    BY DEF Stops
  <2>2. ~(p <= n - InChunks(c))
    <3>1. n - InChunks(c) \in Nat
      BY <1>4, <2>1
    <3> QED BY <1>1, <1>6, <2>1, <3>1
  <2> QED BY <1>5, <1>7, <2>1, <2>2
<1> QED BY <1>3, <1>4, <1>6, <1>7

\* The search from the back finds the place of a key.
LEMMA SearchFromBack ==
    ASSUME NEW a, NEW n, NEW key, NEW p, Splits(a, n, key, p)
    PROVE  LowerBoundFromBack(a, n, key) = p
<1> DEFINE stops == Stops(a, n, key)
           rest  == n - InChunks(Scanned(n))
<1>1. LowerBoundFromBack(a, n, key) =
          IF stops # {} THEN n - InChunks(Min(stops)) + Pad - GE(a, n - InChunks(Min(stops)), n, key)
          ELSE IF rest >= Pad THEN LowerBoundBranchless(a, rest, key)
          ELSE rest - GE(a, 0, rest, key)
  BY DEF LowerBoundFromBack, Stops, Scanned, InChunks
<1>2. n \in Nat /\ p \in Nat /\ p <= n /\ Pad \in Nat /\ Pad > 0
  BY LevelAssumption DEF Splits
<1>3. stops \in SUBSET Nat /\ stops \subseteq 1 .. Scanned(n)
  BY StopsAre DEF Stops
<1>4. CASE stops # {}
  <2>1. PICK c \in stops : \A d \in stops : c <= d
    <3> HIDE DEF stops
    <3> QED BY <1>3, <1>4, Least
  <2>2. Min(stops) = c
    <3>1. c \in Nat /\ \A x \in stops : x \in Nat
      BY <1>3
    <3> HIDE DEF stops
    <3>2. Min(stops) \in stops /\ \A y \in stops : Min(stops) <= y
      BY <2>1 DEF Min
    <3>3. c <= Min(stops) /\ Min(stops) <= c /\ Min(stops) \in Nat
      BY ONLY <2>1, <3>1, <3>2
    <3> QED BY ONLY <3>1, <3>3
  <2>3. c \in 1 .. Scanned(n) /\ c \in 0 .. Scanned(n) /\ c \in Nat /\ c - 1 \in 0 .. Scanned(n)
    BY <1>3, StopsAre
  <2>4. p <= n - InChunks(c) + Pad
    <3>1. /\ n - InChunks(c) \in Nat /\ n - InChunks(c - 1) \in Nat
          /\ InChunks(c) \in Nat /\ InChunks(c - 1) \in Nat
      BY <2>3, StopsAre
    <3>2. InChunks(c) = InChunks(c - 1) + Pad /\ InChunks(0) = 0
      <4>1. c - 1 \in Nat /\ (c - 1) + 1 = c
        BY <2>3
      <4> QED BY <1>2, <4>1, ChunkSizes
    <3>3. CASE c = 1
      BY <1>2, <3>1, <3>2, <3>3
    <3>4. CASE c # 1
      <4>1. c - 1 \in 1 .. Scanned(n) /\ ~(c <= c - 1)
        BY <2>3, <3>4
      <4>2. c - 1 \notin stops
        BY <2>1, <4>1
      <4>3. ~(n - InChunks(c - 1) < p)
        BY <4>1, <4>2, StopsAre
      <4> QED BY <1>2, <3>1, <3>2, <4>3
    <3> QED BY <3>3, <3>4
  <2>5. GE(a, n - InChunks(c), n, key) = n - InChunks(c) + Pad - p /\ n - InChunks(c) \in Nat
    BY <2>1, <2>3, <2>4, StopsAre
  <2>6. PICK base \in Nat : base = n - InChunks(c)
    BY <2>5
  <2>7. base + Pad - (base + Pad - p) = p
    BY <1>2
  <2> QED BY <1>1, <1>4, <2>2, <2>5, <2>6, <2>7
<1>5. CASE stops = {}
  <2>1. rest \in Nat /\ rest <= n /\ p <= rest
    <3>1. /\ Scanned(n) \in Nat /\ Scanned(n) \in 0 .. Scanned(n)
          /\ InChunks(Scanned(n)) \in Nat /\ rest \in Nat
      BY StopsAre
    <3>2. CASE Scanned(n) = 0
      <4>1. InChunks(Scanned(n)) = 0
        BY <1>2, <3>2, ChunkSizes
      <4> QED BY <1>2, <4>1
    <3>3. CASE Scanned(n) # 0
      <4>1. Scanned(n) \in 1 .. Scanned(n)
        BY <3>1, <3>3
      <4>2. ~(n - InChunks(Scanned(n)) < p)
        BY <1>5, <4>1, StopsAre
      <4> QED BY <1>2, <3>1, <4>2
    <3> QED BY <1>2, <3>1, <3>2, <3>3
  <2> HIDE DEF rest, stops
  <2>2. Splits(a, rest, key, p)
    BY <1>2, <2>1, SplitsPrefix
  <2>3. CASE rest >= Pad
    <3>1. rest # 0
      BY <1>2, <2>3
    <3> QED BY <1>1, <1>5, <2>2, <2>3, <3>1, BinarySearch
  <2>4. CASE ~(rest >= Pad)
    <3>1. GE(a, 0, rest, key) = IF p <= 0 THEN rest - 0 ELSE IF p <= rest THEN rest - p ELSE 0
      <4>1. /\ 0 \in Nat /\ rest \in 0 .. rest /\ 0 <= rest
            /\ rest = IF 0 + Pad <= rest THEN 0 + Pad ELSE rest
        BY <1>2, <2>1, <2>4
      <4> QED BY ONLY <2>2, <4>1, ChunkCount
    <3>2. rest - GE(a, 0, rest, key) = p
      BY <1>2, <2>1, <3>1
    <3> QED BY <1>1, <1>5, <2>4, <3>2
  <2> QED BY <2>3, <2>4
<1> QED BY <1>4, <1>5

-----------------------------------------------------------------------------
(* The block moves.                                                        *)

\* One block of a move upwards or downwards.
Move(up, m, b) == IF up THEN [a |-> CopyBlock(m.a, m.i - b + 1, m.i - b, b), i |-> m.i - b]
                  ELSE [a |-> CopyBlock(m.a, m.i, m.i + 1, b), i |-> m.i + b]

\* The element FoldLeft takes first.
Largest(S) == CHOOSE x \in S : \A y \in S : x >= y

\* g moves the blocks of s in every set in D.
Moves(up, base, s, D, g) ==
    g = [X \in D |-> IF X = {} THEN base ELSE Move(up, g[X \ {Largest(X)}], s[Largest(X)])]

\* The definitions of the folds.
LEMMA UpDef ==
    ASSUME NEW a, NEW pos, NEW n, NEW whole
    PROVE  LET s == Blocks(n, whole)
           IN  ShiftUp(a, pos, n, whole) =
                   (CHOOSE g : Moves(TRUE, [a |-> a, i |-> pos + n], s, SUBSET (DOMAIN s), g))[DOMAIN s].a
BY DEF ShiftUp, Moves, Move, Largest, FoldLeft, MapThenFoldSet, Max

LEMMA DownDef ==
    ASSUME NEW a, NEW pos, NEW n, NEW whole
    PROVE  LET s == Blocks(n, whole)
           IN  ShiftDown(a, pos, n, whole) =
                   (CHOOSE g : Moves(FALSE, [a |-> a, i |-> pos], s, SUBSET (DOMAIN s), g))[DOMAIN s].a
BY DEF ShiftDown, Moves, Move, Largest, FoldLeft, MapThenFoldSet, Max

\* The last of the first n blocks.
LEMMA LargestIs ==
    ASSUME NEW n \in Nat, NEW X \in SUBSET (1 .. n + 1), n + 1 \in X
    PROVE  Largest(X) = n + 1
<1>1. n + 1 \in X /\ \A y \in X : n + 1 >= y
  OBVIOUS
<1>2. Largest(X) \in X /\ \A y \in X : Largest(X) >= y
  BY <1>1 DEF Largest
<1>3. Largest(X) \in 1 .. n + 1 /\ Largest(X) >= n + 1
  BY <1>1, <1>2
<1> QED BY ONLY <1>3, n \in Nat

\* There are such moves.
LEMMA MovesExist ==
    ASSUME NEW up, NEW base, NEW s, NEW n \in Nat
    PROVE  \E g : Moves(up, base, s, SUBSET (1 .. n), g)
<1> DEFINE T == {m \in Nat : \E g : Moves(up, base, s, SUBSET (1 .. m), g)}
<1>1. 0 \in T
  <2>1. 1 .. 0 = {}
    OBVIOUS
  <2>2. Moves(up, base, s, SUBSET (1 .. 0), [X \in SUBSET (1 .. 0) |-> base])
    BY <2>1 DEF Moves
  <2> QED BY <2>2
<1>2. ASSUME NEW m \in T PROVE m + 1 \in T
  <2>1. PICK g : Moves(up, base, s, SUBSET (1 .. m), g)
    OBVIOUS
  <2> DEFINE h == [X \in SUBSET (1 .. m + 1) |->
                      IF m + 1 \in X THEN Move(up, g[X \ {m + 1}], s[m + 1]) ELSE g[X]]
             Step(X) == IF X = {} THEN base ELSE Move(up, h[X \ {Largest(X)}], s[Largest(X)])
  <2>2. m \in Nat /\ SUBSET (1 .. m) \subseteq SUBSET (1 .. m + 1)
    OBVIOUS
  <2>3. ASSUME NEW X \in SUBSET (1 .. m + 1) PROVE h[X] = Step(X)
    <3>1. CASE m + 1 \in X
      <4>1. Largest(X) = m + 1
        BY <2>2, <3>1, LargestIs
      <4>2. X \ {m + 1} \in SUBSET (1 .. m + 1) /\ m + 1 \notin X \ {m + 1} /\ X # {}
        BY <3>1
      <4>3. h[X \ {m + 1}] = g[X \ {m + 1}]
        BY <4>2
      <4> QED BY <3>1, <4>1, <4>2, <4>3
    <3>2. CASE m + 1 \notin X
      <4>0. \A x \in 1 .. m + 1 : x # m + 1 => x \in 1 .. m
        BY <2>2
      <4>1. X \in SUBSET (1 .. m) /\ X \ {Largest(X)} \in SUBSET (1 .. m)
        <5>1. \A x \in X : x \in 1 .. m
          BY <3>2, <4>0
        <5> HIDE DEF T
        <5> QED BY <5>1, Zenon
      <4>2. h[X] = g[X] /\ h[X \ {Largest(X)}] = g[X \ {Largest(X)}]
        BY <2>2, <4>1
      <4>3. g[X] = IF X = {} THEN base ELSE Move(up, g[X \ {Largest(X)}], s[Largest(X)])
        BY <2>1, <4>1 DEF Moves
      <4> QED BY <4>2, <4>3
    <3> QED BY <3>1, <3>2
  <2>4. h = [X \in SUBSET (1 .. m + 1) |-> h[X]]
    OBVIOUS
  <2> HIDE DEF h
  <2>5. Moves(up, base, s, SUBSET (1 .. m + 1), h)
    BY <2>3, <2>4 DEF Moves
  <2> QED BY <2>2, <2>5
<1> HIDE DEF T
<1>3. T = Nat
  <2>1. T \in SUBSET Nat
    BY DEF T
  <2> QED BY <1>1, <1>2, <2>1, AllNumbers
<1> QED BY <1>3 DEF T

\* The moves block by block: the state after each of the first n.
ByBlock(up, base, s, n, m) ==
    m[0] = base /\ \A j \in 1 .. n : m[j] = Move(up, m[j - 1], s[j])

MovesSoFar(g, n) == [j \in 0 .. n |-> g[1 .. j]]

LEMMA MoveByMove ==
    ASSUME NEW up, NEW base, NEW s, NEW n \in Nat, NEW g, Moves(up, base, s, SUBSET (1 .. n), g)
    PROVE  ByBlock(up, base, s, n, MovesSoFar(g, n))
<1>1. 1 .. 0 = {} /\ 1 .. 0 \in SUBSET (1 .. n)
  OBVIOUS
<1>2. g[1 .. 0] = base
  BY <1>1 DEF Moves
<1>3. ASSUME NEW j \in 1 .. n PROVE g[1 .. j] = Move(up, g[1 .. j - 1], s[j])
  <2>1. 1 .. j \in SUBSET (1 .. n) /\ 1 .. j # {} /\ j \in 1 .. j
    OBVIOUS
  <2>2. Largest(1 .. j) = j
    <3>1. j - 1 \in Nat /\ (j - 1) + 1 = j
      OBVIOUS
    <3> QED BY <2>1, <3>1, LargestIs
  <2>3. (1 .. j) \ {j} = 1 .. j - 1
    OBVIOUS
  <2> QED BY <2>1, <2>2, <2>3 DEF Moves
<1>4. 0 \in 0 .. n /\ \A j \in 1 .. n : j \in 0 .. n /\ j - 1 \in 0 .. n
  OBVIOUS
<1> QED BY <1>2, <1>3, <1>4 DEF ByBlock, MovesSoFar

\* So a shift is the last of a sequence of block moves.
MovedTo(up, base, s, k, r) == \E m : ByBlock(up, base, s, k, m) /\ r = m[k].a

LEMMA UpByBlock ==
    ASSUME NEW a, NEW pos, NEW n, NEW whole, NEW k \in Nat, DOMAIN Blocks(n, whole) = 1 .. k
    PROVE  MovedTo(TRUE, [a |-> a, i |-> pos + n], Blocks(n, whole), k, ShiftUp(a, pos, n, whole))
<1> DEFINE s == Blocks(n, whole)
           base == [a |-> a, i |-> pos + n]
<1>1. PICK g : g = (CHOOSE f : Moves(TRUE, base, s, SUBSET (1 .. k), f))
               /\ Moves(TRUE, base, s, SUBSET (1 .. k), g)
  <2> HIDE DEF s, base
  <2> QED BY MovesExist
<1>2. ShiftUp(a, pos, n, whole) = g[1 .. k].a
  BY <1>1, UpDef
<1> DEFINE m == MovesSoFar(g, k)
<1>3. m[k] = g[1 .. k]
  BY DEF MovesSoFar
<1> HIDE DEF s, base
<1>4. ByBlock(TRUE, base, s, k, m)
  BY <1>1, MoveByMove
<1> HIDE DEF m
<1>5. ByBlock(TRUE, base, s, k, m) /\ ShiftUp(a, pos, n, whole) = m[k].a
  BY ONLY <1>2, <1>3, <1>4
<1> QED BY <1>5 DEF s, base, MovedTo

LEMMA DownByBlock ==
    ASSUME NEW a, NEW pos, NEW n, NEW whole, NEW k \in Nat, DOMAIN Blocks(n, whole) = 1 .. k
    PROVE  MovedTo(FALSE, [a |-> a, i |-> pos], Blocks(n, whole), k, ShiftDown(a, pos, n, whole))
<1> DEFINE s == Blocks(n, whole)
           base == [a |-> a, i |-> pos]
<1>1. PICK g : g = (CHOOSE f : Moves(FALSE, base, s, SUBSET (1 .. k), f))
               /\ Moves(FALSE, base, s, SUBSET (1 .. k), g)
  <2> HIDE DEF s, base
  <2> QED BY MovesExist
<1>2. ShiftDown(a, pos, n, whole) = g[1 .. k].a
  BY <1>1, DownDef
<1> DEFINE m == MovesSoFar(g, k)
<1>3. m[k] = g[1 .. k]
  BY DEF MovesSoFar
<1> HIDE DEF s, base
<1>4. ByBlock(FALSE, base, s, k, m)
  BY <1>1, MoveByMove
<1> HIDE DEF m
<1>5. ByBlock(FALSE, base, s, k, m) /\ ShiftDown(a, pos, n, whole) = m[k].a
  BY ONLY <1>2, <1>3, <1>4
<1> QED BY <1>5 DEF s, base, MovedTo

\* The k blocks of s cover n elements: from[j] of them lie before block j + 1.
Covers(s, k, n, from) ==
    /\ from \in [0 .. k -> 0 .. n] /\ from[0] = 0 /\ from[k] = n
    /\ \A j \in 1 .. k : s[j] \in Nat /\ from[j] = from[j - 1] + s[j]

LEMMA BlocksCover ==
    ASSUME NEW n \in Nat, NEW whole \in {2, 4}
    PROVE  \E k \in Nat : /\ DOMAIN Blocks(n, whole) = 1 .. k
                          /\ \E from : Covers(Blocks(n, whole), k, n, from)
<1> DEFINE q == n \div whole
           r == n % whole
           A == [i \in 1 .. q |-> whole]
           B == IF r >= 2 THEN <<2>> ELSE <<>>
           C == IF n % 2 = 1 THEN <<1>> ELSE <<>>
           s == Blocks(n, whole)
           k == q + Len(B) + Len(C)
           from == [j \in 0 .. k |-> IF j <= q THEN whole * j ELSE IF j = k THEN n ELSE whole * q + 2]
<1>1. /\ q \in Nat /\ r \in 0 .. whole - 1 /\ n = whole * q + r
      /\ r = 2 * (IF r >= 2 THEN 1 ELSE 0) + (n % 2)
      /\ n % 2 \in {0, 1}
  <2>1. CASE whole = 2
    BY <2>1
  <2>2. CASE whole = 4
    BY <2>2
  <2> QED BY <2>1, <2>2
<1> HIDE DEF q, r
<1>2. /\ A \in Seq(Nat) /\ B \in Seq(Nat) /\ C \in Seq(Nat) /\ Len(A) = q
      /\ A \o B \in Seq(Nat) /\ s = (A \o B) \o C
  BY <1>1 DEF Blocks, q, r
<1>3. /\ Len(B) = IF r >= 2 THEN 1 ELSE 0
      /\ Len(C) = n % 2
      /\ \A j \in 1 .. Len(B) : B[j] = 2
      /\ \A j \in 1 .. Len(C) : C[j] = 1
  BY <1>1
<1> HIDE DEF B, C
<1>4. Len(B) \in Nat /\ Len(C) \in Nat /\ k \in Nat
  BY <1>1, <1>3
<1> HIDE DEF s
<1>5. /\ DOMAIN s = 1 .. k
      /\ \A j \in 1 .. k : s[j] = IF j <= q THEN whole ELSE IF j <= q + Len(B) THEN 2 ELSE 1
  <2> DEFINE AB == A \o B
  <2>1. /\ Len(AB) = q + Len(B)
        /\ \A j \in 1 .. q + Len(B) : AB[j] = IF j <= q THEN whole ELSE 2
    <3>1. /\ Len(AB) = Len(A) + Len(B)
          /\ \A j \in 1 .. Len(A) + Len(B) : AB[j] = IF j <= Len(A) THEN A[j] ELSE B[j - Len(A)]
      <4> HIDE DEF A
      <4> QED BY ONLY <1>2, ConcatProperties
    <3>2. \A j \in 1 .. q : A[j] = whole
      OBVIOUS
    <3> HIDE DEF A, AB
    <3>3. \A j \in 1 .. q + Len(B) : ~(j <= q) => j - q \in 1 .. Len(B)
      BY <1>1, <1>4
    <3> QED BY <1>1, <1>2, <1>3, <1>4, <3>1, <3>2, <3>3
  <2>2. AB \in Seq(Nat) /\ s = AB \o C
    BY <1>2
  <2> HIDE DEF AB, A
  <2>3. /\ Len(s) = Len(AB) + Len(C) /\ s \in Seq(Nat)
        /\ \A j \in 1 .. Len(AB) + Len(C) : s[j] = IF j <= Len(AB) THEN AB[j] ELSE C[j - Len(AB)]
    BY ONLY <1>2, <2>2, ConcatProperties
  <2>4. DOMAIN s = 1 .. k
    BY <2>1, <2>3
  <2>5. ASSUME NEW j \in 1 .. k
        PROVE  s[j] = IF j <= q THEN whole ELSE IF j <= q + Len(B) THEN 2 ELSE 1
    <3>1. CASE j <= q + Len(B)
      BY <1>1, <1>4, <2>1, <2>3, <3>1
    <3>2. CASE ~(j <= q + Len(B))
      <4>1. j - (q + Len(B)) \in 1 .. Len(C)
        BY <1>1, <1>4, <3>2
      <4> QED BY <1>1, <1>3, <1>4, <2>1, <2>3, <3>2, <4>1
    <3> QED BY <3>1, <3>2
  <2> QED BY <2>4, <2>5
<1>6. ASSUME NEW j \in 1 .. k PROVE s[j] \in Nat /\ from[j] = from[j - 1] + s[j]
  <2>1. CASE whole = 2
    BY <1>1, <1>3, <1>5, <2>1
  <2>2. CASE whole = 4
    BY <1>1, <1>3, <1>5, <2>2
  <2> QED BY <2>1, <2>2
<1>7. from \in [0 .. k -> 0 .. n] /\ from[0] = 0 /\ from[k] = n
  <2>1. CASE whole = 2
    BY <1>1, <1>3, <1>4, <2>1
  <2>2. CASE whole = 4
    BY <1>1, <1>3, <1>4, <2>2
  <2> QED BY <2>1, <2>2
<1> HIDE DEF from, k
<1>8. Covers(s, k, n, from)
  BY <1>6, <1>7 DEF Covers
<1> QED BY <1>4, <1>5, <1>8 DEF s

\* Array a holds c numbers.
IsArray(a, c) == a \in [0 .. c - 1 -> Nat]

\* a with the elements from lo to hi - 1 one place up, or those from lo + 1 to
\* hi one place down.
Lifted(a, lo, hi) == [x \in DOMAIN a |-> IF lo < x /\ x <= hi THEN a[x - 1] ELSE a[x]]

Lowered(a, lo, hi) == [x \in DOMAIN a |-> IF lo <= x /\ x < hi THEN a[x + 1] ELSE a[x]]

\* Every block is read where no block before it has been written.
LEMMA LiftBlock ==
    ASSUME NEW a, NEW c \in Nat, DOMAIN a = 0 .. c - 1,
           NEW lo \in Nat, NEW b \in Nat, NEW hi \in Nat, lo + b <= hi, hi < c
    PROVE  CopyBlock(Lifted(a, lo + b, hi), lo + 1, lo, b) = Lifted(a, lo, hi)
<1> DEFINE l == Lifted(a, lo + b, hi)
<1>1. DOMAIN l = DOMAIN a
  BY DEF Lifted
<1>2. ASSUME NEW x \in DOMAIN a
      PROVE  (IF lo + 1 <= x /\ x < lo + 1 + b THEN l[lo + x - (lo + 1)] ELSE l[x]) =
             IF lo < x /\ x <= hi THEN a[x - 1] ELSE a[x]
  <2>1. x \in Nat /\ x < c
    OBVIOUS
  <2>2. CASE lo + 1 <= x /\ x < lo + 1 + b
    <3>1. lo + x - (lo + 1) = x - 1 /\ x - 1 \in DOMAIN a /\ ~(lo + b < x - 1) /\ lo < x /\ x <= hi
      BY <2>1, <2>2
    <3>2. l[x - 1] = a[x - 1]
      BY <3>1 DEF Lifted
    <3> QED BY <2>2, <3>1, <3>2
  <2>3. CASE ~(lo + 1 <= x /\ x < lo + 1 + b)
    <3>1. (lo < x /\ x <= hi) <=> (lo + b < x /\ x <= hi)
      BY <2>1, <2>3
    <3>2. l[x] = IF lo + b < x /\ x <= hi THEN a[x - 1] ELSE a[x]
      BY DEF Lifted
    <3> QED BY <2>3, <3>1, <3>2
  <2> QED BY <2>2, <2>3
<1> HIDE DEF l
<1>3. CopyBlock(l, lo + 1, lo, b) = Lifted(a, lo, hi)
  BY <1>1, <1>2 DEF CopyBlock, Lifted
<1> QED BY <1>3 DEF l

LEMMA LowerBlock ==
    ASSUME NEW a, NEW c \in Nat, DOMAIN a = 0 .. c - 1,
           NEW lo \in Nat, NEW b \in Nat, NEW hi \in Nat, lo <= hi, hi + b < c
    PROVE  CopyBlock(Lowered(a, lo, hi), hi, hi + 1, b) = Lowered(a, lo, hi + b)
<1> DEFINE l == Lowered(a, lo, hi)
<1>1. DOMAIN l = DOMAIN a
  BY DEF Lowered
<1>2. ASSUME NEW x \in DOMAIN a
      PROVE  (IF hi <= x /\ x < hi + b THEN l[hi + 1 + x - hi] ELSE l[x]) =
             IF lo <= x /\ x < hi + b THEN a[x + 1] ELSE a[x]
  <2>1. x \in Nat /\ x < c
    OBVIOUS
  <2>2. CASE hi <= x /\ x < hi + b
    <3>1. hi + 1 + x - hi = x + 1 /\ x + 1 \in DOMAIN a /\ ~(x + 1 < hi) /\ lo <= x
      BY <2>1, <2>2
    <3>2. l[x + 1] = a[x + 1]
      BY <3>1 DEF Lowered
    <3> QED BY <2>2, <3>1, <3>2
  <2>3. CASE ~(hi <= x /\ x < hi + b)
    <3>1. (lo <= x /\ x < hi + b) <=> (lo <= x /\ x < hi)
      BY <2>1, <2>3
    <3>2. l[x] = IF lo <= x /\ x < hi THEN a[x + 1] ELSE a[x]
      BY DEF Lowered
    <3> QED BY <2>3, <3>1, <3>2
  <2> QED BY <2>2, <2>3
<1> HIDE DEF l
<1>3. CopyBlock(l, hi, hi + 1, b) = Lowered(a, lo, hi + b)
  BY <1>1, <1>2 DEF CopyBlock, Lowered
<1> QED BY <1>3 DEF l

\* The block moves shift the n elements from pos on, whatever overlaps.
LEMMA ShiftUpIs ==
    ASSUME NEW c \in Nat, NEW a, IsArray(a, c),
           NEW pos \in Nat, NEW n \in Nat, pos + n < c, NEW whole \in {2, 4}
    PROVE  ShiftUp(a, pos, n, whole) = Lifted(a, pos, pos + n)
<1> DEFINE s == Blocks(n, whole)
           hi == pos + n
           base == [a |-> a, i |-> hi]
<1>1. PICK k \in Nat : DOMAIN s = 1 .. k /\ \E f : Covers(s, k, n, f)
  BY BlocksCover
<1>2. PICK from : Covers(s, k, n, from)
  BY <1>1
<1>3. PICK m : ByBlock(TRUE, base, s, k, m) /\ ShiftUp(a, pos, n, whole) = m[k].a
  <2>1. k \in Nat /\ DOMAIN Blocks(n, whole) = 1 .. k
    BY <1>1
  <2>2. MovedTo(TRUE, base, s, k, ShiftUp(a, pos, n, whole))
    BY <2>1, UpByBlock
  <2> HIDE DEF s, base
  <2> QED BY <2>2 DEF MovedTo
<1>4. hi \in Nat /\ hi < c /\ hi = pos + n /\ DOMAIN a = 0 .. c - 1
  BY DEF IsArray
<1> HIDE DEF s, hi
<1> DEFINE At(j) == [a |-> Lifted(a, hi - from[j], hi), i |-> hi - from[j]]
           T == {j \in Nat : j <= k => m[j] = At(j)}
<1>5. 0 \in T
  <2>1. from[0] = 0 /\ hi - 0 = hi
    BY <1>2, <1>4 DEF Covers
  <2>2. Lifted(a, hi, hi) = a
    <3>1. \A x \in DOMAIN a : ~(hi < x /\ x <= hi)
      BY <1>4
    <3>2. a = [x \in DOMAIN a |-> a[x]]
      BY DEF IsArray
    <3> QED BY <3>1, <3>2 DEF Lifted
  <2>3. m[0] = base
    BY <1>3 DEF ByBlock
  <2> QED BY <2>1, <2>2, <2>3
<1>6. ASSUME NEW j \in T PROVE j + 1 \in T
  <2>1. SUFFICES ASSUME j + 1 <= k PROVE m[j + 1] = At(j + 1)
    OBVIOUS
  <2>2. j \in Nat /\ j <= k /\ j + 1 \in 1 .. k /\ (j + 1) - 1 = j /\ j \in 0 .. k /\ j + 1 \in 0 .. k
    BY <1>1, <2>1
  <2>3. m[j + 1] = Move(TRUE, At(j), s[j + 1])
    BY <1>3, <2>2 DEF ByBlock
  <2>4. /\ from[j] \in Nat /\ from[j + 1] \in Nat /\ from[j + 1] <= n /\ s[j + 1] \in Nat
        /\ from[j + 1] = from[j] + s[j + 1]
    BY <1>2, <2>2 DEF Covers
  <2>5. PICK b \in Nat, lo \in Nat : b = s[j + 1] /\ lo = hi - from[j + 1]
    BY <1>4, <2>4
  <2>6. /\ hi - from[j] = lo + b /\ lo + b <= hi
        /\ (lo + b) - b = lo /\ (lo + b) - b + 1 = lo + 1
    <3>1. PICK f \in Nat, e \in Nat : f = from[j] /\ e = from[j + 1]
      BY <2>4
    <3>2. e <= n /\ e = f + b /\ lo = hi - e
      BY <2>4, <2>5, <3>1
    <3>3. hi - f = lo + b /\ lo + b <= hi
      BY <1>4, <3>2
    <3> QED BY <3>1, <3>3
  <2>7. At(j) = [a |-> Lifted(a, lo + b, hi), i |-> lo + b]
    BY <2>6
  <2>8. At(j + 1) = [a |-> Lifted(a, lo, hi), i |-> lo]
    BY <2>5
  <2>9. CopyBlock(Lifted(a, lo + b, hi), lo + 1, lo, b) = Lifted(a, lo, hi)
    BY <1>4, <2>6, LiftBlock
  <2> HIDE DEF At
  <2>10. Move(TRUE, At(j), b) = [a |-> Lifted(a, lo, hi), i |-> lo]
    BY <2>6, <2>7, <2>9 DEF Move
  <2> QED BY <2>3, <2>5, <2>8, <2>10
<1> HIDE DEF T
<1>7. T = Nat
  <2>1. T \in SUBSET Nat
    BY DEF T
  <2> QED BY <1>5, <1>6, <2>1, AllNumbers
<1>8. m[k] = At(k)
  <2>1. k \in T /\ k <= k
    BY <1>1, <1>7
  <2> HIDE DEF At
  <2> QED BY ONLY <2>1 DEF T
<1>9. hi - from[k] = pos
  BY <1>2, <1>4 DEF Covers
<1>10. m[k].a = Lifted(a, pos, hi)
  BY ONLY <1>8, <1>9
<1> QED BY ONLY <1>3, <1>4, <1>10

LEMMA ShiftDownIs ==
    ASSUME NEW c \in Nat, NEW a, IsArray(a, c),
           NEW pos \in Nat, NEW n \in Nat, pos + n < c, NEW whole \in {2, 4}
    PROVE  ShiftDown(a, pos, n, whole) = Lowered(a, pos, pos + n)
<1> DEFINE s == Blocks(n, whole)
           base == [a |-> a, i |-> pos]
<1>1. PICK k \in Nat : DOMAIN s = 1 .. k /\ \E f : Covers(s, k, n, f)
  BY BlocksCover
<1>2. PICK from : Covers(s, k, n, from)
  BY <1>1
<1>3. PICK m : ByBlock(FALSE, base, s, k, m) /\ ShiftDown(a, pos, n, whole) = m[k].a
  <2>1. k \in Nat /\ DOMAIN Blocks(n, whole) = 1 .. k
    BY <1>1
  <2>2. MovedTo(FALSE, base, s, k, ShiftDown(a, pos, n, whole))
    BY <2>1, DownByBlock
  <2> HIDE DEF s, base
  <2> QED BY <2>2 DEF MovedTo
<1>4. DOMAIN a = 0 .. c - 1
  BY DEF IsArray
<1> HIDE DEF s
<1> DEFINE At(j) == [a |-> Lowered(a, pos, pos + from[j]), i |-> pos + from[j]]
           T == {j \in Nat : j <= k => m[j] = At(j)}
<1>5. 0 \in T
  <2>1. from[0] = 0 /\ pos + 0 = pos
    BY <1>2 DEF Covers
  <2>2. Lowered(a, pos, pos) = a
    <3>1. \A x \in DOMAIN a : ~(pos <= x /\ x < pos)
      BY <1>4
    <3>2. a = [x \in DOMAIN a |-> a[x]]
      BY DEF IsArray
    <3> QED BY <3>1, <3>2 DEF Lowered
  <2>3. m[0] = base
    BY <1>3 DEF ByBlock
  <2> QED BY <2>1, <2>2, <2>3
<1>6. ASSUME NEW j \in T PROVE j + 1 \in T
  <2>1. SUFFICES ASSUME j + 1 <= k PROVE m[j + 1] = At(j + 1)
    OBVIOUS
  <2>2. j \in Nat /\ j <= k /\ j + 1 \in 1 .. k /\ (j + 1) - 1 = j /\ j \in 0 .. k /\ j + 1 \in 0 .. k
    BY <1>1, <2>1
  <2>3. m[j + 1] = Move(FALSE, At(j), s[j + 1])
    BY <1>3, <2>2 DEF ByBlock
  <2>4. /\ from[j] \in Nat /\ from[j + 1] \in Nat /\ from[j + 1] <= n /\ s[j + 1] \in Nat
        /\ from[j + 1] = from[j] + s[j + 1]
    BY <1>2, <2>2 DEF Covers
  <2>5. PICK b \in Nat, hi \in Nat : b = s[j + 1] /\ hi = pos + from[j]
    BY <2>4
  <2>6. pos + from[j + 1] = hi + b /\ pos <= hi /\ hi + b < c
    <3>1. PICK f \in Nat, e \in Nat : f = from[j] /\ e = from[j + 1]
      BY <2>4
    <3>2. e <= n /\ e = f + b /\ hi = pos + f
      BY <2>4, <2>5, <3>1
    <3>3. pos + e = hi + b /\ pos <= hi /\ hi + b < c
      BY <3>2
    <3> QED BY <3>1, <3>3
  <2>7. At(j) = [a |-> Lowered(a, pos, hi), i |-> hi]
    BY <2>5
  <2>8. At(j + 1) = [a |-> Lowered(a, pos, hi + b), i |-> hi + b]
    BY <2>6
  <2>9. CopyBlock(Lowered(a, pos, hi), hi, hi + 1, b) = Lowered(a, pos, hi + b)
    BY <1>4, <2>6, LowerBlock
  <2> HIDE DEF At
  <2>10. Move(FALSE, At(j), b) = [a |-> Lowered(a, pos, hi + b), i |-> hi + b]
    BY <2>7, <2>9 DEF Move
  <2> QED BY <2>3, <2>5, <2>8, <2>10
<1> HIDE DEF T
<1>7. T = Nat
  <2>1. T \in SUBSET Nat
    BY DEF T
  <2> QED BY <1>5, <1>6, <2>1, AllNumbers
<1>8. m[k] = At(k)
  <2>1. k \in T /\ k <= k
    BY <1>1, <1>7
  <2> HIDE DEF At
  <2> QED BY ONLY <2>1 DEF T
<1>9. pos + from[k] = pos + n
  BY <1>2 DEF Covers
<1>10. m[k].a = Lowered(a, pos, pos + n)
  BY ONLY <1>8, <1>9
<1> QED BY ONLY <1>3, <1>10

-----------------------------------------------------------------------------
(* The levels a side stores.                                               *)

\* The first n keys are ascending, and no key is there twice.
Ascending(a, n) == \A i, j \in 0 .. n - 1 : i < j => a[i] < a[j]

\* f is the map from the keys of the first n levels to those levels.
Stored(f, ks, qs, os, n) ==
    /\ f = [k \in DOMAIN f |-> f[k]]
    /\ DOMAIN f = {ks[i] : i \in 0 .. n - 1}
    /\ \A i \in 0 .. n - 1 : f[ks[i]] = [qty |-> qs[i], orders |-> os[i]]

\* What is stored, whatever lies behind it.
Sorted == Ascending(keys, size)

Held == \A i \in 0 .. size - 1 : keys[i] \in Prices /\ orders[i] > 0

IInv == TypeOK /\ Sorted /\ Held

\* The types by name.
LEMMA Facts ==
    ASSUME IInv
    PROVE  /\ IsArray(keys, cap) /\ IsArray(qty, cap) /\ IsArray(orders, cap)
           /\ cap \in Nat /\ size \in Nat /\ size <= cap /\ (cap = 0 \/ cap >= Pad)
           /\ \A i \in 0 .. size - 1 : /\ i \in 0 .. cap - 1 /\ i \in Nat
                                       /\ keys[i] \in Nat /\ qty[i] \in Nat /\ orders[i] \in Nat
                                       /\ keys[i] \in Prices /\ orders[i] > 0
<1>1. IsArray(keys, cap) /\ IsArray(qty, cap) /\ IsArray(orders, cap) /\ size \in 0 .. cap
  BY DEF IInv, TypeOK, IsArray
<1>2. cap = 0 \/ cap >= Pad
  BY DEF IInv, TypeOK
<1>3. cap \in Nat
  BY DEF IInv, TypeOK
<1>4. \A i \in 0 .. size - 1 : i \in 0 .. cap - 1 /\ i \in Nat
  BY <1>1, <1>3
<1>5. \A i \in 0 .. size - 1 : keys[i] \in Nat /\ qty[i] \in Nat /\ orders[i] \in Nat
  BY <1>1, <1>4 DEF IsArray
<1>6. size \in Nat /\ size <= cap
  BY <1>1, <1>3
<1>7. \A i \in 0 .. size - 1 : keys[i] \in Prices /\ orders[i] > 0
  BY DEF IInv, Held
<1> QED BY <1>1, <1>2, <1>3, <1>4, <1>5, <1>6, <1>7

\* The same key is stored in the same place.
LEMMA SamePlace ==
    ASSUME NEW a, NEW n \in Nat, Ascending(a, n), \A i \in 0 .. n - 1 : a[i] \in Nat,
           NEW i \in 0 .. n - 1, NEW j \in 0 .. n - 1, a[i] = a[j]
    PROVE  i = j
<1>1. i \in Nat /\ j \in Nat /\ a[i] \in Nat /\ a[j] \in Nat
  OBVIOUS
<1>2. (i < j => a[i] < a[j]) /\ (j < i => a[j] < a[i])
  BY DEF Ascending
<1>3. ~(a[i] < a[j]) /\ ~(a[j] < a[i])
  BY <1>1
<1> QED BY <1>1, <1>2, <1>3

\* Levels is what is stored,
LevelsOf(ks, qs, os, n) ==
    [k \in {ks[i] : i \in 0 .. n - 1} |->
        LET i == CHOOSE j \in 0 .. n - 1 : ks[j] = k IN [qty |-> qs[i], orders |-> os[i]]]

LEMMA LevelsStored ==
    ASSUME NEW ks, NEW qs, NEW os, NEW n \in Nat,
           Ascending(ks, n), \A i \in 0 .. n - 1 : ks[i] \in Nat
    PROVE  Stored(LevelsOf(ks, qs, os, n), ks, qs, os, n)
<1>1. ASSUME NEW i \in 0 .. n - 1
      PROVE  (CHOOSE j \in 0 .. n - 1 : ks[j] = ks[i]) = i
  <2>1. PICK j \in 0 .. n - 1 : j = (CHOOSE l \in 0 .. n - 1 : ks[l] = ks[i]) /\ ks[j] = ks[i]
    OBVIOUS
  <2>2. j = i
    BY <2>1, SamePlace
  <2> QED BY <2>1, <2>2
<1> QED BY <1>1 DEF Stored, LevelsOf

LEMMA LevelsAre ==
    ASSUME IInv
    PROVE  Stored(Levels, keys, qty, orders, size)
<1>1. size \in Nat /\ \A i \in 0 .. size - 1 : keys[i] \in Nat
  BY Facts
<1>2. Ascending(keys, size)
  BY DEF IInv, Sorted
<1>3. Stored(LevelsOf(keys, qty, orders, size), keys, qty, orders, size)
  BY <1>1, <1>2, LevelsStored
<1> QED BY <1>3 DEF Levels, LevelsOf

\* and nothing else is.
LEMMA LevelsBecome ==
    ASSUME size' \in Nat, Ascending(keys', size'), \A i \in 0 .. size' - 1 : keys'[i] \in Nat,
           NEW f, Stored(f, keys', qty', orders', size')
    PROVE  Levels' = f
<1>1. PICK g : g = LevelsOf(keys', qty', orders', size')
  OBVIOUS
<1>2. Stored(g, keys', qty', orders', size')
  BY <1>1, LevelsStored
<1>3. DOMAIN g = DOMAIN f
  BY <1>2 DEF Stored
<1>4. ASSUME NEW k \in DOMAIN f PROVE g[k] = f[k]
  <2>1. PICK i \in 0 .. size' - 1 : k = keys'[i]
    BY DEF Stored
  <2>2. g[keys'[i]] = [qty |-> qty'[i], orders |-> orders'[i]]
    BY ONLY <1>2, <2>1 DEF Stored
  <2>3. f[keys'[i]] = [qty |-> qty'[i], orders |-> orders'[i]]
    BY ONLY Stored(f, keys', qty', orders', size'), <2>1 DEF Stored
  <2> QED BY ONLY <2>1, <2>2, <2>3
<1>5. g = f
  BY <1>2, <1>3, <1>4 DEF Stored
<1> QED BY <1>1, <1>5 DEF Levels, LevelsOf

\* Every key has a place in the arrays.
LEMMA PlaceExists ==
    ASSUME IInv, NEW key \in Nat
    PROVE  \E p : Splits(keys, size, key, p)
<1> DEFINE S == {i \in 0 .. size : \A j \in 0 .. size - 1 : i <= j => keys[j] >= key}
<1>1. size \in Nat /\ \A j \in 0 .. size - 1 : keys[j] \in Nat /\ j \in Nat
  BY Facts
<1>2. size \in S
  BY <1>1
<1>3. PICK p \in S : \A i \in S : p <= i
  <2>1. S \in SUBSET Nat /\ S # {}
    BY <1>1, <1>2
  <2> HIDE DEF S
  <2> QED BY <2>1, Least
<1>4. p \in Nat /\ p <= size
  BY <1>1
<1>5. ASSUME NEW i \in 0 .. size - 1 PROVE keys[i] >= key <=> p <= i
  <2>1. p <= i => keys[i] >= key
    OBVIOUS
  <2>2. ASSUME keys[i] >= key PROVE i \in S
    <3>1. ASSUME NEW j \in 0 .. size - 1, i <= j PROVE keys[j] >= key
      <4>1. i < j => keys[i] < keys[j]
        BY DEF IInv, Sorted, Ascending
      <4> QED BY <1>1, <2>2, <3>1, <4>1
    <3> QED BY <1>1, <3>1
  <2> QED BY <1>3, <2>1, <2>2
<1>6. ASSUME NEW i \in 0 .. size - 1 PROVE (keys[i] < key <=> i < p) /\ (keys[i] >= key <=> p <= i)
  <2>1. keys[i] \in Nat /\ i \in Nat
    BY <1>1
  <2> QED BY <1>4, <1>5, <2>1
<1> QED BY <1>1, <1>4, <1>6 DEF Splits

\* Position finds it.
LEMMA PositionIs ==
    ASSUME IInv, NEW key \in Prices
    PROVE  /\ key \in Nat
           /\ Splits(keys, size, key, Position(key))
           /\ Position(key) \in Nat /\ Position(key) <= size
           /\ Found(key) <=> key \in DOMAIN Levels
<1>1. key \in Nat
  BY LevelAssumption
<1>2. PICK p : Splits(keys, size, key, p)
  BY <1>1, PlaceExists
<1>3. p \in Nat /\ size \in Nat /\ p <= size
  BY <1>2 DEF Splits
<1>4. Position(key) = p
  <2>1. size = 0 => p = 0
    BY <1>3
  <2> QED BY <1>2, <2>1, SearchFromBack DEF Position
<1>5. Found(key) <=> key \in DOMAIN Levels
  <2>1. DOMAIN Levels = {keys[i] : i \in 0 .. size - 1}
    BY LevelsAre DEF Stored
  <2>2. ASSUME NEW i \in 0 .. size - 1, keys[i] = key PROVE p < size /\ keys[p] = key
    <3>1. p <= i
      BY <1>1, <1>2, <2>2 DEF Splits
    <3>2. p \in 0 .. size - 1 /\ i \in Nat /\ p < size
      BY <1>3, <3>1
    <3>3. keys[p] >= key /\ keys[p] \in Nat
      BY <1>2, <1>3, <3>2, Facts DEF Splits
    <3>4. p < i => keys[p] < keys[i]
      BY <3>2 DEF IInv, Sorted, Ascending
    <3> QED BY <1>1, <1>3, <2>2, <3>1, <3>2, <3>3, <3>4
  <2>3. p < size => p \in 0 .. size - 1
    BY <1>3
  <2> QED BY <1>4, <2>1, <2>2, <2>3 DEF Found
<1> QED BY <1>1, <1>2, <1>3, <1>4, <1>5

-----------------------------------------------------------------------------
(* What the operations do to an array.                                     *)

\* A full side doubles, or gets its first levels.
Larger == IF Full THEN NewCap ELSE cap

LEMMA NewCapIs ==
    ASSUME IInv
    PROVE  /\ NewCap \in Nat /\ Larger \in Nat
           /\ NewCap >= Pad /\ Larger >= Pad /\ NewCap > cap /\ size < Larger
<1>1. /\ cap \in Nat /\ size \in Nat /\ size <= cap /\ (cap = 0 \/ cap >= Pad)
      /\ Pad \in Nat /\ Pad > 0 /\ InitialLevels \in Nat /\ InitialLevels >= Pad
  BY Facts, LevelAssumption
<1>2. NewCap \in Nat /\ NewCap >= Pad /\ NewCap > cap
  BY <1>1 DEF NewCap
<1> QED BY <1>1, <1>2 DEF Larger, Full

\* Room keeps what is stored,
LEMMA RegrowIs ==
    ASSUME IInv, NEW a, IsArray(a, cap)
    PROVE  IsArray(Regrow(a), NewCap) /\ \A i \in 0 .. size - 1 : Regrow(a)[i] = a[i]
<1>1. /\ cap \in Nat /\ size \in Nat /\ size <= cap
      /\ NewCap \in Nat /\ NewCap > cap
  BY Facts, NewCapIs
<1>2. \A i \in 0 .. NewCap - 1 : i < size => i \in 0 .. cap - 1
  BY <1>1
<1>3. \A i \in 0 .. NewCap - 1 : (IF i < size THEN a[i] ELSE 0) \in Nat
  BY <1>2 DEF IsArray
<1>4. \A i \in 0 .. size - 1 : i \in 0 .. NewCap - 1 /\ i < size
  BY <1>1
<1> QED BY <1>3, <1>4 DEF Regrow, IsArray

LEMMA RoomIs ==
    ASSUME IInv, NEW a, IsArray(a, cap)
    PROVE  IsArray(Room(a), Larger) /\ \A i \in 0 .. size - 1 : Room(a)[i] = a[i]
BY RegrowIs DEF Room, Larger

\* a with v put before the element at pos, of the first n
Inserted(a, b, pos, n, v) ==
    \A x \in 0 .. n : b[x] = IF x < pos THEN a[x] ELSE IF x = pos THEN v ELSE a[x - 1]

\* and without the element at pos.
Removed(a, b, pos, n) == \A x \in 0 .. n - 2 : b[x] = IF x < pos THEN a[x] ELSE a[x + 1]

LEMMA PutInserts ==
    ASSUME IInv, NEW a, IsArray(a, cap), NEW pos \in 0 .. size, NEW v \in Nat, NEW whole \in {2, 4},
           NEW b, b = [ShiftUp(Room(a), pos, size - pos, whole) EXCEPT ![pos] = v]
    PROVE  IsArray(b, Larger) /\ Inserted(a, b, pos, size, v)
<1> DEFINE c == Larger
           r == Room(a)
           l == Lifted(r, pos, size)
<1>1. /\ size \in Nat /\ pos \in Nat /\ pos <= size /\ size - pos \in Nat
      /\ pos + (size - pos) = size /\ c \in Nat /\ size < c
  BY Facts, NewCapIs
<1>2. /\ IsArray(r, c) /\ r \in [0 .. c - 1 -> Nat]
      /\ \A i \in 0 .. size - 1 : r[i] = a[i]
  BY RoomIs DEF IsArray
<1> HIDE DEF c, r
<1>3. ShiftUp(r, pos, size - pos, whole) = l
  <2>1. pos + (size - pos) < c
    BY <1>1
  <2>2. ShiftUp(r, pos, size - pos, whole) = Lifted(r, pos, pos + (size - pos))
    BY <1>1, <1>2, <2>1, ShiftUpIs
  <2> QED BY <1>1, <2>2
<1>4. /\ l \in [0 .. c - 1 -> Nat]
      /\ \A x \in 0 .. c - 1 : l[x] = IF pos < x /\ x <= size THEN r[x - 1] ELSE r[x]
  <2>1. \A x \in 0 .. c - 1 : pos < x => x - 1 \in 0 .. c - 1
    BY <1>1
  <2>2. DOMAIN r = 0 .. c - 1 /\ \A x \in 0 .. c - 1 : r[x] \in Nat
    BY <1>2
  <2>3. \A x \in 0 .. c - 1 : (IF pos < x /\ x <= size THEN r[x - 1] ELSE r[x]) \in Nat
    BY <2>1, <2>2
  <2> QED BY ONLY <2>2, <2>3 DEF Lifted, l
<1>5. b = [l EXCEPT ![pos] = v]
  BY <1>3 DEF r
<1> HIDE DEF l
<1>6. IsArray(b, c)
  BY <1>4, <1>5 DEF IsArray
<1>7. ASSUME NEW x \in 0 .. size
      PROVE  b[x] = IF x < pos THEN a[x] ELSE IF x = pos THEN v ELSE a[x - 1]
  <2>1. x \in 0 .. c - 1 /\ x \in Nat /\ x <= size
    BY <1>1
  <2>2. b[x] = IF x = pos THEN v ELSE l[x]
    BY <1>4, <1>5, <2>1
  <2>3. CASE x < pos
    <3>1. l[x] = r[x] /\ x \in 0 .. size - 1 /\ x # pos
      BY <1>1, <1>4, <2>1, <2>3
    <3> QED BY <1>2, <2>2, <2>3, <3>1
  <2>4. CASE x = pos
    BY <1>1, <2>2, <2>4
  <2>5. CASE pos < x
    <3>1. l[x] = r[x - 1] /\ x - 1 \in 0 .. size - 1 /\ x # pos /\ ~(x < pos)
      BY <1>1, <1>4, <2>1, <2>5
    <3> QED BY <1>2, <2>2, <3>1
  <2> QED BY <1>1, <2>1, <2>3, <2>4, <2>5
<1> QED BY <1>6, <1>7 DEF Inserted, c

LEMMA ShiftRemoves ==
    ASSUME IInv, NEW a, IsArray(a, cap), NEW pos \in 0 .. size - 1, NEW whole \in {2, 4}
    PROVE  /\ IsArray(ShiftDown(a, pos, size - pos - 1, whole), cap)
           /\ Removed(a, ShiftDown(a, pos, size - pos - 1, whole), pos, size)
<1> DEFINE n == size - pos - 1
<1>1. /\ size \in Nat /\ pos \in Nat /\ cap \in Nat /\ size <= cap
      /\ n \in Nat /\ pos + n = size - 1 /\ pos + n < cap
  BY Facts
<1>2. a \in [0 .. cap - 1 -> Nat]
  BY DEF IsArray
<1> HIDE DEF n
<1>3. ShiftDown(a, pos, n, whole) = Lowered(a, pos, pos + n)
  BY <1>1, ShiftDownIs
<1>4. IsArray(Lowered(a, pos, pos + n), cap)
  <2>1. \A x \in 0 .. cap - 1 : x < pos + n => x + 1 \in 0 .. cap - 1
    BY <1>1
  <2> QED BY <1>2, <2>1 DEF Lowered, IsArray
<1>5. ASSUME NEW x \in 0 .. size - 2
      PROVE  Lowered(a, pos, pos + n)[x] = IF x < pos THEN a[x] ELSE a[x + 1]
  <2>1. x \in DOMAIN a /\ x < pos + n /\ x \in Nat
    BY <1>1, <1>2
  <2>2. Lowered(a, pos, pos + n)[x] = IF pos <= x /\ x < pos + n THEN a[x + 1] ELSE a[x]
    BY <2>1 DEF Lowered
  <2> QED BY <1>1, <2>1, <2>2
<1>6. Removed(a, Lowered(a, pos, pos + n), pos, size)
  BY <1>5 DEF Removed
<1> QED BY <1>3, <1>4, <1>6 DEF n

-----------------------------------------------------------------------------
(* The steps.  Each keeps the invariant and is a step of LevelMap.         *)

\* The answers: the best level is the last one.
LEMMA AnswerIs ==
    ASSUME IInv, NEW key \in Prices
    PROVE  /\ Found(key) => Map!Answer(key) = Answer(key)
           /\ ~Found(key) => Map!Answer(key) = IF size - Position(key) = 0 THEN "top" ELSE "ok"
<1> DEFINE pos == Position(key)
           top == \A i \in 0 .. size - 1 : keys[i] <= key
<1>1. /\ pos \in Nat /\ size \in Nat /\ pos <= size /\ key \in Nat
      /\ Splits(keys, size, key, pos)
      /\ \A i \in 0 .. size - 1 : keys[i] \in Nat /\ i \in Nat
  BY PositionIs, Facts
<1>2. Map!Answer(key) = IF top THEN "top" ELSE "ok"
  <2>1. DOMAIN Levels = {keys[i] : i \in 0 .. size - 1}
    BY LevelsAre DEF Stored
  <2> QED BY <2>1 DEF Map!Answer, Map!IsTop
<1> HIDE DEF pos
<1>3. ASSUME Found(key) PROVE top <=> pos = size - 1
  <2>1. pos \in 0 .. size - 1 /\ keys[pos] = key
    BY <1>1, <1>3 DEF Found, pos
  <2>2. ASSUME NEW i \in 0 .. size - 1, pos < i PROVE ~(keys[i] <= key)
    <3>1. keys[pos] < keys[i]
      BY <2>1, <2>2 DEF IInv, Sorted, Ascending
    <3> QED BY <1>1, <2>1, <3>1
  <2>3. ASSUME NEW i \in 0 .. size - 1, i <= pos PROVE keys[i] <= key
    <3>1. i < pos => keys[i] < keys[pos]
      BY <2>1 DEF IInv, Sorted, Ascending
    <3> QED BY <1>1, <2>1, <2>3, <3>1
  <2>4. CASE pos = size - 1
    BY <1>1, <2>3, <2>4
  <2>5. CASE pos # size - 1
    <3>1. size - 1 \in 0 .. size - 1 /\ pos < size - 1
      BY <1>1, <2>1, <2>5
    <3> QED BY <2>2, <2>5, <3>1
  <2> QED BY <2>4, <2>5
<1>4. ASSUME ~Found(key) PROVE top <=> size - pos = 0
  <2>1. \A i \in 0 .. size - 1 : keys[i] # key
    <3>1. ASSUME NEW i \in 0 .. size - 1, keys[i] = key PROVE FALSE
      <4>1. key \in DOMAIN Levels
        BY <3>1, LevelsAre DEF Stored
      <4> QED BY <1>4, <4>1, PositionIs
    <3> QED BY <3>1
  <2>2. \A i \in 0 .. size - 1 : keys[i] <= key <=> i < pos
    BY <1>1, <2>1 DEF Splits
  <2>3. CASE pos = size
    BY <1>1, <2>2, <2>3
  <2>4. CASE pos # size
    <3>1. pos \in 0 .. size - 1 /\ ~(pos < pos)
      BY <1>1, <2>4
    <3> QED BY <1>1, <2>2, <2>4, <3>1
  <2> QED BY <2>3, <2>4
<1> QED BY <1>2, <1>3, <1>4 DEF Answer, pos

LEMMA InitIInv == Init => IInv /\ Map!Init
<1> SUFFICES ASSUME Init PROVE IInv /\ Map!Init
  OBVIOUS
<1>1. /\ size = 0 /\ cap = 0 /\ reply = "none"
      /\ keys = NoArray /\ qty = NoArray /\ orders = NoArray
  BY DEF Init
<1>2. NoArray \in [0 .. 0 - 1 -> Nat]
  BY DEF NoArray
<1>3. \A i : i \notin 0 .. 0 - 1
  OBVIOUS
<1>4. IInv
  BY <1>1, <1>2, <1>3 DEF IInv, TypeOK, Sorted, Held, Ascending
<1>5. Levels = Map!EmptySide
  BY <1>1, <1>3 DEF Levels, Map!EmptySide
<1> QED BY <1>1, <1>4, <1>5 DEF Map!Init

LEMMA ReserveStep ==
    ASSUME IInv, Reserve
    PROVE  IInv' /\ UNCHANGED <<Levels, reply>>
<1>1. cap = 0 /\ size = 0 /\ size' = 0 /\ reply' = reply /\ cap' = NewCap
  BY Facts DEF Reserve
<1>2. cap' \in Nat /\ cap' >= Pad
  BY <1>1, NewCapIs
<1>3. IsArray(keys', cap') /\ IsArray(qty', cap') /\ IsArray(orders', cap')
  BY <1>1, Facts, RegrowIs DEF Reserve
<1>4. \A i : i \notin 0 .. 0 - 1
  OBVIOUS
<1>5. TypeOK'
  BY <1>1, <1>2, <1>3 DEF TypeOK, IsArray, IInv
<1>6. Sorted' /\ Held'
  BY <1>1, <1>4 DEF Sorted, Held, Ascending
<1>7. Levels' = Levels
  BY <1>1, <1>4 DEF Levels
<1> QED BY <1>1, <1>5, <1>6, <1>7 DEF IInv

LEMMA MissingStep ==
    ASSUME IInv, NEW key \in Prices, ReduceMissing(key)
    PROVE  IInv' /\ Map!Missing(key)
<1>1. UNCHANGED <<keys, qty, orders, size, cap>> /\ reply' = "missing"
  BY DEF ReduceMissing
<1>2. IInv'
  BY <1>1 DEF IInv, TypeOK, Sorted, Held, Ascending
<1>3. Levels' = Levels
  BY <1>1 DEF Levels
<1>4. key \notin DOMAIN Levels
  BY PositionIs DEF ReduceMissing
<1> QED BY <1>1, <1>2, <1>3, <1>4 DEF Map!Missing

\* An order joins a level.
LEMMA AddToLevelStep ==
    ASSUME IInv, NEW key \in Prices, NEW n \in Shares, AddToLevel(key, n)
    PROVE  IInv' /\ Map!AddOrder(key, n)
<1> DEFINE pos == Position(key)
           f == Map!LevelAdd(Levels, key, n)
<1>1. /\ pos \in 0 .. size - 1 /\ keys[pos] = key /\ key \in DOMAIN Levels /\ Found(key)
      /\ n \in Nat /\ size \in Nat
  <2>1. Found(key)
    BY DEF AddToLevel
  <2> QED BY <2>1, PositionIs, Facts, LevelAssumption DEF Found
<1>2. /\ keys' = keys /\ size' = size /\ cap' = cap /\ reply' = Answer(key)
      /\ qty' = [qty EXCEPT ![pos] = @ + n] /\ orders' = [orders EXCEPT ![pos] = @ + 1]
  BY DEF AddToLevel
<1> HIDE DEF pos
<1>3. /\ keys \in [0 .. cap - 1 -> Nat] /\ qty \in [0 .. cap - 1 -> Nat]
      /\ orders \in [0 .. cap - 1 -> Nat] /\ pos \in 0 .. cap - 1
  BY <1>1, Facts DEF IsArray
<1>4. /\ qty' \in [0 .. cap - 1 -> Nat] /\ orders' \in [0 .. cap - 1 -> Nat]
      /\ \A i \in 0 .. cap - 1 : /\ qty'[i] = IF i = pos THEN qty[i] + n ELSE qty[i]
                                 /\ orders'[i] = IF i = pos THEN orders[i] + 1 ELSE orders[i]
  BY <1>1, <1>2, <1>3
<1>5. TypeOK'
  <2>1. reply' \in {"none", "top", "ok", "missing"}
    BY <1>2 DEF Answer
  <2>2. \A a \in {keys', qty', orders'} : a \in [0 .. cap' - 1 -> Nat]
    BY <1>2, <1>3, <1>4
  <2>3. cap' \in Nat /\ size' \in 0 .. cap' /\ (cap' = 0 \/ cap' >= Pad)
    BY <1>2 DEF IInv, TypeOK
  <2> QED BY <2>1, <2>2, <2>3 DEF TypeOK
<1>6. Sorted' /\ Held'
  <2>1. \A i \in 0 .. size - 1 : i \in 0 .. cap - 1 /\ keys[i] \in Prices /\ orders[i] \in Nat /\ orders[i] > 0
    BY Facts
  <2>2. \A i \in 0 .. size - 1 : orders'[i] > 0
    BY <1>4, <2>1
  <2>3. Ascending(keys', size')
    BY <1>2 DEF IInv, Sorted
  <2> QED BY <1>2, <2>1, <2>2, <2>3 DEF Sorted, Held
<1>7. Stored(Levels, keys, qty, orders, size)
  BY LevelsAre
<1>8. Stored(f, keys', qty', orders', size')
  <2>1. f = [Levels EXCEPT ![key] = [qty |-> @.qty + n, orders |-> @.orders + 1]]
    BY <1>1 DEF Map!LevelAdd
  <2>2. DOMAIN f = DOMAIN Levels /\ f = [k \in DOMAIN f |-> f[k]]
    BY <2>1
  <2>3. \A k \in DOMAIN Levels :
            f[k] = IF k = key THEN [qty |-> Levels[k].qty + n, orders |-> Levels[k].orders + 1]
                   ELSE Levels[k]
    BY <2>1
  <2> HIDE DEF f
  <2>4. ASSUME NEW i \in 0 .. size - 1
        PROVE  f[keys[i]] = [qty |-> qty'[i], orders |-> orders'[i]]
    <3>1. /\ keys[i] \in DOMAIN Levels
          /\ Levels[keys[i]] = [qty |-> qty[i], orders |-> orders[i]]
      BY <1>7 DEF Stored
    <3>2. keys[i] = key => i = pos
      <4>1. Ascending(keys, size) /\ \A j \in 0 .. size - 1 : keys[j] \in Nat
        BY Facts DEF IInv, Sorted
      <4>2. size \in Nat /\ i \in 0 .. size - 1 /\ pos \in 0 .. size - 1 /\ keys[pos] = key
        BY <1>1
      <4>3. ASSUME keys[i] = keys[pos] PROVE i = pos
        BY ONLY <4>1, <4>2, <4>3, SamePlace
      <4> QED BY <4>2, <4>3
    <3>3. i \in 0 .. cap - 1
      BY Facts
    <3>4. CASE i = pos
      <4>1. qty'[i] = qty[i] + n /\ orders'[i] = orders[i] + 1
        BY <1>4, <3>3, <3>4
      <4>2. f[keys[i]] = [qty |-> Levels[key].qty + n, orders |-> Levels[key].orders + 1]
        BY <1>1, <2>3, <3>4
      <4> QED BY <1>1, <3>1, <3>4, <4>1, <4>2
    <3>5. CASE i # pos
      <4>1. qty'[i] = qty[i] /\ orders'[i] = orders[i]
        BY <1>4, <3>3, <3>5
      <4>2. f[keys[i]] = Levels[keys[i]]
        BY <2>3, <3>1, <3>2, <3>5
      <4> QED BY <3>1, <4>1, <4>2
    <3> QED BY <3>4, <3>5
  <2> QED BY <1>2, <1>7, <2>2, <2>4 DEF Stored
<1>9. Levels' = f
  <2>1. size' \in Nat /\ Ascending(keys', size') /\ \A i \in 0 .. size' - 1 : keys'[i] \in Nat
    BY <1>1, <1>2, <1>6, Facts DEF Sorted
  <2> HIDE DEF f
  <2> QED BY <1>8, <2>1, LevelsBecome
<1> QED BY <1>1, <1>2, <1>5, <1>6, <1>9, AnswerIs DEF IInv, Map!AddOrder

\* A level opens.
LEMMA AddLevelStep ==
    ASSUME IInv, NEW key \in Prices, NEW n \in Shares, AddLevel(key, n)
    PROVE  IInv' /\ Map!AddOrder(key, n)
<1> DEFINE pos == Position(key)
           f == Map!LevelAdd(Levels, key, n)
<1>1. /\ pos \in 0 .. size /\ key \notin DOMAIN Levels /\ ~Found(key)
      /\ key \in Nat /\ n \in Nat /\ size \in Nat /\ Splits(keys, size, key, pos)
  <2>1. ~Found(key)
    BY DEF AddLevel
  <2> QED BY <2>1, PositionIs, Facts, LevelAssumption
<1>2. /\ keys' = [ShiftUp(Room(keys), pos, size - pos, 4) EXCEPT ![pos] = key]
      /\ qty' = [ShiftUp(Room(qty), pos, size - pos, 2) EXCEPT ![pos] = n]
      /\ orders' = [ShiftUp(Room(orders), pos, size - pos, 4) EXCEPT ![pos] = 1]
      /\ size' = size + 1 /\ cap' = Larger
      /\ reply' = IF size - pos = 0 THEN "top" ELSE "ok"
  BY DEF AddLevel, Larger
<1> HIDE DEF pos
<1>3. IsArray(keys', Larger) /\ Inserted(keys, keys', pos, size, key)
  BY <1>1, <1>2, Facts, PutInserts
<1>4. IsArray(qty', Larger) /\ Inserted(qty, qty', pos, size, n)
  BY <1>1, <1>2, Facts, PutInserts
<1>5. IsArray(orders', Larger) /\ Inserted(orders, orders', pos, size, 1)
  BY <1>1, <1>2, Facts, PutInserts
<1>6. Larger \in Nat /\ Larger >= Pad /\ size + 1 <= Larger
  BY <1>1, NewCapIs
<1>7. TypeOK'
  <2>1. reply' \in {"none", "top", "ok", "missing"}
    BY <1>2
  <2>2. \A a \in {keys', qty', orders'} : a \in [0 .. cap' - 1 -> Nat]
    BY <1>2, <1>3, <1>4, <1>5 DEF IsArray
  <2>3. cap' \in Nat /\ size' \in 0 .. cap' /\ (cap' = 0 \/ cap' >= Pad)
    BY <1>1, <1>2, <1>6
  <2> QED BY <2>1, <2>2, <2>3 DEF TypeOK
\* Where the levels are after the step.
<1>8. ASSUME NEW i \in 0 .. size
      PROVE  \/ i < pos /\ i \in 0 .. size - 1
                /\ keys'[i] = keys[i] /\ qty'[i] = qty[i] /\ orders'[i] = orders[i]
             \/ i = pos /\ keys'[i] = key /\ qty'[i] = n /\ orders'[i] = 1
             \/ pos < i /\ i - 1 \in 0 .. size - 1
                /\ keys'[i] = keys[i - 1] /\ qty'[i] = qty[i - 1] /\ orders'[i] = orders[i - 1]
  <2>1. i \in Nat /\ pos \in Nat
    BY <1>1
  <2>2. CASE i < pos
    <3>1. i \in 0 .. size - 1
      BY <1>1, <2>1, <2>2
    <3> QED BY <1>3, <1>4, <1>5, <2>2, <3>1 DEF Inserted
  <2>3. CASE i = pos
    <3>1. ~(i < pos)
      BY <2>1, <2>3
    <3> QED BY <1>3, <1>4, <1>5, <2>3, <3>1 DEF Inserted
  <2>4. CASE pos < i
    <3>1. i - 1 \in 0 .. size - 1 /\ ~(i < pos) /\ i # pos
      BY <1>1, <2>1, <2>4
    <3> QED BY <1>3, <1>4, <1>5, <2>4, <3>1 DEF Inserted
  <2> QED BY <2>1, <2>2, <2>3, <2>4
<1>9. \A i \in 0 .. size - 1 : /\ keys[i] \in Nat /\ keys[i] \in Prices /\ orders[i] > 0 /\ i \in Nat
                               /\ (i < pos => keys[i] < key)
                               /\ (pos <= i => key < keys[i])
  <2>1. ASSUME NEW i \in 0 .. size - 1, keys[i] = key PROVE FALSE
    <3>1. key \in DOMAIN Levels
      BY <2>1, LevelsAre DEF Stored
    <3> QED BY <1>1, <3>1
  <2> QED BY <1>1, <2>1, Facts DEF Splits
<1>10. Ascending(keys', size + 1)
  <2>1. (size + 1) - 1 = size
    BY <1>1
  <2>2. ASSUME NEW i \in 0 .. size, NEW j \in 0 .. size, i < j PROVE keys'[i] < keys'[j]
    <3>1. \A k, l \in 0 .. size - 1 : k < l => keys[k] < keys[l]
      BY DEF IInv, Sorted, Ascending
    <3>2. i \in Nat /\ j \in Nat /\ pos \in Nat
      BY <1>1
    <3>3. CASE j < pos
      <4>1. i < pos
        BY <2>2, <3>2, <3>3
      <4> QED BY <1>8, <2>2, <3>1, <3>2, <3>3, <4>1
    <3>4. CASE j = pos
      <4>1. i < pos
        BY <2>2, <3>2, <3>4
      <4> QED BY <1>8, <1>9, <2>2, <3>2, <3>4, <4>1
    <3>5. CASE pos < j /\ i < pos
      <4>1. /\ i \in 0 .. size - 1 /\ j - 1 \in 0 .. size - 1 /\ i < j - 1
            /\ keys'[i] = keys[i] /\ keys'[j] = keys[j - 1]
        BY <1>8, <3>2, <3>5
      <4> QED BY <3>1, <4>1
    <3>6. CASE pos < j /\ i = pos
      <4>1. j - 1 \in 0 .. size - 1 /\ pos <= j - 1 /\ keys'[i] = key /\ keys'[j] = keys[j - 1]
        BY <1>8, <3>2, <3>6
      <4> QED BY <1>9, <4>1
    <3>7. CASE pos < j /\ pos < i
      <4>1. /\ i - 1 \in 0 .. size - 1 /\ j - 1 \in 0 .. size - 1 /\ i - 1 < j - 1
            /\ keys'[i] = keys[i - 1] /\ keys'[j] = keys[j - 1]
        BY <1>8, <2>2, <3>2, <3>7
      <4> QED BY <3>1, <4>1
    <3> QED BY <3>2, <3>3, <3>4, <3>5, <3>6, <3>7
  <2> QED BY <2>1, <2>2 DEF Ascending
<1>11. Sorted' /\ Held'
  <2>1. size' - 1 = size
    BY <1>1, <1>2
  <2>2. \A i \in 0 .. size : keys'[i] \in Prices /\ orders'[i] > 0
    BY <1>8, <1>9
  <2> QED BY <1>2, <1>10, <2>1, <2>2 DEF Sorted, Held
<1>12. Stored(Levels, keys, qty, orders, size)
  BY LevelsAre
<1>13. Stored(f, keys', qty', orders', size')
  <2>1. f = [k \in DOMAIN Levels \cup {key} |->
                IF k = key THEN [qty |-> n, orders |-> 1] ELSE Levels[k]]
    BY <1>1 DEF Map!LevelAdd
  <2>2. /\ DOMAIN f = DOMAIN Levels \cup {key} /\ f = [k \in DOMAIN f |-> f[k]]
        /\ f[key] = [qty |-> n, orders |-> 1]
        /\ \A k \in DOMAIN Levels : f[k] = Levels[k]
    BY <1>1, <2>1
  <2> HIDE DEF f
  <2>3. /\ DOMAIN Levels = {keys[i] : i \in 0 .. size - 1}
        /\ \A i \in 0 .. size - 1 : /\ keys[i] \in DOMAIN Levels
                                    /\ Levels[keys[i]] = [qty |-> qty[i], orders |-> orders[i]]
    BY <1>12 DEF Stored
  <2>4. ASSUME NEW i \in 0 .. size
        PROVE  keys'[i] \in DOMAIN f /\ f[keys'[i]] = [qty |-> qty'[i], orders |-> orders'[i]]
    <3>1. CASE i = pos
      BY <1>1, <1>8, <2>2, <3>1
    <3>2. CASE i # pos
      <4>1. PICK j \in 0 .. size - 1 :
                keys'[i] = keys[j] /\ qty'[i] = qty[j] /\ orders'[i] = orders[j]
        <5>1. \/ /\ i \in 0 .. size - 1
                 /\ keys'[i] = keys[i] /\ qty'[i] = qty[i] /\ orders'[i] = orders[i]
              \/ /\ i - 1 \in 0 .. size - 1
                 /\ keys'[i] = keys[i - 1] /\ qty'[i] = qty[i - 1] /\ orders'[i] = orders[i - 1]
          BY <1>8, <3>2
        <5> QED BY ONLY <5>1
      <4>2. keys[j] \in DOMAIN Levels /\ Levels[keys[j]] = [qty |-> qty[j], orders |-> orders[j]]
        BY ONLY <2>3, j \in 0 .. size - 1
      <4>3. keys[j] \in DOMAIN f /\ f[keys[j]] = Levels[keys[j]]
        BY ONLY <2>2, <4>2
      <4> QED BY ONLY <4>1, <4>2, <4>3
    <3> QED BY <3>1, <3>2
  <2>5. ASSUME NEW k \in DOMAIN f PROVE \E i \in 0 .. size : k = keys'[i]
    <3>1. CASE k = key
      <4>1. pos \in 0 .. size /\ pos \in Nat /\ ~(pos < pos)
        BY <1>1
      <4> QED BY <1>8, <3>1, <4>1
    <3>2. CASE k \in DOMAIN Levels
      <4>1. PICK j \in 0 .. size - 1 : k = keys[j]
        BY <2>3, <3>2
      <4>2. j \in Nat /\ pos \in Nat /\ j \in 0 .. size /\ j + 1 \in 0 .. size /\ (j + 1) - 1 = j
        BY <1>1
      <4>3. CASE j < pos
        BY <1>8, <4>1, <4>2, <4>3
      <4>4. CASE ~(j < pos)
        <5>1. pos < j + 1
          BY <4>2, <4>4
        <5> QED BY <1>8, <4>1, <4>2, <5>1
      <4> QED BY <4>3, <4>4
    <3> QED BY <2>2, <3>1, <3>2
  <2>6. size' - 1 = size
    BY <1>1, <1>2
  <2>7. DOMAIN f = {keys'[i] : i \in 0 .. size}
    BY <2>4, <2>5
  <2> QED BY <2>2, <2>4, <2>6, <2>7 DEF Stored
<1>14. Levels' = f
  <2>1. size' \in Nat /\ Ascending(keys', size')
    <3>1. size' = size + 1
      BY <1>2
    <3> QED BY ONLY <1>1, <1>10, <3>1
  <2>2. \A i \in 0 .. size' - 1 : keys'[i] \in Nat
    <3>1. \A p \in Prices : p \in Nat
      BY LevelAssumption
    <3> QED BY ONLY <1>11, <3>1 DEF Held
  <2> HIDE DEF f
  <2> QED BY <1>13, <2>1, <2>2, LevelsBecome
<1>15. reply' = Map!Answer(key)
  BY <1>1, <1>2, AnswerIs DEF pos
<1> QED BY <1>7, <1>11, <1>14, <1>15 DEF IInv, Map!AddOrder

\* A level loses shares, and with its last order it goes.
LEMMA ReductionStep ==
    ASSUME IInv, NEW key \in Prices, NEW n \in Nat, NEW gone \in BOOLEAN, Reduction(key, n, gone)
    PROVE  IInv' /\ Map!ReduceLevel(key, n, gone)
<1> DEFINE pos == Position(key)
           one == IF gone THEN 1 ELSE 0
           less == [qty EXCEPT ![pos] = @ - n]
           left == [orders EXCEPT ![pos] = @ - one]
           f == Map!LevelReduce(Levels, key, n, gone)
<1>1. /\ pos \in 0 .. size - 1 /\ keys[pos] = key /\ key \in DOMAIN Levels /\ Found(key)
      /\ size \in Nat /\ pos \in 0 .. cap - 1
  <2>1. Found(key)
    BY DEF Reduction
  <2> QED BY <2>1, PositionIs, Facts DEF Found
<1>2. /\ Map!Owed([qty |-> qty[pos], orders |-> orders[pos]], n, gone)
      /\ reply' = Answer(key) /\ cap' = cap
  BY DEF Reduction
<1>3. /\ keys' = IF left[pos] = 0 THEN ShiftDown(keys, pos, size - pos - 1, 4) ELSE keys
      /\ qty' = IF left[pos] = 0 THEN ShiftDown(less, pos, size - pos - 1, 2) ELSE less
      /\ orders' = IF left[pos] = 0 THEN ShiftDown(left, pos, size - pos - 1, 4) ELSE left
      /\ size' = IF left[pos] = 0 THEN size - 1 ELSE size
  BY DEF Reduction
<1> HIDE DEF pos
<1>4. /\ IsArray(keys, cap) /\ IsArray(less, cap) /\ IsArray(left, cap) /\ cap \in Nat
      /\ \A i \in 0 .. size - 1 : /\ less[i] = IF i = pos THEN qty[i] - n ELSE qty[i]
                                  /\ left[i] = IF i = pos THEN orders[i] - one ELSE orders[i]
  <2>1. /\ IsArray(keys, cap) /\ qty \in [0 .. cap - 1 -> Nat] /\ orders \in [0 .. cap - 1 -> Nat]
        /\ cap \in Nat /\ \A i \in 0 .. size - 1 : i \in 0 .. cap - 1
    BY Facts DEF IsArray
  <2>2. n <= qty[pos]
    BY <1>2 DEF Map!Owed
  <2>3. qty[pos] - n \in Nat
    BY <1>1, <2>1, <2>2
  <2>4. orders[pos] \in Nat /\ orders[pos] > 0 /\ one \in 0 .. 1
    BY <1>1, Facts
  <2>5. orders[pos] - one \in Nat
    BY <2>4
  <2> HIDE DEF one
  <2> QED BY <1>1, <2>1, <2>3, <2>5 DEF IsArray
<1>5. /\ Levels[key] = [qty |-> qty[pos], orders |-> orders[pos]]
      /\ Stored(Levels, keys, qty, orders, size)
  BY <1>1, LevelsAre DEF Stored
<1>6. f = IF left[pos] = 0 THEN [k \in DOMAIN Levels \ {key} |-> Levels[k]]
          ELSE [Levels EXCEPT ![key] = [qty |-> less[pos], orders |-> left[pos]]]
  <2>1. Levels[key].qty - n = less[pos] /\ Levels[key].orders - one = left[pos]
    BY <1>1, <1>4, <1>5
  <2> HIDE DEF less, left
  <2> QED BY <2>1 DEF Map!LevelReduce
<1>7. reply' \in {"none", "top", "ok", "missing"}
  BY <1>2 DEF Answer
<1>8. \A i \in 0 .. size - 1 : /\ keys[i] \in Nat /\ keys[i] \in Prices /\ orders[i] > 0
                               /\ (keys[i] = key => i = pos)
  <2>1. Ascending(keys, size) /\ \A j \in 0 .. size - 1 : keys[j] \in Nat
    BY Facts DEF IInv, Sorted
  <2>2. ASSUME NEW i \in 0 .. size - 1, keys[i] = keys[pos] PROVE i = pos
    BY <1>1, <2>1, <2>2, SamePlace
  <2> QED BY <1>1, <2>2, Facts
<1>9. Map!Owed(Levels[key], n, gone) /\ reply' = Map!Answer(key)
  BY <1>1, <1>2, <1>5, AnswerIs
<1> HIDE DEF less, left, f, one
<1>10. ASSUME TypeOK', Sorted', Held', Stored(f, keys', qty', orders', size')
       PROVE  IInv' /\ Map!ReduceLevel(key, n, gone)
  <2>1. IInv'
    BY <1>10 DEF IInv
  <2>2. size' \in Nat
    BY <1>10 DEF TypeOK
  <2>3. Ascending(keys', size') /\ \A i \in 0 .. size' - 1 : keys'[i] \in Nat
    <3>1. \A p \in Prices : p \in Nat
      BY LevelAssumption
    <3> QED BY ONLY <1>10, <3>1 DEF Sorted, Held
  <2>4. Levels' = f
    BY <1>10, <2>2, <2>3, LevelsBecome
  <2> QED BY <1>1, <1>9, <2>1, <2>4 DEF Map!ReduceLevel, f
\* An order leaves a level that stays.
<1>11. CASE left[pos] # 0
  <2>1. keys' = keys /\ qty' = less /\ orders' = left /\ size' = size
    BY <1>3, <1>11
  <2>2. TypeOK'
    <3>1. \A a \in {keys', qty', orders'} : a \in [0 .. cap' - 1 -> Nat]
      BY <1>2, <1>4, <2>1 DEF IsArray
    <3>2. cap' \in Nat /\ size' \in 0 .. cap' /\ (cap' = 0 \/ cap' >= Pad)
      BY <1>2, <2>1 DEF IInv, TypeOK
    <3> QED BY <1>7, <3>1, <3>2 DEF TypeOK
  <2>3. Sorted' /\ Held'
    <3>1. left[pos] \in Nat
      BY <1>1, <1>4 DEF IsArray
    <3>2. \A i \in 0 .. size - 1 : left[i] > 0
      BY <1>4, <1>8, <1>11, <3>1
    <3>3. Ascending(keys', size')
      BY <2>1 DEF IInv, Sorted
    <3> QED BY <1>8, <2>1, <3>2, <3>3 DEF Sorted, Held
  <2>4. Stored(f, keys', qty', orders', size')
    <3>1. f = [Levels EXCEPT ![key] = [qty |-> less[pos], orders |-> left[pos]]]
      BY <1>6, <1>11
    <3>2. /\ DOMAIN f = DOMAIN Levels /\ f = [k \in DOMAIN f |-> f[k]]
          /\ f[key] = [qty |-> less[pos], orders |-> left[pos]]
          /\ \A k \in DOMAIN Levels : k # key => f[k] = Levels[k]
      BY <1>1, <3>1
    <3>3. ASSUME NEW i \in 0 .. size - 1 PROVE f[keys[i]] = [qty |-> less[i], orders |-> left[i]]
      <4>1. CASE i = pos
        BY <1>1, <3>2, <4>1
      <4>2. CASE i # pos
        <5>1. keys[i] \in DOMAIN Levels /\ keys[i] # key
              /\ Levels[keys[i]] = [qty |-> qty[i], orders |-> orders[i]]
          BY <1>5, <1>8, <4>2 DEF Stored
        <5>2. less[i] = qty[i] /\ left[i] = orders[i]
          BY <1>4, <4>2
        <5> QED BY <3>2, <5>1, <5>2
      <4> QED BY <4>1, <4>2
    <3>4. DOMAIN f = {keys[i] : i \in 0 .. size - 1}
      BY <1>5, <3>2 DEF Stored
    <3> QED BY <2>1, <3>2, <3>3, <3>4 DEF Stored
  <2> QED BY <1>10, <2>2, <2>3, <2>4
\* The last order takes its level with it.
<1>12. CASE left[pos] = 0
  <2>1. /\ keys' = ShiftDown(keys, pos, size - pos - 1, 4)
        /\ qty' = ShiftDown(less, pos, size - pos - 1, 2)
        /\ orders' = ShiftDown(left, pos, size - pos - 1, 4)
        /\ size' = size - 1
    BY <1>3, <1>12
  <2>2. /\ IsArray(keys', cap) /\ Removed(keys, keys', pos, size)
        /\ IsArray(qty', cap) /\ Removed(less, qty', pos, size)
        /\ IsArray(orders', cap) /\ Removed(left, orders', pos, size)
    BY <1>1, <1>4, <2>1, ShiftRemoves
  <2>3. TypeOK'
    <3>1. \A a \in {keys', qty', orders'} : a \in [0 .. cap' - 1 -> Nat]
      BY <1>2, <2>2 DEF IsArray
    <3>2. cap' \in Nat /\ (cap' = 0 \/ cap' >= Pad)
      BY <1>2 DEF IInv, TypeOK
    <3>3. size' \in 0 .. cap'
      BY <1>1, <1>2, <1>4, <2>1, Facts
    <3> QED BY <1>7, <3>1, <3>2, <3>3 DEF TypeOK
  \* Where the levels are after the step.
  <2>4. ASSUME NEW i \in 0 .. size - 2
        PROVE  \/ i < pos /\ i \in 0 .. size - 1
                  /\ keys'[i] = keys[i] /\ qty'[i] = qty[i] /\ orders'[i] = orders[i]
               \/ pos <= i /\ i + 1 \in 0 .. size - 1
                  /\ keys'[i] = keys[i + 1] /\ qty'[i] = qty[i + 1] /\ orders'[i] = orders[i + 1]
    <3>1. i \in Nat /\ pos \in Nat /\ i \in 0 .. size - 1 /\ i + 1 \in 0 .. size - 1
      BY <1>1
    <3>2. CASE i < pos
      <4>1. keys'[i] = keys[i] /\ qty'[i] = less[i] /\ orders'[i] = left[i] /\ i # pos
        BY <2>2, <3>1, <3>2 DEF Removed
      <4> QED BY <1>4, <3>1, <3>2, <4>1
    <3>3. CASE pos <= i
      <4>1. /\ keys'[i] = keys[i + 1] /\ qty'[i] = less[i + 1] /\ orders'[i] = left[i + 1]
            /\ i + 1 # pos
        <5>1. ~(i < pos) /\ i + 1 # pos
          BY <3>1, <3>3
        <5> QED BY <2>2, <5>1 DEF Removed
      <4> QED BY <1>4, <3>1, <3>3, <4>1
    <3> QED BY <3>1, <3>2, <3>3
  <2>5. size' - 1 = size - 2 /\ size' \in Nat
    BY <1>1, <2>1
  <2>6. Sorted'
    <3>1. ASSUME NEW i \in 0 .. size - 2, NEW j \in 0 .. size - 2, i < j PROVE keys'[i] < keys'[j]
      <4>1. \A k, l \in 0 .. size - 1 : k < l => keys[k] < keys[l]
        BY DEF IInv, Sorted, Ascending
      <4>2. i \in Nat /\ j \in Nat /\ pos \in Nat
        BY <1>1
      <4>3. CASE j < pos
        <5>1. /\ i \in 0 .. size - 1 /\ j \in 0 .. size - 1
              /\ keys'[i] = keys[i] /\ keys'[j] = keys[j]
          BY <2>4, <3>1, <4>2, <4>3
        <5> QED BY <3>1, <4>1, <5>1
      <4>4. CASE pos <= j /\ i < pos
        <5>1. /\ i \in 0 .. size - 1 /\ j + 1 \in 0 .. size - 1 /\ i < j + 1
              /\ keys'[i] = keys[i] /\ keys'[j] = keys[j + 1]
          BY <2>4, <3>1, <4>2, <4>4
        <5> QED BY <4>1, <5>1
      <4>5. CASE pos <= j /\ pos <= i
        <5>1. /\ i + 1 \in 0 .. size - 1 /\ j + 1 \in 0 .. size - 1 /\ i + 1 < j + 1
              /\ keys'[i] = keys[i + 1] /\ keys'[j] = keys[j + 1]
          BY <2>4, <3>1, <4>2, <4>5
        <5> QED BY <4>1, <5>1
      <4> QED BY <4>2, <4>3, <4>4, <4>5
    <3> QED BY <2>5, <3>1 DEF Sorted, Ascending
  <2>7. Held'
    <3>1. \A i \in 0 .. size - 2 : keys'[i] \in Prices /\ orders'[i] > 0
      BY <1>8, <2>4
    <3> QED BY <2>5, <3>1 DEF Held
  <2>8. Stored(f, keys', qty', orders', size')
    <3>1. f = [k \in DOMAIN Levels \ {key} |-> Levels[k]]
      BY <1>6, <1>12
    <3>2. /\ DOMAIN f = DOMAIN Levels \ {key} /\ f = [k \in DOMAIN f |-> f[k]]
          /\ \A k \in DOMAIN f : f[k] = Levels[k]
      BY <3>1
    <3>3. /\ DOMAIN Levels = {keys[i] : i \in 0 .. size - 1}
          /\ \A i \in 0 .. size - 1 : /\ keys[i] \in DOMAIN Levels
                                      /\ Levels[keys[i]] = [qty |-> qty[i], orders |-> orders[i]]
      BY <1>5 DEF Stored
    <3>4. ASSUME NEW i \in 0 .. size - 2
          PROVE  keys'[i] \in DOMAIN f /\ f[keys'[i]] = [qty |-> qty'[i], orders |-> orders'[i]]
      <4>1. PICK j \in 0 .. size - 1 :
                j # pos /\ keys'[i] = keys[j] /\ qty'[i] = qty[j] /\ orders'[i] = orders[j]
        <5>1. i \in Nat /\ pos \in Nat
          BY <1>1
        <5>2. CASE i < pos
          <6>1. /\ i \in 0 .. size - 1 /\ i # pos
                /\ keys'[i] = keys[i] /\ qty'[i] = qty[i] /\ orders'[i] = orders[i]
            BY <2>4, <5>1, <5>2
          <6> QED BY <6>1
        <5>3. CASE pos <= i
          <6>1. /\ i + 1 \in 0 .. size - 1 /\ i + 1 # pos
                /\ keys'[i] = keys[i + 1] /\ qty'[i] = qty[i + 1] /\ orders'[i] = orders[i + 1]
            BY <2>4, <5>1, <5>3
          <6> QED BY <6>1
        <5> QED BY <5>1, <5>2, <5>3
      <4>2. keys[j] \in DOMAIN Levels /\ Levels[keys[j]] = [qty |-> qty[j], orders |-> orders[j]]
        BY ONLY <3>3, j \in 0 .. size - 1
      <4>3. keys[j] # key
        BY <1>8, <4>1
      <4>4. keys[j] \in DOMAIN f /\ f[keys[j]] = Levels[keys[j]]
        BY <3>2, <4>2, <4>3
      <4> QED BY ONLY <4>1, <4>2, <4>4
    <3>5. ASSUME NEW k \in DOMAIN f PROVE \E i \in 0 .. size - 2 : k = keys'[i]
      <4>1. PICK j \in 0 .. size - 1 : k = keys[j] /\ j # pos
        <5>1. k \in DOMAIN Levels /\ k # key
          BY <3>2
        <5> QED BY <1>1, <3>3, <5>1
      <4>2. j \in Nat /\ pos \in Nat
        BY <1>1
      <4>3. CASE j < pos
        <5>1. j \in 0 .. size - 2 /\ ~(pos <= j)
          BY <1>1, <4>2, <4>3
        <5> QED BY <2>4, <4>1, <5>1
      <4>4. CASE pos < j
        <5>1. j - 1 \in 0 .. size - 2 /\ ~(j - 1 < pos) /\ (j - 1) + 1 = j
          BY <1>1, <4>2, <4>4
        <5>2. keys'[j - 1] = keys[j]
          BY <2>4, <5>1
        <5> QED BY <4>1, <5>1, <5>2
      <4> QED BY <4>1, <4>2, <4>3, <4>4
    <3>6. DOMAIN f = {keys'[i] : i \in 0 .. size - 2}
      BY <3>4, <3>5
    <3> QED BY <2>5, <3>2, <3>4, <3>6 DEF Stored
  <2> QED BY <1>10, <2>3, <2>6, <2>7, <2>8
<1> QED BY <1>11, <1>12

\* The inductive invariant: the types, the order of the keys, and that every
\* level stored has a price and an order.
LEMMA StepIs ==
    ASSUME IInv, Next
    PROVE  IInv' /\ (Map!Next \/ UNCHANGED <<Levels, reply>>)
<1>1. CASE Reserve
  BY <1>1, ReserveStep
<1>2. ASSUME NEW p \in Prices, NEW n \in Shares, AddToLevel(p, n) \/ AddLevel(p, n)
      PROVE  IInv' /\ Map!Next
  <2>1. IInv' /\ Map!AddOrder(p, n)
    BY <1>2, AddToLevelStep, AddLevelStep
  <2> QED BY <2>1 DEF Map!Next
<1>3. ASSUME NEW p \in Prices, NEW gone \in BOOLEAN,
             NEW n \in 0 .. (IF Found(p) THEN qty[Position(p)] ELSE 0), Reduction(p, n, gone)
      PROVE  IInv' /\ Map!Next
  <2>1. Found(p)
    BY <1>3 DEF Reduction
  <2>2. Position(p) \in 0 .. size - 1 /\ keys[Position(p)] = p /\ p \in DOMAIN Levels
    BY <2>1, PositionIs, Facts DEF Found
  <2>3. Levels[p].qty = qty[Position(p)]
    <3>1. \A i \in 0 .. size - 1 : Levels[keys[i]] = [qty |-> qty[i], orders |-> orders[i]]
      BY LevelsAre DEF Stored
    <3>2. Levels[p] = [qty |-> qty[Position(p)], orders |-> orders[Position(p)]]
      BY ONLY <2>2, <3>1
    <3> QED BY <3>2
  <2>4. n \in Nat /\ n \in 0 .. Levels[p].qty
    <3>1. n \in 0 .. qty[Position(p)]
      BY <2>1
    <3> QED BY <2>3, <3>1
  <2>5. IInv' /\ Map!ReduceLevel(p, n, gone)
    BY <1>3, <2>4, ReductionStep
  <2> QED BY <2>2, <2>4, <2>5 DEF Map!Next
<1>4. ASSUME NEW p \in Prices, ReduceMissing(p)
      PROVE  IInv' /\ Map!Next
  <2>1. IInv' /\ Map!Missing(p)
    BY <1>4, MissingStep
  <2> QED BY <2>1 DEF Map!Next
<1> QED BY <1>1, <1>2, <1>3, <1>4 DEF Next

LEMMA StutterIs ==
    ASSUME IInv, UNCHANGED vars
    PROVE  IInv' /\ UNCHANGED <<Levels, reply>>
<1>1. UNCHANGED <<keys, qty, orders, size, cap, reply>>
  BY DEF vars
<1>2. IInv'
  BY <1>1 DEF IInv, TypeOK, Sorted, Held, Ascending
<1> QED BY <1>1, <1>2 DEF Levels

\* The inductive invariant: types, ascending keys, and every stored key a price
\* that orders rest on.
THEOREM Invariant == Spec => []IInv
<1>1. Init => IInv
  BY InitIInv
<1>2. IInv /\ [Next]_vars => IInv'
  BY StepIs, StutterIs
<1> QED BY <1>1, <1>2, PTL DEF Spec

\* The types: the arrays hold what cap says, and never fewer keys than a search
\* reads.
THEOREM TypeCorrect == Spec => []TypeOK
<1>1. IInv => TypeOK
  BY DEF IInv
<1> QED BY <1>1, Invariant, PTL

\* The keys stay ascending whatever was added, erased and moved before
\* (LevelSide, "sorted ascending by key").
THEOREM StaysSorted == Spec => []Sorted
<1>1. IInv => Sorted
  BY DEF IInv
<1> QED BY <1>1, Invariant, PTL

\* The arrays, with their searches from the back and their moves in blocks,
\* implement the map of LevelMap for every chunk size, chunk count and capacity.
THEOREM Refinement == Spec => ImplementsLevels
<1>1. Init => Map!Init
  BY InitIInv
<1>2. IInv /\ [Next]_vars => [Map!Next]_<<Levels, reply>>
  BY StepIs, StutterIs
<1> QED BY <1>1, <1>2, Invariant, PTL DEF Spec, ImplementsLevels, Map!Spec

-----------------------------------------------------------------------------
(* What a search costs.                                                    *)

\* The keys at or above key, as the depth profile counts them, are those of the
\* levels from the place of key on.
LEMMA KeysFromPlace ==
    ASSUME IInv, NEW key \in Prices
    PROVE  Profile!KeysAtOrAbove(Levels, key) = size - Position(key)
<1> DEFINE pos == Position(key)
           S == pos .. size - 1
           T == {k \in DOMAIN Levels : k >= key}
           g == [i \in S |-> keys[i]]
<1>1. /\ pos \in Nat /\ size \in Nat /\ pos <= size /\ Splits(keys, size, key, pos)
      /\ \A i \in 0 .. size - 1 : keys[i] \in Nat /\ i \in Nat
  BY PositionIs, Facts
<1> HIDE DEF pos
<1>2. DOMAIN Levels = {keys[i] : i \in 0 .. size - 1}
  BY LevelsAre DEF Stored
<1>3. \A i \in 0 .. size - 1 : keys[i] >= key <=> i \in S
  BY <1>1 DEF Splits
<1>4. \A i \in S : i \in 0 .. size - 1
  BY <1>1
<1>5. \A i \in S : g[i] = keys[i] /\ g[i] \in T
  BY <1>2, <1>3, <1>4
<1>6. \A k \in T : \E i \in S : g[i] = k
  BY <1>2, <1>3
<1>7. ASSUME NEW i \in S, NEW j \in S, g[i] = g[j] PROVE i = j
  <2>1. Ascending(keys, size) /\ \A l \in 0 .. size - 1 : keys[l] \in Nat
    BY <1>1 DEF IInv, Sorted
  <2>2. i \in 0 .. size - 1 /\ j \in 0 .. size - 1 /\ keys[i] = keys[j]
    BY <1>4, <1>5, <1>7
  <2> QED BY ONLY <1>1, <2>1, <2>2, SamePlace
<1>8. g \in [S -> T]
  BY <1>5
<1>9. IsFiniteSet(S) /\ Cardinality(S) = size - pos
  <2>1. pos \in Int /\ size - 1 \in Int
    BY <1>1
  <2>2. IsFiniteSet(pos .. size - 1)
        /\ Cardinality(pos .. size - 1) = IF pos > size - 1 THEN 0 ELSE (size - 1) - pos + 1
    BY ONLY <2>1, FS_Interval
  <2> QED BY <1>1, <2>2
<1> HIDE DEF S, T, g
<1>10. ExistsBijection(S, T)
  <2>1. g \in Injection(S, T)
    BY <1>7, <1>8 DEF Injection, IsInjective
  <2>2. g \in Surjection(S, T)
    BY <1>6, <1>8 DEF Surjection
  <2> QED BY <2>1, <2>2 DEF ExistsBijection, Bijection
<1>11. Cardinality(T) = Cardinality(S)
  BY <1>9, <1>10, FS_Bijection
<1>12. Profile!KeysAtOrAbove(Levels, key) = Cardinality(T)
  BY DEF Profile!KeysAtOrAbove, T, Profile!Cardinality, Cardinality
<1>13. Profile!KeysAtOrAbove(Levels, key) = size - pos
  BY ONLY <1>9, <1>11, <1>12
<1> QED BY <1>13 DEF pos

\* The chunk that stops the search is the one that starts before the place.
LEMMA StopIs ==
    ASSUME NEW a, NEW n, NEW key, NEW p, Splits(a, n, key, p), Stops(a, n, key) # {}
    PROVE  Min(Stops(a, n, key)) = (n - p) \div Pad + 1
<1> DEFINE stops == Stops(a, n, key)
<1>1. /\ n \in Nat /\ p \in Nat /\ p <= n /\ Pad \in Nat /\ Pad > 0
      /\ Scanned(n) \in Nat /\ stops \subseteq 1 .. Scanned(n)
  <2>1. n \in Nat /\ p \in Nat /\ p <= n
    BY DEF Splits
  <2>2. Scanned(n) \in Nat
    BY StopsAre
  <2>3. stops \subseteq 1 .. Scanned(n)
    BY DEF Stops
  <2> QED BY <2>1, <2>2, <2>3, LevelAssumption
<1>2. PICK g \in Nat : g = n - p
  BY <1>1
<1>3. PICK q \in Nat : q = g \div Pad
  BY ChunkSizes
<1>4. \A c \in Nat : c <= q <=> InChunks(c) <= g
  BY <1>3, ChunkSizes
<1>5. \A c \in 1 .. Scanned(n) : c \in stops <=> q < c
  <2>1. TAKE c \in 1 .. Scanned(n)
  <2>2. c \in Nat /\ c \in 0 .. Scanned(n)
    BY <1>1
  <2>3. InChunks(c) \in Nat /\ n - InChunks(c) \in Nat
    BY <2>2, StopsAre
  <2>4. c \in stops <=> n - InChunks(c) < p
    BY StopsAre
  <2>5. n - InChunks(c) < p <=> ~(InChunks(c) <= g)
    BY <1>1, <1>2, <2>3
  <2> QED BY <1>3, <1>4, <2>2, <2>4, <2>5
<1> HIDE DEF stops
<1>6. PICK c \in stops : TRUE
  BY DEF stops
<1>7. q + 1 \in stops /\ \A d \in stops : d \in Nat /\ q + 1 <= d
  <2>1. \A d \in stops : d \in Nat /\ d \in 1 .. Scanned(n) /\ q < d
    BY <1>1, <1>5
  <2>2. q + 1 \in 1 .. Scanned(n)
    BY <1>1, <1>6, <2>1
  <2> QED BY <1>5, <2>1, <2>2
<1>8. Min(stops) \in stops /\ \A d \in stops : Min(stops) <= d
  BY <1>7 DEF Min
<1>9. Min(stops) = q + 1
  <2>1. Min(stops) \in Nat /\ q + 1 <= Min(stops) /\ Min(stops) <= q + 1
    BY <1>7, <1>8
  <2> QED BY ONLY <2>1, q \in Nat
<1> QED BY <1>2, <1>3, <1>9 DEF stops

\* Both searches find the same place, and what the search from the back costs is
\* what the depth profile makes of the keys it meets (order_book.hpp,
\* depth_profiler.hpp).
LEMMA CostIs ==
    ASSUME IInv, size > 0, NEW key \in Prices
    PROVE  LET cost == Cost(size, key)
               ge   == Profile!KeysAtOrAbove(Levels, key)
           IN  /\ ScalarLowerBoundFromBack(keys, size, key) = LowerBoundFromBack(keys, size, key)
               /\ IF cost.binary THEN ge >= Chunks * Pad
                                 ELSE cost.chunks = Profile!ChunksFor(ge, Pad)
<1> DEFINE pos == Position(key)
           ge == Profile!KeysAtOrAbove(Levels, key)
           stops == Stops(keys, size, key)
           sc == Scanned(size)
           binary == stops = {} /\ size - InChunks(sc) >= Pad
           chunks == IF stops # {} THEN Min(stops) ELSE sc + (IF binary THEN 0 ELSE 1)
<1>1. /\ pos \in Nat /\ size \in Nat /\ pos <= size /\ Splits(keys, size, key, pos)
      /\ Pad \in Nat /\ Pad > 0 /\ Chunks \in Nat
  BY PositionIs, Facts, LevelAssumption
<1>2. ge = size - pos
  BY KeysFromPlace
<1>3. Cost(size, key).binary = binary /\ Cost(size, key).chunks = chunks
  BY DEF Cost, Stops, Scanned, InChunks
<1> HIDE DEF pos, ge
<1>4. ScalarLowerBoundFromBack(keys, size, key) = LowerBoundFromBack(keys, size, key)
  <2>1. ScalarLowerBoundFromBack(keys, size, key) = pos
    BY <1>1, ScalarSearch
  <2>2. LowerBoundFromBack(keys, size, key) = pos
    BY <1>1, SearchFromBack
  <2> QED BY <2>1, <2>2
<1>5. /\ sc \in Nat /\ sc <= size \div Pad /\ size \div Pad \in Nat
      /\ InChunks(sc) \in Nat /\ size - InChunks(sc) \in Nat
  <2>1. sc \in Nat /\ sc <= size \div Pad
    BY <1>1, StopsAre
  <2>2. InChunks(sc) \in Nat /\ size - InChunks(sc) \in Nat
    BY <1>1, <2>1, StopsAre
  <2> QED BY <1>1, <2>1, <2>2, ChunkSizes
<1>6. CASE stops # {}
  <2>1. Min(stops) = (size - pos) \div Pad + 1
    BY <1>1, <1>6, StopIs
  <2>2. ~binary /\ chunks = ge \div Pad + 1
    BY <1>2, <1>6, <2>1
  <2> HIDE DEF binary, chunks
  <2> QED BY <1>3, <1>4, <2>2 DEF Profile!ChunksFor, ge
<1>7. CASE stops = {}
  <2>1. ge \in Nat /\ InChunks(sc) <= ge
    <3>1. CASE sc = 0
      BY <1>1, <1>2, <3>1, ChunkSizes
    <3>2. CASE sc # 0
      <4>1. sc \in 1 .. sc
        BY <1>5, <3>2
      <4>2. ~(size - InChunks(sc) < pos)
        BY <1>1, <1>7, <4>1, StopsAre
      <4> QED BY <1>1, <1>2, <1>5, <4>2
    <3> QED BY <3>1, <3>2
  <2>2. CASE size - InChunks(sc) >= Pad
    <3>1. sc = Chunks
      <4>1. ~(sc = size \div Pad)
        BY <1>1, <1>5, <2>2, ChunkSizes
      <4> QED BY <4>1 DEF Scanned
    <3>2. ge >= Chunks * Pad
      BY <1>5, <2>1, <3>1 DEF InChunks
    <3>3. Cost(size, key).binary = TRUE
      BY <1>3, <1>7, <2>2
    <3> HIDE DEF binary, chunks
    <3> QED BY <1>4, <3>2, <3>3 DEF ge
  <2>3. CASE ~(size - InChunks(sc) >= Pad)
    <3>1. chunks = sc + 1 /\ ~binary
      BY <1>7, <2>3
    <3>2. ge \div Pad = sc
      <4>1. InChunks(sc + 1) = InChunks(sc) + Pad /\ ge < InChunks(sc + 1)
        <5>1. PICK s \in Nat : s = sc
          BY <1>5
        <5>2. InChunks(s + 1) = InChunks(s) + Pad /\ InChunks(s) \in Nat
          BY ONLY s \in Nat, <1>1, ChunkSizes
        <5>3. PICK i \in Nat : i = InChunks(s)
          BY <5>2
        <5>4. ~(size - i >= Pad)
          BY <2>3, <5>1, <5>3
        <5>5. ge < i + Pad
          BY ONLY <1>1, <1>2, <5>4, i \in Nat
        <5> QED BY ONLY <5>1, <5>2, <5>3, <5>5
      <4>2. ge \div Pad \in Nat /\ \A c \in Nat : c <= ge \div Pad <=> InChunks(c) <= ge
        <5>1. PICK e \in Nat : e = ge
          BY <2>1
        <5>2. e \div Pad \in Nat /\ \A c \in Nat : c <= e \div Pad <=> InChunks(c) <= e
          BY ONLY e \in Nat, ChunkSizes
        <5> QED BY ONLY <5>1, <5>2
      <4>3. sc <= ge \div Pad /\ ~(sc + 1 <= ge \div Pad)
        <5>1. sc + 1 \in Nat /\ InChunks(sc + 1) \in Nat /\ ~(InChunks(sc + 1) <= ge)
          BY <1>1, <1>5, <2>1, <4>1
        <5> QED BY <1>5, <2>1, <4>2, <5>1
      <4> QED BY <1>5, <4>2, <4>3
    <3> HIDE DEF binary, chunks
    <3> QED BY <1>3, <1>4, <3>1, <3>2 DEF Profile!ChunksFor, ge
  <2> QED BY <2>2, <2>3
<1> QED BY <1>6, <1>7

\* The scalar and the SIMD builds agree, and a search costs what the depth
\* profile says, on every side that can be reached and for every chunk size.
THEOREM SearchesAgree == Spec => []KernelsAgree
<1>1. IInv => KernelsAgree
  BY CostIs DEF KernelsAgree
<1> QED BY <1>1, Invariant, PTL
=============================================================================
