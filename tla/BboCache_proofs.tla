--------------------------- MODULE BboCache_proofs ---------------------------
(***************************************************************************)
(* Proofs about the seqlock of a BBO cache entry, for every set of fields, *)
(* every set of readers and every number of stores.                        *)
(***************************************************************************)
EXTENDS BboCache, SequenceTheorems, TLAPS

-----------------------------------------------------------------------------
(* The inductive invariant.                                                *)

\* Number of completed stores.
K == wSeq \div 2

\* How long each location's history is, and that the writer has seen it all.
Histories ==
    /\ wSeq = 2 * K
    /\ Len(mem[Seq0]) = IF wPc = "idle" THEN wSeq + 1 ELSE wSeq + 2
    /\ \A f \in Fields :
         Len(mem[f]) = IF wPc = "fields" /\ f \notin wTodo THEN K + 2 ELSE K + 1
    /\ \A l \in Locs : wView[l] = Len(mem[l])
    /\ wPc = "fields" => wFence[Seq0] = wSeq + 2

\* An even number released the fields of its store; a field released the odd
\* number of its store.
Released ==
    /\ \A i \in 1 .. Len(mem[Seq0]) :
         /\ mem[Seq0][i].val = i - 1
         /\ \A n \in Nat : i = 2 * n + 1 => \A f \in Fields : mem[Seq0][i].view[f] >= n + 1
    /\ \A f \in Fields : \A i \in 1 .. Len(mem[f]) :
         /\ mem[f][i].val = i - 1
         /\ mem[f][i].view[Seq0] >= 2 * (i - 1)

\* What a reader inside try_load knows.
Reading(r) ==
    /\ \E n \in Nat : s1[r] = 2 * n
    /\ s1[r] <= wSeq
    /\ rView[r][Seq0] >= s1[r] + 1
    /\ \A f \in Fields :
         /\ 2 * rView[r][f] >= s1[r] + 2
         /\ fetched[r][f] # -1 => /\ 2 * fetched[r][f] >= s1[r]
                                  /\ rAcquire[r][Seq0] >= 2 * fetched[r][f]

ReaderInv(r) ==
    /\ rPc[r] \in {"fields", "check"} => Reading(r)
    /\ rPc[r] = "check" => \A f \in Fields :
         fetched[r][f] # -1 /\ rView[r][Seq0] >= 2 * fetched[r][f]
    /\ rView[r][Seq0] >= 2 * known[r] + 1
    /\ 2 * known[r] <= wSeq
    /\ \A l \in Locs : rView[r][l] >= 1

IndInv == /\ TypeOK /\ Histories /\ Released
          /\ NoTornSnapshot
          /\ \A r \in Readers : ReaderInv(r)

-----------------------------------------------------------------------------
LEMMA SeqIsLoc == Seq0 \in Locs /\ Fields \subseteq Locs /\ Seq0 \notin Fields
BY CacheAssumption DEF Locs

\* The effect of a store on the history of its location.
LEMMA AppendFacts ==
    ASSUME TypeOK, NEW l \in Locs, NEW val \in Nat, NEW v \in Views, Append1(l, val, v)
    PROVE  /\ mem' \in [Locs -> Seq(Messages)]
           /\ wView' \in Views
           /\ Len(mem'[l]) = Len(mem[l]) + 1 /\ Len(mem[l]) \in Nat
           /\ mem'[l][Len(mem[l]) + 1] = [val |-> val, view |-> v]
           /\ \A i \in 1 .. Len(mem[l]) : mem'[l][i] = mem[l][i]
           /\ \A k \in Locs \ {l} : mem'[k] = mem[k]
           /\ wView'[l] = Len(mem[l]) + 1
           /\ \A k \in Locs \ {l} : wView'[k] = wView[k]
<1>1. mem \in [Locs -> Seq(Messages)] /\ mem[l] \in Seq(Messages) /\ wView \in [Locs -> Nat]
  BY DEF TypeOK, Views
<1>2. [val |-> val, view |-> v] \in Messages
  BY DEF Messages
<1>3. mem' = [mem EXCEPT ![l] = Append(mem[l], [val |-> val, view |-> v])]
  BY DEF Append1
<1>4. mem'[l] = Append(mem[l], [val |-> val, view |-> v])
  BY <1>1, <1>3
<1>5. /\ mem'[l] \in Seq(Messages)
      /\ Len(mem'[l]) = Len(mem[l]) + 1
      /\ mem'[l][Len(mem[l]) + 1] = [val |-> val, view |-> v]
      /\ \A i \in 1 .. Len(mem[l]) : mem'[l][i] = mem[l][i]
  BY <1>1, <1>2, <1>4, AppendProperties
<1>6. Len(mem[l]) \in Nat
  BY <1>1, LenProperties
<1>7. mem' \in [Locs -> Seq(Messages)] /\ \A k \in Locs \ {l} : mem'[k] = mem[k]
  BY <1>1, <1>3, <1>4, <1>5
<1>8. wView' = [wView EXCEPT ![l] = Len(mem[l]) + 1]
  BY DEF Append1, Own
<1>9. wView' \in Views /\ wView'[l] = Len(mem[l]) + 1 /\ \A k \in Locs \ {l} : wView'[k] = wView[k]
  BY <1>1, <1>6, <1>8 DEF Views
<1> QED
  BY <1>5, <1>6, <1>7, <1>9

LEMMA JoinFacts ==
    ASSUME NEW v \in Views, NEW w \in Views
    PROVE  /\ Join(v, w) \in Views
           /\ \A l \in Locs : Join(v, w)[l] >= v[l] /\ Join(v, w)[l] >= w[l]
BY DEF Join, Views

LEMMA StartFacts == Start \in Views /\ \A l \in Locs : Start[l] = 1
BY DEF Start, Views

\* A step of the writer leaves every reader's state and snapshot as they were.
LEMMA ReadersKeep ==
    ASSUME IndInv, UNCHANGED readerVars, wSeq' \in Nat, wSeq <= wSeq'
    PROVE  NoTornSnapshot' /\ \A r \in Readers : ReaderInv(r)'
<1>1. wSeq \in Nat /\ known \in [Readers -> Nat] /\ s1 \in [Readers -> Nat]
  BY DEF IndInv, TypeOK
<1>2. NoTornSnapshot'
  BY <1>1 DEF IndInv, NoTornSnapshot, readerVars
<1>3. ASSUME NEW r \in Readers PROVE ReaderInv(r)'
  <2>1. ReaderInv(r) /\ s1[r] \in Nat /\ known[r] \in Nat
    BY <1>1 DEF IndInv
  <2> QED
    BY <1>1, <2>1 DEF ReaderInv, Reading, readerVars
<1> QED
  BY <1>2, <1>3

-----------------------------------------------------------------------------
LEMMA InitInv == Init => IndInv
<1> SUFFICES ASSUME Init PROVE IndInv
  OBVIOUS
<1> USE DEF Init
<1>1. /\ [val |-> 0, view |-> Start] \in Messages
      /\ <<[val |-> 0, view |-> Start]>> \in Seq(Messages)
      /\ \A l \in Locs : /\ Len(mem[l]) = 1
                         /\ mem[l][1] = [val |-> 0, view |-> Start]
  BY StartFacts DEF Messages
<1>2. TypeOK
  <2>1. mem \in [Locs -> Seq(Messages)]
    BY <1>1
  <2>2. wSeq \in Nat /\ wSeq % 2 = 0 /\ wTodo \subseteq Fields
    OBVIOUS
  <2>3. rView \in [Readers -> Views] /\ rAcquire \in [Readers -> Views] /\ wView \in Views /\ wFence \in Views
    BY StartFacts
  <2>4. /\ fetched \in [Readers -> [Fields -> Nat \cup {-1}]] /\ snap \in [Readers -> [Fields -> Nat]]
        /\ known \in [Readers -> Nat] /\ s1 \in [Readers -> Nat]
    OBVIOUS
  <2>5. wPc \in {"idle", "fence", "fields"} /\ rPc \in [Readers -> {"returned", "seq", "fields", "check"}]
    OBVIOUS
  <2> QED
    BY <2>1, <2>2, <2>3, <2>4, <2>5 DEF TypeOK
<1>3. Histories
  BY <1>1, SeqIsLoc, StartFacts DEF Histories, K
<1>4. Released
  <2>1. \A i \in 1 .. Len(mem[Seq0]) : i = 1
    BY <1>1, SeqIsLoc
  <2>2. \A f \in Fields : \A i \in 1 .. Len(mem[f]) : i = 1
    BY <1>1, SeqIsLoc
  <2>3. \A n \in Nat : 1 = 2 * n + 1 => 1 >= n + 1
    OBVIOUS
  <2>4. mem[Seq0][1].val = 0 /\ \A f \in Fields : mem[Seq0][1].view[f] = 1
    BY <1>1, SeqIsLoc, StartFacts
  <2>5. \A f \in Fields : mem[f][1].val = 0 /\ mem[f][1].view[Seq0] = 1
    BY <1>1, SeqIsLoc, StartFacts
  <2>6. ASSUME NEW i \in 1 .. Len(mem[Seq0])
        PROVE  /\ mem[Seq0][i].val = i - 1
               /\ \A n \in Nat : i = 2 * n + 1 => \A f \in Fields : mem[Seq0][i].view[f] >= n + 1
    <3>1. i = 1
      BY <2>1
    <3> QED
      BY <3>1, <2>3, <2>4
  <2>7. ASSUME NEW f \in Fields, NEW i \in 1 .. Len(mem[f])
        PROVE  mem[f][i].val = i - 1 /\ mem[f][i].view[Seq0] >= 2 * (i - 1)
    <3>1. i = 1
      BY <2>2
    <3> QED
      BY <3>1, <2>5
  <2> QED
    BY <2>6, <2>7 DEF Released
<1>5. NoTornSnapshot
  <2>1. 0 \in 0 .. 0 /\ 2 * 0 <= 0
    OBVIOUS
  <2> QED
    BY <2>1 DEF NoTornSnapshot
<1>6. \A r \in Readers : ReaderInv(r)
  BY StartFacts, SeqIsLoc DEF ReaderInv
<1> QED
  BY <1>2, <1>3, <1>4, <1>5, <1>6 DEF IndInv

LEMMA StoreOddInv == IndInv /\ StoreOdd => IndInv'
<1> SUFFICES ASSUME IndInv, StoreOdd PROVE IndInv'
  OBVIOUS
<1> USE SeqIsLoc DEF IndInv
<1> DEFINE v == [wFence EXCEPT ![Seq0] = Len(mem[Seq0]) + 1]
<1>1. /\ wPc = "idle" /\ wPc' = "fence" /\ UNCHANGED <<wSeq, wTodo, wFence, readerVars>>
      /\ Append1(Seq0, wSeq + 1, v)
  BY DEF StoreOdd
<1>2. v \in Views /\ wSeq + 1 \in Nat /\ wSeq \in Nat
  BY LenProperties DEF TypeOK, Views
<1> HIDE DEF v
<1>3. /\ mem' \in [Locs -> Seq(Messages)] /\ wView' \in Views
      /\ Len(mem'[Seq0]) = Len(mem[Seq0]) + 1 /\ Len(mem[Seq0]) \in Nat
      /\ mem'[Seq0][Len(mem[Seq0]) + 1] = [val |-> wSeq + 1, view |-> v]
      /\ \A i \in 1 .. Len(mem[Seq0]) : mem'[Seq0][i] = mem[Seq0][i]
      /\ \A k \in Locs \ {Seq0} : mem'[k] = mem[k]
      /\ wView'[Seq0] = Len(mem[Seq0]) + 1
      /\ \A k \in Locs \ {Seq0} : wView'[k] = wView[k]
  BY <1>1, <1>2, AppendFacts
<1>4. TypeOK'
  BY <1>1, <1>3 DEF TypeOK, readerVars
<1>5. Len(mem[Seq0]) = wSeq + 1 /\ wSeq = 2 * K /\ K' = K /\ K \in Nat
  BY <1>1, <1>2 DEF Histories, K
<1>6. Histories'
  <2>1. \A f \in Fields : Len(mem'[f]) = K' + 1
    BY <1>1, <1>3, <1>5 DEF Histories
  <2>2. \A l \in Locs : wView'[l] = Len(mem'[l])
    BY <1>3 DEF Histories
  <2> QED
    BY <1>1, <1>3, <1>5, <2>1, <2>2 DEF Histories
<1>7. Released'
  <2>1. ASSUME NEW i \in 1 .. Len(mem'[Seq0])
        PROVE  /\ mem'[Seq0][i].val = i - 1
               /\ \A n \in Nat : i = 2 * n + 1 => \A f \in Fields : mem'[Seq0][i].view[f] >= n + 1
    <3>1. CASE i = wSeq + 2
      BY <3>1, <1>3, <1>5
    <3>2. CASE i \in 1 .. Len(mem[Seq0])
      BY <3>2, <1>3 DEF Released
    <3> QED
      BY <3>1, <3>2, <1>3, <1>5
  <2>2. \A f \in Fields : mem'[f] = mem[f]
    BY <1>3
  <2> QED
    BY <2>1, <2>2 DEF Released
<1>8. NoTornSnapshot' /\ \A r \in Readers : ReaderInv(r)'
  BY <1>1, <1>2, ReadersKeep
<1> QED
  BY <1>4, <1>6, <1>7, <1>8

LEMMA FenceInv == IndInv /\ Fence => IndInv'
<1> SUFFICES ASSUME IndInv, Fence PROVE IndInv'
  OBVIOUS
<1> USE SeqIsLoc DEF IndInv, Fence, ReleaseFence
<1>1. TypeOK'
  BY DEF TypeOK, readerVars
<1>2. Histories' /\ Released'
  BY DEF Histories, Released, K, readerVars
<1>3. NoTornSnapshot' /\ \A r \in Readers : ReaderInv(r)'
  BY ReadersKeep DEF TypeOK
<1> QED
  BY <1>1, <1>2, <1>3

LEMMA StoreFieldInv == ASSUME NEW g \in Fields PROVE IndInv /\ StoreField(g) => IndInv'
<1> SUFFICES ASSUME IndInv, StoreField(g) PROVE IndInv'
  OBVIOUS
<1> USE SeqIsLoc DEF IndInv
<1> DEFINE v == [wFence EXCEPT ![g] = Len(mem[g]) + 1]
<1>1. /\ wPc = "fields" /\ g \in wTodo /\ wTodo' = wTodo \ {g}
      /\ UNCHANGED <<wPc, wSeq, wFence, readerVars>>
      /\ Append1(g, K + 1, v)
  BY DEF StoreField, K
<1>2. wSeq \in Nat /\ wSeq = 2 * K /\ K \in Nat /\ K' = K
  BY <1>1 DEF TypeOK, Histories, K
<1>3. v \in Views /\ v[Seq0] = wSeq + 2
  BY <1>1, LenProperties DEF TypeOK, Views, Histories
<1> HIDE DEF v
<1>4. /\ mem' \in [Locs -> Seq(Messages)] /\ wView' \in Views
      /\ Len(mem'[g]) = Len(mem[g]) + 1 /\ Len(mem[g]) \in Nat
      /\ mem'[g][Len(mem[g]) + 1] = [val |-> K + 1, view |-> v]
      /\ \A i \in 1 .. Len(mem[g]) : mem'[g][i] = mem[g][i]
      /\ \A k \in Locs \ {g} : mem'[k] = mem[k]
      /\ wView'[g] = Len(mem[g]) + 1
      /\ \A k \in Locs \ {g} : wView'[k] = wView[k]
  BY <1>1, <1>2, <1>3, AppendFacts
<1>5. TypeOK'
  BY <1>1, <1>4 DEF TypeOK, readerVars
<1>6. Len(mem[g]) = K + 1
  BY <1>1 DEF Histories
<1>7. Histories'
  <2>1. Len(mem'[Seq0]) = wSeq' + 2 /\ wFence'[Seq0] = wSeq' + 2
    BY <1>1, <1>4 DEF Histories
  <2>2. ASSUME NEW f \in Fields
        PROVE  Len(mem'[f]) = IF f \notin wTodo' THEN K' + 2 ELSE K' + 1
    <3>1. CASE f = g
      <4>1. Len(mem'[f]) = K + 2
        BY <3>1, <1>2, <1>4, <1>6
      <4> QED
        BY <3>1, <4>1, <1>1, <1>2
    <3>2. CASE f # g
      <4>1. mem'[f] = mem[f] /\ (f \in wTodo' <=> f \in wTodo)
        BY <3>2, <1>1, <1>4
      <4> QED
        BY <4>1, <1>1, <1>2 DEF Histories
    <3> QED
      BY <3>1, <3>2
  <2>3. \A l \in Locs : wView'[l] = Len(mem'[l])
    BY <1>4 DEF Histories
  <2> QED
    BY <1>1, <1>2, <2>1, <2>2, <2>3 DEF Histories
<1>8. Released'
  <2>1. mem'[Seq0] = mem[Seq0]
    BY <1>4
  <2>2. ASSUME NEW f \in Fields, NEW i \in 1 .. Len(mem'[f])
        PROVE  mem'[f][i].val = i - 1 /\ mem'[f][i].view[Seq0] >= 2 * (i - 1)
    <3>0. \A k \in 1 .. Len(mem[f]) : mem[f][k].val = k - 1 /\ mem[f][k].view[Seq0] >= 2 * (k - 1)
      BY DEF Released
    <3>1. CASE f # g
      <4>1. mem'[f] = mem[f]
        BY <3>1, <1>4
      <4> QED
        BY ONLY <4>1, <3>0, i \in 1 .. Len(mem'[f])
    <3>2. CASE f = g /\ i = K + 2
      BY <3>2, <1>2, <1>3, <1>4, <1>6, SMTT(30)
    <3>3. CASE f = g /\ i \in 1 .. Len(mem[g])
      <4>1. mem'[f][i] = mem[f][i]
        BY <3>3, <1>4
      <4> QED
        BY ONLY <4>1, <3>0, <3>3
    <3> QED
      BY <3>1, <3>2, <3>3, <1>2, <1>4, <1>6
  <2> QED
    BY <2>1, <2>2 DEF Released
<1>9. NoTornSnapshot' /\ \A r \in Readers : ReaderInv(r)'
  BY <1>1, <1>2, ReadersKeep
<1> QED
  BY <1>5, <1>7, <1>8, <1>9

LEMMA StoreEvenInv == IndInv /\ StoreEven => IndInv'
<1> SUFFICES ASSUME IndInv, StoreEven PROVE IndInv'
  OBVIOUS
<1> USE SeqIsLoc DEF IndInv
<1>1. /\ wPc = "fields" /\ wTodo = {} /\ wSeq' = wSeq + 2 /\ wPc' = "idle"
      /\ UNCHANGED <<wTodo, wFence, readerVars>>
      /\ Append1(Seq0, wSeq + 2, Own(Seq0))
  BY DEF StoreEven, Even
<1>2. wSeq \in Nat /\ wSeq = 2 * K /\ K \in Nat /\ K' = K + 1
  BY <1>1 DEF TypeOK, Histories, K
<1>3. Own(Seq0) \in Views /\ \A f \in Fields : Own(Seq0)[f] = K + 2
  BY <1>1, LenProperties DEF TypeOK, Views, Histories, Own
<1>4. /\ mem' \in [Locs -> Seq(Messages)] /\ wView' \in Views
      /\ Len(mem'[Seq0]) = Len(mem[Seq0]) + 1 /\ Len(mem[Seq0]) \in Nat
      /\ mem'[Seq0][Len(mem[Seq0]) + 1] = [val |-> wSeq + 2, view |-> Own(Seq0)]
      /\ \A i \in 1 .. Len(mem[Seq0]) : mem'[Seq0][i] = mem[Seq0][i]
      /\ \A k \in Locs \ {Seq0} : mem'[k] = mem[k]
      /\ wView'[Seq0] = Len(mem[Seq0]) + 1
      /\ \A k \in Locs \ {Seq0} : wView'[k] = wView[k]
  BY <1>1, <1>2, <1>3, AppendFacts
<1>5. TypeOK'
  BY <1>1, <1>2, <1>4 DEF TypeOK, readerVars
<1>6. Len(mem[Seq0]) = wSeq + 2
  BY <1>1 DEF Histories
<1>7. Histories'
  <2>1. Len(mem'[Seq0]) = wSeq' + 1 /\ wSeq' = 2 * K'
    BY <1>1, <1>2, <1>4, <1>6
  <2>2. \A f \in Fields : Len(mem'[f]) = K' + 1
    BY <1>1, <1>2, <1>4 DEF Histories
  <2>3. \A l \in Locs : wView'[l] = Len(mem'[l])
    BY <1>4 DEF Histories
  <2> QED
    BY <1>1, <2>1, <2>2, <2>3 DEF Histories
<1>8. Released'
  <2>1. ASSUME NEW i \in 1 .. Len(mem'[Seq0])
        PROVE  /\ mem'[Seq0][i].val = i - 1
               /\ \A n \in Nat : i = 2 * n + 1 => \A f \in Fields : mem'[Seq0][i].view[f] >= n + 1
    <3>1. CASE i = wSeq + 3
      <4>1. mem'[Seq0][i] = [val |-> wSeq + 2, view |-> Own(Seq0)]
        BY <3>1, <1>2, <1>4, <1>6
      <4>2. \A n \in Nat : i = 2 * n + 1 => n = K + 1
        BY <3>1, <1>2
      <4>3. mem'[Seq0][i].val = i - 1 /\ mem'[Seq0][i].view = Own(Seq0)
        BY <3>1, <4>1, <1>2
      <4>4. ASSUME NEW n \in Nat, i = 2 * n + 1, NEW f \in Fields
            PROVE  mem'[Seq0][i].view[f] >= n + 1
        <5>1. n = K + 1
          BY <4>2, <4>4
        <5>2. mem'[Seq0][i].view[f] = K + 2
          BY <4>3, <1>3
        <5> QED
          BY <5>1, <5>2, <1>2
      <4> QED
        BY <4>3, <4>4
    <3>2. CASE i \in 1 .. Len(mem[Seq0])
      BY <3>2, <1>4 DEF Released
    <3>3. i \in 1 .. wSeq + 3 /\ Len(mem[Seq0]) = wSeq + 2
      BY <1>4, <1>6, <1>2
    <3>4. i = wSeq + 3 \/ i \in 1 .. Len(mem[Seq0])
      BY <3>3, <1>2
    <3> QED
      BY <3>1, <3>2, <3>4
  <2>2. \A f \in Fields : mem'[f] = mem[f]
    BY <1>4
  <2> QED
    BY <2>1, <2>2 DEF Released
<1>9. NoTornSnapshot' /\ \A r \in Readers : ReaderInv(r)'
  BY <1>1, <1>2, ReadersKeep
<1> QED
  BY <1>5, <1>7, <1>8, <1>9

-----------------------------------------------------------------------------
\* A step of a reader leaves the writer and the memory as they were.
LEMMA WriterKeeps ==
    IndInv /\ UNCHANGED <<mem, writerVars>> => Histories' /\ Released' /\ K' = K
BY DEF IndInv, Histories, Released, K, writerVars

\* A step of one reader leaves the others as they were.
LEMMA OtherReader ==
    ASSUME IndInv, NEW q \in Readers, UNCHANGED <<mem, writerVars>>,
           rPc'[q] = rPc[q], rView'[q] = rView[q], rAcquire'[q] = rAcquire[q],
           s1'[q] = s1[q], fetched'[q] = fetched[q], known'[q] = known[q]
    PROVE  ReaderInv(q)'
BY DEF IndInv, ReaderInv, Reading, writerVars

\* The i-th message of seq_, when a reader may load it.
LEMMA SeqMessage ==
    ASSUME IndInv, NEW r \in Readers, NEW i \in Visible(r, Seq0)
    PROVE  /\ i \in Nat /\ i >= 1 /\ i >= rView[r][Seq0]
           /\ mem[Seq0][i] \in Messages
           /\ mem[Seq0][i].view \in Views
           /\ mem[Seq0][i].val = i - 1
           /\ i <= wSeq + 2
           /\ \A n \in Nat : i = 2 * n + 1 => \A f \in Fields : mem[Seq0][i].view[f] >= n + 1
<1> USE SeqIsLoc DEF IndInv
<1>1. mem[Seq0] \in Seq(Messages) /\ Len(mem[Seq0]) \in Nat /\ rView[r][Seq0] \in Nat
  BY LenProperties DEF TypeOK, Views
<1>2. rView[r][Seq0] >= 1
  BY DEF ReaderInv
<1>3. i \in 1 .. Len(mem[Seq0]) /\ i >= rView[r][Seq0]
  BY <1>1, <1>2 DEF Visible
<1>4. mem[Seq0][i] \in Messages
  BY <1>1, <1>3, ElementOfSeq
<1>5. Len(mem[Seq0]) <= wSeq + 2 /\ wSeq \in Nat
  BY DEF Histories, TypeOK
<1>6. mem[Seq0][i].view \in Views
  BY <1>4 DEF Messages
<1>7. i \in Nat /\ i >= 1 /\ i <= wSeq + 2
  BY ONLY <1>1, <1>3, <1>5
<1>8. /\ mem[Seq0][i].val = i - 1
      /\ \A n \in Nat : i = 2 * n + 1 => \A f \in Fields : mem[Seq0][i].view[f] >= n + 1
  BY <1>3 DEF Released
<1> QED
  BY <1>3, <1>4, <1>6, <1>7, <1>8

LEMMA AcquireFacts ==
    ASSUME IndInv, NEW r \in Readers, NEW i \in Visible(r, Seq0), AcquireSeq(r, i)
    PROVE  /\ rView' \in [Readers -> Views]
           /\ \A q \in Readers \ {r} : rView'[q] = rView[q]
           /\ rView'[r][Seq0] >= i
           /\ \A l \in Locs : rView'[r][l] >= rView[r][l] /\ rView'[r][l] \in Nat /\ rView[r][l] \in Nat
           /\ \A l \in Locs : rView'[r][l] >= mem[Seq0][i].view[l]
<1> DEFINE one == [Start EXCEPT ![Seq0] = i]
           msg == Join(mem[Seq0][i].view, one)
           new == Join(rView[r], msg)
<1>1. i \in Nat /\ mem[Seq0][i].view \in Views
  BY SeqMessage
<1>2. one \in Views /\ one[Seq0] = i
  BY <1>1, StartFacts, SeqIsLoc DEF Views
<1>3. rView \in [Readers -> Views] /\ rView[r] \in Views
  BY DEF IndInv, TypeOK
<1>4. rView' = [rView EXCEPT ![r] = new]
  BY DEF AcquireSeq
<1> HIDE DEF one
<1>5. msg \in Views /\ \A l \in Locs : msg[l] >= mem[Seq0][i].view[l] /\ msg[l] >= one[l]
  BY <1>1, <1>2, JoinFacts
<1> HIDE DEF msg
<1>6. new \in Views /\ \A l \in Locs : new[l] >= rView[r][l] /\ new[l] >= msg[l]
  BY <1>3, <1>5, JoinFacts
<1> HIDE DEF new
<1>7. rView'[r] = new /\ rView' \in [Readers -> Views] /\ \A q \in Readers \ {r} : rView'[q] = rView[q]
  BY <1>3, <1>4, <1>6
<1>8. \A l \in Locs : /\ new[l] \in Nat /\ rView[r][l] \in Nat /\ msg[l] \in Nat
                      /\ one[l] \in Nat /\ mem[Seq0][i].view[l] \in Nat
  BY <1>1, <1>2, <1>3, <1>5, <1>6 DEF Views
<1> QED
  BY <1>2, <1>5, <1>6, <1>7, <1>8, SeqIsLoc

LEMMA BeginLoadInv == ASSUME NEW r \in Readers PROVE IndInv /\ BeginLoad(r) => IndInv'
<1> SUFFICES ASSUME IndInv, BeginLoad(r) PROVE IndInv'
  OBVIOUS
<1> USE DEF BeginLoad
<1>1. TypeOK'
  BY DEF IndInv, TypeOK, writerVars
<1>2. Histories' /\ Released'
  BY WriterKeeps
<1>3. NoTornSnapshot'
  BY DEF IndInv, NoTornSnapshot, writerVars
<1>4. ASSUME NEW q \in Readers PROVE ReaderInv(q)'
  <2>1. CASE q # r
    BY <2>1, OtherReader DEF IndInv, TypeOK
  <2>2. CASE q = r
    <3>1. rPc'[r] = "seq"
      BY DEF IndInv, TypeOK
    <3>2. ReaderInv(r)
      BY DEF IndInv
    <3> QED
      BY <2>2, <3>1, <3>2 DEF ReaderInv, writerVars
  <2> QED
    BY <2>1, <2>2
<1> QED
  BY <1>1, <1>2, <1>3, <1>4 DEF IndInv

LEMMA LoadSeqInv == ASSUME NEW r \in Readers PROVE IndInv /\ LoadSeq(r) => IndInv'
<1> SUFFICES ASSUME IndInv, LoadSeq(r) PROVE IndInv'
  OBVIOUS
<1>1. PICK i \in Visible(r, Seq0) :
        /\ AcquireSeq(r, i)
        /\ s1' = [s1 EXCEPT ![r] = mem[Seq0][i].val]
        /\ rPc' = [rPc EXCEPT ![r] = IF Busy(mem[Seq0][i].val) THEN "seq" ELSE "fields"]
  BY DEF LoadSeq
<1>2. /\ fetched' = [fetched EXCEPT ![r] = [f \in Fields |-> -1]]
      /\ UNCHANGED <<mem, writerVars, rAcquire, snap, known>>
  BY DEF LoadSeq
<1>3. /\ i \in Nat /\ i >= 1 /\ i >= rView[r][Seq0]
      /\ mem[Seq0][i].val = i - 1
      /\ i <= wSeq + 2
      /\ \A n \in Nat : i = 2 * n + 1 => \A f \in Fields : mem[Seq0][i].view[f] >= n + 1
      /\ mem[Seq0][i].view \in Views
  BY SeqMessage
<1>4. /\ rView' \in [Readers -> Views]
      /\ \A q \in Readers \ {r} : rView'[q] = rView[q]
      /\ rView'[r][Seq0] >= i
      /\ \A l \in Locs : rView'[r][l] >= rView[r][l] /\ rView'[r][l] \in Nat /\ rView[r][l] \in Nat
      /\ \A l \in Locs : rView'[r][l] >= mem[Seq0][i].view[l]
  BY <1>1, AcquireFacts
<1>5. /\ s1'[r] = i - 1 /\ \A q \in Readers \ {r} : s1'[q] = s1[q]
      /\ s1' \in [Readers -> Nat]
      /\ \A f \in Fields : fetched'[r][f] = -1
      /\ \A q \in Readers \ {r} : fetched'[q] = fetched[q]
      /\ fetched' \in [Readers -> [Fields -> Nat \cup {-1}]]
      /\ rPc' \in [Readers -> {"returned", "seq", "fields", "check"}]
      /\ rPc'[r] = IF Busy(i - 1) THEN "seq" ELSE "fields"
      /\ \A q \in Readers \ {r} : rPc'[q] = rPc[q]
  BY <1>1, <1>2, <1>3 DEF IndInv, TypeOK
<1>6. TypeOK'
  BY <1>2, <1>4, <1>5 DEF IndInv, TypeOK, writerVars
<1>7. Histories' /\ Released'
  BY <1>2, WriterKeeps
<1>8. NoTornSnapshot'
  BY <1>2 DEF IndInv, NoTornSnapshot, writerVars
<1>9. ReaderInv(r)'
  <2>1. ReaderInv(r) /\ wSeq' = wSeq /\ known'[r] = known[r] /\ wSeq \in Nat /\ known[r] \in Nat
    BY <1>2 DEF IndInv, TypeOK, writerVars
  <2>2. /\ rView'[r][Seq0] >= 2 * known[r] + 1
        /\ \A l \in Locs : rView'[r][l] >= 1
    BY <2>1, <1>4, SeqIsLoc DEF ReaderInv
  <2>3. ASSUME rPc'[r] = "fields" PROVE Reading(r)'
    <3>1. (i - 1) % 2 # 1
      BY <2>3, <1>5 DEF Busy
    <3>2. PICK n \in Nat : i = 2 * n + 1
      <4>1. i = 2 * ((i - 1) \div 2) + 1 /\ (i - 1) \div 2 \in Nat
        BY <3>1, <1>3
      <4> QED
        BY <4>1
    <3>3. wSeq = 2 * K /\ K \in Nat
      BY <2>1 DEF IndInv, Histories, K
    <3>4. s1'[r] = 2 * n /\ s1'[r] <= wSeq
      BY <3>2, <3>3, <1>3, <1>5
    <3>5. \A f \in Fields : 2 * rView'[r][f] >= 2 * n + 2
      <4>1. ASSUME NEW f \in Fields PROVE rView'[r][f] >= n + 1
        <5>1. /\ mem[Seq0][i].view[f] >= n + 1 /\ rView'[r][f] >= mem[Seq0][i].view[f]
              /\ mem[Seq0][i].view[f] \in Nat /\ rView'[r][f] \in Nat
          BY <3>2, <1>3, <1>4, SeqIsLoc DEF Views
        <5> QED
          BY <5>1
      <4>2. \A f \in Fields : rView'[r][f] \in Nat
        BY <1>4, SeqIsLoc
      <4> QED
        BY <4>1, <4>2
    <3>6. rView'[r][Seq0] >= s1'[r] + 1
      BY <1>3, <1>4, <1>5, SeqIsLoc
    <3> QED
      BY <2>1, <3>4, <3>5, <3>6, <1>5 DEF Reading
  <2>4. rPc'[r] # "check"
    BY <1>5
  <2> QED
    BY <2>1, <2>2, <2>3, <2>4 DEF ReaderInv
<1>10. ASSUME NEW q \in Readers \ {r} PROVE ReaderInv(q)'
  BY <1>2, <1>4, <1>5, OtherReader
<1> QED
  BY <1>6, <1>7, <1>8, <1>9, <1>10 DEF IndInv

LEMMA LoadFieldInv ==
    ASSUME NEW r \in Readers, NEW g \in Fields PROVE IndInv /\ LoadField(r, g) => IndInv'
<1> SUFFICES ASSUME IndInv, LoadField(r, g) PROVE IndInv'
  OBVIOUS
<1> USE SeqIsLoc
<1>1. PICK i \in Visible(r, g) :
        /\ rView' = [rView EXCEPT ![r][g] = i]
        /\ rAcquire' = [rAcquire EXCEPT ![r] = Join(@, mem[g][i].view)]
        /\ fetched' = [fetched EXCEPT ![r][g] = mem[g][i].val]
  BY DEF LoadField
<1>2. /\ UNCHANGED <<mem, writerVars, rPc, s1, snap, known>>
      /\ rPc[r] = "fields"
  BY DEF LoadField
<1>3. /\ i \in Nat /\ i >= 1 /\ i >= rView[r][g]
      /\ mem[g][i].val = i - 1 /\ mem[g][i].view \in Views
      /\ mem[g][i].view[Seq0] >= 2 * (i - 1)
  <2>1. mem[g] \in Seq(Messages) /\ Len(mem[g]) \in Nat /\ rView[r][g] \in Nat
    BY LenProperties DEF IndInv, TypeOK, Views
  <2>2. i \in 1 .. Len(mem[g]) /\ i >= rView[r][g]
    BY <2>1 DEF Visible, IndInv, ReaderInv
  <2>3. mem[g][i] \in Messages
    BY <2>1, <2>2, ElementOfSeq
  <2> QED
    BY <2>1, <2>2, <2>3 DEF Messages, IndInv, Released
<1> DEFINE acq == Join(rAcquire[r], mem[g][i].view)
<1>4. /\ acq \in Views
      /\ \A l \in Locs : acq[l] \in Nat /\ rAcquire[r][l] \in Nat /\ mem[g][i].view[l] \in Nat
      /\ \A l \in Locs : acq[l] >= rAcquire[r][l] /\ acq[l] >= mem[g][i].view[l]
  <2>1. rAcquire[r] \in Views
    BY DEF IndInv, TypeOK
  <2>2. acq \in Views /\ \A l \in Locs : acq[l] >= rAcquire[r][l] /\ acq[l] >= mem[g][i].view[l]
    BY <2>1, <1>3, JoinFacts
  <2> QED
    BY <2>1, <2>2, <1>3 DEF Views
<1>5. /\ rAcquire' \in [Readers -> Views] /\ rAcquire'[r] = acq
      /\ \A q \in Readers \ {r} : rAcquire'[q] = rAcquire[q]
  BY <1>1, <1>4 DEF IndInv, TypeOK
<1> HIDE DEF acq
<1>6. /\ rView' \in [Readers -> Views] /\ rView'[r][g] = i
      /\ \A l \in Locs \ {g} : rView'[r][l] = rView[r][l]
      /\ \A l \in Locs : rView[r][l] \in Nat
      /\ \A q \in Readers \ {r} : rView'[q] = rView[q]
  <2>1. rView \in [Readers -> Views] /\ rView[r] \in Views /\ i \in Nat
    BY <1>3 DEF IndInv, TypeOK
  <2>2. rView' = [rView EXCEPT ![r][g] = i]
    BY <1>1
  <2>3. [rView[r] EXCEPT ![g] = i] \in Views
    BY <2>1 DEF Views
  <2>4. rView' \in [Readers -> Views]
    BY ONLY <2>1, <2>2, <2>3
  <2> QED
    BY <2>1, <2>2, <2>4 DEF Views
<1>7. /\ fetched' \in [Readers -> [Fields -> Nat \cup {-1}]]
      /\ fetched'[r][g] = i - 1 /\ i - 1 \in Nat
      /\ \A f \in Fields \ {g} : fetched'[r][f] = fetched[r][f]
      /\ \A f \in Fields : fetched[r][f] \in Nat \cup {-1}
      /\ \A q \in Readers \ {r} : fetched'[q] = fetched[q]
  BY <1>1, <1>3 DEF IndInv, TypeOK
<1>8. TypeOK'
  BY <1>2, <1>5, <1>6, <1>7 DEF IndInv, TypeOK, writerVars
<1>9. Histories' /\ Released'
  BY <1>2, WriterKeeps
<1>10. NoTornSnapshot'
  BY <1>2 DEF IndInv, NoTornSnapshot, writerVars
<1>11. ReaderInv(r)'
  <2>1. ReaderInv(r) /\ Reading(r) /\ wSeq' = wSeq /\ s1'[r] = s1[r] /\ s1[r] \in Nat /\ rPc'[r] = "fields"
    BY <1>2 DEF IndInv, TypeOK, ReaderInv, writerVars
  <2>2. ASSUME NEW f \in Fields
        PROVE  /\ 2 * rView'[r][f] >= s1[r] + 2
               /\ fetched'[r][f] # -1 => /\ 2 * fetched'[r][f] >= s1[r]
                                         /\ rAcquire'[r][Seq0] >= 2 * fetched'[r][f]
    <3>1. CASE f = g
      <4>1. 2 * rView[r][g] >= s1[r] + 2 /\ rView[r][g] \in Nat
        BY <2>1, <1>6 DEF Reading
      <4>2. rAcquire'[r][Seq0] >= 2 * (i - 1)
        BY <1>3, <1>4, <1>5
      <4> QED
        BY <3>1, <4>1, <4>2, <2>1, <1>3, <1>6, <1>7
    <3>2. CASE f # g
      <4>1. 2 * rView'[r][f] >= s1[r] + 2 /\ fetched'[r][f] = fetched[r][f]
        BY <3>2, <2>1, <1>6, <1>7 DEF Reading
      <4>2. fetched[r][f] # -1 => /\ 2 * fetched[r][f] >= s1[r]
                                  /\ rAcquire[r][Seq0] >= 2 * fetched[r][f]
        BY <2>1 DEF Reading
      <4>3. fetched[r][f] # -1 => rAcquire'[r][Seq0] >= 2 * fetched[r][f]
        BY <4>2, <1>4, <1>5, <1>7
      <4> QED
        BY <4>1, <4>2, <4>3
    <3> QED
      BY <3>1, <3>2
  <2>3. Reading(r)'
    BY <2>1, <2>2, <1>6 DEF Reading
  <2>4. \A l \in Locs : rView'[r][l] >= 1
    BY <2>1, <1>3, <1>6 DEF ReaderInv
  <2> QED
    BY <2>1, <2>3, <2>4, <1>2, <1>6 DEF ReaderInv
<1>12. ASSUME NEW q \in Readers \ {r} PROVE ReaderInv(q)'
  BY <1>2, <1>5, <1>6, <1>7, OtherReader
<1> QED
  BY <1>8, <1>9, <1>10, <1>11, <1>12 DEF IndInv

LEMMA FenceReadsInv == ASSUME NEW r \in Readers PROVE IndInv /\ FenceReads(r) => IndInv'
<1> SUFFICES ASSUME IndInv, FenceReads(r) PROVE IndInv'
  OBVIOUS
<1> USE SeqIsLoc
<1>1. /\ rPc[r] = "fields" /\ \A f \in Fields : fetched[r][f] # -1
      /\ rPc' = [rPc EXCEPT ![r] = "check"]
      /\ rView' = [rView EXCEPT ![r] = Join(rView[r], rAcquire[r])]
      /\ UNCHANGED <<mem, writerVars, rAcquire, s1, fetched, snap, known>>
  BY DEF FenceReads, AcquireFence
<1> DEFINE new == Join(rView[r], rAcquire[r])
<1>2. rView \in [Readers -> Views] /\ rView[r] \in Views /\ rAcquire[r] \in Views
  BY DEF IndInv, TypeOK
<1>3. /\ new \in Views
      /\ \A l \in Locs : /\ new[l] \in Nat /\ rView[r][l] \in Nat /\ rAcquire[r][l] \in Nat
                         /\ new[l] >= rView[r][l] /\ new[l] >= rAcquire[r][l]
  <2>1. new \in Views /\ \A l \in Locs : new[l] >= rView[r][l] /\ new[l] >= rAcquire[r][l]
    BY <1>2, JoinFacts
  <2> QED
    BY <2>1, <1>2 DEF Views
<1>4. /\ rView' \in [Readers -> Views] /\ rView'[r] = new
      /\ \A q \in Readers \ {r} : rView'[q] = rView[q]
  BY <1>1, <1>2, <1>3
<1> HIDE DEF new
<1>5. TypeOK'
  BY <1>1, <1>4 DEF IndInv, TypeOK, writerVars
<1>6. Histories' /\ Released' /\ NoTornSnapshot'
  BY <1>1, WriterKeeps DEF IndInv, NoTornSnapshot, writerVars
<1>7. ReaderInv(r)'
  <2>1. /\ ReaderInv(r) /\ Reading(r) /\ wSeq' = wSeq /\ s1'[r] = s1[r] /\ s1[r] \in Nat
        /\ known'[r] = known[r] /\ known[r] \in Nat /\ fetched'[r] = fetched[r]
        /\ rAcquire'[r] = rAcquire[r]
        /\ \A f \in Fields : fetched[r][f] \in Nat
    BY <1>1 DEF IndInv, TypeOK, ReaderInv, writerVars
  <2>2. ASSUME NEW f \in Fields
        PROVE  2 * new[f] >= s1[r] + 2 /\ new[Seq0] >= 2 * fetched[r][f]
    <3>1. 2 * rView[r][f] >= s1[r] + 2 /\ rAcquire[r][Seq0] >= 2 * fetched[r][f]
      BY <2>1, <1>1 DEF Reading
    <3>2. fetched[r][f] \in Nat
      BY <2>1
    <3> QED
      BY <3>1, <3>2, <2>1, <1>3
  <2>3. new[Seq0] >= s1[r] + 1
    BY <2>1, <1>3 DEF Reading
  <2>4. Reading(r)'
    BY <2>1, <2>2, <2>3, <1>4 DEF Reading
  <2>5. new[Seq0] >= 2 * known[r] + 1 /\ \A l \in Locs : new[l] >= 1
    BY <2>1, <1>3 DEF ReaderInv
  <2> QED
    BY <2>1, <2>2, <2>4, <2>5, <1>1, <1>4 DEF ReaderInv
<1>8. ASSUME NEW q \in Readers \ {r} PROVE ReaderInv(q)'
  BY <1>1, <1>4, OtherReader DEF IndInv, TypeOK
<1> QED
  BY <1>5, <1>6, <1>7, <1>8 DEF IndInv

\* The snapshot Check accepts has the same value in every field.
LEMMA CheckedWhole ==
    ASSUME IndInv, NEW r \in Readers, rPc[r] = "check",
           NEW i \in Visible(r, Seq0), mem[Seq0][i].val = s1[r]
    PROVE  \E n \in Nat : /\ s1[r] = 2 * n /\ n \in 0 .. K
                          /\ known[r] <= n
                          /\ i = 2 * n + 1
                          /\ \A f \in Fields : fetched[r][f] = n
<1>1. /\ i \in Nat /\ mem[Seq0][i].val = i - 1 /\ i >= rView[r][Seq0]
  BY SeqMessage
<1>2. Reading(r) /\ ReaderInv(r)
  BY DEF IndInv, ReaderInv
<1>3. PICK n \in Nat : s1[r] = 2 * n
  BY <1>2 DEF Reading
<1>4. /\ rView[r][Seq0] \in Nat /\ known[r] \in Nat /\ wSeq = 2 * K /\ wSeq \in Nat
      /\ \A f \in Fields : fetched[r][f] \in Nat \cup {-1}
  BY SeqIsLoc DEF IndInv, TypeOK, Views, Histories
<1>5. i = 2 * n + 1 /\ 2 * n <= wSeq
  <2>1. i - 1 = 2 * n
    BY <1>1, <1>3
  <2>2. s1[r] <= wSeq
    BY <1>2 DEF Reading
  <2> QED
    BY <2>1, <2>2, <1>1, <1>3
<1>6. K \in Nat /\ n \in 0 .. K
  BY <1>3, <1>4, <1>5 DEF K
<1>7. known[r] <= n
  BY <1>1, <1>2, <1>4, <1>5 DEF ReaderInv
<1>8. ASSUME NEW f \in Fields PROVE fetched[r][f] = n
  <2>1. fetched[r][f] # -1 /\ rView[r][Seq0] >= 2 * fetched[r][f]
    BY <1>2 DEF ReaderInv
  <2>2. 2 * fetched[r][f] >= 2 * n
    BY <2>1, <1>2, <1>3 DEF Reading
  <2>3. fetched[r][f] \in Nat
    BY <2>1, <1>4
  <2> QED
    BY <2>1, <2>2, <2>3, <1>1, <1>4, <1>5
<1> QED
  BY <1>3, <1>5, <1>6, <1>7, <1>8

LEMMA CheckInv == ASSUME NEW r \in Readers PROVE IndInv /\ Check(r) => IndInv'
<1> SUFFICES ASSUME IndInv, Check(r) PROVE IndInv'
  OBVIOUS
<1> USE SeqIsLoc
<1>1. PICK i \in Visible(r, Seq0) :
        /\ rView' = [rView EXCEPT ![r][Seq0] = i]
        /\ rAcquire' = [rAcquire EXCEPT ![r] = Join(@, mem[Seq0][i].view)]
        /\ IF mem[Seq0][i].val = s1[r]
             THEN /\ rPc' = [rPc EXCEPT ![r] = "returned"]
                  /\ snap' = [snap EXCEPT ![r] = fetched[r]]
                  /\ known' = [known EXCEPT ![r] = s1[r] \div 2]
             ELSE /\ rPc' = [rPc EXCEPT ![r] = "seq"]
                  /\ UNCHANGED <<snap, known>>
  BY DEF Check
<1>2. rPc[r] = "check" /\ UNCHANGED <<mem, writerVars, s1, fetched>>
  BY DEF Check
<1>3. i \in Nat /\ i >= 1 /\ i >= rView[r][Seq0] /\ mem[Seq0][i].view \in Views
  BY SeqMessage
<1>4. /\ rView' \in [Readers -> Views] /\ rView'[r][Seq0] = i
      /\ \A l \in Locs \ {Seq0} : rView'[r][l] = rView[r][l]
      /\ \A l \in Locs : rView[r][l] \in Nat
      /\ \A q \in Readers \ {r} : rView'[q] = rView[q]
  <2>1. rView \in [Readers -> Views] /\ rView[r] \in [Locs -> Nat]
    BY DEF IndInv, TypeOK, Views
  <2>2. rView' = [rView EXCEPT ![r] = [rView[r] EXCEPT ![Seq0] = i]]
    BY <1>1
  <2>3. [rView[r] EXCEPT ![Seq0] = i] \in Views
    BY <2>1, <1>3 DEF Views
  <2>4. rView'[r] = [rView[r] EXCEPT ![Seq0] = i]
    BY <2>1, <2>2
  <2> QED
    BY <2>1, <2>2, <2>3, <2>4, <1>3
<1>5. /\ rAcquire' \in [Readers -> Views]
      /\ \A q \in Readers \ {r} : rAcquire'[q] = rAcquire[q]
  <2>1. rAcquire \in [Readers -> Views] /\ rAcquire[r] \in Views
    BY DEF IndInv, TypeOK
  <2>2. Join(rAcquire[r], mem[Seq0][i].view) \in Views
    BY <2>1, <1>3, JoinFacts
  <2> QED
    BY <2>1, <2>2, <1>1
<1>6. /\ Histories' /\ Released'
  BY <1>2, WriterKeeps
<1>7. ReaderInv(r) /\ wSeq' = wSeq /\ wSeq \in Nat /\ known[r] \in Nat /\ wSeq = 2 * K /\ K \in Nat
  BY <1>2 DEF IndInv, TypeOK, writerVars, Histories, K
<1>8. rPc' \in [Readers -> {"returned", "seq", "fields", "check"}]
      /\ rPc'[r] \in {"returned", "seq"} /\ \A q \in Readers \ {r} : rPc'[q] = rPc[q]
  BY <1>1 DEF IndInv, TypeOK
<1>9. CASE mem[Seq0][i].val = s1[r]
  <2>1. PICK n \in Nat : /\ s1[r] = 2 * n /\ n \in 0 .. K /\ known[r] <= n /\ i = 2 * n + 1
                         /\ \A f \in Fields : fetched[r][f] = n
    BY <1>2, <1>9, CheckedWhole
  <2>2. /\ known' \in [Readers -> Nat] /\ known'[r] = n
        /\ \A q \in Readers \ {r} : known'[q] = known[q]
    <3>1. known' = [known EXCEPT ![r] = n]
      <4>1. s1[r] \div 2 = n
        BY <2>1
      <4> QED
        BY <1>1, <1>9, <4>1
    <3> QED
      BY <3>1 DEF IndInv, TypeOK
  <2>3. /\ snap' \in [Readers -> [Fields -> Nat]] /\ snap'[r] = fetched[r]
        /\ \A q \in Readers \ {r} : snap'[q] = snap[q]
    <3>1. fetched[r] \in [Fields -> Nat]
      BY <2>1 DEF IndInv, TypeOK
    <3> QED
      BY <1>1, <1>9, <3>1 DEF IndInv, TypeOK
  <2>4. TypeOK'
    BY <1>2, <1>4, <1>5, <1>8, <2>2, <2>3 DEF IndInv, TypeOK, writerVars
  <2>5. NoTornSnapshot'
    <3>1. ASSUME NEW q \in Readers \ {r}
          PROVE  \E m \in 0 .. known'[q] : 2 * m <= wSeq' /\ \A f \in Fields : snap'[q][f] = m
      BY <1>7, <2>2, <2>3 DEF IndInv, NoTornSnapshot
    <3>2. n \in 0 .. known'[r] /\ 2 * n <= wSeq' /\ \A f \in Fields : snap'[r][f] = n
      <4>1. n \in 0 .. n /\ 2 * n <= 2 * K
        BY <2>1, <1>7
      <4> QED
        BY <4>1, <1>7, <2>1, <2>2, <2>3
    <3> QED
      BY <3>1, <3>2 DEF NoTornSnapshot
  <2>6. ReaderInv(r)'
    <3>1. rView'[r][Seq0] >= 2 * known'[r] + 1 /\ 2 * known'[r] <= wSeq'
      BY <1>4, <1>7, <2>1, <2>2
    <3>2. \A l \in Locs : rView'[r][l] >= 1
      BY <1>3, <1>4, <1>7 DEF ReaderInv
    <3> QED
      BY <3>1, <3>2, <1>8 DEF ReaderInv
  <2>7. ASSUME NEW q \in Readers \ {r} PROVE ReaderInv(q)'
    BY <1>2, <1>4, <1>5, <1>8, <2>2, OtherReader
  <2> QED
    BY <1>6, <2>4, <2>5, <2>6, <2>7 DEF IndInv
<1>10. CASE mem[Seq0][i].val # s1[r]
  <2>1. UNCHANGED <<snap, known>>
    BY <1>1, <1>10
  <2>2. TypeOK'
    BY <1>2, <1>4, <1>5, <1>8, <2>1 DEF IndInv, TypeOK, writerVars
  <2>3. NoTornSnapshot'
    BY <1>7, <2>1 DEF IndInv, NoTornSnapshot
  <2>4. ReaderInv(r)'
    BY <1>3, <1>4, <1>7, <1>8, <2>1 DEF ReaderInv
  <2>5. ASSUME NEW q \in Readers \ {r} PROVE ReaderInv(q)'
    BY <1>2, <1>4, <1>5, <1>8, <2>1, OtherReader
  <2> QED
    BY <1>6, <2>2, <2>3, <2>4, <2>5 DEF IndInv
<1> QED
  BY <1>9, <1>10

LEMMA VersionInv == ASSUME NEW r \in Readers PROVE IndInv /\ Version(r) => IndInv'
<1> SUFFICES ASSUME IndInv, Version(r) PROVE IndInv'
  OBVIOUS
<1>1. PICK i \in Visible(r, Seq0) :
        /\ AcquireSeq(r, i)
        /\ known' = [known EXCEPT ![r] = mem[Seq0][i].val \div 2]
  BY DEF Version
<1>2. rPc[r] = "returned" /\ UNCHANGED <<mem, writerVars, rPc, rAcquire, s1, fetched, snap>>
  BY DEF Version
<1>3. /\ i \in Nat /\ i >= 1 /\ i >= rView[r][Seq0]
      /\ mem[Seq0][i].val = i - 1 /\ i <= wSeq + 2
  BY SeqMessage
<1>4. /\ rView' \in [Readers -> Views]
      /\ \A q \in Readers \ {r} : rView'[q] = rView[q]
      /\ rView'[r][Seq0] >= i
      /\ \A l \in Locs : rView'[r][l] >= rView[r][l] /\ rView'[r][l] \in Nat /\ rView[r][l] \in Nat
  BY <1>1, AcquireFacts
<1> DEFINE n == (i - 1) \div 2
<1>5. n \in Nat /\ 2 * n <= i - 1 /\ i - 1 <= 2 * n + 1
  BY <1>3
<1>6. ReaderInv(r) /\ wSeq' = wSeq /\ wSeq \in Nat /\ known[r] \in Nat /\ wSeq = 2 * K /\ K \in Nat
  BY <1>2 DEF IndInv, TypeOK, writerVars, Histories, K
<1>7. /\ known' \in [Readers -> Nat] /\ known'[r] = n
      /\ \A q \in Readers \ {r} : known'[q] = known[q]
  BY <1>1, <1>3, <1>5 DEF IndInv, TypeOK
<1> HIDE DEF n
<1>8. known[r] <= n /\ 2 * n <= wSeq
  <2>1. i >= 2 * known[r] + 1
    BY <1>3, <1>4, <1>6, SeqIsLoc DEF ReaderInv
  <2> QED
    BY <2>1, <1>3, <1>5, <1>6
<1>9. TypeOK'
  BY <1>2, <1>4, <1>7 DEF IndInv, TypeOK, writerVars
<1>10. Histories' /\ Released'
  BY <1>2, WriterKeeps
<1>11. NoTornSnapshot'
  <2>1. ASSUME NEW q \in Readers
        PROVE  \E m \in 0 .. known'[q] : 2 * m <= wSeq' /\ \A f \in Fields : snap'[q][f] = m
    <3>1. PICK m \in 0 .. known[q] : 2 * m <= wSeq /\ \A f \in Fields : snap[q][f] = m
      BY DEF IndInv, NoTornSnapshot
    <3>2. known[q] \in Nat /\ known'[q] \in Nat /\ known[q] <= known'[q]
      <4>1. known[q] \in Nat /\ known'[q] \in Nat
        BY <1>7 DEF IndInv, TypeOK
      <4>2. CASE q = r
        BY <4>1, <4>2, <1>7, <1>8
      <4>3. CASE q # r
        BY <4>1, <4>3, <1>7
      <4> QED
        BY <4>1, <4>2, <4>3
    <3> QED
      BY <3>1, <3>2, <1>2, <1>6
  <2> QED
    BY <2>1 DEF NoTornSnapshot
<1>12. ReaderInv(r)'
  <2>1. rView'[r][Seq0] >= 2 * n + 1 /\ \A l \in Locs : rView'[r][l] >= 1
    BY <1>3, <1>4, <1>5, <1>6, SeqIsLoc DEF ReaderInv
  <2> QED
    BY <2>1, <1>2, <1>6, <1>7, <1>8 DEF ReaderInv
<1>13. ASSUME NEW q \in Readers \ {r} PROVE ReaderInv(q)'
  BY <1>2, <1>4, <1>7, OtherReader
<1> QED
  BY <1>9, <1>10, <1>11, <1>12, <1>13 DEF IndInv

LEMMA StutterInv == IndInv /\ UNCHANGED vars => IndInv'
<1> SUFFICES ASSUME IndInv, UNCHANGED vars PROVE IndInv'
  OBVIOUS
<1> USE DEF vars, writerVars, readerVars
<1>1. TypeOK'
  BY DEF IndInv, TypeOK
<1>2. Histories' /\ Released' /\ NoTornSnapshot'
  BY WriterKeeps DEF IndInv, NoTornSnapshot
<1>3. ASSUME NEW r \in Readers PROVE ReaderInv(r)'
  BY OtherReader
<1> QED
  BY <1>1, <1>2, <1>3 DEF IndInv

LEMMA NextInv == IndInv /\ [Next]_vars => IndInv'
<1> SUFFICES ASSUME IndInv, [Next]_vars PROVE IndInv'
  OBVIOUS
<1>1. CASE StoreOdd \/ InStore
  BY <1>1, StoreOddInv, FenceInv, StoreFieldInv, StoreEvenInv DEF InStore
<1>2. ASSUME NEW r \in Readers, BeginLoad(r) \/ TryLoad(r) \/ Version(r) PROVE IndInv'
  BY <1>2, BeginLoadInv, LoadSeqInv, LoadFieldInv, FenceReadsInv, CheckInv, VersionInv DEF TryLoad
<1>3. CASE UNCHANGED vars
  BY <1>3, StutterInv
<1> QED
  BY <1>1, <1>2, <1>3 DEF Next

\* The invariant holds in every reachable state of the entry.
THEOREM Invariant == Spec => []IndInv
<1>1. Init => IndInv
  BY InitInv
<1>2. IndInv /\ [Next]_vars => IndInv'
  BY NextInv
<1> QED
  BY <1>1, <1>2, PTL DEF Spec

-----------------------------------------------------------------------------
(* Safety of the seqlock.                                                  *)

\* Types, and the parity of the entry's number between calls of store().
THEOREM TypeCorrect == Spec => []TypeOK
<1>1. IndInv => TypeOK
  BY DEF IndInv
<1> QED
  BY <1>1, Invariant, PTL

\* load() returns all fields from one completed store(), under C++11 memory
\* order: the two fences of store() and try_load() are enough.
THEOREM NeverTorn == Spec => []NoTornSnapshot
<1>1. IndInv => NoTornSnapshot
  BY DEF IndInv
<1> QED
  BY <1>1, Invariant, PTL

-----------------------------------------------------------------------------
(* The seqlock implements the register of whole snapshots.                 *)

LEMMA InitRefines == Init => Register!Init
BY DEF Init, Register!Init, Register!Whole

LEMMA CheckRefines ==
    ASSUME NEW r \in Readers
    PROVE  IndInv /\ Check(r) => Register!Read(r) \/ UNCHANGED Register!registerVars
<1> SUFFICES ASSUME IndInv, Check(r) PROVE Register!Read(r) \/ UNCHANGED Register!registerVars
  OBVIOUS
<1>1. PICK i \in Visible(r, Seq0) :
        IF mem[Seq0][i].val = s1[r]
          THEN /\ snap' = [snap EXCEPT ![r] = fetched[r]]
               /\ known' = [known EXCEPT ![r] = s1[r] \div 2]
          ELSE UNCHANGED <<snap, known>>
  BY DEF Check
<1>2. rPc[r] = "check" /\ wSeq' = wSeq
  BY DEF Check, writerVars
<1>3. CASE mem[Seq0][i].val = s1[r]
  <2>1. PICK n \in Nat : /\ s1[r] = 2 * n /\ n \in 0 .. K /\ known[r] <= n
                         /\ \A f \in Fields : fetched[r][f] = n
    BY <1>2, <1>3, CheckedWhole
  <2>2. s1[r] \div 2 = n /\ n \in known[r] .. wSeq \div 2
    BY <2>1 DEF K, IndInv, TypeOK
  <2>3. fetched[r] = [f \in Fields |-> n]
    BY <2>1 DEF IndInv, TypeOK
  <2> QED
    BY <1>1, <1>2, <1>3, <2>2, <2>3 DEF Register!Read, Register!Whole
<1>4. CASE mem[Seq0][i].val # s1[r]
  BY <1>1, <1>2, <1>4 DEF Register!registerVars
<1> QED
  BY <1>3, <1>4

LEMMA VersionRefines ==
    ASSUME NEW r \in Readers
    PROVE  IndInv /\ IndInv' /\ Version(r) => Register!Learn(r)
<1> SUFFICES ASSUME IndInv, IndInv', Version(r) PROVE Register!Learn(r)
  OBVIOUS
<1>1. PICK i \in Visible(r, Seq0) :
        known' = [known EXCEPT ![r] = mem[Seq0][i].val \div 2]
  BY DEF Version
<1>2. wSeq' = wSeq /\ snap' = snap
  BY DEF Version, writerVars
<1>3. /\ i \in Nat /\ i >= rView[r][Seq0] /\ mem[Seq0][i].val = i - 1 /\ i <= wSeq + 2 /\ i >= 1
  BY SeqMessage
<1> DEFINE n == (i - 1) \div 2
<1>4. /\ wSeq = 2 * (wSeq \div 2) /\ wSeq \in Nat /\ known[r] \in Nat /\ rView[r][Seq0] \in Nat
      /\ rView[r][Seq0] >= 2 * known[r] + 1
  BY SeqIsLoc DEF IndInv, TypeOK, Histories, K, ReaderInv, Views
<1>5. n \in known[r] .. wSeq \div 2
  BY <1>3, <1>4
<1>6. known' = [known EXCEPT ![r] = n]
  BY <1>1, <1>3
<1> QED
  BY <1>2, <1>5, <1>6 DEF Register!Learn

LEMMA StepRefines ==
    IndInv /\ IndInv' /\ [Next]_vars => [Register!Next]_(Register!registerVars)
<1> SUFFICES ASSUME IndInv, IndInv', [Next]_vars PROVE [Register!Next]_(Register!registerVars)
  OBVIOUS
<1> USE DEF Register!Next
<1>1. CASE StoreOdd \/ Fence \/ \E f \in Fields : StoreField(f)
  BY <1>1 DEF StoreOdd, Fence, StoreField, readerVars, Register!registerVars
<1>2. CASE StoreEven
  <2>1. wSeq' = wSeq + 2 /\ UNCHANGED <<known, snap>>
    BY <1>2 DEF StoreEven, Even, readerVars
  <2>2. wSeq' \div 2 = (wSeq \div 2) + 1
    BY <2>1 DEF IndInv, TypeOK
  <2> QED
    BY <2>1, <2>2 DEF Register!Publish
<1>3. ASSUME NEW r \in Readers, BeginLoad(r) \/ LoadSeq(r) \/ (\E f \in Fields : LoadField(r, f)) \/ FenceReads(r)
      PROVE  UNCHANGED Register!registerVars
  BY <1>3 DEF BeginLoad, LoadSeq, LoadField, FenceReads, writerVars, Register!registerVars
<1>4. ASSUME NEW r \in Readers, Check(r)
      PROVE  Register!Next \/ UNCHANGED Register!registerVars
  BY <1>4, CheckRefines
<1>5. ASSUME NEW r \in Readers, Version(r) PROVE Register!Next
  BY <1>5, VersionRefines
<1>6. CASE UNCHANGED vars
  BY <1>6 DEF vars, writerVars, readerVars, Register!registerVars
<1> QED
  BY <1>1, <1>2, <1>3, <1>4, <1>5, <1>6 DEF Next, InStore, TryLoad

\* A cache entry is a register of whole snapshots in which no reader goes
\* back behind a snapshot it has loaded or counted.
THEOREM Refinement == Spec => ImplementsRegister
<1>1. Init => Register!Init
  BY InitRefines
<1>2. IndInv /\ IndInv' /\ [Next]_vars => [Register!Next]_(Register!registerVars)
  BY StepRefines
<1> QED
  BY <1>1, <1>2, Invariant, PTL DEF Spec, ImplementsRegister, Register!Spec
=============================================================================
