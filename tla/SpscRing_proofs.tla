--------------------------- MODULE SpscRing_proofs ---------------------------
(***************************************************************************)
(* Proofs about the event ring, for every capacity, index width, batch     *)
(* bound and length of the feed.                                           *)
(***************************************************************************)
EXTENDS SpscRing, SequenceTheorems, TLAPS

-----------------------------------------------------------------------------
(* The inductive invariant.                                                *)

\* The indices are ordered, and each cached index lies behind the original.
IndexOrder ==
    /\ Len(accepted) = tail
    /\ head <= Len(got) /\ Len(got) <= cachedTail
    /\ cachedTail <= tailSeen /\ tailSeen <= tail
    /\ tail <= cachedHead + N

\* A published index stands for exactly the slot accesses made before it,
\* and whoever has loaded it knows of them.
Messages ==
    /\ \A m \in tailMsgs : m.view = m.val /\ m.val <= tail
    /\ \A m \in headMsgs : m.view = m.val /\ cachedHead <= m.val /\ m.val <= head
    /\ tailSeen <= knownWrites
    /\ cachedHead <= knownReads
    /\ written = IF pPc = "publish" THEN tail + 1 ELSE tail

\* What each program counter tells about its thread.
Control ==
    /\ pPc # "idle" => ~feedDone
    /\ pPc \in {"write", "publish"} => tail < cachedHead + N
    /\ cPc = "read" => Len(got) < head + batch
    /\ cPc = "publish" => Len(got) = head + batch
    /\ cPc \in {"read", "publish"} => head + batch <= cachedTail
    /\ cPc \notin {"read", "publish"} => Len(got) = head
    /\ cPc = "size" => feedDone /\ tailSeen = tail
    /\ cPc = "exit" => feedDone /\ head = tail

\* The slots between the two threads hold the accepted events.
Contents ==
    /\ InOrder
    /\ \A i \in Len(got) .. tail - 1 : slots[SlotOf(i)] = accepted[i + 1]
    /\ pPc = "publish" => slots[SlotOf(tail)] = Offered + 1

IndInv == TypeOK /\ IndexOrder /\ Messages /\ Control /\ Contents

-----------------------------------------------------------------------------
(* Wrapping indices.                                                       *)

\* A quotient and a remainder determine each other: division by N is unique.
LEMMA UniqueDivision ==
    ASSUME NEW d \in Nat \ {0},
           NEW q \in Nat, NEW p \in Nat,
           NEW r \in 0 .. d - 1, NEW s \in 0 .. d - 1,
           d * q + r = d * p + s
    PROVE  q = p /\ r = s
<1>1. ASSUME q < p PROVE FALSE
  <2>1. p - q \in Nat /\ p - q >= 1
    BY <1>1
  <2>2. d * (p - q) >= d
    BY <2>1
  <2>3. d * p - d * q = d * (p - q)
    OBVIOUS
  <2> QED
    BY <2>2, <2>3
<1>2. ASSUME p < q PROVE FALSE
  <2>1. q - p \in Nat /\ q - p >= 1
    BY <1>2
  <2>2. d * (q - p) >= d
    BY <2>1
  <2>3. d * q - d * p = d * (q - p)
    OBVIOUS
  <2> QED
    BY <2>2, <2>3
<1> QED
  BY <1>1, <1>2

\* The wrapped difference of two indices at most N apart is their difference.
LEMMA DistanceExact ==
    ASSUME NEW a \in Nat, NEW b \in Nat, b <= a, a <= b + N
    PROVE  Distance(a, b) = a - b
<1>1. a - b \in 0 .. IndexMod - 1
  BY RingAssumption
<1> QED
  BY <1>1, RingAssumption DEF Distance

\* Masking a wrapped index is masking the index, as N divides the index range.
LEMMA SlotOfIsMod ==
    ASSUME NEW i \in Nat
    PROVE  SlotOf(i) = i % N /\ SlotOf(i) \in 0 .. N - 1
<1> DEFINE k == IndexMod \div N
           x == i \div IndexMod
           w == i % IndexMod
           y == w \div N
           z == w % N
           q == k * x + y
           p == i \div N
           r == i % N
<1>1. IndexMod = N * k /\ k \in Nat
  BY RingAssumption
<1>2. i = IndexMod * x + w /\ x \in Nat /\ w \in Nat
  BY RingAssumption
<1>3. w = N * y + z /\ y \in Nat /\ z \in 0 .. N - 1
  BY <1>2, RingAssumption
<1>4. i = N * p + r /\ p \in Nat /\ r \in 0 .. N - 1
  BY RingAssumption
<1>5. SlotOf(i) = z
  BY DEF SlotOf
<1> HIDE DEF k, x, w, y, z, p, r
<1>6. i = N * q + z /\ q \in Nat
  BY <1>1, <1>2, <1>3, RingAssumption
<1> HIDE DEF q
<1>7. N * q + z = N * p + r
  BY <1>4, <1>6
<1>8. z = r
  <2>1. N \in Nat \ {0}
    BY RingAssumption
  <2> QED
    BY ONLY <1>3, <1>4, <1>6, <1>7, <2>1, UniqueDivision
<1> QED
  BY <1>3, <1>5, <1>8 DEF r

\* Fewer than N indices in a row use slots that are all different.
LEMMA SlotsDiffer ==
    ASSUME NEW i \in Nat, NEW j \in Nat, i < j, j < i + N
    PROVE  SlotOf(i) # SlotOf(j)
<1> SUFFICES ASSUME i % N = j % N PROVE FALSE
  BY SlotOfIsMod
<1> DEFINE p == i \div N
           q == j \div N
           r == i % N
<1>1. i = N * p + r /\ j = N * q + r /\ p \in Nat /\ q \in Nat /\ r \in 0 .. N - 1
  BY RingAssumption
<1> HIDE DEF p, q, r
<1>2. j - i = N * (q - p)
  BY <1>1, RingAssumption
<1>3. CASE q - p >= 1
  <2>1. N * (q - p) >= N
    BY <1>3, <1>1, RingAssumption
  <2> QED
    BY <2>1, <1>2, RingAssumption
<1>4. CASE q - p <= 0
  <2>1. N * (q - p) <= 0
    BY <1>4, <1>1, RingAssumption
  <2> QED
    BY <2>1, <1>2, RingAssumption
<1> QED
  BY <1>1, <1>3, <1>4

-----------------------------------------------------------------------------
(* The invariant holds.                                                    *)

\* The sorts of the integer variables.
LEMMA TypeNat ==
    TypeOK => /\ head \in Nat /\ tail \in Nat /\ cachedHead \in Nat /\ cachedTail \in Nat
              /\ batch \in Nat /\ dropped \in Nat /\ Len(got) \in Nat /\ Len(accepted) \in Nat
              /\ tailSeen \in Nat /\ written \in Nat /\ knownWrites \in Nat /\ knownReads \in Nat
              /\ Offered \in Nat
BY RingAssumption, LenProperties DEF TypeOK, Offered

LEMMA InitInv == Init => IndInv
<1> SUFFICES ASSUME Init PROVE IndInv
  OBVIOUS
<1> USE RingAssumption DEF Init
<1>1. TypeOK
  <2>1. 0 .. N - 1 # {} /\ slots \in [0 .. N - 1 -> Nat]
    OBVIOUS
  <2>2. tailMsgs \subseteq [val : Nat, view : Nat] /\ headMsgs \subseteq [val : Nat, view : Nat]
    BY DEF Msg
  <2>3. accepted \in Seq(Nat) /\ got \in Seq(Nat)
    OBVIOUS
  <2> QED
    <3>1. head \in Nat /\ tail \in head .. head + N /\ cachedHead \in 0 .. head
      OBVIOUS
    <3>2. cachedTail \in head .. tail /\ batch \in 0 .. MaxBatch /\ dropped \in Nat
      OBVIOUS
    <3>3. tailSeen \in Nat /\ written \in Nat /\ knownWrites \in Nat /\ knownReads \in Nat
      OBVIOUS
    <3>4. /\ pPc \in {"idle", "reload", "write", "publish"}
          /\ cPc \in {"poll", "reload", "read", "publish", "empty", "size", "exit"}
          /\ feedDone \in BOOLEAN
      OBVIOUS
    <3> QED
      BY ONLY <3>1, <3>2, <3>3, <3>4, <2>1, <2>2, <2>3 DEF TypeOK
<1>2. IndexOrder /\ Messages /\ Control
  BY DEF IndexOrder, Messages, Control, Msg
<1>3. Contents
  BY DEF Contents, InOrder
<1> QED
  BY <1>1, <1>2, <1>3 DEF IndInv

LEMMA PushCheckInv == IndInv /\ PushCheck => IndInv'
<1> SUFFICES ASSUME IndInv, PushCheck PROVE IndInv'
  OBVIOUS
<1> USE RingAssumption DEF IndInv, PushCheck, consVars
<1>1. Full(tail, cachedHead) <=> tail = cachedHead + N
  <2>1. tail \in Nat /\ cachedHead \in Nat /\ cachedHead <= tail /\ tail <= cachedHead + N
    BY TypeNat DEF TypeOK, IndexOrder
  <2>2. Distance(tail, cachedHead) = tail - cachedHead
    BY <2>1, DistanceExact
  <2> QED
    BY <2>1, <2>2 DEF Full
<1>2. TypeOK'
  BY DEF TypeOK
<1>3. IndexOrder' /\ Messages' /\ Control'
  BY <1>1 DEF TypeOK, IndexOrder, Messages, Control
<1>4. Contents'
  BY DEF Contents, InOrder, Offered
<1> QED
  BY <1>2, <1>3, <1>4

LEMMA PushReloadInv == IndInv /\ PushReload => IndInv'
<1> SUFFICES ASSUME IndInv, PushReload PROVE IndInv'
  OBVIOUS
<1> USE RingAssumption DEF IndInv, consVars
<1>1. PICK m \in NotOlder(headMsgs, cachedHead) :
        /\ cachedHead' = m.val
        /\ knownReads' = Larger(knownReads, m.view)
        /\ headMsgs' = NotOlder(headMsgs, m.val)
        /\ IF Full(tail, m.val) THEN pPc' = "idle" /\ dropped' = dropped + 1
                                ELSE pPc' = "write" /\ UNCHANGED dropped
  BY DEF PushReload
<1>2. UNCHANGED <<slots, consVars, tail, accepted, feedDone, tailMsgs, written>> /\ pPc = "reload"
  BY DEF PushReload
<1>3. /\ m \in headMsgs /\ m.val \in Nat /\ m.view = m.val
      /\ cachedHead <= m.val /\ m.val <= head
  <2>1. m \in headMsgs
    BY <1>1 DEF NotOlder
  <2>2. m.val \in Nat
    BY <2>1 DEF TypeOK
  <2> QED
    BY <2>1, <2>2 DEF Messages
<1>4. (Full(tail, m.val) <=> tail = m.val + N) /\ tail <= m.val + N
  <2>1. tail \in Nat /\ m.val <= tail /\ tail <= m.val + N
    <3>1. /\ head \in Nat /\ tail \in Nat /\ cachedHead \in Nat /\ N \in Nat
          /\ head <= tail /\ tail <= cachedHead + N
      BY TypeNat DEF TypeOK, IndexOrder
    <3> QED
      BY ONLY <3>1, <1>3
  <2>2. Distance(tail, m.val) = tail - m.val
    BY <2>1, <1>3, DistanceExact
  <2>3. N \in Nat /\ m.val \in Nat
    BY <1>3, RingAssumption
  <2>4. Full(tail, m.val) <=> tail - m.val = N
    BY <2>2 DEF Full
  <2> QED
    BY ONLY <2>1, <2>3, <2>4
<1>5. TypeOK'
  <2>1. headMsgs' \subseteq headMsgs
    BY <1>1 DEF NotOlder
  <2>2. knownReads' \in Nat /\ cachedHead' \in 0 .. head' /\ dropped' \in Nat
    BY <1>1, <1>2, <1>3 DEF TypeOK, Larger
  <2>3. pPc' \in {"idle", "reload", "write", "publish"}
    BY <1>1
  <2> QED
    BY <2>1, <2>2, <2>3, <1>2 DEF TypeOK
<1>6. IndexOrder' /\ Control'
  <2>1. IndexOrder'
    BY <1>2, <1>1, <1>4, TypeNat DEF IndexOrder
  <2>2. Control'
    <3>1. tail < cachedHead' + N \/ pPc' = "idle"
      BY <1>1, <1>3, <1>4, TypeNat, SMTT(30)
    <3>2. ~feedDone' /\ pPc' # "publish"
      BY <1>1, <1>2 DEF Control
    <3> QED
      BY <1>2, <3>1, <3>2 DEF Control
  <2> QED
    BY <2>1, <2>2
<1>7. Messages'
  BY <1>1, <1>2, <1>3 DEF TypeOK, Messages, NotOlder, Larger
<1>8. Contents'
  BY <1>1, <1>2 DEF Contents, InOrder
<1> QED
  BY <1>5, <1>6, <1>7, <1>8

LEMMA PushWriteInv == IndInv /\ PushWrite => IndInv'
<1> SUFFICES ASSUME IndInv, PushWrite PROVE IndInv'
  OBVIOUS
<1> USE RingAssumption DEF IndInv, PushWrite, consVars
<1>1. tail \in Nat /\ SlotOf(tail) \in 0 .. N - 1 /\ Offered + 1 \in Nat
  <2>1. tail \in Nat /\ Offered + 1 \in Nat
    BY TypeNat
  <2> QED
    BY <2>1, SlotOfIsMod
<1>2. TypeOK'
  BY <1>1 DEF TypeOK
<1>3. IndexOrder' /\ Messages' /\ Control'
  BY DEF TypeOK, IndexOrder, Messages, Control
<1>4. ASSUME NEW i \in Len(got) .. tail - 1
      PROVE  i \in Nat /\ SlotOf(i) # SlotOf(tail)
  BY SlotsDiffer DEF TypeOK, IndexOrder, Control
<1>5. Contents'
  <2>1. \A i \in Len(got) .. tail - 1 : slots'[SlotOf(i)] = slots[SlotOf(i)]
    BY <1>4, SlotOfIsMod DEF TypeOK
  <2>2. slots'[SlotOf(tail)] = Offered + 1
    BY <1>1 DEF TypeOK
  <2> QED
    BY <2>1, <2>2 DEF Contents, InOrder, Offered
<1> QED
  BY <1>2, <1>3, <1>5

LEMMA PushPublishInv == IndInv /\ PushPublish => IndInv'
<1> SUFFICES ASSUME IndInv, PushPublish PROVE IndInv'
  OBVIOUS
<1> USE RingAssumption DEF IndInv, PushPublish, consVars
<1>1. tail \in Nat /\ written = tail + 1 /\ Offered + 1 \in Nat
  BY TypeNat DEF Messages
<1>2. /\ accepted' \in Seq(Nat) /\ Len(accepted') = tail + 1
      /\ accepted'[tail + 1] = Offered + 1
      /\ \A k \in 1 .. tail : accepted'[k] = accepted[k]
  <2>1. accepted \in Seq(Nat) /\ Len(accepted) = tail /\ accepted' = Append(accepted, Offered + 1)
    BY DEF TypeOK, IndexOrder
  <2> QED
    BY <1>1, <2>1, AppendProperties
<1>3. TypeOK'
  <2>1. tailMsgs' \subseteq [val : Nat, view : Nat]
    BY <1>1 DEF TypeOK, Msg
  <2>2. tail' \in head .. head + N /\ cachedTail \in head .. tail'
    BY TypeNat DEF TypeOK, Control
  <2> QED
    BY <1>1, <1>2, <2>1, <2>2 DEF TypeOK
<1>4. IndexOrder' /\ Control'
  BY <1>2 DEF TypeOK, IndexOrder, Control
<1>5. Messages'
  BY <1>1 DEF TypeOK, Messages, Msg
<1>6. Contents'
  BY <1>1, <1>2 DEF TypeOK, IndexOrder, Contents, InOrder
<1> QED
  BY <1>3, <1>4, <1>5, <1>6

LEMMA FeedEndsInv == IndInv /\ FeedEnds => IndInv'
BY DEF IndInv, FeedEnds, consVars, TypeOK, IndexOrder, Messages, Control, Contents, InOrder, Offered

\* The batch pop_batch takes lies within what the consumer has seen.
LEMMA BatchFits ==
    ASSUME NEW n \in Nat
    PROVE  /\ AtMostBatch(n) \in 0 .. MaxBatch /\ AtMostBatch(n) <= n
           /\ AtMostBatch(n) = 0 <=> n = 0
BY RingAssumption DEF AtMostBatch

\* The distance from head to a tail the consumer may have loaded.
LEMMA PopDistance ==
    ASSUME IndInv, NEW t \in Nat, head <= t, t <= tail
    PROVE  Distance(t, head) = t - head
BY DistanceExact, TypeNat, RingAssumption DEF IndInv, TypeOK, IndexOrder

LEMMA PopCheckInv == IndInv /\ PopCheck => IndInv'
<1> SUFFICES ASSUME IndInv, PopCheck PROVE IndInv'
  OBVIOUS
<1> USE RingAssumption DEF IndInv, PopCheck, prodVars
<1>1. Distance(cachedTail, head) = cachedTail - head /\ cachedTail - head \in Nat
  BY PopDistance, TypeNat DEF IndexOrder
<1>2. IF cachedTail - head = 0
        THEN cPc' = "reload" /\ UNCHANGED batch
        ELSE /\ cPc' = "read" /\ batch' \in 0 .. MaxBatch /\ batch' <= cachedTail - head
             /\ batch' # 0
  BY <1>1, BatchFits
<1>3. TypeOK'
  BY <1>2 DEF TypeOK
<1>4. IndexOrder' /\ Messages'
  BY DEF IndexOrder, Messages
<1>5. Control'
  <2>1. head \in Nat /\ cachedTail \in Nat /\ Len(got) = head
    BY TypeNat DEF Control
  <2>2. cPc' \in {"read", "reload"} /\ head' = head /\ cachedTail' = cachedTail /\ Len(got') = Len(got)
    BY <1>2
  <2>3. ASSUME cPc' = "read" PROVE Len(got') < head' + batch' /\ head' + batch' <= cachedTail'
    <3>1. batch' \in Nat /\ batch' # 0 /\ batch' <= cachedTail - head
      BY <1>2, <2>3
    <3>2. \A i, j, k \in Nat : j # 0 /\ j <= k - i => i < i + j /\ i + j <= k
      OBVIOUS
    <3> QED
      BY <2>1, <2>2, <3>1, <3>2
  <2> QED
    BY <2>1, <2>2, <2>3 DEF Control
<1>6. Contents'
  BY DEF Contents, InOrder, Offered
<1> QED
  BY <1>3, <1>4, <1>5, <1>6

\* What an acquire load of tail gives the consumer.
LEMMA LoadTailFacts ==
    ASSUME IndInv, NEW m \in tailMsgs, LoadTail(m)
    PROVE  /\ m.val \in Nat /\ tailSeen <= m.val /\ m.val <= tail
           /\ cachedTail <= m.val /\ head <= m.val
           /\ tailSeen' = m.val /\ knownWrites' \in Nat /\ m.val <= knownWrites'
           /\ Distance(m.val, head) = m.val - head
<1>1. m.val \in Nat /\ m.view = m.val /\ m.val <= tail
  BY DEF IndInv, TypeOK, Messages
<1>2. tailSeen <= m.val /\ tailSeen' = m.val /\ knownWrites' = Larger(knownWrites, m.val)
  BY <1>1 DEF LoadTail, NotOlder
<1>3. cachedTail <= m.val /\ head <= m.val
  BY <1>1, <1>2, TypeNat DEF IndInv, IndexOrder
<1>4. Distance(m.val, head) = m.val - head
  BY <1>1, <1>3, PopDistance
<1>5. knownWrites \in Nat
  BY DEF IndInv, TypeOK
<1> QED
  BY <1>1, <1>2, <1>3, <1>4, <1>5 DEF Larger

LEMMA PopReloadInv == IndInv /\ PopReload => IndInv'
<1> SUFFICES ASSUME IndInv, PopReload PROVE IndInv'
  OBVIOUS
<1> USE RingAssumption DEF IndInv, prodVars
<1>1. PICK m \in tailMsgs :
        /\ LoadTail(m)
        /\ cachedTail' = m.val
        /\ batch' = AtMostBatch(Distance(m.val, head))
        /\ cPc' = IF batch' = 0 THEN "empty" ELSE "read"
  BY DEF PopReload
<1>2. UNCHANGED <<slots, headMsgs, prodVars, head, got>> /\ cPc = "reload"
  BY DEF PopReload
<1>3. /\ m.val \in Nat /\ tailSeen <= m.val /\ m.val <= tail
      /\ cachedTail <= m.val /\ head <= m.val
      /\ tailSeen' = m.val /\ knownWrites' \in Nat /\ m.val <= knownWrites'
      /\ Distance(m.val, head) = m.val - head
  BY <1>1, LoadTailFacts
<1>4. batch' \in 0 .. MaxBatch /\ batch' <= m.val - head
  <2>1. m.val - head \in Nat
    BY <1>3, TypeNat
  <2> QED
    BY <1>1, <1>3, <2>1, BatchFits
<1>5. TypeOK'
  BY <1>1, <1>2, <1>3, <1>4, SMTT(30) DEF TypeOK
<1>6. IndexOrder'
  <2>1. Len(got) <= m.val /\ head <= Len(got)
    <3>1. Len(got) \in Nat /\ cachedTail \in Nat /\ Len(got) <= cachedTail /\ head <= Len(got)
      BY TypeNat DEF IndexOrder
    <3> QED
      BY ONLY <3>1, <1>3
  <2> QED
    BY <1>1, <1>2, <1>3, <2>1, TypeNat DEF IndexOrder
<1>7. Messages'
  BY <1>1, <1>2, <1>3 DEF Messages
<1>8. Control'
  <2>1. Len(got)' = head' /\ batch' \in Nat
    BY <1>2, <1>4 DEF Control
  <2>2. cPc' = "read" => batch' # 0
    BY <1>1
  <2>3. cPc' \in {"empty", "read"}
    BY <1>1
  <2>4. head \in Nat /\ head' = head /\ cachedTail' = m.val
    BY <1>1, <1>2, TypeNat
  <2>5. cPc' = "read" => Len(got)' < head' + batch' /\ head' + batch' <= cachedTail'
    <3>1. head \in Nat /\ batch' \in Nat /\ m.val \in Nat /\ batch' <= m.val - head
      BY <1>3, <1>4, <2>1, <2>4
    <3>2. \A i, j, k \in Nat : j <= k - i => i + j <= k /\ (j # 0 => i < i + j)
      OBVIOUS
    <3>3. head + batch' <= m.val /\ (batch' # 0 => head < head + batch')
      BY ONLY <3>1, <3>2
    <3> QED
      BY <3>3, <2>1, <2>2, <2>4
  <2>6. (pPc' # "idle" => ~feedDone') /\ (pPc' \in {"write", "publish"} => tail' < cachedHead' + N)
    BY <1>2 DEF Control
  <2> QED
    BY <2>1, <2>3, <2>5, <2>6 DEF Control
<1>9. Contents'
  BY <1>2 DEF Contents, InOrder, Offered
<1> QED
  BY <1>5, <1>6, <1>7, <1>8, <1>9

LEMMA PopReadInv == IndInv /\ PopRead => IndInv'
<1> SUFFICES ASSUME IndInv, PopRead PROVE IndInv'
  OBVIOUS
<1> USE RingAssumption DEF IndInv, PopRead, prodVars
<1>1. /\ got \in Seq(Nat) /\ Len(got) \in Nat /\ Len(got) < tail
      /\ Len(got) < cachedTail /\ Len(got) + 1 <= head + batch
  <2>1. got \in Seq(Nat) /\ cPc = "read"
    BY DEF TypeOK
  <2>2. /\ Len(got) \in Nat /\ head \in Nat /\ batch \in Nat
        /\ tail \in Nat /\ cachedTail \in Nat /\ tailSeen \in Nat
    BY TypeNat
  <2>3. Len(got) < head + batch /\ head + batch <= cachedTail
    BY <2>1 DEF Control
  <2>4. cachedTail <= tailSeen /\ tailSeen <= tail
    BY DEF IndexOrder
  <2> QED
    BY ONLY <2>1, <2>2, <2>3, <2>4
<1>2. slots[SlotOf(Len(got))] = accepted[Len(got) + 1] /\ accepted[Len(got) + 1] \in Nat
  <2>1. Len(got) + 1 \in 1 .. Len(accepted) /\ Len(got) \in Len(got) .. tail - 1
    BY <1>1, TypeNat DEF IndexOrder
  <2> QED
    BY <2>1, ElementOfSeq DEF Contents, TypeOK
<1>3. /\ got' \in Seq(Nat) /\ Len(got') = Len(got) + 1
      /\ got'[Len(got) + 1] = accepted[Len(got) + 1]
      /\ \A k \in 1 .. Len(got) : got'[k] = got[k]
  <2>1. got' = Append(got, accepted[Len(got) + 1])
    BY <1>2
  <2> QED
    BY <1>1, <1>2, <2>1, AppendProperties
<1>4. TypeOK'
  BY <1>3 DEF TypeOK
<1>5. IndexOrder' /\ Messages'
  <2>1. head \in Nat /\ head <= Len(got) /\ cachedTail \in Nat
    BY TypeNat DEF IndexOrder
  <2>2. head <= Len(got') /\ Len(got') <= cachedTail
    BY ONLY <1>1, <1>3, <2>1
  <2> QED
    BY <2>2 DEF IndexOrder, Messages
<1>6. Control'
  <2>1. head \in Nat /\ batch \in Nat /\ head + batch <= cachedTail
    BY TypeNat DEF Control
  <2>2. Len(got') = head + batch => cPc' = "publish"
    BY <1>1, <1>3
  <2>3. Len(got') # head + batch => cPc' = "read" /\ Len(got') < head + batch
    BY <1>1, <1>3, <2>1
  <2>4. cPc' = "publish" => Len(got') = head + batch
    BY <1>3
  <2> QED
    BY <2>1, <2>2, <2>3, <2>4 DEF Control
<1>7. Contents'
  <2>1. /\ accepted' = accepted /\ slots' = slots /\ tail' = tail /\ dropped' = dropped
        /\ pPc' = pPc /\ Len(accepted) = tail /\ tail \in Nat
    BY TypeNat DEF IndexOrder
  <2>2. Len(got') <= Len(accepted)
    BY <1>1, <1>3, <2>1
  <2>3. ASSUME NEW k \in 1 .. Len(got') PROVE got'[k] = accepted[k]
    <3>1. k \in 1 .. Len(got) \/ k = Len(got) + 1
      BY <1>1, <1>3
    <3>2. \A j \in 1 .. Len(got) : got[j] = accepted[j]
      BY DEF Contents, InOrder
    <3> QED
      BY <1>3, <3>1, <3>2
  <2>4. \A i \in Len(got') .. tail - 1 : slots[SlotOf(i)] = accepted[i + 1]
    <3>1. \A i \in Len(got') .. tail - 1 : i \in Len(got) .. tail - 1
      BY <1>1, <1>3, <2>1
    <3> QED
      BY <3>1 DEF Contents
  <2>5. (pPc = "publish" => slots[SlotOf(tail)] = Offered + 1)'
    BY <2>1 DEF Contents, Offered
  <2> QED
    BY <2>1, <2>2, <2>3, <2>4, <2>5 DEF Contents, InOrder
<1> QED
  BY <1>4, <1>5, <1>6, <1>7

LEMMA PopPublishInv == IndInv /\ PopPublish => IndInv'
<1> SUFFICES ASSUME IndInv, PopPublish PROVE IndInv'
  OBVIOUS
<1> USE RingAssumption DEF IndInv, PopPublish, prodVars, BatchEnd
<1>1. head' = Len(got) /\ head' \in Nat /\ head <= head' /\ head' <= cachedTail
  BY TypeNat DEF Control, IndexOrder
<1>2. TypeOK'
  <2>1. headMsgs' \subseteq [val : Nat, view : Nat]
    BY <1>1 DEF TypeOK, Msg
  <2>2. /\ tail \in head' .. head' + N /\ cachedHead \in 0 .. head'
        /\ cachedTail \in head' .. tail
    BY <1>1, TypeNat DEF TypeOK, IndexOrder
  <2> QED
    BY <1>1, <2>1, <2>2 DEF TypeOK
<1>3. IndexOrder' /\ Control'
  BY <1>1 DEF IndexOrder, Control
<1>4. Messages'
  <2>1. cachedHead <= head'
    BY <1>1, TypeNat DEF TypeOK
  <2> QED
    <3>1. \A m \in headMsgs' : m.view = m.val /\ cachedHead <= m.val /\ m.val <= head'
      <4>1. ASSUME NEW m \in headMsgs PROVE m.view = m.val /\ cachedHead <= m.val /\ m.val <= head'
        <5>1. m.val \in Nat /\ m.view = m.val /\ cachedHead <= m.val /\ m.val <= head
          BY DEF Messages, TypeOK
        <5> QED
          BY <5>1, <1>1, TypeNat
      <4>2. LET n == Msg(BatchEnd, Len(got))
            IN  n.view = n.val /\ cachedHead <= n.val /\ n.val <= head'
        BY <1>1, <2>1 DEF Msg
      <4> QED
        BY <4>1, <4>2
    <3> QED
      BY <3>1 DEF Messages
<1>5. Contents'
  BY DEF Contents, InOrder, Offered
<1> QED
  BY <1>2, <1>3, <1>4, <1>5

LEMMA CheckDoneInv == ASSUME NEW d \in BOOLEAN PROVE IndInv /\ CheckDone(d) => IndInv'
<1> SUFFICES ASSUME IndInv, CheckDone(d) PROVE IndInv'
  OBVIOUS
<1> USE RingAssumption DEF IndInv, CheckDone, prodVars, DoneShows
<1>1. /\ tailSeen <= tailSeen' /\ tailSeen' <= tail /\ tailSeen' <= knownWrites'
      /\ tailSeen' \in Nat /\ knownWrites' \in Nat
      /\ d => tailSeen' = tail
  BY TypeNat DEF IndexOrder, Messages, Larger
<1>2. TypeOK'
  BY <1>1 DEF TypeOK
<1>3. IndexOrder' /\ Messages'
  BY <1>1, TypeNat DEF IndexOrder, Messages
<1>4. Control'
  BY <1>1 DEF Control
<1>5. Contents'
  BY DEF Contents, InOrder, Offered
<1> QED
  BY <1>2, <1>3, <1>4, <1>5

LEMMA CheckSizeInv == IndInv /\ CheckSize => IndInv'
<1> SUFFICES ASSUME IndInv, CheckSize PROVE IndInv'
  OBVIOUS
<1> USE RingAssumption DEF IndInv, prodVars
<1>1. PICK m \in tailMsgs :
        LoadTail(m) /\ cPc' = IF Distance(m.val, head) = 0 THEN "exit" ELSE "poll"
  BY DEF CheckSize
<1>2. UNCHANGED <<slots, headMsgs, prodVars, head, cachedTail, batch, got>> /\ cPc = "size"
  BY DEF CheckSize
<1>3. /\ m.val \in Nat /\ tailSeen <= m.val /\ m.val <= tail
      /\ tailSeen' = m.val /\ knownWrites' \in Nat /\ m.val <= knownWrites'
      /\ Distance(m.val, head) = m.val - head
      /\ cachedTail <= m.val
  BY <1>1, LoadTailFacts
<1>4. m.val = tail /\ feedDone
  BY <1>2, <1>3, TypeNat DEF Control
<1>5. TypeOK'
  BY <1>1, <1>2, <1>3 DEF TypeOK
<1>6. IndexOrder' /\ Messages'
  BY <1>2, <1>3, TypeNat DEF IndexOrder, Messages
<1>7. Control'
  BY <1>1, <1>2, <1>3, <1>4, TypeNat DEF Control
<1>8. Contents'
  BY <1>2 DEF Contents, InOrder, Offered
<1> QED
  BY <1>5, <1>6, <1>7, <1>8

LEMMA StutterInv == IndInv /\ UNCHANGED vars => IndInv'
<1> SUFFICES ASSUME IndInv, UNCHANGED vars PROVE IndInv'
  OBVIOUS
<1> USE DEF IndInv, vars, prodVars, consVars
<1>1. TypeOK'
  BY DEF TypeOK
<1>2. IndexOrder' /\ Messages'
  BY DEF IndexOrder, Messages
<1>3. Control'
  BY DEF Control
<1>4. Contents'
  BY DEF Contents, InOrder, Offered
<1> QED
  BY <1>1, <1>2, <1>3, <1>4

LEMMA NextInv == IndInv /\ [Next]_vars => IndInv'
<1> SUFFICES ASSUME IndInv, [Next]_vars PROVE IndInv'
  OBVIOUS
<1>1. CASE Producer
  BY <1>1, PushCheckInv, PushReloadInv, PushWriteInv, PushPublishInv, FeedEndsInv DEF Producer, Push
<1>2. CASE Consumer
  BY <1>2, PopCheckInv, PopReloadInv, PopReadInv, PopPublishInv, CheckDoneInv, CheckSizeInv DEF Consumer
<1>3. CASE Finished \/ UNCHANGED vars
  BY <1>3, StutterInv DEF Finished
<1> QED
  BY <1>1, <1>2, <1>3 DEF Next

\* The invariant holds in every reachable state of the ring.
THEOREM Invariant == Spec => []IndInv
<1>1. Init => IndInv
  BY InitInv
<1>2. IndInv /\ [Next]_vars => IndInv'
  BY NextInv
<1> QED
  BY <1>1, <1>2, PTL DEF Spec

-----------------------------------------------------------------------------
(* Safety of the ring.                                                     *)

\* The ring never holds more than N events, a cached index never runs ahead
\* of its original, and every variable keeps its type (try_push, pop_batch).
THEOREM TypeCorrect == Spec => []TypeOK
<1>1. IndInv => TypeOK
  BY DEF IndInv
<1> QED
  BY <1>1, Invariant, PTL

LEMMA IndInvNoSlotRace == IndInv => NoSlotRace
<1> SUFFICES ASSUME IndInv PROVE NoSlotRace
  OBVIOUS
<1> USE DEF IndInv
<1>1. ASSUME pPc = "write", NEW r \in knownReads .. Len(got) - 1
      PROVE  SlotOf(r) # SlotOf(tail)
  <2>1. r \in Nat /\ tail \in Nat /\ r < tail /\ tail < r + N
    BY <1>1, TypeNat, RingAssumption DEF IndexOrder, Messages, Control
  <2> QED
    BY <2>1, SlotsDiffer
<1>2. ASSUME cPc = "read" PROVE Len(got) < knownWrites
  BY <1>2, TypeNat DEF IndexOrder, Messages, Control
<1>3. ASSUME cPc = "read", NEW w \in knownWrites .. written - 1
      PROVE  SlotOf(w) # SlotOf(Len(got))
  <2>1. w \in Nat /\ Len(got) \in Nat /\ Len(got) < w
    BY <1>2, <1>3, TypeNat
  <2>2. w < Len(got) + N
    <3>1. /\ tail \in Nat /\ cachedHead \in Nat /\ head \in Nat /\ written \in Nat /\ N \in Nat
          /\ cachedHead <= head
      BY TypeNat, RingAssumption DEF TypeOK
    <3>2. head <= Len(got) /\ tail <= cachedHead + N
      BY DEF IndexOrder
    <3>3. /\ pPc = "publish" => written = tail + 1 /\ tail < cachedHead + N
          /\ pPc # "publish" => written = tail
      BY DEF Messages, Control
    <3>4. w < written
      BY <1>3, <2>1, <3>1
    <3> QED
      BY <2>1, <3>1, <3>2, <3>3, <3>4
  <2> QED
    BY <2>1, <2>2, SlotsDiffer
<1> QED
  BY <1>1, <1>2, <1>3 DEF NoSlotRace

\* No slot of the ring is accessed by both threads without synchronisation:
\* a push waits for the reads of the slot it reuses, and a pop for the write.
THEOREM RaceFree == Spec => []NoSlotRace
  BY Invariant, IndInvNoSlotRace, PTL

\* The hook receives the accepted events in the order of the pushes.
THEOREM OrderKept == Spec => []InOrder
<1>1. IndInv => InOrder
  BY DEF IndInv, Contents
<1> QED
  BY <1>1, Invariant, PTL

\* consumer_loop leaves only when every event was handed over or dropped.
THEOREM Drained == Spec => []DrainedAtExit
<1>1. IndInv => DrainedAtExit
  BY TypeNat DEF IndInv, IndexOrder, Control, DrainedAtExit, Offered
<1> QED
  BY <1>1, Invariant, PTL

-----------------------------------------------------------------------------
(* The ring implements the bounded lossy FIFO.                             *)

Queue == SubSeq(accepted, Len(got) + 1, Len(accepted))

\* A sequence without its first n elements.
LEMMA Remainder ==
    ASSUME NEW s \in Seq(Nat), NEW n \in 0 .. Len(s)
    PROVE  /\ SubSeq(s, n + 1, Len(s)) \in Seq(Nat)
           /\ Len(SubSeq(s, n + 1, Len(s))) = Len(s) - n
           /\ \A i \in 1 .. Len(s) - n : SubSeq(s, n + 1, Len(s))[i] = s[n + i]
<1>1. Len(s) \in Nat /\ \A i \in n + 1 .. Len(s) : s[i] \in Nat
  BY LenProperties, ElementOfSeq
<1>2. /\ SubSeq(s, n + 1, Len(s)) \in Seq(Nat)
      /\ Len(SubSeq(s, n + 1, Len(s))) = IF n + 1 <= Len(s) THEN Len(s) - (n + 1) + 1 ELSE 0
      /\ \A i \in 1 .. Len(s) - (n + 1) + 1 : SubSeq(s, n + 1, Len(s))[i] = s[(n + 1) + i - 1]
  BY <1>1, SubSeqProperties
<1> QED
  BY <1>1, <1>2

LEMMA QueueFacts ==
    ASSUME IndInv
    PROVE  /\ Queue \in Seq(Nat)
           /\ Len(Queue) = Len(accepted) - Len(got)
           /\ \A i \in 1 .. Len(Queue) : Queue[i] = accepted[Len(got) + i]
<1>1. accepted \in Seq(Nat) /\ Len(got) \in 0 .. Len(accepted)
  BY TypeNat DEF IndInv, TypeOK, IndexOrder
<1> QED
  BY <1>1, Remainder DEF Queue

LEMMA InitRefines == Init => Fifo!Init
<1> SUFFICES ASSUME Init PROVE Fifo!Init
  OBVIOUS
<1>1. Queue = <<>>
  <2>1. Len(got) + 1 \in Int /\ Len(accepted) \in Int /\ Len(accepted) < Len(got) + 1
    BY DEF Init
  <2> QED
    BY <2>1, SubSeqEmpty DEF Queue
<1> QED
  BY <1>1 DEF Fifo!Init, Init, Queue

LEMMA PublishRefines == IndInv /\ IndInv' /\ PushPublish => Fifo!Accept
<1> SUFFICES ASSUME IndInv, IndInv', PushPublish PROVE Fifo!Accept
  OBVIOUS
<1>1. /\ Queue \in Seq(Nat) /\ Len(Queue) = Len(accepted) - Len(got)
      /\ \A i \in 1 .. Len(Queue) : Queue[i] = accepted[Len(got) + i]
  BY QueueFacts
<1>2. /\ accepted \in Seq(Nat) /\ Offered + 1 \in Nat /\ got' = got
      /\ Len(accepted) \in Nat /\ Len(got) \in Nat /\ Len(got) <= Len(accepted)
      /\ accepted' = Append(accepted, Offered + 1)
  BY TypeNat DEF IndInv, TypeOK, IndexOrder, PushPublish, consVars
<1>3. /\ Len(accepted') = Len(accepted) + 1
      /\ accepted'[Len(accepted) + 1] = Offered + 1
      /\ \A i \in 1 .. Len(accepted) : accepted'[i] = accepted[i]
  BY <1>2, AppendProperties
<1>4. /\ Queue' \in Seq(Nat) /\ Len(Queue') = Len(accepted') - Len(got')
      /\ \A i \in 1 .. Len(Queue') : Queue'[i] = accepted'[Len(got') + i]
  <2>1. accepted' \in Seq(Nat) /\ Len(got') \in 0 .. Len(accepted')
    BY <1>2, <1>3
  <2> QED
    BY <2>1, Remainder DEF Queue
<1>5. Len(got) + Len(Queue) + dropped = Offered
  BY <1>1, <1>2, TypeNat DEF Offered, IndInv
<1>6. Queue' = Append(Queue, Offered + 1)
  <2> DEFINE R == Append(Queue, Offered + 1)
  <2>1. /\ R \in Seq(Nat) /\ Len(R) = Len(Queue) + 1
        /\ R[Len(Queue) + 1] = Offered + 1
        /\ \A i \in 1 .. Len(Queue) : R[i] = Queue[i]
    BY <1>1, <1>2, AppendProperties
  <2>2. Len(Queue') = Len(R)
    BY <1>1, <1>4, <1>2, <1>3, <2>1
  <2> HIDE DEF R
  <2>3. ASSUME NEW i \in 1 .. Len(Queue') PROVE Queue'[i] = R[i]
    <3>1. CASE i <= Len(Queue)
      <4>1. i \in 1 .. Len(Queue) /\ Len(got) + i \in 1 .. Len(accepted)
        BY <3>1, <1>1, <1>2
      <4>2. Queue'[i] = accepted'[Len(got) + i]
        BY <1>2, <1>4
      <4>3. accepted'[Len(got) + i] = accepted[Len(got) + i]
        BY <4>1, <1>3
      <4> QED
        BY <4>1, <4>2, <4>3, <1>1, <2>1
    <3>2. CASE i = Len(Queue) + 1
      <4>1. Len(got') + i = Len(accepted) + 1
        BY <3>2, <1>1, <1>2
      <4>2. Queue'[i] = accepted'[Len(got') + i]
        BY <1>4
      <4> QED
        BY <4>1, <4>2, <3>2, <1>3, <2>1
    <3>3. i \in Nat /\ Len(Queue) \in Nat /\ i <= Len(Queue) + 1
      BY <1>1, <1>2, <2>1, <2>2
    <3>4. i <= Len(Queue) \/ i = Len(Queue) + 1
      BY <3>3
    <3> QED
      BY <3>1, <3>2, <3>4
  <2>4. Queue' = R
    BY <1>4, <2>1, <2>2, <2>3, SeqEqual
  <2> QED
    BY <2>4 DEF R
<1>7. Len(Queue) < N
  BY <1>1, <1>2, TypeNat, RingAssumption DEF IndInv, TypeOK, IndexOrder, Control, PushPublish
<1>8. ~feedDone /\ UNCHANGED <<got, dropped, feedDone, cPc>>
  BY DEF PushPublish, consVars, IndInv, Control
<1> QED
  BY <1>5, <1>6, <1>7, <1>8 DEF Fifo!Accept, Fifo!Offered, Fifo!Accepted, Queue

LEMMA ReloadRefines ==
    IndInv /\ PushReload => Fifo!Drop \/ UNCHANGED Fifo!fifoVars
<1> SUFFICES ASSUME IndInv, PushReload PROVE Fifo!Drop \/ UNCHANGED Fifo!fifoVars
  OBVIOUS
<1>1. UNCHANGED <<accepted, got, cPc, feedDone>> /\ Queue' = Queue
  BY DEF PushReload, consVars, Queue
<1>2. CASE UNCHANGED dropped
  BY <1>1, <1>2 DEF Fifo!fifoVars, Queue
<1>3. CASE ~ UNCHANGED dropped
  <2>1. PICK m \in NotOlder(headMsgs, cachedHead) : Full(tail, m.val) /\ dropped' = dropped + 1
    BY <1>3 DEF PushReload
  <2>2. m.val \in Nat /\ cachedHead <= m.val /\ m.val <= head /\ m.val <= tail /\ tail <= m.val + N
    <3>1. m \in headMsgs
      BY <2>1 DEF NotOlder
    <3>2. m.val \in Nat /\ cachedHead <= m.val /\ m.val <= head
      BY <3>1 DEF IndInv, TypeOK, Messages
    <3>3. /\ cachedHead \in Nat /\ head \in Nat /\ tail \in Nat /\ N \in Nat
          /\ head <= tail /\ tail <= cachedHead + N
      BY TypeNat, RingAssumption DEF IndInv, TypeOK, IndexOrder
    <3> QED
      BY ONLY <3>2, <3>3
  <2>3. Distance(tail, m.val) = tail - m.val
    BY <2>2, DistanceExact, TypeNat DEF IndInv
  <2>4. N <= tail
    BY <2>1, <2>2, <2>3, TypeNat, RingAssumption, SMTT(30) DEF IndInv, Full
  <2>5. Len(got) + Len(Queue) >= N
    <3>1. Len(Queue) = tail - Len(got) /\ Len(got) \in Nat /\ tail \in Nat /\ N \in Nat
      BY QueueFacts, TypeNat, RingAssumption DEF IndInv, IndexOrder
    <3> QED
      BY ONLY <2>4, <3>1
  <2>6. ~feedDone
    BY DEF PushReload, IndInv, Control
  <2> QED
    BY <1>1, <2>1, <2>5, <2>6 DEF Fifo!Drop, Fifo!Accepted, Queue
<1> QED
  BY <1>2, <1>3

LEMMA ReadRefines == IndInv /\ PopRead => Fifo!Receive
<1> SUFFICES ASSUME IndInv, PopRead PROVE Fifo!Receive
  OBVIOUS
<1>1. /\ Len(got) \in Nat /\ Len(accepted) \in Nat /\ Len(got) < Len(accepted)
      /\ accepted \in Seq(Nat) /\ got \in Seq(Nat)
  BY TypeNat DEF IndInv, TypeOK, IndexOrder, Control, PopRead
<1>2. slots[SlotOf(Len(got))] = accepted[Len(got) + 1]
  BY <1>1 DEF IndInv, Contents, IndexOrder
<1>3. Head(Queue) = accepted[Len(got) + 1] /\ Tail(Queue) = SubSeq(accepted, Len(got) + 2, Len(accepted))
  <2>1. Len(got) + 1 \in 1 .. Len(accepted) /\ Len(accepted) \in Len(got) + 1 .. Len(accepted)
    BY <1>1
  <2>2. (Len(got) + 1) + 1 = Len(got) + 2
    BY <1>1
  <2> QED
    BY <1>1, <2>1, <2>2, HeadTailOfSubSeq DEF Queue
<1>4. Queue # <<>>
  BY <1>1, QueueFacts
<1>5. got' = Append(got, Head(Queue)) /\ Len(got') = Len(got) + 1
  <2>1. accepted[Len(got) + 1] \in Nat
    BY <1>1, ElementOfSeq
  <2> QED
    BY <1>1, <1>2, <1>3, <2>1, AppendProperties DEF PopRead
<1>6. Queue' = Tail(Queue)
  <2>1. accepted' = accepted /\ Len(got') + 1 = Len(got) + 2
    BY <1>1, <1>5 DEF PopRead, prodVars
  <2> QED
    BY <2>1, <1>3 DEF Queue
<1>7. UNCHANGED <<dropped, feedDone>> /\ cPc # "exit" /\ cPc' # "exit"
  BY DEF PopRead, prodVars
<1> QED
  BY <1>4, <1>5, <1>6, <1>7 DEF Fifo!Receive, Queue

LEMMA SizeRefines == IndInv /\ IndInv' /\ CheckSize => Fifo!Stop \/ UNCHANGED Fifo!fifoVars
<1> SUFFICES ASSUME IndInv, IndInv', CheckSize PROVE Fifo!Stop \/ UNCHANGED Fifo!fifoVars
  OBVIOUS
<1>1. /\ UNCHANGED <<accepted, got, dropped, feedDone>> /\ Queue' = Queue
      /\ cPc = "size" /\ cPc' \in {"exit", "poll"}
  BY DEF CheckSize, prodVars, Queue
<1>2. CASE cPc' = "exit"
  <2>1. feedDone /\ Len(accepted) = Len(got)
    BY <1>1, <1>2, TypeNat DEF IndInv, IndexOrder, Control
  <2>2. Queue = <<>>
    <3>1. Len(got) + 1 \in Int /\ Len(accepted) \in Int /\ Len(accepted) < Len(got) + 1
      BY <2>1, TypeNat DEF IndInv
    <3> QED
      BY <3>1, SubSeqEmpty DEF Queue
  <2> QED
    BY <1>1, <1>2, <2>1, <2>2 DEF Fifo!Stop, Queue
<1>3. CASE cPc' = "poll"
  BY <1>1, <1>3 DEF Fifo!fifoVars, Queue
<1> QED
  BY <1>1, <1>2, <1>3

LEMMA StepRefines ==
    IndInv /\ IndInv' /\ [Next]_vars => [Fifo!Next]_(Fifo!fifoVars)
<1> SUFFICES ASSUME IndInv, IndInv', [Next]_vars PROVE [Fifo!Next]_(Fifo!fifoVars)
  OBVIOUS
<1> USE DEF Fifo!Next
<1>1. CASE PushReload
  BY <1>1, ReloadRefines
<1>2. CASE PushPublish
  BY <1>2, PublishRefines
<1>3. CASE FeedEnds
  BY <1>3 DEF FeedEnds, consVars, Fifo!End
<1>4. CASE PushCheck \/ PushWrite
  BY <1>4 DEF PushCheck, PushWrite, consVars, Fifo!fifoVars
<1>5. CASE PopRead
  BY <1>5, ReadRefines
<1>6. CASE CheckSize
  BY <1>6, SizeRefines
<1>7. CASE PopCheck \/ PopPublish
  BY <1>7 DEF PopCheck, PopPublish, prodVars, Fifo!fifoVars
<1>8. CASE PopReload
  BY <1>8 DEF PopReload, prodVars, Fifo!fifoVars
<1>9. CASE \E d \in BOOLEAN : CheckDone(d)
  BY <1>9 DEF CheckDone, prodVars, Fifo!fifoVars
<1>10. CASE Finished \/ UNCHANGED vars
  BY <1>10 DEF Finished, vars, prodVars, consVars, Fifo!fifoVars
<1> QED
  BY <1>1, <1>2, <1>3, <1>4, <1>5, <1>6, <1>7, <1>8, <1>9, <1>10
     DEF Next, Producer, Push, Consumer

\* The ring with its consumer loop is a bounded FIFO that drops only after it
\* has been full, hands over each accepted event once and in order, and whose
\* consumer stops only when the feed has ended and nothing is left.
THEOREM Refinement == Spec => ImplementsFifo
<1>1. Init => Fifo!Init
  BY InitRefines
<1>2. IndInv /\ IndInv' /\ [Next]_vars => [Fifo!Next]_(Fifo!fifoVars)
  BY StepRefines
<1> QED
  BY <1>1, <1>2, Invariant, PTL DEF Spec, ImplementsFifo, Fifo!Spec
=============================================================================
