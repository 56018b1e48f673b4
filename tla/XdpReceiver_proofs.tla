-------------------------- MODULE XdpReceiver_proofs --------------------------
(***************************************************************************)
(* Proofs about the AF_XDP receiver, for any number of frames, any ring    *)
(* and batch size, any frames on the wire, and a kernel that publishes its *)
(* index as late as it may.                                                *)
(***************************************************************************)
EXTENDS XdpReceiver, FiniteSetTheorems, SequenceTheorems, TLAPS

Entry == [frame : Frames, udp : BOOLEAN]

-----------------------------------------------------------------------------
(* Sequences without repetition.                                           *)

\* A concatenation has the elements of both, and repeats none of them if
\* neither repeats any and they share none.
LEMMA ConcatParts ==
    ASSUME NEW S, NEW s \in Seq(S), NEW t \in Seq(S)
    PROVE  /\ s \o t \in Seq(S)
           /\ ToSet(s \o t) = ToSet(s) \cup ToSet(t)
           /\ IsInjective(s \o t) <=> /\ IsInjective(s) /\ IsInjective(t)
                                      /\ ToSet(s) \cap ToSet(t) = {}
<1>1. /\ s \o t \in Seq(S) /\ Len(s \o t) = Len(s) + Len(t)
      /\ \A i \in 1 .. Len(s) + Len(t) : (s \o t)[i] = IF i <= Len(s) THEN s[i] ELSE t[i - Len(s)]
  BY ConcatProperties
<1>2. /\ Len(s) \in Nat /\ Len(t) \in Nat
      /\ DOMAIN s = 1 .. Len(s) /\ DOMAIN t = 1 .. Len(t)
      /\ DOMAIN (s \o t) = 1 .. Len(s) + Len(t)
  BY <1>1, LenProperties
<1>3. /\ \A i \in 1 .. Len(s) : (s \o t)[i] = s[i] /\ i \in 1 .. Len(s) + Len(t)
      /\ \A i \in 1 .. Len(t) : (s \o t)[Len(s) + i] = t[i] /\ Len(s) + i \in 1 .. Len(s) + Len(t)
  BY <1>1, <1>2
<1>4. \A i \in 1 .. Len(s) + Len(t) : \/ i \in 1 .. Len(s)
                                      \/ \E j \in 1 .. Len(t) : i = Len(s) + j
  <2>1. TAKE i \in 1 .. Len(s) + Len(t)
  <2>2. i \notin 1 .. Len(s) => i - Len(s) \in 1 .. Len(t) /\ i = Len(s) + (i - Len(s))
    BY <1>2
  <2> QED  BY <2>2
<1>5. ToSet(s \o t) = ToSet(s) \cup ToSet(t)
  <2>1. ToSet(s) \cup ToSet(t) \subseteq ToSet(s \o t)
    BY <1>2, <1>3, Zenon DEF ToSet
  <2>2. ToSet(s \o t) \subseteq ToSet(s) \cup ToSet(t)
    <3>1. SUFFICES ASSUME NEW i \in 1 .. Len(s) + Len(t)
                   PROVE  (s \o t)[i] \in ToSet(s) \cup ToSet(t)
      BY <1>2 DEF ToSet
    <3>2. CASE i \in 1 .. Len(s)
      BY <1>2, <1>3, <3>2 DEF ToSet
    <3>3. CASE i \notin 1 .. Len(s)
      BY <1>2, <1>3, <1>4, <3>3 DEF ToSet
    <3> QED  BY <3>2, <3>3
  <2> QED  BY <2>1, <2>2
<1>6. IsInjective(s \o t) => /\ IsInjective(s) /\ IsInjective(t)
                             /\ ToSet(s) \cap ToSet(t) = {}
  <2>1. SUFFICES ASSUME IsInjective(s \o t)
                 PROVE  IsInjective(s) /\ IsInjective(t) /\ ToSet(s) \cap ToSet(t) = {}
    OBVIOUS
  <2>2. \A i, j \in 1 .. Len(s) + Len(t) : (s \o t)[i] = (s \o t)[j] => i = j
    BY <1>2, <2>1 DEF IsInjective
  <2>3. IsInjective(s)
    BY <1>2, <1>3, <2>2 DEF IsInjective
  <2>4. \A i, j \in 1 .. Len(t) : t[i] = t[j] => i = j
    <3>1. TAKE i, j \in 1 .. Len(t)
    <3>2. t[i] = t[j] => Len(s) + i = Len(s) + j
      BY <1>3, <2>2
    <3> QED  BY <1>2, <3>2
  <2>5. \A i \in 1 .. Len(s), j \in 1 .. Len(t) : s[i] # t[j]
    <3>1. TAKE i \in 1 .. Len(s), j \in 1 .. Len(t)
    <3>2. s[i] = t[j] => i = Len(s) + j
      BY <1>3, <2>2
    <3> QED  BY <1>2, <3>2
  <2> QED  BY <1>2, <2>3, <2>4, <2>5 DEF IsInjective, ToSet
<1>7. IsInjective(s) /\ IsInjective(t) /\ ToSet(s) \cap ToSet(t) = {} => IsInjective(s \o t)
  <2>1. SUFFICES ASSUME IsInjective(s), IsInjective(t), ToSet(s) \cap ToSet(t) = {},
                        NEW i \in 1 .. Len(s) + Len(t), NEW j \in 1 .. Len(s) + Len(t),
                        (s \o t)[i] = (s \o t)[j]
                 PROVE  i = j
    BY <1>2 DEF IsInjective
  <2>2. \A k \in 1 .. Len(s), l \in 1 .. Len(t) : s[k] # t[l]
    BY <1>2, <2>1 DEF ToSet
  <2>3. CASE i \in 1 .. Len(s) /\ j \in 1 .. Len(s)
    BY <1>2, <1>3, <2>1, <2>3 DEF IsInjective
  <2>4. CASE i \in 1 .. Len(s) /\ j \notin 1 .. Len(s)
    BY <1>3, <1>4, <2>1, <2>2, <2>4
  <2>5. CASE i \notin 1 .. Len(s) /\ j \in 1 .. Len(s)
    BY <1>3, <1>4, <2>1, <2>2, <2>5
  <2>6. CASE i \notin 1 .. Len(s) /\ j \notin 1 .. Len(s)
    <3>1. PICK k \in 1 .. Len(t) : i = Len(s) + k
      BY <1>4, <2>6
    <3>2. PICK l \in 1 .. Len(t) : j = Len(s) + l
      BY <1>4, <2>6
    <3> QED  BY <1>2, <1>3, <2>1, <3>1, <3>2 DEF IsInjective
  <2> QED  BY <2>3, <2>4, <2>5, <2>6
<1> QED  BY <1>1, <1>5, <1>6, <1>7

\* A sequence is its first n elements followed by the others.
LEMMA Split ==
    ASSUME NEW S, NEW s \in Seq(S), NEW n \in 0 .. Len(s)
    PROVE  /\ SubSeq(s, 1, n) \in Seq(S) /\ Len(SubSeq(s, 1, n)) = n
           /\ SubSeq(s, n + 1, Len(s)) \in Seq(S) /\ Len(SubSeq(s, n + 1, Len(s))) = Len(s) - n
           /\ s = SubSeq(s, 1, n) \o SubSeq(s, n + 1, Len(s))
<1>1. Len(s) \in Nat /\ n \in Nat /\ n <= Len(s) /\ \A i \in 1 .. Len(s) : s[i] \in S
  BY LenProperties, ElementOfSeq
<1>2. SubSeq(s, 1, n) \in Seq(S) /\ Len(SubSeq(s, 1, n)) = n
  BY <1>1, SubSeqProperties
<1>3. /\ SubSeq(s, n + 1, Len(s)) \in Seq(S)
      /\ Len(SubSeq(s, n + 1, Len(s))) = IF n + 1 <= Len(s) THEN Len(s) - (n + 1) + 1 ELSE 0
  <2>1. \A i \in n + 1 .. Len(s) : s[i] \in S
    BY <1>1
  <2> QED  BY <1>1, <2>1, SubSeqProperties
<1>4. s = SubSeq(s, 1, n) \o SubSeq(s, n + 1, Len(s))
  <2>1. SubSeq(s, 1, Len(s)) = s
    BY SubSeqFull
  <2>2. 1 \in 1 .. Len(s) + 1 /\ n \in 1 - 1 .. Len(s) /\ Len(s) \in n .. Len(s)
    BY <1>1
  <2>3. SubSeq(s, 1, n) \o SubSeq(s, n + 1, Len(s)) = SubSeq(s, 1, Len(s))
    BY <2>2, ConcatAdjacentSubSeq
  <2> QED  BY <2>1, <2>3
<1>5. Len(SubSeq(s, n + 1, Len(s))) = Len(s) - n
  BY <1>1, <1>3
<1> QED  BY <1>2, <1>3, <1>4, <1>5

\* The same elements are left of a concatenation when the first n are dropped
\* before as after it.
LEMMA DropConcat ==
    ASSUME NEW S, NEW s \in Seq(S), NEW t \in Seq(S), NEW n \in 0 .. Len(s)
    PROVE  SubSeq(s \o t, n + 1, Len(s \o t)) = SubSeq(s, n + 1, Len(s)) \o t
<1> DEFINE a == SubSeq(s, 1, n)
           b == SubSeq(s, n + 1, Len(s))
<1>1. /\ a \in Seq(S) /\ Len(a) = n /\ b \in Seq(S) /\ Len(b) = Len(s) - n
      /\ s = a \o b
  <2>1. /\ SubSeq(s, 1, n) \in Seq(S) /\ Len(SubSeq(s, 1, n)) = n
        /\ SubSeq(s, n + 1, Len(s)) \in Seq(S) /\ Len(SubSeq(s, n + 1, Len(s))) = Len(s) - n
        /\ s = SubSeq(s, 1, n) \o SubSeq(s, n + 1, Len(s))
    BY ONLY s \in Seq(S), n \in 0 .. Len(s), Split
  <2> QED  BY ONLY <2>1
<1>2. Len(s) \in Nat /\ Len(t) \in Nat /\ n \in Nat /\ n <= Len(s)
  BY LenProperties
<1>3. /\ s \o t \in Seq(S) /\ Len(s \o t) = Len(s) + Len(t)
      /\ \A i \in 1 .. Len(s) + Len(t) : (s \o t)[i] = IF i <= Len(s) THEN s[i] ELSE t[i - Len(s)]
  BY ConcatProperties
<1>4. /\ b \o t \in Seq(S) /\ Len(b \o t) = Len(b) + Len(t)
      /\ \A i \in 1 .. Len(b) + Len(t) : (b \o t)[i] = IF i <= Len(b) THEN b[i] ELSE t[i - Len(b)]
  BY <1>1, ConcatProperties
<1>5. \A i \in n + 1 .. Len(s) : s[i] = b[i - n]
  <2> HIDE DEF a, b
  <2>1. \A i \in 1 .. Len(a) + Len(b) : (a \o b)[i] = IF i <= Len(a) THEN a[i] ELSE b[i - Len(a)]
    BY <1>1, ConcatProperties
  <2>2. TAKE i \in n + 1 .. Len(s)
  <2>3. i \in 1 .. Len(a) + Len(b) /\ ~(i <= Len(a))
    BY <1>1, <1>2
  <2> QED  BY <1>1, <2>1, <2>3
<1>6. /\ SubSeq(s \o t, n + 1, Len(s \o t)) \in Seq(S)
      /\ Len(SubSeq(s \o t, n + 1, Len(s \o t))) = Len(s) + Len(t) - n
      /\ \A i \in 1 .. Len(s) + Len(t) - n : SubSeq(s \o t, n + 1, Len(s \o t))[i] = (s \o t)[n + i]
  <2>1. \A i \in n + 1 .. Len(s \o t) : (s \o t)[i] \in S
    BY <1>2, <1>3, ElementOfSeq
  <2>2. /\ SubSeq(s \o t, n + 1, Len(s \o t)) \in Seq(S)
        /\ Len(SubSeq(s \o t, n + 1, Len(s \o t))) =
               IF n + 1 <= Len(s \o t) THEN Len(s \o t) - (n + 1) + 1 ELSE 0
        /\ \A i \in 1 .. Len(s \o t) - (n + 1) + 1 :
               SubSeq(s \o t, n + 1, Len(s \o t))[i] = (s \o t)[(n + 1) + i - 1]
    BY <1>2, <1>3, <2>1, SubSeqProperties
  <2> HIDE DEF a, b
  <2>3. Len(SubSeq(s \o t, n + 1, Len(s \o t))) = Len(s) + Len(t) - n
    BY <1>2, <1>3, <2>2
  <2>4. \A i \in 1 .. Len(s) + Len(t) - n : SubSeq(s \o t, n + 1, Len(s \o t))[i] = (s \o t)[n + i]
    <3>1. TAKE i \in 1 .. Len(s) + Len(t) - n
    <3>2. i \in 1 .. Len(s \o t) - (n + 1) + 1 /\ (n + 1) + i - 1 = n + i
      BY <1>2, <1>3
    <3> QED  BY <2>2, <3>2
  <2> QED  BY <2>2, <2>3, <2>4
<1> DEFINE l == SubSeq(s \o t, n + 1, Len(s \o t))
           r == b \o t
<1>7. \A i \in 1 .. Len(l) : l[i] = r[i]
  <2>1. SUFFICES ASSUME NEW i \in 1 .. Len(s) + Len(t) - n
                 PROVE  l[i] = r[i]
    BY <1>6
  <2> HIDE DEF a, b
  <2>2. l[i] = (s \o t)[n + i] /\ i \in Nat /\ n + i \in 1 .. Len(s) + Len(t) /\ i \in 1 .. Len(b) + Len(t)
    BY <1>1, <1>2, <1>6
  <2>3. CASE n + i <= Len(s)
    <3>1. (s \o t)[n + i] = s[n + i] /\ (b \o t)[i] = b[i]
      BY <1>1, <1>2, <1>3, <1>4, <2>2, <2>3
    <3>2. n + i \in n + 1 .. Len(s) /\ (n + i) - n = i
      BY <1>2, <2>2, <2>3
    <3>3. s[n + i] = b[i]
      BY <1>5, <3>2
    <3> QED  BY <2>2, <3>1, <3>3
  <2>4. CASE ~(n + i <= Len(s))
    <3>1. n + i - Len(s) = i - Len(b)
      BY <1>1, <1>2, <2>2
    <3>2. (s \o t)[n + i] = t[n + i - Len(s)]
      BY <1>3, <2>2, <2>4
    <3>3. (b \o t)[i] = t[i - Len(b)]
      BY <1>1, <1>2, <1>4, <2>2, <2>4
    <3> QED  BY <2>2, <3>1, <3>2, <3>3
  <2> QED  BY <2>3, <2>4
<1>8. Len(l) = Len(r)
  BY <1>1, <1>2, <1>4, <1>6
<1> QED  BY <1>4, <1>6, <1>7, <1>8, SeqEqual

\* The empty sequence and those of one element.
LEMMA Short ==
    /\ ToSet(<<>>) = {} /\ IsInjective(<<>>)
    /\ \A x : ToSet(<<x>>) = {x} /\ IsInjective(<<x>>)
BY DEF ToSet, IsInjective

-----------------------------------------------------------------------------
(* Received entries.                                                       *)

\* An entry has one frame.
LEMMA Entries ==
    ASSUME NEW s \in Seq(Entry)
    PROVE  /\ FramesOf(s) \in Seq(Frames) /\ Len(FramesOf(s)) = Len(s)
           /\ \A i \in 1 .. Len(s) : FramesOf(s)[i] = s[i].frame
           /\ Parsed(s) \subseteq ToSet(FramesOf(s))
<1>1. Len(s) \in Nat /\ DOMAIN s = 1 .. Len(s) /\ \A i \in 1 .. Len(s) : s[i] \in Entry
  BY LenProperties, ElementOfSeq
<1>2. FramesOf(s) \in [1 .. Len(s) -> Frames]
  BY <1>1 DEF FramesOf, Entry
<1>3. FramesOf(s) \in Seq(Frames)
  BY <1>1, <1>2, SeqDef
<1>4. DOMAIN FramesOf(s) = 1 .. Len(s) /\ DOMAIN FramesOf(s) = 1 .. Len(FramesOf(s)) /\ Len(FramesOf(s)) \in Nat
  BY <1>2, <1>3, LenProperties
<1>5. Len(FramesOf(s)) = Len(s)
  BY <1>1, <1>4
<1>6. \A i \in 1 .. Len(s) : FramesOf(s)[i] = s[i].frame
  BY <1>1 DEF FramesOf
<1>7. Parsed(s) \subseteq ToSet(FramesOf(s))
  BY <1>1, <1>4, <1>6 DEF Parsed, ToSet
<1> QED  BY <1>3, <1>5, <1>6, <1>7

\* The frames of a concatenation are those of its parts.
LEMMA EntriesConcat ==
    ASSUME NEW s \in Seq(Entry), NEW t \in Seq(Entry)
    PROVE  FramesOf(s \o t) = FramesOf(s) \o FramesOf(t)
<1>1. /\ s \o t \in Seq(Entry) /\ Len(s \o t) = Len(s) + Len(t)
      /\ \A i \in 1 .. Len(s) + Len(t) : (s \o t)[i] = IF i <= Len(s) THEN s[i] ELSE t[i - Len(s)]
  BY ConcatProperties
<1>2. Len(s) \in Nat /\ Len(t) \in Nat
  BY LenProperties
<1> DEFINE l == FramesOf(s \o t)
           r == FramesOf(s) \o FramesOf(t)
<1>3. /\ l \in Seq(Frames) /\ Len(l) = Len(s) + Len(t)
      /\ \A i \in 1 .. Len(s) + Len(t) : l[i] = (s \o t)[i].frame
  BY <1>1, Entries
<1>4. /\ FramesOf(s) \in Seq(Frames) /\ Len(FramesOf(s)) = Len(s)
      /\ \A i \in 1 .. Len(s) : FramesOf(s)[i] = s[i].frame
  BY Entries
<1>5. /\ FramesOf(t) \in Seq(Frames) /\ Len(FramesOf(t)) = Len(t)
      /\ \A i \in 1 .. Len(t) : FramesOf(t)[i] = t[i].frame
  BY Entries
<1>6. /\ r \in Seq(Frames) /\ Len(r) = Len(s) + Len(t)
      /\ \A i \in 1 .. Len(s) + Len(t) :
             r[i] = IF i <= Len(s) THEN FramesOf(s)[i] ELSE FramesOf(t)[i - Len(s)]
  <2>1. PICK u \in Seq(Frames), v \in Seq(Frames) : u = FramesOf(s) /\ v = FramesOf(t)
    BY <1>4, <1>5
  <2>2. PICK w : w = u \o v
    OBVIOUS
  <2>3. /\ w \in Seq(Frames) /\ Len(w) = Len(u) + Len(v)
        /\ \A i \in 1 .. Len(u) + Len(v) : w[i] = IF i <= Len(u) THEN u[i] ELSE v[i - Len(u)]
    BY ONLY <2>2, u \in Seq(Frames), v \in Seq(Frames), ConcatProperties
  <2>4. r = w /\ Len(u) = Len(s) /\ Len(v) = Len(t)
    BY <1>4, <1>5, <2>1, <2>2
  <2> HIDE DEF r
  <2> QED  BY <2>1, <2>3, <2>4
<1> HIDE DEF l, r
<1>7. \A i \in 1 .. Len(s) + Len(t) : l[i] = r[i]
  <2>1. TAKE i \in 1 .. Len(s) + Len(t)
  <2>2. CASE i <= Len(s)
    <3>1. l[i] = s[i].frame /\ r[i] = FramesOf(s)[i] /\ i \in 1 .. Len(s)
      BY <1>1, <1>2, <1>3, <1>6, <2>2
    <3> QED  BY <1>4, <3>1
  <2>3. CASE ~(i <= Len(s))
    <3>1. i - Len(s) \in 1 .. Len(t)
      BY <1>2, <2>3
    <3>2. l[i] = t[i - Len(s)].frame /\ r[i] = FramesOf(t)[i - Len(s)]
      BY <1>1, <1>2, <1>3, <1>6, <2>3
    <3> QED  BY <1>5, <3>1, <3>2
  <2> QED  BY <2>2, <2>3
<1> QED  BY <1>3, <1>6, <1>7, SeqEqual DEF l, r

-----------------------------------------------------------------------------
(* The places a frame may be in.                                           *)

\* The frames of the three sequences and of the kernel are all different, and
\* together they are all the frames.
Placed(o, r, p, k) ==
    /\ IsInjective(o) /\ IsInjective(r) /\ IsInjective(p)
    /\ ToSet(o) \cap ToSet(r) = {} /\ ToSet(o) \cap ToSet(p) = {} /\ ToSet(r) \cap ToSet(p) = {}
    /\ (ToSet(o) \cup ToSet(r) \cup ToSet(p)) \cap k = {}
    /\ ToSet(o) \cup ToSet(r) \cup ToSet(p) \cup k = Frames

\* This is what FramesKept says of Known.
LEMMA KnownParts ==
    ASSUME NEW o \in Seq(Frames), NEW r \in Seq(Frames), NEW p \in Seq(Frames), NEW k
    PROVE  Placed(o, r, p, k) <=> /\ IsInjective(o \o r \o p)
                                  /\ ToSet(o \o r \o p) \cap k = {}
                                  /\ ToSet(o \o r \o p) \cup k = Frames
<1>1. /\ o \o r \in Seq(Frames)
      /\ ToSet(o \o r) = ToSet(o) \cup ToSet(r)
      /\ IsInjective(o \o r) <=> IsInjective(o) /\ IsInjective(r) /\ ToSet(o) \cap ToSet(r) = {}
  BY ConcatParts
<1>2. /\ ToSet(o \o r \o p) = ToSet(o \o r) \cup ToSet(p)
      /\ IsInjective(o \o r \o p) <=> /\ IsInjective(o \o r) /\ IsInjective(p)
                                      /\ ToSet(o \o r) \cap ToSet(p) = {}
  BY <1>1, ConcatParts
<1>3. ToSet(o \o r) \cap ToSet(p) = {} <=> ToSet(o) \cap ToSet(p) = {} /\ ToSet(r) \cap ToSet(p) = {}
  BY <1>1
<1> QED  BY <1>1, <1>2, <1>3, Zenon DEF Placed

\* There is a number of frames.
LEMMA NumberOfFrames ==
    ASSUME NEW s \in Seq(Frames), IsInjective(s)
    PROVE  Len(s) <= NumFrames
<1>1. Len(s) \in Nat /\ DOMAIN s = 1 .. Len(s) /\ s \in [1 .. Len(s) -> Frames]
  BY LenProperties
<1>2. s \in Injection(1 .. Len(s), Frames)
  BY <1>1 DEF Injection, IsInjective
<1>3. IsFiniteSet(Frames) /\ Cardinality(Frames) = NumFrames
  BY FS_Interval, XdpAssumption DEF Frames
<1>4. Cardinality(1 .. Len(s)) = Len(s)
  BY <1>1, FS_Interval
<1> QED  BY <1>2, <1>3, <1>4, FS_Injection

-----------------------------------------------------------------------------
(* The inductive invariant.                                                *)

\* What of the resources rests on what.
Chain == /\ "attached" \in held => {"obj", "area", "umem", "xsk"} \subseteq held
         /\ "xsk" \in held => {"obj", "area", "umem"} \subseteq held
         /\ "umem" \in held => {"obj", "area"} \subseteq held
         /\ "area" \in held => "obj" \in held

\* How far open() has come tells what is held.
Held == /\ pc \in {"closed", "obj"} => held = {}
        /\ pc = "area" => held = {"obj"}
        /\ pc = "umem" => held = {"obj", "area"}
        /\ pc = "xsk" => held = {"obj", "area", "umem"}
        /\ pc \in {"fill", "attached"} => held = {"obj", "area", "umem", "xsk"}
        /\ pc = "member" => held = {"obj", "area", "umem", "xsk", "attached"}
        /\ pc \in {"return", "receive", "use"} => {"obj", "area", "umem", "xsk", "attached"} \subseteq held

\* What is held follows what it rests on, as far as open() has come, and only a
\* socket has anything in its rings.
HeldInv == Chain /\ Held /\ (~NoRings => "xsk" \in held)

\* Before the fill ring is filled the rings are empty, and between the return of
\* frames and the receipt of new ones none is pending.
Idle == /\ pc \in {"closed", "obj", "area", "umem", "xsk", "fill"} => NoRings /\ pending = <<>>
        /\ pc = "receive" => pending = <<>>

\* The kernel has read no index beyond one round of frames, and the thread has
\* packets in no other frames than those it is going to return.
Bounded == /\ Running => window <= NumFrames
           /\ pc = "use" => packets \subseteq ToSet(pending)

\* The verdict the program has given.
Seen == seen.frame # NoFrame => /\ seen.frame \in Wire
                                /\ seen.redirected <=> Redirects(seen.frame)

IInv == /\ TypeOK
        /\ HeldInv
        /\ Idle /\ Bounded
        /\ FramesKept
        /\ NeverStarves
        /\ Seen

\* The steps of open() and the order of close(), written out.
LEMMA Orders ==
    /\ ToSet(Steps) = {"obj", "area", "umem", "xsk", "fill", "attached", "member"}
    /\ Resources = {"obj", "area", "umem", "xsk", "attached", "member"}
    /\ DOMAIN CloseOrder = 1 .. 6 /\ Len(Steps) = 7 /\ DOMAIN Steps = 1 .. 7
    /\ ToSet(CloseOrder) = Resources
<1>1. DOMAIN Steps = 1 .. 7 /\ Len(Steps) = 7
  BY DEF Steps
<1>2. 1 .. 7 = {1, 2, 3, 4, 5, 6, 7} /\ 1 .. 6 = {1, 2, 3, 4, 5, 6}
  OBVIOUS
<1>3. ToSet(Steps) = {"obj", "area", "umem", "xsk", "fill", "attached", "member"}
  <2>1. ToSet(Steps) = {Steps[i] : i \in {1, 2, 3, 4, 5, 6, 7}}
    BY <1>1, <1>2 DEF ToSet
  <2> QED  BY <2>1 DEF Steps
<1>4. DOMAIN CloseOrder = 1 .. 6
  BY DEF CloseOrder
<1>5. ToSet(CloseOrder) = {"obj", "area", "umem", "xsk", "attached", "member"}
  <2>1. ToSet(CloseOrder) = {CloseOrder[i] : i \in {1, 2, 3, 4, 5, 6}}
    BY <1>2, <1>4 DEF ToSet
  <2> QED  BY <2>1 DEF CloseOrder
<1>6. Resources = {"obj", "area", "umem", "xsk", "attached", "member"}
  BY <1>3 DEF Resources
<1> QED  BY <1>1, <1>3, <1>4, <1>5, <1>6

\* Where a step of open() leads.
LEMMA StepsOfOpen ==
    ASSUME NEW step, Goes(step)
    PROVE  /\ pc = step
           /\ \/ pc = "obj" /\ pc' = "area"
              \/ pc = "area" /\ pc' = "umem"
              \/ pc = "umem" /\ pc' = "xsk"
              \/ pc = "xsk" /\ pc' = "fill"
              \/ pc = "fill" /\ pc' = "attached"
              \/ pc = "attached" /\ pc' = "member"
              \/ pc = "member" /\ pc' = "return"
<1>1. PICK k \in 1 .. 7 : /\ pc = step /\ step = Steps[k]
                          /\ pc' = IF k = 7 THEN "return" ELSE Steps[k + 1]
  BY Orders DEF Goes
<1>2. k \in {1, 2, 3, 4, 5, 6, 7}
  OBVIOUS
<1> QED  BY <1>1, <1>2 DEF Steps

-----------------------------------------------------------------------------
(* What the actions do to the rings.                                       *)

LEMMA OfferedType ==
    ASSUME TypeOK
    PROVE  /\ Len(fill) \in Nat /\ taken \in 0 .. Len(fill) /\ window \in 0 .. Len(fill)
           /\ Offered \in Seq(Frames) /\ Len(Offered) = Len(fill) - taken
           /\ rx \in Seq(Entry) /\ FramesOf(rx) \in Seq(Frames) /\ pending \in Seq(Frames)
<1>1. fill \in Seq(Frames) /\ Len(fill) \in Nat
  BY LenProperties DEF TypeOK
<1>2. taken \in 0 .. Len(fill) /\ window \in 0 .. Len(fill)
  BY <1>1 DEF TypeOK
<1>3. Offered \in Seq(Frames) /\ Len(Offered) = Len(fill) - taken
  BY <1>1, <1>2, Split DEF Offered
<1>4. rx \in Seq(Entry) /\ pending \in Seq(Frames)
  BY DEF TypeOK, Entry
<1> QED  BY <1>1, <1>2, <1>3, <1>4, Entries

\* Publishing the consumer index takes nothing away that is offered.
LEMMA Published ==
    ASSUME TypeOK, fill' = SubSeq(fill, taken + 1, Len(fill)), taken' = 0
    PROVE  fill' = Offered /\ Offered' = Offered
<1>1. fill' = Offered
  BY DEF Offered
<1>2. Offered' = SubSeq(fill', 0 + 1, Len(fill'))
  BY DEF Offered
<1>3. SubSeq(fill', 1, Len(fill')) = fill'
  BY <1>1, OfferedType, SubSeqFull
<1> QED  BY <1>1, <1>2, <1>3

\* The kernel takes the first of the frames that are offered.
LEMMA Taken ==
    ASSUME TypeOK, KernelTakes
    PROVE  /\ fill[taken + 1] \in Frames
           /\ Offered' \in Seq(Frames)
           /\ Offered = <<fill[taken + 1]>> \o Offered'
<1>1. /\ fill \in Seq(Frames) /\ Len(fill) \in Nat /\ taken \in Nat
      /\ taken + 1 \in 1 .. Len(fill)
  BY OfferedType DEF TypeOK, KernelTakes
<1>2. fill[taken + 1] \in Frames
  BY <1>1, ElementOfSeq
<1>3. Offered' = SubSeq(fill, taken + 1 + 1, Len(fill))
  BY DEF Offered, KernelTakes
<1>4. SubSeq(fill, taken + 1 + 1, Len(fill)) \in Seq(Frames)
  BY <1>1, Split
<1>5. Len(fill) \in taken + 1 .. Len(fill)
  BY <1>1
<1>6. Offered = <<fill[taken + 1]>> \o SubSeq(fill, taken + 1 + 1, Len(fill))
  BY <1>1, <1>5, SubSeqRecursiveFirst DEF Offered
<1> QED  BY <1>2, <1>3, <1>4, <1>6

\* The frames that are returned are offered after those that are.
LEMMA Returned ==
    ASSUME TypeOK, Return, Len(pending) <= FillSize - Len(fill)
    PROVE  fill' = fill \o pending /\ pending' = <<>> /\ Offered' = Offered \o pending
<1>1. fill' = fill \o pending /\ pending' = <<>> /\ taken' = taken
  BY DEF Return
<1>2. Offered' = SubSeq(fill \o pending, taken + 1, Len(fill \o pending))
  BY <1>1 DEF Offered
<1>3. fill \in Seq(Frames) /\ pending \in Seq(Frames) /\ taken \in 0 .. Len(fill)
  BY OfferedType DEF TypeOK
<1> QED  BY <1>1, <1>2, <1>3, DropConcat DEF Offered

\* The frames that are received become pending, parsed or not.
LEMMA Received ==
    ASSUME TypeOK, Receive
    PROVE  /\ rx' \in Seq(Entry) /\ Len(rx') <= Len(rx)
           /\ pending' \in Seq(Frames)
           /\ FramesOf(rx) = pending' \o FramesOf(rx')
           /\ packets' \subseteq ToSet(pending')
<1>1. PICK n \in 0 .. Batch : /\ n <= Len(rx)
                              /\ pending' = FramesOf(SubSeq(rx, 1, n))
                              /\ packets' = Parsed(SubSeq(rx, 1, n))
                              /\ rx' = SubSeq(rx, n + 1, Len(rx))
  BY DEF Receive
<1>2. rx \in Seq(Entry) /\ Len(rx) \in Nat /\ n \in 0 .. Len(rx)
  BY <1>1, OfferedType, LenProperties
<1>3. /\ SubSeq(rx, 1, n) \in Seq(Entry) /\ rx' \in Seq(Entry) /\ Len(rx') = Len(rx) - n
      /\ rx = SubSeq(rx, 1, n) \o rx'
  BY <1>1, <1>2, Split
<1>4. FramesOf(rx) = pending' \o FramesOf(rx')
  BY <1>1, <1>3, EntriesConcat
<1>5. pending' \in Seq(Frames) /\ packets' \subseteq ToSet(pending')
  BY <1>1, <1>3, Entries
<1>6. Len(rx') <= Len(rx)
  BY <1>2, <1>3
<1> QED  BY <1>3, <1>4, <1>5, <1>6

\* A frame the kernel delivers leaves it for the end of the rx ring.
LEMMA Filled ==
    ASSUME TypeOK, NEW f \in Frames, NEW w \in Wire, KernelDelivers(f, w)
    PROVE  /\ rx' \in Seq(Entry) /\ Len(rx') = Len(rx) + 1
           /\ FramesOf(rx') = FramesOf(rx) \o <<f>>
<1> DEFINE e == [frame |-> f, udp |-> IsDatagram(w)]
<1>1. IsDatagram(w) \in BOOLEAN
  BY DEF IsDatagram
<1>2. e \in Entry /\ rx \in Seq(Entry) /\ rx' = Append(rx, e)
  BY <1>1, OfferedType DEF KernelDelivers, Entry
<1> HIDE DEF e
<1>3. rx' \in Seq(Entry) /\ Len(rx') = Len(rx) + 1 /\ rx' = rx \o <<e>>
  BY <1>2, AppendProperties, AppendIsConcat
<1>4. <<e>> \in Seq(Entry) /\ Len(<<e>>) = 1 /\ <<e>>[1] = e
  BY <1>2
<1>5. FramesOf(<<e>>) = <<f>>
  <2>1. <<e>>[1].frame = f
    BY <1>4 DEF e
  <2>2. /\ FramesOf(<<e>>) \in Seq(Frames) /\ Len(FramesOf(<<e>>)) = Len(<<e>>)
        /\ \A i \in 1 .. Len(<<e>>) : FramesOf(<<e>>)[i] = <<e>>[i].frame
    BY <1>4, Entries
  <2>3. Len(FramesOf(<<e>>)) = 1 /\ FramesOf(<<e>>)[1] = f
    BY <1>4, <2>1, <2>2
  <2>4. <<f>> \in Seq(Frames) /\ Len(<<f>>) = 1 /\ <<f>>[1] = f
    OBVIOUS
  <2>5. \A i \in 1 .. Len(FramesOf(<<e>>)) : FramesOf(<<e>>)[i] = <<f>>[i]
    BY <2>3, <2>4
  <2> QED  BY <2>2, <2>3, <2>4, <2>5, SeqEqual
<1> QED  BY <1>2, <1>3, <1>4, <1>5, EntriesConcat

\* The first frames in the fill ring are all frames, each once.
LEMMA FirstFill ==
    ASSUME FillRing
    PROVE  /\ fill' \in Seq(Frames) /\ Len(fill') = NumFrames
           /\ IsInjective(fill') /\ ToSet(fill') = Frames
<1>1. fill' = [i \in 1 .. NumFrames |-> i - 1] /\ NumFrames \in Nat
  BY XdpAssumption DEF FillRing
<1>2. fill' \in [1 .. NumFrames -> Frames]
  BY <1>1 DEF Frames
<1>3. fill' \in Seq(Frames)
  BY <1>1, <1>2, SeqDef
<1>4. DOMAIN fill' = 1 .. NumFrames /\ DOMAIN fill' = 1 .. Len(fill') /\ Len(fill') \in Nat
  BY <1>2, <1>3, LenProperties
<1>5. Len(fill') = NumFrames
  BY <1>1, <1>4
<1>6. IsInjective(fill')
  BY <1>1, <1>4 DEF IsInjective
<1>7. ToSet(fill') = Frames
  <2>1. \A f \in Frames : f + 1 \in 1 .. NumFrames /\ fill'[f + 1] = f
    BY <1>1 DEF Frames
  <2>2. \A i \in 1 .. NumFrames : fill'[i] \in Frames
    BY <1>2
  <2>3. Frames \subseteq ToSet(fill')
    BY <1>4, <2>1, Zenon DEF ToSet
  <2> QED  BY <1>4, <2>2, <2>3 DEF ToSet
<1> QED  BY <1>3, <1>5, <1>6, <1>7

-----------------------------------------------------------------------------
(* The invariant is inductive.                                             *)

LEMMA InitIInv == Init => IInv
<1> SUFFICES ASSUME Init PROVE IInv
  OBVIOUS
<1> USE DEF Init
<1>1. fill = <<>> /\ taken = 0 /\ window = 0 /\ kernel = {} /\ rx = <<>> /\ Len(fill) = 0
  BY DEF NoRings
<1>2. TypeOK
  <2>1. fill \in Seq(Frames) /\ rx \in Seq([frame : Frames, udp : BOOLEAN]) /\ Len(rx) = 0 /\ pending \in Seq(Frames)
    BY <1>1
  <2>2. 0 <= FillSize /\ 0 <= RxSize
    BY XdpAssumption DEF FillSize
  <2>3. /\ pc \in ToSet(Steps) \cup {"closed", "failed", "close", "return", "receive", "use"}
        /\ held \subseteq Resources /\ packets \subseteq Frames /\ starved \in BOOLEAN
        /\ kernel \subseteq Frames
    BY <1>1
  <2>4. seen \in [frame : Wire \cup {NoFrame}, redirected : BOOLEAN]
    BY SMT
  <2>5. window \in 0 .. Len(fill) /\ taken \in 0 .. window
    BY <1>1
  <2> QED  BY <1>1, <2>1, <2>2, <2>3, <2>4, <2>5 DEF TypeOK
<1>3. Chain /\ Held
  BY DEF Chain, Held
<1>4. Idle /\ Bounded /\ (~NoRings => "xsk" \in held)
  BY <1>1 DEF Idle, Bounded, Running
<1>5. FramesKept
  BY DEF FramesKept, Running
<1>6. NeverStarves /\ Seen
  BY DEF NeverStarves, Seen
<1> QED  BY <1>2, <1>3, <1>4, <1>5, <1>6 DEF IInv, HeldInv

\* Types, and the bounds of the rings.
LEMMA TypeStep == TypeOK /\ Idle /\ [Next]_vars => TypeOK'
<1> SUFFICES ASSUME TypeOK, Idle, [Next]_vars PROVE TypeOK'
  OBVIOUS
<1>0. /\ Len(fill) \in Nat /\ taken \in 0 .. Len(fill) /\ window \in 0 .. Len(fill)
      /\ Offered \in Seq(Frames) /\ Len(Offered) = Len(fill) - taken
      /\ Len(rx) \in Nat /\ FillSize \in Nat /\ NumFrames \in Nat /\ RxSize \in Nat
  BY OfferedType, LenProperties, XdpAssumption DEF FillSize
<1>1. CASE Open
  <2>1. pc' = "obj"
    BY <1>1 DEF Open, Steps
  <2>2. pc' \in ToSet(Steps)
    BY <2>1, Orders
  <2>3. UNCHANGED <<held, ringVars, pollVars, seen>>
    BY <1>1 DEF Open
  <2> QED  BY <2>2, <2>3 DEF TypeOK, ringVars, pollVars
<1>2. ASSUME NEW r \in Resources, Acquire(r) PROVE TypeOK'
  <2>1. pc' \in ToSet(Steps) \cup {"return"}
    BY <1>2, StepsOfOpen, Orders DEF Acquire
  <2> QED  BY <1>2, <2>1 DEF Acquire, TypeOK, ringVars, pollVars
<1>3. CASE FillRing
  <2>1. pc' \in ToSet(Steps) \cup {"return"}
    BY <1>3, StepsOfOpen, Orders DEF FillRing
  <2>2. fill' \in Seq(Frames) /\ Len(fill') = NumFrames
    BY <1>3, FirstFill
  <2>3. pc = "fill"
    BY <1>3, StepsOfOpen DEF FillRing
  <2>4. window = 0 /\ taken = 0
    BY <2>3 DEF Idle, NoRings
  <2>5. UNCHANGED <<held, taken, window, kernel, rx, pollVars, seen>>
    BY <1>3 DEF FillRing
  <2>6. Len(fill') <= FillSize /\ window' \in 0 .. Len(fill') /\ taken' \in 0 .. window'
    BY <1>0, <2>2, <2>4, <2>5 DEF FillSize
  <2> QED  BY <2>1, <2>2, <2>5, <2>6 DEF TypeOK, pollVars
<1>4. CASE NoGroup
  <2>1. pc' \in ToSet(Steps) \cup {"return"}
    BY <1>4, StepsOfOpen, Orders DEF NoGroup
  <2> QED  BY <1>4, <2>1 DEF NoGroup, TypeOK, ringVars, pollVars
<1>5. CASE OpenFails
  BY <1>5, Orders DEF OpenFails, TypeOK, ringVars, pollVars
<1>6. CASE CloseBegin
  BY <1>6 DEF CloseBegin, TypeOK, ringVars, pollVars
<1>7. CASE Release
  <2>1. held' \subseteq Resources
    BY <1>7 DEF Release, TypeOK
  <2>2. CASE UNCHANGED ringVars
    BY <1>7, <2>1, <2>2 DEF Release, TypeOK, ringVars, pollVars
  <2>3. CASE fill' = <<>> /\ taken' = 0 /\ window' = 0 /\ kernel' = {} /\ rx' = <<>>
    <3>1. /\ fill' \in Seq(Frames) /\ Len(fill') = 0
          /\ rx' \in Seq([frame : Frames, udp : BOOLEAN]) /\ Len(rx') = 0
      BY <2>3
    <3> QED  BY <1>0, <1>7, <2>1, <2>3, <3>1 DEF Release, TypeOK, pollVars
  <2> QED  BY <1>7, <2>2, <2>3 DEF Release
<1>8. CASE CloseEnd
  BY <1>8 DEF CloseEnd, TypeOK, ringVars
<1>9. CASE Return
  <2>1. CASE Len(pending) <= FillSize - Len(fill)
    <3>1. fill' = fill \o pending /\ pending' = <<>>
      BY <1>9, <2>1, Returned
    <3>2. fill \in Seq(Frames) /\ pending \in Seq(Frames) /\ Len(pending) \in Nat
      BY LenProperties DEF TypeOK
    <3>3. fill' \in Seq(Frames) /\ Len(fill') = Len(fill) + Len(pending)
      BY <3>1, <3>2, ConcatProperties
    <3>4. Len(fill') <= FillSize /\ window \in 0 .. Len(fill')
      BY <1>0, <2>1, <3>2, <3>3
    <3>5. pc' = "receive" /\ UNCHANGED <<held, taken, window, kernel, rx, starved, seen>> /\ packets' = {}
      BY <1>9, <2>1 DEF Return
    <3> QED  BY <3>1, <3>3, <3>4, <3>5 DEF TypeOK
  <2>2. CASE ~(Len(pending) <= FillSize - Len(fill))
    BY <1>9, <2>2 DEF Return, TypeOK
  <2> QED  BY <2>1, <2>2
<1>10. CASE Receive
  <2>1. rx' \in Seq([frame : Frames, udp : BOOLEAN]) /\ Len(rx') <= Len(rx) /\ pending' \in Seq(Frames)
    BY <1>10, Received DEF Entry
  <2>2. pending' \in Seq(Frames) /\ packets' \subseteq ToSet(pending')
    BY <1>10, Received
  <2>3. ToSet(pending') \subseteq Frames
    BY <2>2, ElementOfSeq, LenProperties DEF ToSet
  <2>4. Len(rx') \in Nat
    BY <2>1, LenProperties
  <2>5. Len(rx') <= RxSize
    BY <1>0, <2>1, <2>4 DEF TypeOK
  <2>6. pc' = "use" /\ UNCHANGED <<held, fill, taken, window, kernel, starved, seen>>
    BY <1>10 DEF Receive
  <2> QED  BY <2>1, <2>2, <2>3, <2>5, <2>6 DEF TypeOK
<1>11. CASE PollAgain
  BY <1>11 DEF PollAgain, TypeOK, ringVars, pollVars
<1>12. CASE KernelTakes
  <2>1. fill[taken + 1] \in Frames
    BY <1>12, Taken
  <2> QED  BY <1>0, <1>12, <2>1 DEF KernelTakes, TypeOK, pollVars
<1>13. CASE KernelPublishes
  <2>1. fill' = Offered
    BY <1>13, Published DEF KernelPublishes
  <2>2. window' = window - taken /\ window - taken \in 0 .. Len(fill')
    BY <1>0, <1>13, <2>1 DEF KernelPublishes, TypeOK
  <2>3. Len(fill') <= FillSize
    BY <1>0, <2>1 DEF TypeOK
  <2> QED  BY <1>0, <1>13, <2>1, <2>2, <2>3 DEF KernelPublishes, TypeOK, pollVars
<1>14. CASE KernelRefreshes
  <2>1. fill' = Offered
    BY <1>14, Published DEF KernelRefreshes
  <2>2. window' = Len(fill') /\ window' \in 0 .. Len(fill') /\ 0 \in 0 .. window'
    BY <1>0, <1>14, <2>1 DEF KernelRefreshes
  <2>3. Len(fill') <= FillSize
    BY <1>0, <2>1 DEF TypeOK
  <2> QED  BY <1>0, <1>14, <2>1, <2>2, <2>3 DEF KernelRefreshes, TypeOK, pollVars
<1>15. ASSUME NEW f \in Frames, NEW w \in Wire, KernelDelivers(f, w) PROVE TypeOK'
  <2>1. rx' \in Seq([frame : Frames, udp : BOOLEAN]) /\ Len(rx') = Len(rx) + 1
    BY <1>15, Filled DEF Entry
  <2>2. Len(rx') <= RxSize
    BY <1>0, <1>15, <2>1 DEF KernelDelivers
  <2> QED  BY <1>15, <2>1, <2>2 DEF KernelDelivers, TypeOK, pollVars
<1>16. ASSUME NEW w \in Wire, KernelPasses(w) PROVE TypeOK'
  BY <1>16 DEF KernelPasses, TypeOK, ringVars, pollVars
<1>17. CASE UNCHANGED vars
  BY <1>17 DEF vars, TypeOK, ringVars, pollVars
<1> QED  BY <1>1, <1>2, <1>3, <1>4, <1>5, <1>6, <1>7, <1>8, <1>9, <1>10, <1>11, <1>12, <1>13,
            <1>14, <1>15, <1>16, <1>17 DEF Next, Close, Kernel

\* close() releases nothing that something still held rests on.
LEMMA Released ==
    ASSUME Release
    PROVE  \/ "attached" \in held /\ held' = held \ {"attached"} /\ UNCHANGED ringVars
           \/ "member" \in held /\ held' = held \ {"member"} /\ UNCHANGED ringVars
           \/ "attached" \notin held /\ held' = held \ {"xsk"} /\ NoRings'
           \/ {"attached", "xsk"} \cap held = {} /\ held' = held \ {"umem"} /\ UNCHANGED ringVars
           \/ {"attached", "xsk", "umem"} \cap held = {} /\ held' = held \ {"area"} /\ UNCHANGED ringVars
           \/ {"attached", "xsk", "umem", "area"} \cap held = {} /\ held' = held \ {"obj"} /\ UNCHANGED ringVars
<1>1. PICK k \in 1 .. 6 :
          /\ CloseOrder[k] \in held
          /\ \A j \in 1 .. k - 1 : CloseOrder[j] \notin held
          /\ held' = held \ {CloseOrder[k]}
          /\ IF CloseOrder[k] = "xsk"
             THEN fill' = <<>> /\ taken' = 0 /\ window' = 0 /\ kernel' = {} /\ rx' = <<>>
             ELSE UNCHANGED ringVars
  BY Orders DEF Release
<1>2. k \in {1, 2, 3, 4, 5, 6}
  OBVIOUS
<1>3. /\ CloseOrder[1] = "attached" /\ CloseOrder[2] = "member" /\ CloseOrder[3] = "xsk"
      /\ CloseOrder[4] = "umem" /\ CloseOrder[5] = "area" /\ CloseOrder[6] = "obj"
  BY DEF CloseOrder
<1>4. CASE k = 1
  BY <1>1, <1>3, <1>4
<1>5. CASE k = 2
  BY <1>1, <1>3, <1>5
<1>6. CASE k = 3
  <2>1. 1 \in 1 .. k - 1
    BY <1>6
  <2> QED  BY <1>1, <1>3, <1>6, <2>1 DEF NoRings
<1>7. CASE k = 4
  <2>1. 1 \in 1 .. k - 1 /\ 3 \in 1 .. k - 1
    BY <1>7
  <2> QED  BY <1>1, <1>3, <1>7, <2>1
<1>8. CASE k = 5
  <2>1. 1 \in 1 .. k - 1 /\ 3 \in 1 .. k - 1 /\ 4 \in 1 .. k - 1
    BY <1>8
  <2> QED  BY <1>1, <1>3, <1>8, <2>1
<1>9. CASE k = 6
  <2>1. 1 \in 1 .. k - 1 /\ 3 \in 1 .. k - 1 /\ 4 \in 1 .. k - 1 /\ 5 \in 1 .. k - 1
    BY <1>9
  <2> QED  BY <1>1, <1>3, <1>9, <2>1
<1> QED  BY <1>2, <1>4, <1>5, <1>6, <1>7, <1>8, <1>9

\* No step takes away what something held rests on.
LEMMA HeldStep == TypeOK /\ HeldInv /\ [Next]_vars => HeldInv'
<1> SUFFICES ASSUME TypeOK, HeldInv, [Next]_vars PROVE HeldInv'
  OBVIOUS
<1> USE DEF HeldInv
<1>1. CASE Open
  <2>1. pc' = "obj"
    BY <1>1 DEF Open, Steps
  <2> QED  BY <1>1, <2>1 DEF Open, Chain, Held, NoRings, ringVars
<1>2. ASSUME NEW r \in Resources, Acquire(r) PROVE HeldInv'
  <2>1. /\ pc = r
        /\ \/ pc = "obj" /\ pc' = "area"
           \/ pc = "area" /\ pc' = "umem"
           \/ pc = "umem" /\ pc' = "xsk"
           \/ pc = "xsk" /\ pc' = "fill"
           \/ pc = "attached" /\ pc' = "member"
           \/ pc = "member" /\ pc' = "return"
    BY <1>2, StepsOfOpen, Orders DEF Acquire
  <2>2. held' = held \cup {pc} /\ UNCHANGED ringVars
    BY <1>2, <2>1 DEF Acquire
  <2>3. Chain' /\ Held'
    BY <2>1, <2>2 DEF Chain, Held
  <2> QED  BY <2>2, <2>3 DEF NoRings, ringVars
<1>3. CASE FillRing
  <2>1. pc = "fill" /\ pc' = "attached" /\ held' = held
    BY <1>3, StepsOfOpen DEF FillRing
  <2> QED  BY <2>1 DEF Chain, Held
<1>4. CASE NoGroup
  <2>1. pc = "member" /\ pc' = "return" /\ held' = held /\ UNCHANGED ringVars
    BY <1>4, StepsOfOpen DEF NoGroup
  <2> QED  BY <2>1 DEF Chain, Held, NoRings, ringVars
<1>5. CASE OpenFails
  <2>1. pc' = "failed" /\ UNCHANGED ringVars /\ held' \in {held, held \cup {"member"}}
    BY <1>5 DEF OpenFails
  <2> QED  BY <2>1 DEF Chain, Held, NoRings, ringVars
<1>6. CASE CloseBegin
  BY <1>6 DEF CloseBegin, Chain, Held, NoRings, ringVars
<1>7. CASE Release
  <2>1. pc = "close" /\ pc' = "close"
    BY <1>7 DEF Release
  <2>2. Held'
    BY <2>1 DEF Held
  <2>3. Chain'
    BY <1>7, Released DEF Chain
  <2>4. ~NoRings' => "xsk" \in held'
    BY <1>7, Released DEF NoRings, ringVars
  <2> QED  BY <2>2, <2>3, <2>4
<1>8. CASE CloseEnd
  <2>1. held = {}
    BY <1>8, Orders DEF CloseEnd, TypeOK
  <2> QED  BY <1>8, <2>1 DEF CloseEnd, Chain, Held, NoRings, ringVars
<1>9. CASE Return
  <2>1. pc = "return" /\ pc' \in {"receive", "use"} /\ held' = held
    BY <1>9 DEF Return
  <2> QED  BY <2>1 DEF Chain, Held
<1>10. CASE Receive
  BY <1>10 DEF Receive, Chain, Held
<1>11. CASE PollAgain
  BY <1>11 DEF PollAgain, Chain, Held, NoRings, ringVars
<1>12. CASE KernelTakes
  BY <1>12 DEF KernelTakes, Chain, Held
<1>13. CASE KernelPublishes
  BY <1>13 DEF KernelPublishes, Chain, Held
<1>14. CASE KernelRefreshes
  BY <1>14 DEF KernelRefreshes, Chain, Held
<1>15. ASSUME NEW f \in Frames, NEW w \in Wire, KernelDelivers(f, w) PROVE HeldInv'
  BY <1>15 DEF KernelDelivers, Chain, Held
<1>16. ASSUME NEW w \in Wire, KernelPasses(w) PROVE HeldInv'
  BY <1>16 DEF KernelPasses, Chain, Held, NoRings, ringVars
<1>17. CASE UNCHANGED vars
  BY <1>17 DEF vars, Chain, Held, NoRings, ringVars
<1> QED  BY <1>1, <1>2, <1>3, <1>4, <1>5, <1>6, <1>7, <1>8, <1>9, <1>10, <1>11, <1>12, <1>13,
            <1>14, <1>15, <1>16, <1>17 DEF Next, Close, Kernel

\* A thread that polls has the packets of the last poll in pending frames, and
\* the rings of a receiver that is not open are empty.
LEMMA IdleStep == IInv /\ [Next]_vars => Idle'
<1> SUFFICES ASSUME IInv, [Next]_vars PROVE Idle'
  OBVIOUS
<1>0. TypeOK /\ HeldInv /\ Idle
  BY DEF IInv
<1>1. CASE Open
  <2>1. pc' = "obj" /\ pc = "closed" /\ UNCHANGED <<ringVars, pollVars>>
    BY <1>1 DEF Open, Steps
  <2> QED  BY <1>0, <2>1 DEF Idle, NoRings, ringVars, pollVars
<1>2. ASSUME NEW r \in Resources, Acquire(r) PROVE Idle'
  <2>1. \/ pc \in {"obj", "area", "umem", "xsk"}
        \/ pc' \in {"member", "return"}
    BY <1>2, StepsOfOpen, Orders DEF Acquire
  <2>2. UNCHANGED <<ringVars, pollVars>> /\ pc' # "receive"
    BY <1>2, StepsOfOpen DEF Acquire
  <2> QED  BY <1>0, <2>1, <2>2 DEF Idle, NoRings, ringVars, pollVars
<1>3. CASE FillRing
  <2>1. pc' = "attached"
    BY <1>3, StepsOfOpen DEF FillRing
  <2> QED  BY <2>1 DEF Idle
<1>4. CASE NoGroup
  <2>1. pc' = "return"
    BY <1>4, StepsOfOpen DEF NoGroup
  <2> QED  BY <2>1 DEF Idle
<1>5. CASE OpenFails
  BY <1>5 DEF OpenFails, Idle
<1>6. CASE CloseBegin
  BY <1>6 DEF CloseBegin, Idle
<1>7. CASE Release
  BY <1>7 DEF Release, Idle
<1>8. CASE CloseEnd
  <2>1. held = {} /\ pending' = <<>> /\ UNCHANGED ringVars
    BY <1>0, <1>8, Orders DEF CloseEnd, TypeOK
  <2>2. NoRings'
    BY <1>0, <2>1 DEF HeldInv, NoRings, ringVars
  <2> QED  BY <2>1, <2>2 DEF Idle
<1>9. CASE Return
  BY <1>9 DEF Return, Idle
<1>10. CASE Receive
  BY <1>10 DEF Receive, Idle
<1>11. CASE PollAgain
  BY <1>11 DEF PollAgain, Idle
<1>12. CASE KernelTakes \/ KernelPublishes \/ KernelRefreshes
           \/ \E f \in Frames, w \in Wire : KernelDelivers(f, w)
  <2>1. "xsk" \in held /\ pc' = pc /\ pending' = pending
    BY <1>12 DEF KernelTakes, KernelPublishes, KernelRefreshes, KernelDelivers, pollVars
  <2>2. pc \notin {"closed", "obj", "area", "umem", "xsk", "fill"} \/ pc = "fill"
    BY <1>0, <2>1 DEF HeldInv, Held
  <2>3. CASE pc = "fill"
    <3>1. fill = <<>> /\ taken = 0 /\ window = 0 /\ kernel = {}
      BY <1>0, <2>3 DEF Idle, NoRings
    <3>2. KernelRefreshes
      BY <1>12, <3>1 DEF KernelTakes, KernelPublishes, KernelDelivers
    <3>3. fill' = <<>> /\ taken' = 0
      <4>1. fill' = SubSeq(<<>>, 1, 0)
        BY <3>1, <3>2 DEF KernelRefreshes
      <4>2. SubSeq(<<>>, 1, 0) = <<>>
        BY SubSeqEmpty
      <4> QED  BY <3>2, <4>1, <4>2 DEF KernelRefreshes
    <3>4. window' = 0
      BY <3>2, <3>3 DEF KernelRefreshes
    <3> QED  BY <1>0, <2>1, <2>3, <3>2, <3>3, <3>4 DEF Idle, NoRings, KernelRefreshes
  <2> QED  BY <1>0, <2>1, <2>2, <2>3 DEF Idle
<1>13. ASSUME NEW w \in Wire, KernelPasses(w) PROVE Idle'
  BY <1>0, <1>13 DEF KernelPasses, Idle, NoRings, ringVars, pollVars
<1>14. CASE UNCHANGED vars
  BY <1>0, <1>14 DEF vars, Idle, NoRings, ringVars, pollVars
<1> QED  BY <1>1, <1>2, <1>3, <1>4, <1>5, <1>6, <1>7, <1>8, <1>9, <1>10, <1>11, <1>12, <1>13,
            <1>14 DEF Next, Close, Kernel

-----------------------------------------------------------------------------
(* The steps a frame takes.                                                *)

\* From the kernel's ring to the kernel, and from the kernel to the rx ring.
LEMMA PlacedByKernel ==
    ASSUME NEW o \in Seq(Frames), NEW r \in Seq(Frames), NEW p \in Seq(Frames),
           NEW k, NEW f \in Frames
    PROVE  /\ Placed(<<f>> \o o, r, p, k) => Placed(o, r, p, k \cup {f})
           /\ Placed(o, r, p, k) /\ f \in k => Placed(o, r \o <<f>>, p, k \ {f})
<1>1. <<f>> \in Seq(Frames) /\ ToSet(<<f>>) = {f} /\ IsInjective(<<f>>)
  BY Short
<1>2. /\ ToSet(<<f>> \o o) = {f} \cup ToSet(o)
      /\ IsInjective(<<f>> \o o) => IsInjective(o) /\ f \notin ToSet(o)
  <2>1. /\ ToSet(<<f>> \o o) = ToSet(<<f>>) \cup ToSet(o)
        /\ IsInjective(<<f>> \o o) <=> /\ IsInjective(<<f>>) /\ IsInjective(o)
                                       /\ ToSet(<<f>>) \cap ToSet(o) = {}
    BY <1>1, ConcatParts
  <2> QED  BY <1>1, <2>1
<1>3. /\ ToSet(r \o <<f>>) = ToSet(r) \cup {f}
      /\ IsInjective(r \o <<f>>) <=> IsInjective(r) /\ f \notin ToSet(r)
  <2>1. /\ ToSet(r \o <<f>>) = ToSet(r) \cup ToSet(<<f>>)
        /\ IsInjective(r \o <<f>>) <=> /\ IsInjective(r) /\ IsInjective(<<f>>)
                                       /\ ToSet(r) \cap ToSet(<<f>>) = {}
    BY <1>1, ConcatParts
  <2> QED  BY <1>1, <2>1
<1>4. Placed(<<f>> \o o, r, p, k) => Placed(o, r, p, k \cup {f})
  BY <1>2 DEF Placed
<1>5. Placed(o, r, p, k) /\ f \in k => Placed(o, r \o <<f>>, p, k \ {f})
  BY <1>3 DEF Placed
<1> QED  BY <1>4, <1>5

\* From pending to the fill ring, and from the rx ring to pending.
LEMMA PlacedByReceiver ==
    ASSUME NEW o \in Seq(Frames), NEW r \in Seq(Frames), NEW p \in Seq(Frames), NEW k
    PROVE  /\ Placed(o, r, p, k) => Placed(o \o p, r, <<>>, k)
           /\ Placed(o, p \o r, <<>>, k) => Placed(o, r, p, k)
<1>1. /\ ToSet(o \o p) = ToSet(o) \cup ToSet(p)
      /\ IsInjective(o \o p) <=> IsInjective(o) /\ IsInjective(p) /\ ToSet(o) \cap ToSet(p) = {}
  BY ConcatParts
<1>2. /\ ToSet(p \o r) = ToSet(p) \cup ToSet(r)
      /\ IsInjective(p \o r) <=> IsInjective(p) /\ IsInjective(r) /\ ToSet(p) \cap ToSet(r) = {}
  BY ConcatParts
<1>3. Placed(o, r, p, k) => Placed(o \o p, r, <<>>, k)
  BY <1>1, Short DEF Placed
<1>4. Placed(o, p \o r, <<>>, k) => Placed(o, r, p, k)
  BY <1>2, Short DEF Placed
<1> QED  BY <1>3, <1>4

\* FramesKept, before and after a step.
LEMMA Keeps ==
    ASSUME TypeOK, TypeOK'
    PROVE  /\ FramesKept <=> (Running => Placed(Offered, FramesOf(rx), pending, kernel))
           /\ FramesKept' <=> (Running' => Placed(Offered', FramesOf(rx'), pending', kernel'))
<1>1. /\ Offered \in Seq(Frames) /\ FramesOf(rx) \in Seq(Frames) /\ pending \in Seq(Frames)
      /\ rx \in Seq(Entry)
  BY OfferedType
<1>2. fill' \in Seq(Frames) /\ Len(fill') \in Nat /\ taken' \in 0 .. Len(fill')
  BY LenProperties DEF TypeOK
<1>3. Offered' \in Seq(Frames)
  BY <1>2, Split DEF Offered
<1>4. rx' \in Seq(Entry) /\ pending' \in Seq(Frames)
  BY DEF TypeOK, Entry
<1>5. FramesOf(rx') \in Seq(Frames)
  BY <1>4, Entries
<1>6. Placed(Offered, FramesOf(rx), pending, kernel)
         <=> /\ IsInjective(Known) /\ ToSet(Known) \cap kernel = {}
             /\ ToSet(Known) \cup kernel = Frames
  BY <1>1, KnownParts DEF Known
<1>7. Known' = Offered' \o FramesOf(rx') \o pending'
  BY DEF Known, FramesOf
<1>8. Placed(Offered', FramesOf(rx'), pending', kernel')
         <=> /\ IsInjective(Known') /\ ToSet(Known') \cap kernel' = {}
             /\ ToSet(Known') \cup kernel' = Frames
  <2>1. Placed(Offered', FramesOf(rx'), pending', kernel')
           <=> /\ IsInjective(Offered' \o FramesOf(rx') \o pending')
               /\ ToSet(Offered' \o FramesOf(rx') \o pending') \cap kernel' = {}
               /\ ToSet(Offered' \o FramesOf(rx') \o pending') \cup kernel' = Frames
    BY <1>3, <1>4, <1>5, KnownParts
  <2> QED  BY <1>7, <2>1
<1>9. FramesKept' <=> (Running' => /\ IsInjective(Known') /\ ToSet(Known') \cap kernel' = {}
                                   /\ ToSet(Known') \cup kernel' = Frames)
  BY DEF FramesKept, IsInjective, ToSet
<1> QED  BY <1>6, <1>8, <1>9 DEF FramesKept

\* A step takes every frame from one place to another.
LEMMA KeptStep == IInv /\ TypeOK' /\ [Next]_vars => FramesKept'
<1> SUFFICES ASSUME IInv, TypeOK', [Next]_vars PROVE FramesKept'
  OBVIOUS
<1> DEFINE Here == Placed(Offered, FramesOf(rx), pending, kernel)
           There == Placed(Offered', FramesOf(rx'), pending', kernel')
<1>0. TypeOK /\ Idle
  BY DEF IInv
<1>a. Running => Here
  BY <1>0, Keeps DEF IInv
<1>b. (Running' => There) => FramesKept'
  BY <1>0, Keeps
<1>c. UNCHANGED <<fill, taken, kernel, rx, pending>> /\ Here => There
  BY DEF Offered, FramesOf
<1>d. /\ Offered \in Seq(Frames) /\ FramesOf(rx) \in Seq(Frames) /\ pending \in Seq(Frames)
      /\ rx \in Seq(Entry)
  BY <1>0, OfferedType
<1> HIDE DEF Here, There
<1>1. CASE Open
  <2>1. pc' = "obj"
    BY <1>1 DEF Open, Steps
  <2> QED  BY <1>b, <2>1 DEF Running
<1>2. ASSUME NEW r \in Resources, Acquire(r) PROVE FramesKept'
  <2>1. Running' => Running
    BY <1>2, StepsOfOpen, Orders DEF Acquire, Running
  <2>2. UNCHANGED <<fill, taken, kernel, rx, pending>>
    BY <1>2 DEF Acquire, ringVars, pollVars
  <2> QED  BY <1>a, <1>b, <1>c, <2>1, <2>2
<1>3. CASE FillRing
  <2>1. fill' \in Seq(Frames) /\ IsInjective(fill') /\ ToSet(fill') = Frames
    BY <1>3, FirstFill
  <2>2. taken' = 0 /\ kernel' = {} /\ rx' = <<>> /\ pending' = <<>>
    BY <1>0, <1>3, StepsOfOpen DEF FillRing, Idle, NoRings, pollVars
  <2>3. Offered' = fill'
    <3>1. Offered' = SubSeq(fill', 1, Len(fill'))
      BY <2>2 DEF Offered
    <3> QED  BY <2>1, <3>1, SubSeqFull
  <2>4. FramesOf(rx') = <<>>
    <3>1. <<>> \in Seq(Entry) /\ Len(<<>>) = 0
      OBVIOUS
    <3>2. FramesOf(<<>>) \in Seq(Frames) /\ Len(FramesOf(<<>>)) = 0
      BY <3>1, Entries
    <3> QED  BY <2>2, <3>2, EmptySeq
  <2>5. Placed(fill', <<>>, <<>>, {})
    BY <2>1, Short DEF Placed
  <2> QED  BY <1>b, <2>2, <2>3, <2>4, <2>5 DEF There
<1>4. CASE NoGroup
  <2>1. Running
    BY <1>4, StepsOfOpen DEF NoGroup, Running
  <2>2. UNCHANGED <<fill, taken, kernel, rx, pending>>
    BY <1>4 DEF NoGroup, ringVars, pollVars
  <2> QED  BY <1>a, <1>b, <1>c, <2>1, <2>2
<1>5. CASE OpenFails \/ CloseBegin \/ Release \/ CloseEnd
  BY <1>b, <1>5 DEF OpenFails, CloseBegin, Release, CloseEnd, Running
<1>6. CASE Return
  <2>1. Here
    BY <1>a, <1>6 DEF Return, Running
  <2>2. CASE Len(pending) <= FillSize - Len(fill)
    <3>1. pending' = <<>> /\ Offered' = Offered \o pending
      BY <1>0, <1>6, <2>2, Returned
    <3>2. kernel' = kernel /\ rx' = rx
      BY <1>6 DEF Return
    <3>3. Placed(Offered \o pending, FramesOf(rx), <<>>, kernel)
      BY <1>d, <2>1, PlacedByReceiver DEF Here
    <3> QED  BY <1>b, <3>1, <3>2, <3>3 DEF There
  <2>3. CASE ~(Len(pending) <= FillSize - Len(fill))
    <3>1. UNCHANGED <<fill, taken, kernel, rx, pending>>
      BY <1>6, <2>3 DEF Return
    <3> QED  BY <1>b, <1>c, <2>1, <3>1
  <2> QED  BY <2>2, <2>3
<1>7. CASE Receive
  <2>1. Here /\ pending = <<>>
    BY <1>0, <1>a, <1>7 DEF Receive, Running, Idle
  <2>2. /\ rx' \in Seq(Entry) /\ pending' \in Seq(Frames)
        /\ FramesOf(rx) = pending' \o FramesOf(rx')
    BY <1>0, <1>7, Received
  <2>3. Offered' = Offered /\ kernel' = kernel
    BY <1>7 DEF Receive, Offered
  <2>4. FramesOf(rx') \in Seq(Frames)
    BY <2>2, Entries
  <2>5. Placed(Offered, FramesOf(rx'), pending', kernel)
    BY <1>d, <2>1, <2>2, <2>4, PlacedByReceiver DEF Here
  <2> QED  BY <1>b, <2>3, <2>5 DEF There
<1>8. CASE PollAgain
  <2>1. Running /\ UNCHANGED <<fill, taken, kernel, rx, pending>>
    BY <1>8 DEF PollAgain, Running, ringVars, pollVars
  <2> QED  BY <1>a, <1>b, <1>c, <2>1
<1>9. CASE KernelTakes
  <2>1. pc' = pc /\ pending' = pending /\ rx' = rx /\ kernel' = kernel \cup {fill[taken + 1]}
    BY <1>9 DEF KernelTakes, pollVars
  <2>2. /\ fill[taken + 1] \in Frames /\ Offered' \in Seq(Frames)
        /\ Offered = <<fill[taken + 1]>> \o Offered'
    BY <1>0, <1>9, Taken
  <2>3. Here => There
    BY <1>d, <2>1, <2>2, PlacedByKernel DEF Here, There
  <2> QED  BY <1>a, <1>b, <2>1, <2>3 DEF Running
<1>10. CASE KernelPublishes \/ KernelRefreshes
  <2>1. pc' = pc /\ kernel' = kernel /\ rx' = rx /\ pending' = pending
    BY <1>10 DEF KernelPublishes, KernelRefreshes, pollVars
  <2>2. Offered' = Offered
    BY <1>0, <1>10, Published DEF KernelPublishes, KernelRefreshes
  <2>3. Here => There
    BY <2>1, <2>2 DEF Here, There
  <2> QED  BY <1>a, <1>b, <2>1, <2>3 DEF Running
<1>11. ASSUME NEW f \in Frames, NEW w \in Wire, KernelDelivers(f, w) PROVE FramesKept'
  <2>1. FramesOf(rx') = FramesOf(rx) \o <<f>>
    BY <1>0, <1>11, Filled
  <2>2. pc' = pc /\ f \in kernel /\ kernel' = kernel \ {f} /\ pending' = pending /\ Offered' = Offered
    BY <1>11 DEF KernelDelivers, pollVars, Offered
  <2>3. Here => Placed(Offered, FramesOf(rx) \o <<f>>, pending, kernel \ {f})
    BY <1>d, <2>2, PlacedByKernel DEF Here
  <2>4. Here => There
    BY <2>1, <2>2, <2>3 DEF There
  <2> QED  BY <1>a, <1>b, <2>2, <2>4 DEF Running
<1>12. ASSUME NEW w \in Wire, KernelPasses(w) PROVE FramesKept'
  <2>1. pc' = pc /\ UNCHANGED <<fill, taken, kernel, rx, pending>>
    BY <1>12 DEF KernelPasses, ringVars, pollVars
  <2> QED  BY <1>a, <1>b, <1>c, <2>1 DEF Running
<1>13. CASE UNCHANGED vars
  <2>1. pc' = pc /\ UNCHANGED <<fill, taken, kernel, rx, pending>>
    BY <1>13 DEF vars, ringVars, pollVars
  <2> QED  BY <1>a, <1>b, <1>c, <2>1 DEF Running
<1> QED  BY <1>1, <1>2, <1>3, <1>4, <1>5, <1>6, <1>7, <1>8, <1>9, <1>10, <1>11, <1>12, <1>13
         DEF Next, Close, Kernel

\* No frame twice: what is offered, received and pending fits the frames.
LEMMA Few ==
    ASSUME IInv, Running
    PROVE  /\ Len(pending) \in Nat
           /\ Len(Offered) <= NumFrames
           /\ Len(Offered) + Len(pending) <= NumFrames
<1>0. /\ Offered \in Seq(Frames) /\ FramesOf(rx) \in Seq(Frames) /\ pending \in Seq(Frames)
  BY OfferedType DEF IInv
<1>1. Offered \o FramesOf(rx) \in Seq(Frames) /\ Len(Offered \o FramesOf(rx)) = Len(Offered) + Len(FramesOf(rx))
  BY <1>0, ConcatProperties
<1>2. Known \in Seq(Frames) /\ Len(Known) = Len(Offered) + Len(FramesOf(rx)) + Len(pending)
  BY <1>0, <1>1, ConcatProperties DEF Known
<1>3. Len(Known) <= NumFrames
  BY <1>2, NumberOfFrames DEF IInv, FramesKept
<1>4. /\ Len(Offered) \in Nat /\ Len(FramesOf(rx)) \in Nat /\ Len(pending) \in Nat
      /\ NumFrames \in Nat
  BY <1>0, LenProperties, XdpAssumption
<1> QED  BY <1>2, <1>3, <1>4

\* The kernel is at most one round behind, so the room for another is there.
LEMMA StarveStep == IInv /\ [Next]_vars => NeverStarves'
<1> SUFFICES ASSUME IInv, [Next]_vars PROVE NeverStarves'
  OBVIOUS
<1>1. NeverStarves /\ TypeOK /\ Bounded
  BY DEF IInv
<1>2. CASE Return
  <2>1. Running
    BY <1>2 DEF Return, Running
  <2>2. Len(Offered) + Len(pending) <= NumFrames /\ window <= NumFrames /\ Len(pending) \in Nat
    BY <1>1, <2>1, Few DEF Bounded
  <2>3. /\ Len(Offered) = Len(fill) - taken /\ Len(fill) \in Nat /\ taken \in 0 .. window
        /\ window \in 0 .. Len(fill) /\ NumFrames \in Nat
    BY <1>1, OfferedType, XdpAssumption DEF TypeOK
  <2>4. Len(pending) <= FillSize - Len(fill)
    BY <2>2, <2>3 DEF FillSize
  <2> QED  BY <1>1, <1>2, <2>4 DEF Return, NeverStarves
<1>3. CASE ~Return
  <2>1. starved' = starved
    BY <1>3 DEF Next, vars, Close, Kernel, Open, Acquire, FillRing, NoGroup, OpenFails,
                CloseBegin, Release, CloseEnd, Receive, PollAgain, KernelTakes, KernelPublishes,
                KernelRefreshes, KernelDelivers, KernelPasses, pollVars
  <2> QED  BY <1>1, <2>1 DEF NeverStarves
<1> QED  BY <1>2, <1>3

\* The kernel reads an index no further than one round of frames, and poll()
\* reports packets in no frames but those it keeps.
LEMMA BoundedStep == IInv /\ [Next]_vars => Bounded'
<1> SUFFICES ASSUME IInv, [Next]_vars PROVE Bounded'
  OBVIOUS
<1>0. TypeOK /\ Idle /\ Bounded /\ NumFrames \in Nat
  BY XdpAssumption DEF IInv
<1>1. CASE Open \/ OpenFails \/ CloseBegin \/ Release \/ CloseEnd
  <2>1. pc' \in {"obj", "failed", "close", "closed"}
    BY <1>1 DEF Open, Steps, OpenFails, CloseBegin, Release, CloseEnd
  <2> QED  BY <2>1 DEF Bounded, Running
<1>2. ASSUME NEW r \in Resources, Acquire(r) PROVE Bounded'
  <2>1. (Running' => Running) /\ pc' # "use"
    BY <1>2, StepsOfOpen, Orders DEF Acquire, Running
  <2>2. window' = window
    BY <1>2 DEF Acquire, ringVars
  <2> QED  BY <1>0, <2>1, <2>2 DEF Bounded
<1>3. CASE FillRing
  <2>1. window' = 0 /\ pc' = "attached"
    BY <1>0, <1>3, StepsOfOpen DEF FillRing, Idle, NoRings
  <2> QED  BY <1>0, <2>1 DEF Bounded
<1>4. CASE NoGroup
  <2>1. Running /\ window' = window /\ pc' = "return"
    BY <1>4, StepsOfOpen DEF NoGroup, Running, ringVars
  <2> QED  BY <1>0, <2>1 DEF Bounded
<1>5. CASE Return
  <2>1. Running /\ window' = window /\ packets' = {}
    BY <1>5 DEF Return, Running
  <2> QED  BY <1>0, <2>1 DEF Bounded
<1>6. CASE Receive
  <2>1. Running /\ window' = window
    BY <1>6 DEF Receive, Running
  <2>2. packets' \subseteq ToSet(pending')
    BY <1>0, <1>6, Received
  <2>3. (ToSet(pending))' = ToSet(pending')
    BY DEF ToSet
  <2> QED  BY <1>0, <2>1, <2>2, <2>3 DEF Bounded
<1>7. CASE PollAgain
  <2>1. Running /\ window' = window /\ pc' = "return"
    BY <1>7 DEF PollAgain, Running, ringVars
  <2> QED  BY <1>0, <2>1 DEF Bounded
<1>8. CASE KernelTakes \/ KernelPublishes \/ KernelRefreshes
  <2>1. pc' = pc /\ packets' = packets /\ pending' = pending
    BY <1>8 DEF KernelTakes, KernelPublishes, KernelRefreshes, pollVars
  <2>2. Running => window' <= NumFrames
    <3>1. CASE KernelTakes
      BY <1>0, <3>1 DEF KernelTakes, Bounded
    <3>2. CASE KernelPublishes
      BY <1>0, <3>2, OfferedType DEF KernelPublishes, Bounded, TypeOK
    <3>3. CASE KernelRefreshes
      <4>1. fill' = Offered /\ window' = Len(fill')
        BY <1>0, <3>3, Published DEF KernelRefreshes
      <4> QED  BY <4>1, Few
    <3> QED  BY <1>8, <3>1, <3>2, <3>3
  <2> QED  BY <1>0, <2>1, <2>2 DEF Bounded, Running, ToSet
<1>9. CASE \/ \E f \in Frames, w \in Wire : KernelDelivers(f, w)
           \/ \E w \in Wire : KernelPasses(w)
           \/ UNCHANGED vars
  <2>1. pc' = pc /\ packets' = packets /\ pending' = pending /\ window' = window
    BY <1>9 DEF KernelDelivers, KernelPasses, vars, ringVars, pollVars
  <2> QED  BY <1>0, <2>1 DEF Bounded, Running, ToSet
<1> QED  BY <1>1, <1>2, <1>3, <1>4, <1>5, <1>6, <1>7, <1>8, <1>9 DEF Next, Close, Kernel

\* The verdict belongs to the frame it was given for.
LEMMA SeenStep == Seen /\ [Next]_vars => Seen'
<1> SUFFICES ASSUME Seen, [Next]_vars PROVE Seen'
  OBVIOUS
<1>1. ASSUME NEW f \in Frames, NEW w \in Wire, KernelDelivers(f, w) PROVE Seen'
  <2>1. seen' = [frame |-> w, redirected |-> TRUE] /\ Redirects(w)
    BY <1>1 DEF KernelDelivers
  <2> QED  BY <2>1 DEF Seen
<1>2. ASSUME NEW w \in Wire, KernelPasses(w) PROVE Seen'
  <2>1. seen' = [frame |-> w, redirected |-> FALSE] /\ ~Redirects(w)
    BY <1>2 DEF KernelPasses
  <2> QED  BY <2>1 DEF Seen
<1>3. CASE seen' = seen
  BY <1>3 DEF Seen
<1>4. \/ seen' = seen
      \/ \E f \in Frames, w \in Wire : KernelDelivers(f, w)
      \/ \E w \in Wire : KernelPasses(w)
  BY DEF Next, vars, Close, Kernel, Open, Acquire, FillRing, NoGroup, OpenFails, CloseBegin,
         Release, CloseEnd, Return, Receive, PollAgain, KernelTakes, KernelPublishes,
         KernelRefreshes
<1> QED  BY <1>1, <1>2, <1>3, <1>4

\* The invariant holds in every state of a receiver.
THEOREM Invariant == Spec => []IInv
<1>1. Init => IInv
  BY InitIInv
<1>2. IInv /\ [Next]_vars => IInv'
  <2>1. SUFFICES ASSUME IInv, [Next]_vars PROVE IInv'
    OBVIOUS
  <2>2. TypeOK'
    BY <2>1, TypeStep DEF IInv
  <2>3. HeldInv'
    BY <2>1, HeldStep DEF IInv
  <2>4. Idle' /\ Bounded' /\ FramesKept' /\ NeverStarves' /\ Seen'
    BY <2>1, <2>2, IdleStep, BoundedStep, KeptStep, StarveStep, SeenStep DEF IInv
  <2> QED  BY <2>2, <2>3, <2>4 DEF IInv
<1> QED  BY <1>1, <1>2, PTL DEF Spec

-----------------------------------------------------------------------------
(* What it says of the receiver.                                           *)

\* Every variable has its type; neither ring holds more than its slots, and the
\* kernel takes nothing beyond the index it has read.
THEOREM TypeCorrect == Spec => []TypeOK
<1>1. IInv => TypeOK
  BY DEF IInv
<1> QED  BY <1>1, Invariant, PTL

\* No frame is lost or in two places, whatever arrives and whether it parses.
THEOREM NoFrameLost == Spec => []FramesKept
<1>1. IInv => FramesKept
  BY DEF IInv
<1> QED  BY <1>1, Invariant, PTL

\* The packets of a poll stay valid until the next one: the kernel has none of
\* their frames and is offered none.
THEOREM PacketsValid == Spec => []PacketsStay
<1>1. IInv => PacketsStay
  <2>1. SUFFICES ASSUME IInv, pc = "use"
                 PROVE  packets \cap (kernel \cup ToSet(Offered) \cup ToSet(FramesOf(rx))) = {}
    BY DEF PacketsStay
  <2>2. packets \subseteq ToSet(pending)
    BY <2>1 DEF IInv, Bounded
  <2>3. Offered \in Seq(Frames) /\ FramesOf(rx) \in Seq(Frames) /\ pending \in Seq(Frames)
    BY <2>1, OfferedType DEF IInv
  <2>4. Placed(Offered, FramesOf(rx), pending, kernel)
    BY <2>1, <2>3, KnownParts DEF IInv, FramesKept, Running, Known
  <2> QED  BY <2>2, <2>4 DEF Placed
<1> QED  BY <1>1, Invariant, PTL

\* The fill ring has room for the frames of every poll, however late the kernel
\* publishes its index: a ring of twice the frames is enough for any number.
THEOREM RoomToReturn == Spec => []NeverStarves
<1>1. IInv => NeverStarves
  BY DEF IInv
<1> QED  BY <1>1, Invariant, PTL

\* The filter redirects the datagrams of the flow and no other, and what the
\* parser returns lies within the frame, for all lengths the headers can claim.
LEMMA Agree ==
    ASSUME NEW w \in Wire, IsDatagram(w)
    PROVE  (InFlow(w) <=> Redirects(w)) /\ Payload(w) \subseteq 0 .. w.len - 1
<1>1. w.len \in Nat /\ w.ihl \in Nat /\ w.total \in Nat /\ w.udp_len \in Nat
  BY WireAssumption
<1>2. L3(w) \in Nat
  BY DEF L3, EthHeader, VlanTag
<1>3. /\ w.len >= L3(w) /\ w.ethertype = "IPv4" /\ w.len >= L3(w) + IpHeader
      /\ w.ihl >= IpHeader /\ w.len >= L3(w) + w.total /\ ~w.fragment /\ w.protocol = "UDP"
      /\ w.total >= w.ihl + UdpHeader
      /\ w.udp_len >= UdpHeader /\ w.udp_len <= w.total - w.ihl
  BY <1>1, <1>2 DEF IsDatagram, ParseUdpFrame, IpHeader, UdpHeader
<1>4. w.len >= L3(w) + w.ihl + UdpHeader
  BY <1>1, <1>2, <1>3 DEF UdpHeader
<1>5. Payload(w) \subseteq 0 .. w.len - 1
  BY <1>1, <1>2, <1>3 DEF Payload, UdpHeader
<1> QED  BY <1>3, <1>4, <1>5 DEF Redirects

\* The filter and the parser agree on every frame the program has seen.
THEOREM SameFlow == Spec => []FilterAgrees
<1>1. IInv => FilterAgrees
  BY Agree DEF IInv, Seen, FilterAgrees
<1> QED  BY <1>1, Invariant, PTL

\* The memory the kernel works in is there, wherever open() failed and however
\* far close() has come.
THEOREM MemoryStays == Spec => []KernelHasMemory
<1>1. IInv => KernelHasMemory
  BY DEF IInv, HeldInv, Chain, KernelHasMemory
<1> QED  BY <1>1, Invariant, PTL
=============================================================================
