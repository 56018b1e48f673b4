--------------------------- MODULE OrderMap_proofs ---------------------------
(***************************************************************************)
(* Proofs about the order map, for any references, any hash, any group     *)
(* width and any size asked for: what its three counters say of the table, *)
(* that no reference is held twice, that a rehash never needs another,     *)
(* that find() finds what is live, and that every probe ends.              *)
(***************************************************************************)
EXTENDS OrderMap, FiniteSetTheorems, WellFoundedInduction, TLAPS

-----------------------------------------------------------------------------
(* Counting slots.                                                         *)

\* The slots of S whose tag is in T.
With(S, c, T) == {s \in S : c[s] \in T}

\* What a slot adds to a count of slots, or takes from it.
LEMMA CountUpdate ==
    ASSUME NEW S, IsFiniteSet(S), NEW A \in SUBSET S, NEW s \in S
    PROVE  /\ Cardinality(A) \in Nat
           /\ s \notin A => Cardinality(A \cup {s}) = Cardinality(A) + 1
           /\ s \in A => Cardinality(A \ {s}) \in Nat /\ Cardinality(A \ {s}) = Cardinality(A) - 1
<1>1. IsFiniteSet(A) /\ Cardinality(A) \in Nat
  BY FS_Subset, FS_CardinalityType
<1>2. IsFiniteSet(A \ {s}) /\ Cardinality(A \ {s}) \in Nat
  <2>1. A \ {s} \subseteq S
    OBVIOUS
  <2> QED  BY <2>1, FS_Subset, FS_CardinalityType
<1>3. s \notin A => Cardinality(A \cup {s}) = Cardinality(A) + 1
  BY <1>1, FS_AddElement
<1>4. s \in A => Cardinality(A \ {s}) = Cardinality(A) - 1
  BY <1>1, FS_RemoveElement
<1> QED  BY <1>1, <1>2, <1>3, <1>4

\* Of a table there are finitely many slots.
LEMMA SlotsFinite ==
    ASSUME NEW g \in Nat
    PROVE  IsFiniteSet(Slots(g))
<1>1. 0 \in Int /\ g * W - 1 \in Int
  BY MapAssumption
<1> QED  BY <1>1, FS_Interval DEF Slots

\* Seven eighths of the slots, at least one, and more of twice as many slots.
LEMMA Load ==
    ASSUME NEW c \in Nat, c >= 8
    PROVE  MaxLoad(c) \in Nat /\ MaxLoad(c) > 0 /\ MaxLoad(c) < c /\ MaxLoad(c) < MaxLoad(2 * c)
BY DEF MaxLoad

-----------------------------------------------------------------------------
(* The inductive invariant.                                                *)

\* What is live is what the table holds, and a rehash holds the copied part of it.
Contents ==
    pending = NoRef => \A r \in Refs : r \in live <=> \E s \in Slots(groups) : ctrl[s] = r

\* The slots of the old table that hold an order, and of those the copied ones.
ToCopy == With(DOMAIN old, old, Refs)
Copied == {s \in ToCopy : s < cursor}

\* A rehash copies each live order once, and the new budget is larger than all
\* of them.
Copying ==
    pending # NoRef =>
        /\ pending \notin live
        /\ tombstones = 0
        /\ \E n \in Nat : DOMAIN old = 0 .. n - 1
        /\ \A s, t \in ToCopy : old[s] = old[t] => s = t
        /\ \A r \in Refs : r \in live <=> \E s \in ToCopy : old[s] = r
        /\ \A r \in Refs : (\E s \in Slots(groups) : ctrl[s] = r) <=> (\E s \in Copied : old[s] = r)
        /\ size = Cardinality(Copied)
        /\ Cardinality(ToCopy) < MaxLoad(groups * W)

IInv == /\ TypeOK /\ groups * W >= 8
        /\ Budget
        /\ HeldOnce
        /\ Contents
        /\ Copying

\* Facts about a table that the steps below use.
LEMMA Facts ==
    ASSUME TypeOK, groups * W >= 8
    PROVE  /\ groups * W \in Nat
           /\ IsFiniteSet(Slots(groups)) /\ DOMAIN ctrl = Slots(groups)
           /\ MaxLoad(groups * W) \in Nat /\ MaxLoad(groups * W) > 0
           /\ \A T : Count(T) = Cardinality(With(Slots(groups), ctrl, T))
<1>1. groups * W \in Nat
  BY MapAssumption DEF TypeOK
<1>2. IsFiniteSet(Slots(groups)) /\ DOMAIN ctrl = Slots(groups)
  BY SlotsFinite DEF TypeOK
<1>3. MaxLoad(groups * W) \in Nat /\ MaxLoad(groups * W) > 0
  BY <1>1, Load
<1> QED  BY <1>1, <1>2, <1>3 DEF Count, With

\* A rehash makes room for what it copies and for the insert that waits.
LEMMA Room ==
    ASSUME IInv, pending # NoRef
    PROVE  /\ growthLeft > 0
           /\ IsFiniteSet(ToCopy) /\ IsFiniteSet(Copied)
           /\ Cardinality(Copied) <= Cardinality(ToCopy)
<1>1. PICK n \in Nat : DOMAIN old = 0 .. n - 1
  BY DEF IInv, Copying
<1>2. IsFiniteSet(0 .. n - 1)
  BY FS_Interval
<1>3. IsFiniteSet(ToCopy)
  BY <1>1, <1>2, FS_Subset DEF ToCopy, With
<1>4. /\ IsFiniteSet(Copied) /\ Cardinality(Copied) <= Cardinality(ToCopy)
      /\ Cardinality(Copied) \in Nat /\ Cardinality(ToCopy) \in Nat
  <2>1. Copied \subseteq ToCopy
    BY DEF Copied
  <2> QED  BY <1>3, <2>1, FS_Subset, FS_CardinalityType
<1>5. /\ size = Cardinality(Copied) /\ tombstones = 0
      /\ Cardinality(ToCopy) < MaxLoad(groups * W)
  BY DEF IInv, Copying
<1>6. size + tombstones + growthLeft = MaxLoad(groups * W) /\ growthLeft \in Nat
  BY DEF IInv, Budget, TypeOK
<1>7. MaxLoad(groups * W) \in Nat
  BY Facts DEF IInv
<1>8. growthLeft > 0
  BY <1>4, <1>5, <1>6, <1>7
<1> QED  BY <1>3, <1>4, <1>8

-----------------------------------------------------------------------------
(* What the helpers do to the table.                                       *)

\* An empty table.
LEMMA ClearedTable ==
    ASSUME NEW g \in Nat, g > 0, g * W >= 8, Cleared(g)
    PROVE  /\ groups' = g /\ groups' \in Nat /\ groups' > 0 /\ groups' * W >= 8
           /\ ctrl' \in [Slots(groups') -> Tags]
           /\ size' = 0 /\ tombstones' = 0 /\ growthLeft' = MaxLoad(g * W) /\ growthLeft' \in Nat
           /\ Budget' /\ HeldOnce'
           /\ \A r \in Refs, s \in Slots(groups') : ctrl'[s] # r
<1>1. g * W \in Nat /\ Empty \notin Refs /\ Empty # Deleted
  BY MapAssumption
<1>2. MaxLoad(g * W) \in Nat
  BY <1>1, Load
<1>3. groups' = g /\ ctrl' \in [Slots(groups') -> Tags] /\ \A s \in Slots(groups') : ctrl'[s] = Empty
  BY DEF Cleared, Tags
<1>4. {s \in Slots(groups') : ctrl'[s] \in Refs} = {} /\ {s \in Slots(groups') : ctrl'[s] \in {Deleted}} = {}
  BY <1>1, <1>3
<1>5. (Count(Refs))' = 0 /\ (Count({Deleted}))' = 0
  BY <1>4, FS_EmptySet DEF Count
<1>6. size' = 0 /\ tombstones' = 0 /\ growthLeft' = MaxLoad(g * W)
  BY DEF Cleared
<1>7. Budget'
  BY <1>2, <1>3, <1>5, <1>6 DEF Budget
<1>8. HeldOnce' /\ \A r \in Refs, s \in Slots(groups') : ctrl'[s] # r
  BY <1>1, <1>3 DEF HeldOnce
<1> QED  BY <1>2, <1>3, <1>6, <1>7, <1>8

\* A claimed slot was free; the reference is then held by it and by no other slot
\* if it was by none.
LEMMA Claimed ==
    ASSUME TypeOK, groups * W >= 8, Budget, HeldOnce, growthLeft > 0,
           NEW r \in Refs, \A t \in Slots(groups) : ctrl[t] # r, Claim(r)
    PROVE  /\ groups' = groups /\ ctrl' \in [Slots(groups) -> Tags]
           /\ size' \in Nat /\ tombstones' \in Nat /\ growthLeft' \in Nat
           /\ size' = size + 1 /\ tombstones' <= tombstones
           /\ Budget' /\ HeldOnce'
           /\ \A q \in Refs : (\E t \in Slots(groups) : ctrl'[t] = q)
                                 <=> q = r \/ \E t \in Slots(groups) : ctrl[t] = q
<1>1. PICK s \in Slots(groups) :
          /\ ctrl[s] \in {Empty, Deleted}
          /\ ctrl' = [ctrl EXCEPT ![s] = r]
          /\ growthLeft' = growthLeft - (IF ctrl[s] = Empty THEN 1 ELSE 0)
          /\ tombstones' = tombstones - (IF ctrl[s] = Empty THEN 0 ELSE 1)
          /\ size' = size + 1
          /\ groups' = groups
  BY DEF Claim, FirstFree, Free
<1>2. Empty \notin Refs /\ Deleted \notin Refs /\ Empty # Deleted
  BY MapAssumption
<1>3. /\ IsFiniteSet(Slots(groups)) /\ DOMAIN ctrl = Slots(groups)
      /\ \A T : Count(T) = Cardinality(With(Slots(groups), ctrl, T))
  BY Facts
<1>4. ctrl'[s] = r /\ \A t \in Slots(groups) \ {s} : ctrl'[t] = ctrl[t]
  BY <1>1, <1>3
<1>5. ctrl' \in [Slots(groups) -> Tags]
  BY <1>1 DEF TypeOK, Tags
<1>6. \A T : (Count(T))' = Cardinality(With(Slots(groups), ctrl', T))
  BY <1>1 DEF Count, With
<1>7. (Count(Refs))' = Count(Refs) + 1
  <2>1. ctrl'[s] \in Refs /\ ctrl[s] \notin Refs
    BY <1>1, <1>2, <1>4
  <2>2. /\ With(Slots(groups), ctrl', Refs) = With(Slots(groups), ctrl, Refs) \cup {s}
        /\ s \notin With(Slots(groups), ctrl, Refs)
        /\ With(Slots(groups), ctrl, Refs) \subseteq Slots(groups)
    BY <1>4, <2>1 DEF With
  <2> QED  BY <1>3, <1>6, <2>2, CountUpdate
<1>8. /\ Count({Deleted}) \in Nat /\ (Count({Deleted}))' \in Nat
      /\ (Count({Deleted}))' = Count({Deleted}) - (IF ctrl[s] = Empty THEN 0 ELSE 1)
  <2> DEFINE A == With(Slots(groups), ctrl, {Deleted})
             B == With(Slots(groups), ctrl', {Deleted})
  <2>1. A \subseteq Slots(groups) /\ B = (IF ctrl[s] = Empty THEN A ELSE A \ {s})
        /\ (ctrl[s] # Empty => s \in A)
    BY <1>1, <1>2, <1>4 DEF With
  <2>2. Count({Deleted}) = Cardinality(A) /\ (Count({Deleted}))' = Cardinality(B)
    BY <1>3, <1>6
  <2> HIDE DEF A, B
  <2>3. Cardinality(A) \in Nat
    BY <1>3, <2>1, CountUpdate
  <2>4. ctrl[s] # Empty => Cardinality(B) \in Nat /\ Cardinality(B) = Cardinality(A) - 1
    BY <1>3, <2>1, CountUpdate
  <2> QED  BY <2>1, <2>2, <2>3, <2>4
<1>9. size = Count(Refs) /\ tombstones = Count({Deleted})
      /\ size + tombstones + growthLeft = MaxLoad(groups * W)
  BY DEF Budget
<1>10. size \in Nat /\ tombstones \in Nat /\ growthLeft \in Nat
  BY DEF TypeOK
<1>11. /\ size' = (Count(Refs))' /\ tombstones' = (Count({Deleted}))'
       /\ size' \in Nat /\ tombstones' \in Nat /\ tombstones' <= tombstones
  BY <1>1, <1>7, <1>8, <1>9, <1>10
<1>12. growthLeft' \in Nat /\ size' + tombstones' + growthLeft' = size + tombstones + growthLeft
  BY <1>1, <1>10
<1>13. Budget'
  BY <1>1, <1>9, <1>11, <1>12 DEF Budget
<1>14. HeldOnce'
  BY <1>1, <1>4 DEF HeldOnce
<1>15. ASSUME NEW q \in Refs
       PROVE  (\E t \in Slots(groups) : ctrl'[t] = q) <=> q = r \/ \E t \in Slots(groups) : ctrl[t] = q
  BY <1>1, <1>2, <1>4
<1> QED  BY <1>1, <1>5, <1>11, <1>12, <1>13, <1>14, <1>15

\* An erased slot holds its reference no longer, and no other slot held it.
LEMMA Erased ==
    ASSUME TypeOK, groups * W >= 8, Budget, HeldOnce, NEW r \in Refs, Erase(r)
    PROVE  /\ groups' = groups /\ ctrl' \in [Slots(groups) -> Tags]
           /\ size' \in Nat /\ tombstones' \in Nat /\ growthLeft' \in Nat
           /\ Budget' /\ HeldOnce'
           /\ \A q \in Refs : (\E t \in Slots(groups) : ctrl'[t] = q)
                                 <=> q # r /\ \E t \in Slots(groups) : ctrl[t] = q
<1>1. PICK s \in Slots(groups) :
          /\ ctrl[s] = r
          /\ LET empty == HasEmpty(GroupOf(s))
             IN  /\ ctrl' = [ctrl EXCEPT ![s] = IF empty THEN Empty ELSE Deleted]
                 /\ growthLeft' = growthLeft + (IF empty THEN 1 ELSE 0)
                 /\ tombstones' = tombstones + (IF empty THEN 0 ELSE 1)
  BY DEF Erase
<1>2. size' = size - 1 /\ groups' = groups
  BY DEF Erase
<1>3. PICK v \in {Empty, Deleted} :
          /\ ctrl' = [ctrl EXCEPT ![s] = v]
          /\ growthLeft' = growthLeft + (IF v = Empty THEN 1 ELSE 0)
          /\ tombstones' = tombstones + (IF v = Empty THEN 0 ELSE 1)
  <2>1. Empty # Deleted
    BY MapAssumption
  <2>2. CASE HasEmpty(GroupOf(s))
    BY <1>1, <2>1, <2>2
  <2>3. CASE ~HasEmpty(GroupOf(s))
    BY <1>1, <2>1, <2>3
  <2> QED  BY <2>2, <2>3
<1>4. Empty \notin Refs /\ Deleted \notin Refs /\ Empty # Deleted
  BY MapAssumption
<1>5. /\ IsFiniteSet(Slots(groups)) /\ DOMAIN ctrl = Slots(groups)
      /\ \A T : Count(T) = Cardinality(With(Slots(groups), ctrl, T))
  BY Facts
<1>6. ctrl'[s] = v /\ \A t \in Slots(groups) \ {s} : ctrl'[t] = ctrl[t]
  BY <1>3, <1>5
<1>7. ctrl' \in [Slots(groups) -> Tags]
  BY <1>3 DEF TypeOK, Tags
<1>8. \A T : (Count(T))' = Cardinality(With(Slots(groups), ctrl', T))
  BY <1>2 DEF Count, With
<1>9. (Count(Refs))' = Count(Refs) - 1 /\ (Count(Refs))' \in Nat
  <2>1. ctrl'[s] \notin Refs /\ ctrl[s] \in Refs
    BY <1>1, <1>4, <1>6
  <2>2. /\ With(Slots(groups), ctrl', Refs) = With(Slots(groups), ctrl, Refs) \ {s}
        /\ s \in With(Slots(groups), ctrl, Refs)
        /\ With(Slots(groups), ctrl, Refs) \subseteq Slots(groups)
    BY <1>6, <2>1 DEF With
  <2> QED  BY <1>5, <1>8, <2>2, CountUpdate
<1>10. (Count({Deleted}))' = Count({Deleted}) + (IF v = Empty THEN 0 ELSE 1)
  <2> DEFINE A == With(Slots(groups), ctrl, {Deleted})
             B == With(Slots(groups), ctrl', {Deleted})
  <2>1. A \subseteq Slots(groups) /\ s \notin A /\ B = (IF v = Empty THEN A ELSE A \cup {s})
    BY <1>1, <1>4, <1>6 DEF With
  <2>2. Count({Deleted}) = Cardinality(A) /\ (Count({Deleted}))' = Cardinality(B)
    BY <1>5, <1>8
  <2> HIDE DEF A, B
  <2>3. Cardinality(A) \in Nat /\ Cardinality(A \cup {s}) = Cardinality(A) + 1
    BY <1>5, <2>1, CountUpdate
  <2> QED  BY <2>1, <2>2, <2>3
<1>11. size = Count(Refs) /\ tombstones = Count({Deleted})
       /\ size + tombstones + growthLeft = MaxLoad(groups * W)
  BY DEF Budget
<1>12. size \in Nat /\ tombstones \in Nat /\ growthLeft \in Nat
  BY DEF TypeOK
<1>13. /\ size' = (Count(Refs))' /\ tombstones' = (Count({Deleted}))'
       /\ size' \in Nat /\ tombstones' \in Nat /\ growthLeft' \in Nat
       /\ size' + tombstones' + growthLeft' = size + tombstones + growthLeft
  BY <1>2, <1>3, <1>9, <1>10, <1>11, <1>12
<1>14. Budget'
  BY <1>2, <1>11, <1>13 DEF Budget
<1>15. HeldOnce'
  BY <1>2, <1>4, <1>6 DEF HeldOnce
<1>16. ASSUME NEW q \in Refs
       PROVE  (\E t \in Slots(groups) : ctrl'[t] = q)
                 <=> q # r /\ \E t \in Slots(groups) : ctrl[t] = q
  <2>1. \A t \in Slots(groups) : ctrl[t] = r => t = s
    BY <1>1 DEF HeldOnce
  <2> QED  BY <1>1, <1>4, <1>6, <2>1
<1> QED  BY <1>2, <1>7, <1>13, <1>14, <1>15, <1>16

-----------------------------------------------------------------------------
(* The invariant is inductive.                                             *)

LEMMA InitIInv == Init => IInv
<1> SUFFICES ASSUME Init PROVE IInv
  OBVIOUS
<1>1. /\ groups \in Nat /\ groups * W >= 8 /\ groups > 0 /\ groups * W \in Nat
      /\ Empty \notin Refs /\ Empty # Deleted /\ NoRef \notin Refs
  BY MapAssumption DEF Init
<1>2. MaxLoad(groups * W) \in Nat
  BY <1>1, Load
<1>3. ctrl \in [Slots(groups) -> Tags] /\ \A s \in Slots(groups) : ctrl[s] = Empty
  BY DEF Init, Tags
<1>4. TypeOK
  BY <1>1, <1>2, <1>3 DEF Init, TypeOK
<1>5. Count(Refs) = 0 /\ Count({Deleted}) = 0
  <2>1. {s \in Slots(groups) : ctrl[s] \in Refs} = {} /\ {s \in Slots(groups) : ctrl[s] \in {Deleted}} = {}
    BY <1>1, <1>3
  <2> QED  BY <2>1, FS_EmptySet DEF Count
<1>6. Budget
  BY <1>2, <1>5 DEF Init, Budget
<1>7. HeldOnce /\ Contents /\ Copying
  BY <1>1, <1>3 DEF Init, HeldOnce, Contents, Copying
<1> QED  BY <1>1, <1>4, <1>6, <1>7 DEF IInv

\* The table gets a reference it does not have, while no rehash runs.
LEMMA InsertStep ==
    ASSUME IInv, NEW r \in Refs, Insert(r)
    PROVE  IInv'
<1>1. /\ pending = NoRef /\ r \notin live /\ growthLeft # 0 /\ Claim(r)
      /\ live' = live \cup {r} /\ UNCHANGED <<pending, old, cursor>>
  BY DEF Insert, rehash
<1>2. TypeOK /\ groups * W >= 8 /\ Budget /\ HeldOnce /\ Contents
  BY DEF IInv
<1>3. growthLeft > 0
  BY <1>1, <1>2 DEF TypeOK
<1>4. \A t \in Slots(groups) : ctrl[t] # r
  BY <1>1, <1>2 DEF Contents
<1>5. /\ groups' = groups /\ ctrl' \in [Slots(groups) -> Tags]
      /\ size' \in Nat /\ tombstones' \in Nat /\ growthLeft' \in Nat
      /\ Budget' /\ HeldOnce'
      /\ \A q \in Refs : (\E t \in Slots(groups) : ctrl'[t] = q)
                            <=> q = r \/ \E t \in Slots(groups) : ctrl[t] = q
  BY <1>1, <1>2, <1>3, <1>4, Claimed
<1>6. TypeOK' /\ groups' * W >= 8
  BY <1>1, <1>2, <1>5 DEF TypeOK
<1>7. Contents' /\ Copying'
  BY <1>1, <1>2, <1>5 DEF Contents, Copying
<1> QED  BY <1>5, <1>6, <1>7 DEF IInv

\* The table loses a reference, while no rehash runs.
LEMMA EraseStep ==
    ASSUME IInv, NEW r \in Refs, Erase(r)
    PROVE  IInv'
<1>1. pending = NoRef /\ live' = live \ {r} /\ UNCHANGED <<pending, old, cursor>>
  BY DEF Erase, rehash
<1>2. TypeOK /\ groups * W >= 8 /\ Budget /\ HeldOnce /\ Contents
  BY DEF IInv
<1>3. /\ groups' = groups /\ ctrl' \in [Slots(groups) -> Tags]
      /\ size' \in Nat /\ tombstones' \in Nat /\ growthLeft' \in Nat
      /\ Budget' /\ HeldOnce'
      /\ \A q \in Refs : (\E t \in Slots(groups) : ctrl'[t] = q)
                            <=> q # r /\ \E t \in Slots(groups) : ctrl[t] = q
  BY <1>2, Erased
<1>4. TypeOK' /\ groups' * W >= 8
  BY <1>1, <1>2, <1>3 DEF TypeOK
<1>5. Contents' /\ Copying'
  BY <1>1, <1>2, <1>3 DEF Contents, Copying
<1> QED  BY <1>3, <1>4, <1>5 DEF IInv

\* A rehash starts with nothing copied, and with a budget for every live order:
\* a larger table has one, and the same table has one if few of its slots are live.
LEMMA BeginStep ==
    ASSUME IInv, NEW r \in Refs, RehashBegin(r)
    PROVE  IInv'
<1> DEFINE g == IF Grows THEN groups * 2 ELSE groups
<1>1. /\ pending = NoRef /\ r \notin live /\ growthLeft = 0
      /\ pending' = r /\ old' = ctrl /\ cursor' = 0 /\ live' = live /\ Cleared(g)
  BY DEF RehashBegin
<1>2. /\ TypeOK /\ groups * W >= 8 /\ Budget /\ HeldOnce /\ Contents
      /\ groups \in Nat /\ groups > 0 /\ groups * W \in Nat /\ W \in Nat
  BY MapAssumption DEF IInv, TypeOK
<1>3. (groups * 2) * W = 2 * (groups * W)
  BY <1>2
<1>4. g \in Nat /\ g > 0 /\ g * W >= 8
  BY <1>2, <1>3
<1>5. size < MaxLoad(g * W)
  <2>1. /\ MaxLoad(groups * W) \in Nat /\ MaxLoad(groups * W) > 0
        /\ MaxLoad(groups * W) < MaxLoad(2 * (groups * W)) /\ MaxLoad(2 * (groups * W)) \in Nat
    BY <1>2, Load
  <2>2. size + tombstones + growthLeft = MaxLoad(groups * W)
    BY <1>2 DEF Budget
  <2>3. size \in Nat /\ tombstones \in Nat /\ growthLeft \in Nat
    BY <1>2 DEF TypeOK
  <2>4. size <= MaxLoad(groups * W)
    BY <2>1, <2>2, <2>3
  <2>5. CASE Grows
    <3>1. g * W = 2 * (groups * W)
      BY <1>3, <2>5
    <3> QED  BY <2>1, <2>3, <2>4, <3>1
  <2>6. CASE ~Grows
    <3>1. g * W = groups * W /\ ~(size * 2 > MaxLoad(groups * W))
      BY <2>6 DEF Grows
    <3> QED  BY <2>1, <2>3, <3>1
  <2> QED  BY <2>5, <2>6
<1> HIDE DEF g
<1>6. /\ groups' = g /\ groups' \in Nat /\ groups' > 0 /\ groups' * W >= 8
      /\ ctrl' \in [Slots(groups') -> Tags]
      /\ size' = 0 /\ tombstones' = 0 /\ growthLeft' \in Nat
      /\ Budget' /\ HeldOnce'
      /\ \A q \in Refs, s \in Slots(groups') : ctrl'[s] # q
  BY <1>1, <1>4, ClearedTable
<1>7. TypeOK'
  BY <1>1, <1>2, <1>6 DEF TypeOK
<1>8. r # NoRef
  BY MapAssumption
<1>9. Contents'
  BY <1>1, <1>8 DEF Contents
<1>10. Copying'
  <2>1. DOMAIN old' = 0 .. (groups * W) - 1
    BY <1>1, <1>2 DEF TypeOK, Slots
  <2>2. ToCopy' = With(Slots(groups), ctrl, Refs)
    BY <1>1, <1>2 DEF ToCopy, With, TypeOK
  <2>3. Copied' = {}
    <3>1. \A s \in ToCopy' : ~(s < 0)
      BY <1>2, <2>2 DEF With, Slots
    <3> QED  BY <1>1, <3>1 DEF Copied
  <2>4. Cardinality(ToCopy') = size
    BY <1>2, <2>2, Facts DEF Budget
  <2>5. Cardinality(Copied') = 0
    BY <2>3, FS_EmptySet
  <2>6. Cardinality(ToCopy') < MaxLoad(groups' * W)
    BY <1>5, <1>6, <2>4
  <2>7. \A s, t \in ToCopy' : old'[s] = old'[t] => s = t
    BY <1>1, <1>2, <2>2 DEF HeldOnce, With
  <2>8. \A q \in Refs : q \in live' <=> \E s \in ToCopy' : old'[s] = q
    BY <1>1, <1>2, <2>2 DEF Contents, With
  <2>9. \A q \in Refs : (\E s \in Slots(groups') : ctrl'[s] = q) <=> (\E s \in Copied' : old'[s] = q)
    BY <1>6, <2>3
  <2> QED  BY <1>1, <1>2, <1>6, <2>1, <2>5, <2>6, <2>7, <2>8, <2>9 DEF Copying
<1> QED  BY <1>6, <1>7, <1>9, <1>10 DEF IInv

\* A slot of the old table is copied: its order is in no slot of the new one yet.
LEMMA CopyStep ==
    ASSUME IInv, RehashCopy
    PROVE  IInv'
<1>1. /\ pending # NoRef /\ cursor \in DOMAIN old /\ cursor' = cursor + 1
      /\ UNCHANGED <<pending, old, live>>
  BY DEF RehashCopy
<1>2. /\ TypeOK /\ groups * W >= 8 /\ Budget /\ HeldOnce
      /\ cursor \in Nat
  BY DEF IInv, TypeOK
<1>3. /\ pending \notin live /\ tombstones = 0
      /\ \A s, t \in ToCopy : old[s] = old[t] => s = t
      /\ \A q \in Refs : q \in live <=> \E s \in ToCopy : old[s] = q
      /\ \A q \in Refs : (\E s \in Slots(groups) : ctrl[s] = q) <=> (\E s \in Copied : old[s] = q)
      /\ size = Cardinality(Copied)
      /\ Cardinality(ToCopy) < MaxLoad(groups * W)
  BY <1>1 DEF IInv, Copying
<1>4. PICK n \in Nat : DOMAIN old = 0 .. n - 1
  BY <1>1 DEF IInv, Copying
<1>5. growthLeft > 0 /\ IsFiniteSet(ToCopy) /\ IsFiniteSet(Copied)
  BY <1>1, Room
<1>6. ToCopy' = ToCopy
  BY <1>1 DEF ToCopy, With
<1>7. \A s \in ToCopy : s \in Int
  BY <1>4 DEF ToCopy, With
<1>8. CASE old[cursor] \in Refs
  <2> DEFINE r == old[cursor]
  <2>1. cursor \in ToCopy /\ cursor \notin Copied
    BY <1>1, <1>2, <1>8 DEF ToCopy, Copied, With
  <2>2. Copied' = Copied \cup {cursor}
    <3>1. \A s \in ToCopy : s < cursor + 1 <=> s < cursor \/ s = cursor
      BY <1>2, <1>7
    <3> QED  BY <1>1, <1>6, <2>1, <3>1 DEF Copied
  <2>3. Claim(r)
    BY <1>8 DEF RehashCopy
  <2>4. \A t \in Slots(groups) : ctrl[t] # r
    <3>1. ~ \E s \in Copied : old[s] = r
      BY <1>3, <2>1 DEF Copied
    <3> QED  BY <1>3, <1>8, <3>1
  <2> HIDE DEF r
  <2>5. r \in Refs /\ r = old[cursor]
    BY <1>8 DEF r
  <2>6. /\ groups' = groups /\ ctrl' \in [Slots(groups) -> Tags]
        /\ size' \in Nat /\ tombstones' \in Nat /\ growthLeft' \in Nat
        /\ size' = size + 1 /\ tombstones' <= tombstones
        /\ Budget' /\ HeldOnce'
        /\ \A q \in Refs : (\E t \in Slots(groups) : ctrl'[t] = q)
                              <=> q = r \/ \E t \in Slots(groups) : ctrl[t] = q
    BY <1>2, <1>5, <2>3, <2>4, <2>5, Claimed
  <2>7. TypeOK' /\ groups' * W >= 8
    BY <1>1, <1>2, <2>6 DEF TypeOK
  <2>8. size' = Cardinality(Copied')
    BY <1>3, <1>5, <2>1, <2>2, <2>6, FS_AddElement
  <2>9. \A q \in Refs : (\E t \in Slots(groups') : ctrl'[t] = q) <=> (\E s \in Copied' : old'[s] = q)
    BY <1>1, <1>3, <2>2, <2>5, <2>6
  <2>10. tombstones' = 0
    BY <1>3, <2>6
  <2>11. Copying'
    BY <1>1, <1>3, <1>4, <1>6, <2>6, <2>8, <2>9, <2>10 DEF Copying
  <2> QED  BY <1>1, <2>6, <2>7, <2>11 DEF IInv, Contents
<1>9. CASE old[cursor] \notin Refs
  <2>1. UNCHANGED <<groups, ctrl, size, tombstones, growthLeft>>
    BY <1>9 DEF RehashCopy, table
  <2>2. Copied' = Copied
    <3>1. cursor \notin ToCopy
      BY <1>9 DEF ToCopy, With
    <3>2. \A s \in ToCopy : s < cursor + 1 <=> s < cursor
      BY <1>2, <1>7, <3>1
    <3> QED  BY <1>1, <1>6, <3>2 DEF Copied
  <2>3. TypeOK' /\ groups' * W >= 8
    BY <1>1, <1>2, <2>1 DEF TypeOK
  <2>4. Budget' /\ HeldOnce'
    BY <1>2, <2>1 DEF Budget, HeldOnce, Count
  <2>5. Copying'
    BY <1>1, <1>3, <1>4, <1>6, <2>1, <2>2 DEF Copying
  <2> QED  BY <1>1, <2>3, <2>4, <2>5 DEF IInv, Contents
<1> QED  BY <1>8, <1>9

\* The rehash ends with every live order copied; the insert that waited gets the
\* room that is left.
LEMMA EndStep ==
    ASSUME IInv, RehashEnd
    PROVE  IInv'
<1>1. /\ pending # NoRef /\ cursor \notin DOMAIN old /\ Claim(pending)
      /\ live' = live \cup {pending} /\ pending' = NoRef /\ cursor' = 0
  BY DEF RehashEnd
<1>2. /\ TypeOK /\ groups * W >= 8 /\ Budget /\ HeldOnce
      /\ cursor \in Nat /\ pending \in Refs
  BY <1>1 DEF IInv, TypeOK
<1>3. /\ pending \notin live
      /\ \A q \in Refs : q \in live <=> \E s \in ToCopy : old[s] = q
      /\ \A q \in Refs : (\E s \in Slots(groups) : ctrl[s] = q) <=> (\E s \in Copied : old[s] = q)
  BY <1>1 DEF IInv, Copying
<1>4. PICK n \in Nat : DOMAIN old = 0 .. n - 1
  BY <1>1 DEF IInv, Copying
<1>5. Copied = ToCopy
  <2>1. cursor >= n
    BY <1>1, <1>2, <1>4
  <2>2. \A s \in ToCopy : s \in 0 .. n - 1
    BY <1>4 DEF ToCopy, With
  <2>3. \A s \in ToCopy : s < cursor
    BY <1>2, <2>1, <2>2
  <2> QED  BY <2>3 DEF Copied
<1>6. \A q \in Refs : q \in live <=> \E s \in Slots(groups) : ctrl[s] = q
  BY <1>3, <1>5
<1>7. growthLeft > 0
  BY <1>1, Room
<1>8. \A t \in Slots(groups) : ctrl[t] # pending
  BY <1>2, <1>3, <1>6
<1>9. /\ groups' = groups /\ ctrl' \in [Slots(groups) -> Tags]
      /\ size' \in Nat /\ tombstones' \in Nat /\ growthLeft' \in Nat
      /\ Budget' /\ HeldOnce'
      /\ \A q \in Refs : (\E t \in Slots(groups) : ctrl'[t] = q)
                            <=> q = pending \/ \E t \in Slots(groups) : ctrl[t] = q
  BY <1>1, <1>2, <1>7, <1>8, Claimed
<1>10. TypeOK' /\ groups' * W >= 8
  BY <1>1, <1>2, <1>9 DEF TypeOK
<1>11. Contents' /\ Copying'
  BY <1>1, <1>6, <1>9 DEF Contents, Copying
<1> QED  BY <1>9, <1>10, <1>11 DEF IInv

\* clear leaves an empty table of the same size.
LEMMA ClearStep ==
    ASSUME IInv, Clear
    PROVE  IInv'
<1>1. pending = NoRef /\ Cleared(groups) /\ live' = {} /\ UNCHANGED <<pending, old, cursor>>
  BY DEF Clear, rehash
<1>2. TypeOK /\ groups \in Nat /\ groups > 0 /\ groups * W >= 8
  BY DEF IInv, TypeOK
<1>3. /\ groups' = groups /\ groups' \in Nat /\ groups' > 0 /\ groups' * W >= 8
      /\ ctrl' \in [Slots(groups') -> Tags]
      /\ size' = 0 /\ tombstones' = 0 /\ growthLeft' \in Nat
      /\ Budget' /\ HeldOnce'
      /\ \A q \in Refs, s \in Slots(groups') : ctrl'[s] # q
  BY <1>1, <1>2, ClearedTable
<1>4. TypeOK'
  BY <1>1, <1>2, <1>3 DEF TypeOK
<1>5. Contents' /\ Copying'
  BY <1>1, <1>3 DEF Contents, Copying
<1> QED  BY <1>3, <1>4, <1>5 DEF IInv

\* The invariant holds after every call and at every moment of a rehash.
THEOREM Invariant == Spec => []IInv
<1>1. Init => IInv
  BY InitIInv
<1>2. IInv /\ [Next]_vars => IInv'
  <2>1. SUFFICES ASSUME IInv, [Next]_vars PROVE IInv'
    OBVIOUS
  <2>2. ASSUME NEW r \in Refs, Insert(r) \/ RehashBegin(r) \/ Erase(r) PROVE IInv'
    BY <2>1, <2>2, InsertStep, BeginStep, EraseStep
  <2>3. CASE RehashCopy \/ RehashEnd \/ Clear
    BY <2>1, <2>3, CopyStep, EndStep, ClearStep
  <2>4. CASE UNCHANGED vars
    <3>1. UNCHANGED <<groups, ctrl, size, tombstones, growthLeft, live, pending, old, cursor>>
      BY <2>4 DEF vars, table, rehash
    <3>2. ToCopy' = ToCopy /\ Copied' = Copied
      BY <3>1 DEF ToCopy, Copied, With
    <3> QED  BY <2>1, <3>1, <3>2 DEF IInv, TypeOK, Budget, Count, HeldOnce, Contents, Copying
  <2> QED  BY <2>1, <2>2, <2>3, <2>4 DEF Next
<1> QED  BY <1>1, <1>2, PTL DEF Spec

-----------------------------------------------------------------------------
(* What it says of the map.                                                *)

\* Every variable has its type, and no counter goes below zero.
THEOREM TypeCorrect == Spec => []TypeOK
<1>1. IInv => TypeOK
  BY DEF IInv
<1> QED  BY <1>1, Invariant, PTL

\* The counters of insert, erase and the rehash are those of the table.
THEOREM BudgetExact == Spec => []Budget
<1>1. IInv => Budget
  BY DEF IInv
<1> QED  BY <1>1, Invariant, PTL

\* No reference is held by two slots, during a rehash and after it.
THEOREM OneSlotEach == Spec => []HeldOnce
<1>1. IInv => HeldOnce
  BY DEF IInv
<1> QED  BY <1>1, Invariant, PTL

\* A rehash never finds its own budget used up, for any size of table: the
\* inserts rehash_for_insert makes cannot start another rehash.
THEOREM RehashOnce == Spec => []RehashMakesRoom
<1>1. IInv => RehashMakesRoom
  BY Room DEF RehashMakesRoom
<1> QED  BY <1>1, Invariant, PTL

\* One slot in eight is EMPTY at every moment, which is where a probe stops.
EmptyIsLeft == \E s \in Slots(groups) : ctrl[s] = Empty

\* The table never fills up with orders and tombstones.
THEOREM NeverFull == Spec => []EmptyIsLeft
<1>1. IInv => EmptyIsLeft
  <2>1. SUFFICES ASSUME IInv, \A s \in Slots(groups) : ctrl[s] # Empty PROVE FALSE
    BY DEF EmptyIsLeft
  <2>2. /\ TypeOK /\ groups * W >= 8 /\ groups * W \in Nat
        /\ IsFiniteSet(Slots(groups)) /\ DOMAIN ctrl = Slots(groups)
        /\ Count(Refs) = Cardinality(With(Slots(groups), ctrl, Refs))
        /\ Count({Deleted}) = Cardinality(With(Slots(groups), ctrl, {Deleted}))
    BY <2>1, Facts DEF IInv
  <2> DEFINE F == With(Slots(groups), ctrl, Refs)
             D == With(Slots(groups), ctrl, {Deleted})
  <2>3. F \cup D = Slots(groups) /\ F \cap D = {}
    <3>1. \A s \in Slots(groups) : ctrl[s] \in Refs \cup {Deleted}
      BY <2>1, <2>2 DEF TypeOK, Tags
    <3>2. Deleted \notin Refs
      BY MapAssumption
    <3> QED  BY <3>1, <3>2 DEF With
  <2> HIDE DEF F, D
  <2>4. F \subseteq Slots(groups) /\ D \subseteq Slots(groups)
    BY <2>3
  <2>5. IsFiniteSet(F) /\ IsFiniteSet(D) /\ Cardinality(F) \in Nat /\ Cardinality(D) \in Nat
    BY <2>2, <2>4, FS_Subset, FS_CardinalityType
  <2>6. Cardinality(F \cap D) = 0
    BY <2>3, FS_EmptySet
  <2>7. Cardinality(F \cup D) = Cardinality(F) + Cardinality(D)
    <3>1. Cardinality(F \cup D) = Cardinality(F) + Cardinality(D) - Cardinality(F \cap D)
      BY <2>5, FS_Union, Zenon
    <3> QED  BY <2>5, <2>6, <3>1
  <2>8. Cardinality(Slots(groups)) = groups * W
    <3>1. 0 \in Int /\ groups * W - 1 \in Int
      BY <2>2
    <3> QED  BY <2>2, <3>1, FS_Interval DEF Slots
  <2>9. size = Cardinality(F) /\ tombstones = Cardinality(D) /\ growthLeft \in Nat
        /\ size + tombstones + growthLeft = MaxLoad(groups * W)
    BY <2>1, <2>2 DEF IInv, Budget, TypeOK, F, D
  <2>10. MaxLoad(groups * W) \in Nat /\ MaxLoad(groups * W) < groups * W
    BY <2>2, Load
  <2>11. groups * W = Cardinality(F) + Cardinality(D)
    BY <2>3, <2>7, <2>8
  <2> QED  BY <2>2, <2>5, <2>9, <2>10, <2>11
<1> QED  BY <1>1, Invariant, PTL

-----------------------------------------------------------------------------
(* What find finds.                                                        *)

\* The probe of r gets to the group g: no group before it has an EMPTY slot.
OnPath(r, g) == \E i \in Probes : /\ Probe(r, i) = g
                                  /\ \A j \in 0 .. i - 1 : ~HasEmpty(Probe(r, j))

\* Every order is where its probe gets to, during a rehash as well.
Reachable == \A s \in Slots(groups) : ctrl[s] \in Refs => OnPath(ctrl[s], GroupOf(s))

\* As long as no full group gets an EMPTY slot, probes get where they got.
LEMMA PathKept ==
    ASSUME groups' = groups, \A g : HasEmpty(g)' => HasEmpty(g), NEW r, NEW g, OnPath(r, g)
    PROVE  OnPath(r, g)'
<1>1. PICK i \in Probes : Probe(r, i) = g /\ \A j \in 0 .. i - 1 : ~HasEmpty(Probe(r, j))
  BY DEF OnPath
<1>2. \A j : Probe(r, j)' = Probe(r, j)
  BY DEF Probe, Home
<1>3. i \in Probes' /\ Probe(r, i)' = g
  BY <1>1, <1>2 DEF Probes
<1>4. ASSUME NEW j \in 0 .. i - 1 PROVE ~HasEmpty(Probe(r, j))'
  <2>1. PICK h : h = Probe(r, j)
    OBVIOUS
  <2>2. ~HasEmpty(h)'
    BY <1>1, <2>1
  <2>3. HasEmpty(Probe(r, j))' = HasEmpty(h)'
    BY <1>2, <2>1 DEF HasEmpty
  <2> QED BY <2>2, <2>3
<1> QED BY <1>3, <1>4 DEF OnPath

\* The next table, slot by slot.
LEMMA ReachedNext ==
    ASSUME groups' = groups,
           \A g : \A t \in Slots(groups), q \in Refs :
               q = ctrl'[t] /\ g = GroupOf(t) => OnPath(q, g)'
    PROVE  Reachable'
BY DEF Reachable, Slots, GroupOf, OnPath, Probes, Probe, Home, HasEmpty

\* A claimed slot is where the probe of its new reference gets to, for a group
\* without a free slot has no EMPTY one.
LEMMA ClaimReaches ==
    ASSUME TypeOK, Reachable, NEW r \in Refs, Claim(r)
    PROVE  Reachable'
<1>1. PICK s \in Slots(groups) :
          /\ FirstFree(r, s) /\ ctrl' = [ctrl EXCEPT ![s] = r] /\ groups' = groups
  BY DEF Claim
<1>2. PICK i \in Probes : Probe(r, i) = GroupOf(s) /\ \A j \in 0 .. i - 1 : ~HasFree(Probe(r, j))
  BY <1>1 DEF FirstFree
<1>3. DOMAIN ctrl = Slots(groups) /\ r # Empty
  BY MapAssumption DEF TypeOK
<1>4. ctrl'[s] = r /\ \A t \in Slots(groups) \ {s} : ctrl'[t] = ctrl[t]
  BY <1>1, <1>3
<1>5. \A g : HasEmpty(g)' => HasEmpty(g)
  BY <1>1, <1>3, <1>4 DEF HasEmpty
<1>6. OnPath(r, GroupOf(s))
  <2>1. \A g : HasEmpty(g) => HasFree(g)
    BY DEF HasEmpty, HasFree, Free
  <2> QED BY <1>2, <2>1 DEF OnPath
<1>7. ASSUME NEW t \in Slots(groups), NEW q \in Refs, NEW g, q = ctrl'[t], g = GroupOf(t)
      PROVE  OnPath(q, g)'
  <2>1. OnPath(q, g)
    BY <1>4, <1>6, <1>7 DEF Reachable
  <2> QED BY <1>1, <1>5, <2>1, PathKept
<1> QED BY <1>1, <1>7, ReachedNext

\* An erased slot turns EMPTY only in a group that has an EMPTY slot already.
LEMMA EraseReaches ==
    ASSUME TypeOK, Reachable, NEW r \in Refs, Erase(r)
    PROVE  Reachable'
<1>1. PICK s \in Slots(groups) :
          /\ ctrl' = [ctrl EXCEPT ![s] = IF HasEmpty(GroupOf(s)) THEN Empty ELSE Deleted]
          /\ groups' = groups
  BY DEF Erase
<1>2. DOMAIN ctrl = Slots(groups) /\ Empty # Deleted /\ Empty \notin Refs /\ Deleted \notin Refs
  BY MapAssumption DEF TypeOK
<1>3. /\ ctrl'[s] = IF HasEmpty(GroupOf(s)) THEN Empty ELSE Deleted
      /\ \A t \in Slots(groups) \ {s} : ctrl'[t] = ctrl[t]
  BY <1>1, <1>2
<1>4. ASSUME NEW g, HasEmpty(g)' PROVE HasEmpty(g)
  <2>1. PICK t \in Slots(groups) : GroupOf(t) = g /\ ctrl'[t] = Empty
    BY <1>1, <1>4 DEF HasEmpty, GroupOf, Slots
  <2>2. CASE t = s
    BY <1>2, <1>3, <2>1, <2>2
  <2>3. CASE t # s
    BY <1>3, <2>1, <2>3 DEF HasEmpty
  <2> QED BY <2>2, <2>3
<1>5. ASSUME NEW t \in Slots(groups), NEW q \in Refs, NEW g, q = ctrl'[t], g = GroupOf(t)
      PROVE  OnPath(q, g)'
  <2>1. ctrl'[t] = ctrl[t]
    BY <1>2, <1>3, <1>5
  <2>2. OnPath(q, g)
    BY <1>5, <2>1 DEF Reachable
  <2> QED BY <1>1, <1>4, <2>2, PathKept
<1> QED BY <1>1, <1>5, ReachedNext

\* A table without orders.
LEMMA ClearedReaches ==
    ASSUME NEW g, Cleared(g)
    PROVE  Reachable'
<1>1. \A s \in Slots(groups') : ctrl'[s] = Empty
  BY DEF Cleared
<1>2. Empty \notin Refs
  BY MapAssumption
<1> QED BY <1>1, <1>2 DEF Reachable, Slots

\* The orders are where their probes get to, whatever insertions, erasures and
\* rehashes there were.
THEOREM AlwaysReachable == Spec => []Reachable
<1>1. Init => Reachable
  <2> SUFFICES ASSUME Init PROVE Reachable
    OBVIOUS
  <2>1. \A s \in Slots(groups) : ctrl[s] = Empty
    BY DEF Init
  <2>2. Empty \notin Refs
    BY MapAssumption
  <2> QED BY <2>1, <2>2 DEF Reachable
<1>2. IInv /\ Reachable /\ [Next]_vars => Reachable'
  <2> SUFFICES ASSUME IInv, Reachable, [Next]_vars PROVE Reachable'
    OBVIOUS
  <2>1. TypeOK
    BY DEF IInv
  <2>2. ASSUME NEW r \in Refs, Insert(r) PROVE Reachable'
    BY <2>1, <2>2, ClaimReaches DEF Insert
  <2>3. ASSUME NEW r \in Refs, RehashBegin(r) PROVE Reachable'
    BY <2>3, ClearedReaches DEF RehashBegin
  <2>4. ASSUME NEW r \in Refs, Erase(r) PROVE Reachable'
    BY <2>1, <2>4, EraseReaches
  <2>5. CASE UNCHANGED table
    <3>1. groups' = groups /\ ctrl' = ctrl
      BY <2>5 DEF table
    <3> QED BY <3>1 DEF Reachable, OnPath, HasEmpty, Probe, Home, Probes, Slots, GroupOf
  <2>6. CASE RehashCopy
    <3>1. CASE old[cursor] \in Refs
      BY <2>1, <2>6, <3>1, ClaimReaches DEF RehashCopy
    <3>2. CASE old[cursor] \notin Refs
      BY <2>5, <2>6, <3>2 DEF RehashCopy
    <3> QED BY <3>1, <3>2
  <2>7. CASE RehashEnd
    <3>1. pending \in Refs
      BY <2>1, <2>7 DEF RehashEnd, TypeOK
    <3> QED BY <2>1, <2>7, <3>1, ClaimReaches DEF RehashEnd
  <2>8. CASE Clear
    BY <2>8, ClearedReaches DEF Clear
  <2>9. CASE UNCHANGED vars
    BY <2>5, <2>9 DEF vars
  <2> QED BY <2>2, <2>3, <2>4, <2>6, <2>7, <2>8, <2>9 DEF Next
<1> QED BY <1>1, <1>2, Invariant, PTL DEF Spec

\* Between operations find returns an order for every live reference and for no
\* other, for every hash and every history of insertions, erasures and rehashes.
THEOREM FindsExactlyLive == Spec => []FindsLive
<1>1. IInv /\ Reachable => FindsLive
  <2> SUFFICES ASSUME IInv, Reachable, pending = NoRef, NEW r \in Refs
               PROVE  Finds(r) <=> r \in live
    BY DEF FindsLive
  <2>1. r \in live <=> \E s \in Slots(groups) : ctrl[s] = r
    BY DEF IInv, Contents
  <2>2. ASSUME Finds(r) PROVE \E s \in Slots(groups) : ctrl[s] = r
    BY <2>2 DEF Finds, Holds
  <2>3. ASSUME NEW s \in Slots(groups), ctrl[s] = r PROVE Finds(r)
    <3>1. PICK i \in Probes : /\ Probe(r, i) = GroupOf(s)
                              /\ \A j \in 0 .. i - 1 : ~HasEmpty(Probe(r, j))
      BY <2>3 DEF Reachable, OnPath
    <3>2. Holds(Probe(r, i), r)
      BY <2>3, <3>1 DEF Holds
    <3> QED BY <3>1, <3>2 DEF Finds
  <2> QED BY <2>1, <2>2, <2>3
<1> QED BY <1>1, Invariant, AlwaysReachable, PTL

-----------------------------------------------------------------------------
(* Triangular steps visit every group of a table of a power of two.        *)

\* A non-empty set of numbers has a least one.
LEMMA Least ==
    ASSUME NEW T \in SUBSET Nat, T # {}
    PROVE  \E n \in T : \A m \in T : n <= m
<1> DEFINE R == {ss \in Nat \X Nat : ss[1] < ss[2]}
<1>1. IsWellFoundedOn(R, Nat)
  BY NatLessThanWellFounded DEF OpToRel
<1>2. \A x, y \in Nat : <<y, x>> \in R <=> y < x
  OBVIOUS
<1> HIDE DEF R
<1>3. T \subseteq Nat
  OBVIOUS
<1>4. PICK n \in T : \A m \in T : ~(<<m, n>> \in R)
  BY ONLY <1>1, <1>3, T # {}, WFMin, Zenon
<1>5. ASSUME NEW m \in T PROVE n <= m
  <2>1. m \in Nat /\ n \in Nat /\ ~(m < n)
    BY <1>2, <1>3, <1>4
  <2> QED BY ONLY <2>1
<1> QED BY <1>5

\* A product is as large as either factor, and of numbers a number.
LEMMA Products ==
    ASSUME NEW a \in Nat, NEW b \in Nat, a * b > 0
    PROVE  a * b \in Nat /\ a <= a * b /\ b <= a * b
<1>1. a > 0 /\ b > 0
  BY 0 * b = 0, a * 0 = 0
<1>2. PICK x \in Nat : a = x + 1
  <2>1. a - 1 \in Nat /\ a = (a - 1) + 1
    BY <1>1
  <2> QED BY <2>1
<1>3. PICK y \in Nat : b = y + 1
  <2>1. b - 1 \in Nat /\ b = (b - 1) + 1
    BY <1>1
  <2> QED BY <2>1
<1>4. x * y \in Nat /\ a * b = x * y + x + y + 1
  BY <1>2, <1>3
<1> QED BY <1>2, <1>3, <1>4

\* The bounds in PowerOfTwo are no restriction.
LEMMA OddDivisor ==
    ASSUME NEW n \in Nat, PowerOfTwo(n), NEW k \in Nat, NEW q \in Nat, n = (2 * k + 1) * q
    PROVE  k = 0
<1>1. n > 0 /\ 2 * k + 1 \in Nat
  BY DEF PowerOfTwo
<1>2. 2 * k + 1 <= n /\ q <= n
  BY <1>1, Products
<1>3. k \in 0 .. n /\ q \in 0 .. n
  BY <1>2
<1> QED BY <1>3 DEF PowerOfTwo

\* The odd multiples of a number.
OddTimes(c, b) == (2 * c + 1) * b

\* An odd number times an odd one is odd.
LEMMA Odd ==
    ASSUME NEW c \in Nat, NEW b \in Nat, NEW n \in Nat, OddTimes(c, b) = 2 * n
    PROVE  \E d \in Nat : b = 2 * d /\ OddTimes(c, d) = n
<1>1. PICK d \in Nat : b = 2 * d \/ b = 2 * d + 1
  <2>1. b \div 2 \in Nat /\ (b = 2 * (b \div 2) \/ b = 2 * (b \div 2) + 1)
    OBVIOUS
  <2> QED BY <2>1
<1>2. PICK p \in Nat : p = c * d
  OBVIOUS
<1>3. (2 * c + 1) * (2 * d) = 2 * (2 * p + d) /\ (2 * c + 1) * d = 2 * p + d
  BY <1>2
<1>4. (2 * c + 1) * (2 * d + 1) = 2 * (2 * p + c + d) + 1
  BY <1>2
<1>5. b = 2 * d
  <2>0. OddTimes(c, b) = (2 * c + 1) * b
    BY DEF OddTimes
  <2>1. \A x, y \in Nat : 2 * x + 1 # 2 * y
    OBVIOUS
  <2>2. 2 * p + c + d \in Nat
    OBVIOUS
  <2> QED BY <1>1, <1>4, <2>0, <2>1, <2>2
<1>6. 2 * (2 * p + d) = 2 * n
  BY <1>3, <1>5 DEF OddTimes
<1> QED BY <1>3, <1>5, <1>6 DEF OddTimes

\* Twice a power of two is one, and so is half of one.
LEMMA Double ==
    ASSUME NEW n \in Nat, PowerOfTwo(n)
    PROVE  PowerOfTwo(2 * n)
<1>1. n > 0
  BY DEF PowerOfTwo
<1>2. ASSUME NEW k \in 0 .. 2 * n, NEW q \in 0 .. 2 * n, 2 * n = (2 * k + 1) * q PROVE k = 0
  <2>1. k \in Nat /\ q \in Nat
    OBVIOUS
  <2>2. OddTimes(k, q) = 2 * n
    BY <1>2 DEF OddTimes
  <2>3. \E d \in Nat : q = 2 * d /\ OddTimes(k, d) = n
    BY ONLY <2>1, <2>2, n \in Nat, Odd
  <2>4. PICK d \in Nat : n = (2 * k + 1) * d
    BY <2>3 DEF OddTimes
  <2> QED BY ONLY <2>1, <2>4, n \in Nat, PowerOfTwo(n), OddDivisor
<1> QED BY <1>1, <1>2 DEF PowerOfTwo

\* An odd factor does not help a power of two to divide a number.
Divides(m, b) == \E p \in Nat : b = m * p

\* The power of two m divides what m divides an odd multiple of.
Cancels(m) == \A c, b, q \in Nat : OddTimes(c, b) = m * q => Divides(m, b)

\* A power of two is 1 or twice a smaller one.
LEMMA Half ==
    ASSUME NEW m \in Nat, PowerOfTwo(m), m # 1
    PROVE  \E n \in Nat : m = 2 * n /\ n < m /\ PowerOfTwo(n)
<1>1. m > 0
  BY DEF PowerOfTwo
<1>2. PICK n \in Nat : m = 2 * n \/ m = 2 * n + 1
  <2>1. m \div 2 \in Nat /\ (m = 2 * (m \div 2) \/ m = 2 * (m \div 2) + 1)
    OBVIOUS
  <2> QED BY <2>1
<1>3. m = 2 * n
  <2>1. ASSUME m = 2 * n + 1 PROVE FALSE
    <3>1. m = (2 * n + 1) * 1
      BY <2>1
    <3>2. n = 0
      BY <3>1, OddDivisor
    <3> QED BY <2>1, <3>2
  <2> QED BY <1>2, <2>1
<1>4. n > 0 /\ n < m
  BY <1>1, <1>3
<1>5. ASSUME NEW k \in 0 .. n, NEW q \in 0 .. n, n = (2 * k + 1) * q PROVE k = 0
  <2>1. k \in Nat /\ q \in Nat /\ 2 * q \in Nat
    OBVIOUS
  <2>2. (2 * k + 1) * (2 * q) = 2 * ((2 * k + 1) * q)
    BY <2>1
  <2>3. m = (2 * k + 1) * (2 * q)
    BY <1>3, <1>5, <2>2
  <2> QED BY <2>1, <2>3, OddDivisor
<1> QED BY <1>3, <1>4, <1>5 DEF PowerOfTwo

LEMMA OddFactor ==
    ASSUME NEW m \in Nat, PowerOfTwo(m)
    PROVE  Cancels(m)
<1> DEFINE T == {n \in Nat : PowerOfTwo(n) /\ ~Cancels(n)}
<1>1. SUFFICES ASSUME T # {} PROVE FALSE
  OBVIOUS
<1>2. PICK l \in T : \A n \in T : l <= n
  BY <1>1, Least
<1>3. l \in Nat /\ PowerOfTwo(l) /\ ~Cancels(l)
  OBVIOUS
<1>4. PICK c \in Nat, b \in Nat, q \in Nat : OddTimes(c, b) = l * q /\ ~Divides(l, b)
  BY <1>3 DEF Cancels
<1>5. l # 1
  BY <1>4 DEF Divides
<1>6. PICK n \in Nat : l = 2 * n /\ n < l /\ PowerOfTwo(n)
  BY <1>3, <1>5, Half
<1>7. Cancels(n)
  <2>1. n \notin T
    BY <1>2, <1>3, <1>6
  <2> QED BY <1>6, <2>1
<1>8. n * q \in Nat /\ l * q = 2 * (n * q)
  BY <1>6
<1>9. \E d \in Nat : b = 2 * d /\ OddTimes(c, d) = n * q
  <2>1. PICK x \in Nat : x = n * q
    BY <1>8
  <2>2. OddTimes(c, b) = 2 * x
    BY <1>4, <1>8, <2>1
  <2>3. \E d \in Nat : b = 2 * d /\ OddTimes(c, d) = x
    BY ONLY <2>2, x \in Nat, c \in Nat, b \in Nat, Odd
  <2> QED BY <2>1, <2>3
<1>10. PICK d \in Nat : b = 2 * d /\ OddTimes(c, d) = n * q
  BY <1>9
<1>11. PICK p \in Nat : d = n * p
  <2>1. Divides(n, d)
    BY ONLY <1>7, <1>10, c \in Nat, q \in Nat DEF Cancels
  <2> QED BY <2>1 DEF Divides
<1>12. b = l * p
  <2>1. l * p = 2 * (n * p)
    BY <1>6
  <2> QED BY <1>10, <1>11, <2>1
<1> QED BY <1>4, <1>12 DEF Divides

\* The sum of the first i steps.
Tri(i) == (i * (i + 1)) \div 2

LEMMA Triangular ==
    ASSUME NEW i \in Nat
    PROVE  Tri(i) \in Nat /\ 2 * Tri(i) = i * (i + 1)
<1>1. PICK a \in Nat : i = 2 * a \/ i = 2 * a + 1
  <2>1. i \div 2 \in Nat /\ (i = 2 * (i \div 2) \/ i = 2 * (i \div 2) + 1)
    OBVIOUS
  <2> QED BY <2>1
<1>2. PICK x \in Nat : i * (i + 1) = 2 * x
  <2>1. CASE i = 2 * a
    <3>1. a * (2 * a + 1) \in Nat /\ i * (i + 1) = 2 * (a * (2 * a + 1))
      BY <2>1
    <3> QED BY <3>1
  <2>2. CASE i = 2 * a + 1
    <3>1. (2 * a + 1) * (a + 1) \in Nat /\ i * (i + 1) = 2 * ((2 * a + 1) * (a + 1))
      BY <2>2
    <3> QED BY <3>1
  <2> QED BY <1>1, <2>1, <2>2
<1>3. (2 * x) \div 2 = x
  OBVIOUS
<1> QED BY <1>2, <1>3 DEF Tri

\* A multiple of a positive number is at least that number, or zero.
LEMMA NoSmallMultiple ==
    ASSUME NEW m \in Nat, NEW b \in Nat, b > 0, Divides(m, b)
    PROVE  m <= b
<1>1. PICK p \in Nat : b = m * p
  BY DEF Divides
<1>2. m * p > 0
  BY <1>1
<1> QED BY ONLY <1>1, <1>2, m \in Nat, Products

\* Two probes of fewer steps than there are groups end in different groups.
LEMMA StepsApart ==
    ASSUME NEW n \in Nat, PowerOfTwo(n), NEW h \in Nat, NEW i \in Nat, NEW j \in Nat,
           i < j, j < n
    PROVE  (h + Tri(i)) % n # (h + Tri(j)) % n
<1>1. SUFFICES ASSUME (h + Tri(i)) % n = (h + Tri(j)) % n PROVE FALSE
  OBVIOUS
<1>2. /\ Tri(i) \in Nat /\ 2 * Tri(i) = i * (i + 1)
      /\ Tri(j) \in Nat /\ 2 * Tri(j) = j * (j + 1)
  BY Triangular
<1>3. n > 0
  BY DEF PowerOfTwo
<1>4. PICK q \in Int : Tri(j) - Tri(i) = n * q
  <2>1. PICK x \in Nat, y \in Nat : x = h + Tri(i) /\ y = h + Tri(j)
    BY <1>2
  <2>2. x = n * (x \div n) + (x % n) /\ y = n * (y \div n) + (y % n)
    <3>1. \A z \in Nat : z = n * (z \div n) + (z % n)
      BY ONLY <1>3, n \in Nat
    <3> QED BY <3>1
  <2>3. x \div n \in Int /\ y \div n \in Int
    BY <1>3
  <2>4. PICK d \in Int, e \in Int : x \div n = d /\ y \div n = e
    BY <2>3
  <2>5. y - x = n * e - n * d
    <3>1. x = n * d + (x % n) /\ y = n * e + (y % n) /\ x % n = y % n
      BY <1>1, <2>1, <2>2, <2>4
    <3>2. PICK k \in Nat : k = x % n
      BY <1>3
    <3>3. PICK a \in Int, b \in Int : a = n * d /\ b = n * e
      OBVIOUS
    <3>4. x = a + k /\ y = b + k
      BY <3>1, <3>2, <3>3
    <3>5. y - x = b - a
      BY ONLY <3>4, a \in Int, b \in Int, k \in Nat
    <3> QED BY <3>3, <3>5
  <2>6. n * e - n * d = n * (e - d)
    OBVIOUS
  <2>7. e - d \in Int /\ Tri(j) - Tri(i) = n * (e - d)
    BY <1>2, <2>1, <2>5, <2>6
  <2> QED BY <2>7
<1>5. PICK u \in Nat, v \in Nat : u = j - i /\ v = j + i + 1
  OBVIOUS
<1>6. u * v = j * (j + 1) - i * (i + 1)
  BY <1>5
<1>7. PICK w \in Nat : w = 2 * n
  OBVIOUS
<1>8. u * v = w * q
  <2>1. w * q = 2 * (n * q)
    BY <1>7
  <2> QED BY <1>2, <1>4, <1>6, <2>1
<1>9. q \in Nat
  <2>1. u > 0 /\ v > 0 /\ w > 0
    BY <1>3, <1>5, <1>7
  <2>2. u * v > 0
    BY <2>1
  <2>3. \A k \in Nat : w * (-k) <= 0
    BY <2>1
  <2>4. q >= 0 \/ -q \in Nat
    OBVIOUS
  <2> QED BY <1>8, <2>2, <2>3, <2>4
<1>10. Cancels(w)
  BY <1>7, Double, OddFactor
<1>11. u > 0 /\ v > 0 /\ u < w /\ v < w
  BY <1>5, <1>7
<1>12. PICK c \in Nat : u = 2 * c + 1 \/ v = 2 * c + 1
  <2>1. u + v = 2 * j + 1
    BY <1>5
  <2>2. PICK x \in Nat : u = 2 * x \/ u = 2 * x + 1
    <3>1. u \div 2 \in Nat /\ (u = 2 * (u \div 2) \/ u = 2 * (u \div 2) + 1)
      OBVIOUS
    <3> QED BY <3>1
  <2>3. CASE u = 2 * x
    <3>1. j - x \in Nat /\ v = 2 * (j - x) + 1
      BY <1>11, <2>1, <2>3
    <3> QED BY <3>1
  <2> QED BY <2>2, <2>3
<1>13. CASE u = 2 * c + 1
  <2>1. OddTimes(c, v) = w * q
    BY <1>8, <1>13 DEF OddTimes
  <2>2. Divides(w, v)
    BY ONLY <1>9, <1>10, <2>1, c \in Nat, v \in Nat DEF Cancels
  <2> QED BY <1>11, <2>2, NoSmallMultiple
<1>14. CASE v = 2 * c + 1
  <2>1. OddTimes(c, u) = w * q
    <3>1. (2 * c + 1) * u = u * v
      BY <1>14
    <3> QED BY <1>8, <3>1 DEF OddTimes
  <2>2. Divides(w, u)
    BY ONLY <1>9, <1>10, <2>1, c \in Nat, u \in Nat DEF Cancels
  <2> QED BY <1>11, <2>2, NoSmallMultiple
<1> QED BY <1>12, <1>13, <1>14

\* The table is a power of two that the bits of the hash reach.
Sized == PowerOfTwo(groups) /\ groups <= HashRange

\* The home of a reference is a number; which one does not matter below.
LEMMA HomeType ==
    ASSUME TypeOK, Sized, NEW r \in Refs
    PROVE  Home(r) \in Nat
<1>1. groups \in Nat /\ groups > 0 /\ HashRange \in Nat /\ groups <= HashRange /\ Hash[r] \in Nat
  BY MapAssumption DEF TypeOK, Sized
<1>2. \A a, b \in Nat : a > 0 /\ a <= b => b \div a \in Nat /\ b \div a > 0
  OBVIOUS
<1>3. PICK d \in Nat : d = HashRange \div groups /\ d > 0
  BY ONLY <1>1, <1>2
<1>4. Hash[r] \div d \in Nat
  BY <1>1, <1>3
<1> QED BY <1>3, <1>4 DEF Home

\* The probe of a reference visits every group of the table.
LEMMA ProbeVisitsAll ==
    ASSUME TypeOK, Sized, NEW r \in Refs, NEW g \in Probes
    PROVE  \E i \in Probes : Probe(r, i) = g
<1>1. groups \in Nat /\ groups > 0 /\ PowerOfTwo(groups) /\ Home(r) \in Nat
  BY HomeType DEF TypeOK, Sized
<1>2. PICK n \in Nat, h \in Nat : n = groups /\ h = Home(r) /\ n > 0 /\ PowerOfTwo(n)
  BY <1>1
<1>3. \A i \in Nat : Probe(r, i) = (h + Tri(i)) % n
  BY <1>2 DEF Probe, Tri
<1>4. Probes = 0 .. n - 1
  BY <1>2 DEF Probes
<1> DEFINE f == [i \in Probes |-> Probe(r, i)]
<1>5. f \in [Probes -> Probes]
  <2>1. ASSUME NEW i \in Probes PROVE Probe(r, i) \in Probes
    <3>0. i \in Nat
      BY <1>4
    <3>1. i \in Nat /\ Tri(i) \in Nat
      BY ONLY <3>0, Triangular
    <3>2. PICK x \in Nat : x = h + Tri(i)
      BY <3>1
    <3>3. x % n \in 0 .. n - 1
      BY <1>2
    <3> QED BY <1>3, <1>4, <3>1, <3>2, <3>3
  <2> QED BY <2>1
<1>6. ASSUME NEW i \in Probes, NEW j \in Probes, f[i] = f[j] PROVE i = j
  <2>1. i \in Nat /\ j \in Nat /\ i < n /\ j < n
    BY <1>4
  <2>2. (h + Tri(i)) % n = (h + Tri(j)) % n
    BY <1>3, <1>6, <2>1
  <2>3. ~(i < j)
    BY ONLY <1>2, <2>1, <2>2, n \in Nat, h \in Nat, StepsApart
  <2>4. ~(j < i)
    BY ONLY <1>2, <2>1, <2>2, n \in Nat, h \in Nat, StepsApart
  <2> QED BY <2>1, <2>3, <2>4
<1> HIDE DEF f
<1>7. f \in Injection(Probes, Probes)
  BY <1>5, <1>6 DEF Injection, IsInjective
<1>8. IsFiniteSet(Probes)
  <2>1. 0 \in Int /\ n - 1 \in Int
    OBVIOUS
  <2> QED BY <1>4, <2>1, FS_Interval
<1>9. f \in Surjection(Probes, Probes)
  BY <1>7, <1>8, FS_Injection
<1>10. PICK i \in Probes : f[i] = g
  BY <1>9 DEF Surjection
<1> QED BY <1>10 DEF f

\* Orders are references, and each has one slot at most.
LEMMA NoMoreThanRefs ==
    ASSUME IInv
    PROVE  size \in Nat /\ Cardinality(Refs) \in Nat /\ size <= Cardinality(Refs)
<1> DEFINE F == With(Slots(groups), ctrl, Refs)
           f == [s \in F |-> ctrl[s]]
<1>1. IsFiniteSet(Refs)
  BY MapAssumption
<1>2. size = Cardinality(F) /\ size \in Nat
  BY Facts DEF IInv, Budget, TypeOK
<1>3. f \in Injection(F, Refs)
  BY DEF IInv, HeldOnce, With, Injection, IsInjective
<1> HIDE DEF F, f
<1>4. Cardinality(F) <= Cardinality(Refs)
  BY <1>1, <1>3, FS_Injection
<1> QED BY <1>1, <1>2, <1>4, FS_CardinalityType

\* A table that grows holds so many orders that the bits of the hash reach twice
\* its size.
LEMMA GrowFits ==
    ASSUME IInv, Sized, Grows
    PROVE  2 * groups <= HashRange
<1>1. /\ groups \in Nat /\ W \in Nat /\ W > 0 /\ HashRange \in Nat
      /\ 32 * Cardinality(Refs) <= 7 * W * HashRange
      /\ size \in Nat /\ Cardinality(Refs) \in Nat /\ size <= Cardinality(Refs)
  BY MapAssumption, NoMoreThanRefs DEF IInv, TypeOK
<1>2. PICK c \in Nat, t \in Nat : c = groups * W /\ t = W * HashRange
  BY <1>1
<1>3. 7 * W * HashRange = 7 * t
  BY <1>1, <1>2
<1>4. 8 * MaxLoad(c) >= 7 * c /\ MaxLoad(c) \in Nat
  BY DEF MaxLoad
<1>5. 2 * size > MaxLoad(c)
  BY <1>1, <1>2 DEF Grows
<1>6. 2 * c < t
  <2>1. PICK l \in Nat, k \in Nat : l = MaxLoad(c) /\ k = Cardinality(Refs)
    BY <1>1, <1>4
  <2>2. 8 * l >= 7 * c /\ 2 * size > l /\ 32 * k <= 7 * t /\ size <= k /\ size \in Nat
    BY <1>1, <1>3, <1>4, <1>5, <2>1
  <2> QED BY ONLY <2>2, c \in Nat, t \in Nat, l \in Nat, k \in Nat
<1>7. 2 * c = W * (2 * groups)
  BY <1>1, <1>2
<1>8. \A a, b \in Nat : a >= b => W * a >= W * b
  BY <1>1
<1>9. PICK a \in Nat : a = 2 * groups
  BY <1>1
<1>10. W * a < W * HashRange
  BY <1>2, <1>6, <1>7, <1>9
<1>11. a < HashRange
  <2>1. W * a \in Nat /\ W * HashRange \in Nat
    BY <1>1
  <2> QED BY <1>1, <1>8, <1>10, <2>1
<1> QED BY <1>1, <1>9, <1>11

\* Every table is a power of two that the bits of the hash reach.
THEOREM AlwaysSized == Spec => []Sized
<1>1. Init => Sized
  BY MapAssumption DEF Init, Sized
<1>2. IInv /\ Sized /\ [Next]_vars => Sized'
  <2> SUFFICES ASSUME IInv, Sized, [Next]_vars PROVE Sized'
    OBVIOUS
  <2>1. groups' = groups => Sized'
    BY DEF Sized
  <2>2. ASSUME NEW r \in Refs, RehashBegin(r) PROVE Sized'
    <3>1. CASE Grows
      <4>1. groups' = 2 * groups
        BY <2>2, <3>1 DEF RehashBegin, Cleared, IInv, TypeOK
      <4>2. PowerOfTwo(2 * groups)
        BY Double DEF IInv, TypeOK, Sized
      <4> QED BY <3>1, <4>1, <4>2, GrowFits DEF Sized
    <3>2. CASE ~Grows
      BY <2>1, <2>2, <3>2 DEF RehashBegin, Cleared
    <3> QED BY <3>1, <3>2
  <2>3. ASSUME NEW r \in Refs, Insert(r) \/ Erase(r) PROVE groups' = groups
    BY <2>3 DEF Insert, Claim, Erase
  <2>4. CASE RehashCopy
    BY <2>1, <2>4 DEF RehashCopy, Claim, table
  <2>5. CASE RehashEnd \/ Clear
    BY <2>1, <2>5 DEF RehashEnd, Clear, Claim, Cleared
  <2>6. CASE UNCHANGED vars
    BY <2>1, <2>6 DEF vars, table
  <2> QED BY <2>1, <2>2, <2>3, <2>4, <2>5, <2>6 DEF Next
<1> QED BY <1>1, <1>2, Invariant, PTL DEF Spec

\* Every probe ends, at every moment, for every hash: in a table of a power of two
\* it visits every group, and one of them has an EMPTY slot.
THEOREM ProbesTerminate == Spec => []ProbesEnd
<1>1. TypeOK /\ Sized /\ EmptyIsLeft => ProbesEnd
  <2> SUFFICES ASSUME TypeOK, Sized, EmptyIsLeft, NEW r \in Refs PROVE Terminates(r)
    BY DEF ProbesEnd
  <2>1. PICK s \in Slots(groups) : ctrl[s] = Empty
    BY DEF EmptyIsLeft
  <2>2. HasEmpty(GroupOf(s))
    BY <2>1 DEF HasEmpty
  <2>3. GroupOf(s) \in Probes
    <3>1. groups \in Nat /\ W \in Nat /\ W > 0 /\ s \in Nat /\ s < groups * W
      BY MapAssumption DEF TypeOK, Slots
    <3>2. PICK q \in Nat : q = s \div W
      BY <3>1
    <3>3. W * q <= s
      BY <3>1, <3>2
    <3>4. \A a, b \in Nat : a >= b => W * a >= W * b
      BY <3>1
    <3>5. groups * W = W * groups /\ W * q \in Nat /\ W * groups \in Nat
      BY <3>1
    <3>6. q < groups
      BY <3>1, <3>3, <3>4, <3>5
    <3> QED BY <3>1, <3>2, <3>6 DEF GroupOf, Probes
  <2>4. PICK i \in Probes : Probe(r, i) = GroupOf(s)
    BY <2>3, ProbeVisitsAll
  <2> QED BY <2>2, <2>4 DEF Terminates
<1> QED BY <1>1, TypeCorrect, AlwaysSized, NeverFull, PTL
=============================================================================
