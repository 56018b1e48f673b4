------------------------- MODULE FeedHandler_proofs -------------------------
(***************************************************************************)
(* Proofs about the live path and the engine at its end, for any sessions, *)
(* packet sizes, streams, names, references, locates, prices and share     *)
(* counts, and every order in which the network delivers packets.          *)
(*                                                                         *)
(*   - The engine and the Publisher: sums of shares over a set of orders,  *)
(*     what each engine operation keeps true of an engine value, the       *)
(*     invariant of the feed thread, and what the depth profiler foresees. *)
(*   - The live path: what each message does to an engine, the generator   *)
(*     and its stream, and the book of the handler against the engine that *)
(*     gets every message.  What the sequencer does with a packet is       *)
(*     proved in MoldSequencer_proofs.                                     *)
(***************************************************************************)
EXTENDS Publisher, FeedHandler, FiniteSetTheorems, SequenceTheorems, WellFoundedInduction, TLAPS

USE DEF Sides

\* The engine part of the invariant: an engine value in which the levels count
\* the live orders.
Good(e) == /\ IsEngine(e)
           /\ IsFiniteSet(Live(e))
           /\ CountsMatch(e)
           /\ ~e.missing

\* What an update owes to its sink: a top of book that it does not report as
\* changed is unchanged.
Reports(e, u) ==
    /\ u.found \in BOOLEAN
    /\ u.top \in BOOLEAN
    /\ ~u.found => u.engine = e
    /\ u.found => u.locate \in Locates
    /\ \A l \in Locates :
           ~(u.found /\ u.top /\ l = u.locate) => Top(u.engine, l) = Top(e, l)

-----------------------------------------------------------------------------
(* Least elements: induction, for sets of counterexamples.                 *)

\* The least-number principle.
LEMMA Least ==
  ASSUME NEW T \in SUBSET Nat, T # {}
  PROVE  \E n \in T : \A m \in T : n <= m
<1> DEFINE R == {ss \in Nat \X Nat : ss[1] < ss[2]}
<1>1. IsWellFoundedOn(R, Nat)
  BY NatLessThanWellFounded DEF OpToRel
<1>2. \A x, y \in Nat : <<y, x>> \in R <=> y < x
  OBVIOUS
<1> HIDE DEF R
<1>3. T \subseteq Nat
  OBVIOUS
<1>4. PICK n \in T : \A m \in T : ~(<<m, n>> \in R)
  BY ONLY <1>1, <1>3, T # {}, WFMin, Zenon
<1>5. ASSUME NEW m \in T PROVE n <= m
  <2>1. m \in Nat /\ n \in Nat /\ ~(m < n)
    BY <1>2, <1>3, <1>4
  <2> QED BY ONLY <2>1
<1> QED BY <1>5

\* A non-empty set of finite sets has a member with no smaller member in it.
LEMMA LeastSubset ==
  ASSUME NEW S, NEW T, T # {}, T \subseteq FiniteSubsetsOf(S)
  PROVE  \E X \in T : \A Y \in T : Y \subseteq X => Y = X
<1> DEFINE R == StrictSubsetOrdering(S)
<1>2. PICK X \in T : \A Y \in T : ~(<<Y, X>> \in R)
  <2> HIDE DEF R
  <2>1. IsWellFoundedOn(R, FiniteSubsetsOf(S))
    BY FS_StrictSubsetOrderingWellFounded DEF R
  <2> QED BY <2>1, WFMin
<1>3. ASSUME NEW Y \in T, Y \subseteq X, Y # X PROVE FALSE
  <2>1. <<Y, X>> \in R
    BY <1>3 DEF StrictSubsetOrdering, FiniteSubsetsOf
  <2> QED BY <1>2, <2>1
<1> QED BY <1>3

-----------------------------------------------------------------------------
(* Sums of shares.                                                         *)

\* The shares of the orders in S.
SharesOf(o, S) == MapThenSumSet(LAMBDA r : o[r].shares, S)

\* The element the fold of the community module takes first.
Chosen(S) == CHOOSE x \in S : TRUE

\* g sums over every set in D.
Sums(o, D, g) ==
    g = [S \in D |-> IF S = {} THEN 0 ELSE o[Chosen(S)].shares + g[S \ {Chosen(S)}]]

\* The definition of the fold.
LEMMA SharesDef ==
    ASSUME NEW o, NEW S
    PROVE  SharesOf(o, S) = (CHOOSE g : Sums(o, SUBSET S, g))[S]
BY DEF SharesOf, Sums, Chosen, MapThenSumSet, MapThenFoldSet

\* A set without its chosen element.
LEMMA Less ==
    ASSUME NEW S, IsFiniteSet(S), S # {}
    PROVE  /\ Chosen(S) \in S /\ IsFiniteSet(S \ {Chosen(S)})
           /\ S \ {Chosen(S)} \subseteq S /\ S \ {Chosen(S)} # S
           /\ Cardinality(S) \in Nat /\ Cardinality(S) > 0
           /\ Cardinality(S \ {Chosen(S)}) = Cardinality(S) - 1
<1>1. Chosen(S) \in S
  BY DEF Chosen
<1>2. Cardinality(S) \in Nat /\ Cardinality(S) # 0
  BY FS_CardinalityType, FS_EmptySet
<1>3. IsFiniteSet(S \ {Chosen(S)}) /\ Cardinality(S \ {Chosen(S)}) = Cardinality(S) - 1
  BY <1>1, FS_RemoveElement
<1> QED BY <1>1, <1>2, <1>3

\* There are such sums: first for sets of at most n elements.
Small(S, n) == {X \in SUBSET S : Cardinality(X) <= n}

LEMMA SumsUpTo ==
    ASSUME NEW o, NEW S, IsFiniteSet(S), NEW n \in Nat
    PROVE  \E g : Sums(o, Small(S, n), g)
<1> DEFINE D(m) == Small(S, m)
           T == {m \in Nat : ~ \E g : Sums(o, D(m), g)}
<1> USE DEF Small
<1>0. \A X \in SUBSET S : IsFiniteSet(X) /\ Cardinality(X) \in Nat
  BY FS_Subset, FS_CardinalityType
<1>1. SUFFICES ASSUME T # {} PROVE FALSE
  OBVIOUS
<1>2. PICK m \in T : \A k \in T : m <= k
  <2> HIDE DEF D
  <2>1. T \in SUBSET Nat
    OBVIOUS
  <2> HIDE DEF T
  <2> QED BY <1>1, <2>1, Least
<1>3. m \in Nat
  OBVIOUS
<1>4. CASE m = 0
  <2>1. \A X \in D(0) : X = {}
    <3>1. TAKE X \in D(0)
    <3>2. Cardinality(X) = 0 /\ IsFiniteSet(X)
      BY <1>0
    <3> QED BY <3>2, FS_EmptySet
  <2> DEFINE g == [X \in D(0) |-> 0]
  <2>2. Sums(o, D(0), g)
    <3> HIDE DEF D
    <3> QED BY <2>1 DEF Sums
  <2> QED BY <1>4, <2>2
<1>5. CASE m # 0
  <2>1. m - 1 \in Nat /\ m - 1 \notin T
    <3> HIDE DEF T
    <3> QED BY <1>2, <1>3, <1>5
  <2>2. PICK g : Sums(o, D(m - 1), g)
    BY <2>1
  <2> DEFINE h == [X \in D(m) |-> IF X = {} THEN 0
                                  ELSE o[Chosen(X)].shares + g[X \ {Chosen(X)}]]
  <2>3. ASSUME NEW X \in D(m - 1) PROVE h[X] = g[X]
    <3>1. X \in D(m)
      BY <1>0, <1>3
    <3> HIDE DEF D
    <3> QED BY <2>2, <3>1 DEF Sums
  <2>4. ASSUME NEW X \in D(m), X # {} PROVE h[X \ {Chosen(X)}] = g[X \ {Chosen(X)}]
    <3>1. IsFiniteSet(X) /\ X \in SUBSET S
      BY <1>0
    <3>2. /\ X \ {Chosen(X)} \in SUBSET S
          /\ Cardinality(X \ {Chosen(X)}) = Cardinality(X) - 1
          /\ Cardinality(X) \in Nat
      BY <2>4, <3>1, Less
    <3>3. X \ {Chosen(X)} \in D(m - 1)
      BY <1>3, <3>2
    <3> QED BY <2>3, <3>3
  <2>5. Sums(o, D(m), h)
    <3> HIDE DEF D
    <3> QED BY <2>4 DEF Sums
  <2> QED BY <1>3, <2>5
<1> QED BY <1>4, <1>5

\* Then for all subsets.
LEMMA SumsExist ==
    ASSUME NEW o, NEW S, IsFiniteSet(S)
    PROVE  \E g : Sums(o, SUBSET S, g)
<1>1. Cardinality(S) \in Nat /\ \A X \in SUBSET S : Cardinality(X) <= Cardinality(S)
  BY FS_CardinalityType, FS_Subset
<1>2. SUBSET S = Small(S, Cardinality(S))
  BY <1>1 DEF Small
<1>3. \E g : Sums(o, Small(S, Cardinality(S)), g)
  BY <1>1, SumsUpTo
<1> QED BY <1>2, <1>3

\* Two of them agree.
LEMMA SumsAgree ==
    ASSUME NEW o, NEW S, NEW Q, IsFiniteSet(Q), Q \subseteq S, NEW g, NEW h,
           Sums(o, SUBSET S, g), Sums(o, SUBSET Q, h)
    PROVE  g[Q] = h[Q]
<1> DEFINE T == {X \in SUBSET Q : g[X] # h[X]}
<1>1. SUFFICES ASSUME T # {} PROVE FALSE
  OBVIOUS
<1>2. T \subseteq FiniteSubsetsOf(Q)
  BY FS_Subset DEF FiniteSubsetsOf
<1>3. PICK X \in T : \A Y \in T : Y \subseteq X => Y = X
  <2> HIDE DEF T
  <2> QED BY <1>1, <1>2, LeastSubset
<1>4. X \in SUBSET Q /\ X \in SUBSET S /\ IsFiniteSet(X) /\ g[X] # h[X]
  BY <1>2 DEF FiniteSubsetsOf
<1>5. CASE X = {}
  BY <1>4, <1>5 DEF Sums
<1>6. CASE X # {}
  <2>1. /\ X \ {Chosen(X)} \subseteq X /\ X \ {Chosen(X)} # X
    BY <1>4, <1>6, Less
  <2>2. g[X \ {Chosen(X)}] = h[X \ {Chosen(X)}]
    BY <1>3, <1>4, <2>1
  <2>3. /\ g[X] = o[Chosen(X)].shares + g[X \ {Chosen(X)}]
        /\ h[X] = o[Chosen(X)].shares + h[X \ {Chosen(X)}]
    BY <1>4, <1>6 DEF Sums
  <2> QED BY <1>4, <2>2, <2>3
<1> QED BY <1>5, <1>6

\* A sum is that of the chosen element and the others.
LEMMA SharesStep ==
    ASSUME NEW o, NEW S, IsFiniteSet(S)
    PROVE  SharesOf(o, S) = IF S = {} THEN 0
                          ELSE o[Chosen(S)].shares + SharesOf(o, S \ {Chosen(S)})
<1> DEFINE G(X) == CHOOSE g : Sums(o, SUBSET X, g)
<1>1. \A X : IsFiniteSet(X) => Sums(o, SUBSET X, G(X))
  BY SumsExist
<1>2. \A X : SharesOf(o, X) = G(X)[X]
  BY SharesDef
<1> HIDE DEF G
<1>3. CASE S = {}
  <2>1. Sums(o, SUBSET S, G(S))
    BY <1>1
  <2> QED BY <1>2, <1>3, <2>1 DEF Sums
<1>4. CASE S # {}
  <2> DEFINE Q == S \ {Chosen(S)}
  <2>1. IsFiniteSet(Q) /\ Q \subseteq S /\ Q \in SUBSET S
    BY <1>4, Less
  <2>2. Sums(o, SUBSET S, G(S)) /\ Sums(o, SUBSET Q, G(Q))
    BY <1>1, <2>1
  <2>3. G(S)[Q] = G(Q)[Q]
    <3> HIDE DEF Q
    <3> QED BY <2>1, <2>2, SumsAgree
  <2>4. G(S)[S] = o[Chosen(S)].shares + G(S)[Q]
    BY <1>4, <2>2 DEF Sums
  <2> QED BY <1>2, <1>4, <2>3, <2>4
<1> QED BY <1>3, <1>4

\* The empty sum.
LEMMA SharesEmpty == ASSUME NEW o PROVE SharesOf(o, {}) = 0
BY FS_EmptySet, SharesStep

\* The sum of natural numbers is one.
LEMMA SharesType ==
    ASSUME NEW o, NEW S, IsFiniteSet(S), \A r \in S : o[r].shares \in Nat
    PROVE  SharesOf(o, S) \in Nat
<1> DEFINE T == {X \in SUBSET S : SharesOf(o, X) \notin Nat}
<1>1. SUFFICES ASSUME T # {} PROVE FALSE
  OBVIOUS
<1>2. T \subseteq FiniteSubsetsOf(S)
  BY FS_Subset DEF FiniteSubsetsOf
<1>3. PICK X \in T : \A Y \in T : Y \subseteq X => Y = X
  <2> HIDE DEF T
  <2> QED BY <1>1, <1>2, LeastSubset
<1>4. X \in SUBSET S /\ IsFiniteSet(X) /\ SharesOf(o, X) \notin Nat
  BY <1>2 DEF FiniteSubsetsOf
<1>5. X # {}
  BY <1>4, SharesEmpty
<1> DEFINE Y == X \ {Chosen(X)}
<1>6. Chosen(X) \in X /\ Y \in SUBSET S /\ Y \subseteq X /\ Y # X
  BY <1>4, <1>5, Less
<1>7. SharesOf(o, X) = o[Chosen(X)].shares + SharesOf(o, Y)
  BY <1>4, <1>5, SharesStep
<1> HIDE DEF Y
<1>8. SharesOf(o, Y) \in Nat
  BY <1>3, <1>6
<1>9. o[Chosen(X)].shares \in Nat
  BY <1>4, <1>6
<1> QED BY <1>4, <1>7, <1>8, <1>9

\* Any element may be taken out first.
LEMMA SharesWithout ==
    ASSUME NEW o, NEW S, IsFiniteSet(S), \A r \in S : o[r].shares \in Nat, NEW x \in S
    PROVE  SharesOf(o, S) = o[x].shares + SharesOf(o, S \ {x})
<1> DEFINE T == {X \in SUBSET S : \E y \in X : SharesOf(o, X) # o[y].shares + SharesOf(o, X \ {y})}
<1>1. SUFFICES ASSUME T # {} PROVE FALSE
  OBVIOUS
<1>2. T \subseteq FiniteSubsetsOf(S)
  BY FS_Subset DEF FiniteSubsetsOf
<1>3. PICK X \in T : \A Y \in T : Y \subseteq X => Y = X
  <2> HIDE DEF T
  <2> QED BY <1>1, <1>2, LeastSubset
<1>4. X \in SUBSET S /\ IsFiniteSet(X)
  BY <1>2 DEF FiniteSubsetsOf
<1>5. PICK y \in X : SharesOf(o, X) # o[y].shares + SharesOf(o, X \ {y})
  OBVIOUS
<1>6. PICK c : c = Chosen(X)
  OBVIOUS
<1>7. c \in X /\ SharesOf(o, X) = o[c].shares + SharesOf(o, X \ {c})
  BY <1>4, <1>6, Less, SharesStep
<1>8. c # y
  BY <1>5, <1>7
<1>9. \A Y, z : Y \in SUBSET X /\ Y # X /\ z \in Y =>
                  SharesOf(o, Y) = o[z].shares + SharesOf(o, Y \ {z})
  BY <1>3, <1>4
<1>10. SharesOf(o, X \ {c}) = o[y].shares + SharesOf(o, (X \ {c}) \ {y})
  BY <1>7, <1>8, <1>9
<1>11. SharesOf(o, X \ {y}) = o[c].shares + SharesOf(o, (X \ {y}) \ {c})
  BY <1>7, <1>8, <1>9
<1>12. (X \ {c}) \ {y} = (X \ {y}) \ {c}
  OBVIOUS
<1> DEFINE rest == SharesOf(o, (X \ {y}) \ {c})
<1>13. rest \in Nat /\ o[c].shares \in Nat /\ o[y].shares \in Nat
  <2>1. IsFiniteSet((X \ {y}) \ {c})
    BY <1>4, FS_RemoveElement
  <2> QED BY <1>4, <1>7, <2>1, SharesType
<1> HIDE DEF rest
<1>14. SharesOf(o, X) = o[c].shares + (o[y].shares + rest)
  BY <1>7, <1>10, <1>12 DEF rest
<1>15. SharesOf(o, X \ {y}) = o[c].shares + rest
  BY <1>11 DEF rest
<1>16. o[c].shares + (o[y].shares + rest) = o[y].shares + (o[c].shares + rest)
  BY <1>13
<1> QED BY <1>5, <1>14, <1>15, <1>16

\* Orders that agree on a set have the same sum.
LEMMA SharesSame ==
    ASSUME NEW o, NEW q, NEW S, IsFiniteSet(S), \A r \in S : o[r].shares = q[r].shares
    PROVE  SharesOf(o, S) = SharesOf(q, S)
<1> DEFINE T == {X \in SUBSET S : SharesOf(o, X) # SharesOf(q, X)}
<1>1. SUFFICES ASSUME T # {} PROVE FALSE
  OBVIOUS
<1>2. T \subseteq FiniteSubsetsOf(S)
  BY FS_Subset DEF FiniteSubsetsOf
<1>3. PICK X \in T : \A Y \in T : Y \subseteq X => Y = X
  <2> HIDE DEF T
  <2> QED BY <1>1, <1>2, LeastSubset
<1>4. X \in SUBSET S /\ IsFiniteSet(X) /\ SharesOf(o, X) # SharesOf(q, X)
  BY <1>2 DEF FiniteSubsetsOf
<1>5. X # {}
  BY <1>4, SharesEmpty
<1> DEFINE Y == X \ {Chosen(X)}
<1>6. Chosen(X) \in X /\ Y \in SUBSET S /\ Y \subseteq X /\ Y # X
  BY <1>4, <1>5, Less
<1>7. /\ SharesOf(o, X) = o[Chosen(X)].shares + SharesOf(o, Y)
      /\ SharesOf(q, X) = q[Chosen(X)].shares + SharesOf(q, Y)
  BY <1>4, <1>5, SharesStep
<1> HIDE DEF Y
<1>8. SharesOf(o, Y) = SharesOf(q, Y)
  BY <1>3, <1>6
<1> QED BY <1>4, <1>6, <1>7, <1>8

\* What a further order adds to a sum.
LEMMA SharesAdd ==
    ASSUME NEW o, NEW q, NEW S, IsFiniteSet(S), NEW x, x \notin S, NEW n \in Nat,
           \A r \in S : o[r].shares \in Nat /\ q[r].shares = o[r].shares,
           q[x].shares = n
    PROVE  SharesOf(q, S \cup {x}) = SharesOf(o, S) + n
<1> DEFINE T == S \cup {x}
<1>1. IsFiniteSet(T) /\ x \in T /\ T \ {x} = S
  BY FS_AddElement
<1>2. \A r \in T : q[r].shares \in Nat
  <2>1. \A r \in S : q[r].shares \in Nat
    OBVIOUS
  <2>2. q[x].shares \in Nat
    OBVIOUS
  <2> QED BY <2>1, <2>2
<1> HIDE DEF T
<1>3. SharesOf(q, T) = q[x].shares + SharesOf(q, T \ {x})
  BY <1>1, <1>2, SharesWithout
<1>4. SharesOf(q, S) = SharesOf(o, S) /\ SharesOf(o, S) \in Nat
  BY SharesSame, SharesType
<1>5. SharesOf(q, T) = n + SharesOf(q, S)
  BY <1>1, <1>3
<1>6. SharesOf(q, T) = SharesOf(o, S) + n
  BY <1>4, <1>5
<1> QED BY <1>6 DEF T

\* What an order that leaves takes from a sum.
LEMMA SharesLeave ==
    ASSUME NEW o, NEW q, NEW S, IsFiniteSet(S), NEW x \in S,
           \A r \in S : o[r].shares \in Nat,
           NEW T, T = S \ {x}, \A r \in T : q[r].shares = o[r].shares
    PROVE  SharesOf(q, T) = SharesOf(o, S) - o[x].shares
<1>1. IsFiniteSet(T) /\ \A r \in T : o[r].shares \in Nat /\ q[r].shares = o[r].shares
  BY FS_RemoveElement
<1>2. SharesOf(o, S) = o[x].shares + SharesOf(o, T)
  BY SharesWithout
<1>3. SharesOf(q, T) = SharesOf(o, T) /\ SharesOf(o, T) \in Nat
  BY <1>1, SharesSame, SharesType
<1>4. o[x].shares \in Nat
  OBVIOUS
<1> QED BY <1>2, <1>3, <1>4

\* What an order that stays with fewer shares takes from a sum.
LEMMA SharesShrink ==
    ASSUME NEW o, NEW q, NEW S, IsFiniteSet(S), NEW x \in S, NEW n \in Nat,
           \A r \in S : o[r].shares \in Nat,
           \A r \in S \ {x} : q[r].shares = o[r].shares,
           q[x].shares = o[x].shares - n, q[x].shares \in Nat
    PROVE  SharesOf(q, S) = SharesOf(o, S) - n
<1>1. \A r \in S : q[r].shares \in Nat
  OBVIOUS
<1>2. SharesOf(q, S) = q[x].shares + SharesOf(q, S \ {x})
  BY <1>1, SharesWithout
<1>3. SharesOf(q, S \ {x}) = SharesOf(o, S) - o[x].shares
  BY SharesLeave
<1>4. SharesOf(o, S) \in Nat /\ o[x].shares \in Nat
  BY SharesType
<1>5. \A i, j, k \in Nat : (j - k) + (i - j) = i - k
  OBVIOUS
<1> QED BY <1>2, <1>3, <1>4, <1>5

-----------------------------------------------------------------------------
(* One side.                                                               *)

\* The key of a price is a key.
LEMMA KeyType == ASSUME NEW s \in Sides, NEW p \in Prices PROVE Key(s, p) \in Keys
BY BookAssumption DEF Key, Keys

\* Adding an order keeps a side a side.
LEMMA AddSide ==
    ASSUME NEW lv, IsSide(lv), NEW key \in Keys, NEW n \in Nat
    PROVE  /\ IsSide(LevelAdd(lv, key, n))
           /\ DOMAIN LevelAdd(lv, key, n) = DOMAIN lv \cup {key}
BY DEF IsSide, LevelAdd

\* So does reducing an order.
LEMMA ReduceSide ==
    ASSUME NEW lv, IsSide(lv), NEW key \in DOMAIN lv, NEW n \in Nat, NEW gone \in BOOLEAN
    PROVE  IsSide(LevelReduce(lv, key, n, gone))
BY DEF IsSide, LevelReduce

\* An order added below the best level leaves the top of its side alone.
LEMMA AddTop ==
    ASSUME NEW lv, IsSide(lv), NEW key \in Keys, NEW n \in Nat, ~IsTop(lv, key),
           NEW side
    PROVE  SideTop(side, LevelAdd(lv, key, n)) = SideTop(side, lv)
<1> DEFINE new == LevelAdd(lv, key, n)
<1>1. PICK k \in DOMAIN lv : ~(k <= key)
  BY DEF IsTop
<1>2. DOMAIN new = DOMAIN lv \cup {key} /\ DOMAIN lv \subseteq Int /\ key \in Int
  <2>1. DOMAIN new = DOMAIN lv \cup {key}
    BY AddSide
  <2>2. DOMAIN lv \subseteq Int /\ key \in Int
    BY BookAssumption DEF IsSide, Keys
  <2> QED BY <2>1, <2>2
<1>3. \A j \in DOMAIN lv : j # key => new[j] = lv[j]
  BY DEF LevelAdd
<1> HIDE DEF new
<1>4. BestKeys(new) = BestKeys(lv)
  BY <1>1, <1>2 DEF BestKeys, IsTop
<1>5. key \notin BestKeys(lv)
  BY <1>1, <1>2 DEF BestKeys, IsTop
<1>6. \A j \in BestKeys(lv) : new[j] = lv[j]
  BY <1>3, <1>5 DEF BestKeys
<1>7. SideTop(side, new) = SideTop(side, lv)
  <2>1. Best(new) = Best(lv)
    BY <1>4 DEF Best
  <2>2. BestKeys(lv) # {} => new[Best(lv)] = lv[Best(lv)]
    BY <1>6 DEF Best
  <2> QED BY <1>4, <2>1, <2>2 DEF SideTop
<1> QED BY <1>7 DEF new

\* An order reduced below the best level leaves the top of its side alone.
LEMMA ReduceTop ==
    ASSUME NEW lv, IsSide(lv), NEW key \in DOMAIN lv, NEW n \in Nat,
           NEW gone \in BOOLEAN, ~IsTop(lv, key), NEW side
    PROVE  SideTop(side, LevelReduce(lv, key, n, gone)) = SideTop(side, lv)
<1> DEFINE new == LevelReduce(lv, key, n, gone)
<1>1. PICK k \in DOMAIN lv : ~(k <= key)
  BY DEF IsTop
<1>2. /\ DOMAIN new \subseteq DOMAIN lv
      /\ DOMAIN lv \ {key} \subseteq DOMAIN new
      /\ DOMAIN lv \subseteq Int /\ key \in Int
  BY BookAssumption DEF IsSide, Keys, LevelReduce
<1>3. \A j \in DOMAIN lv : j # key => new[j] = lv[j]
  BY DEF LevelReduce
<1> HIDE DEF new
<1>4. BestKeys(new) = BestKeys(lv)
  BY <1>1, <1>2 DEF BestKeys, IsTop
<1>5. key \notin BestKeys(lv)
  BY <1>1, <1>2 DEF BestKeys, IsTop
<1>6. \A j \in BestKeys(lv) : new[j] = lv[j]
  BY <1>3, <1>5 DEF BestKeys
<1>7. SideTop(side, new) = SideTop(side, lv)
  <2>1. Best(new) = Best(lv)
    BY <1>4 DEF Best
  <2>2. BestKeys(lv) # {} => new[Best(lv)] = lv[Best(lv)]
    BY <1>6 DEF Best
  <2> QED BY <1>4, <2>1, <2>2 DEF SideTop
<1> QED BY <1>7 DEF new

\* The keys and counts of a side are those of the sets of orders R.
Counts(lv, R) == /\ DOMAIN lv = {k \in Keys : R[k] # {}}
                 /\ \A k \in DOMAIN lv : lv[k].orders = Cardinality(R[k])

\* A new order on a level is counted, a new level counts one.
LEMMA AddCounts ==
    ASSUME NEW lv, IsSide(lv), NEW key \in Keys, NEW n \in Nat, NEW R, NEW ref,
           Counts(lv, R), IsFiniteSet(R[key]), ref \notin R[key],
           NEW Q, Q = [k \in Keys |-> IF k = key THEN R[k] \cup {ref} ELSE R[k]]
    PROVE  Counts(LevelAdd(lv, key, n), Q)
<1> DEFINE new == LevelAdd(lv, key, n)
<1>1. DOMAIN new = DOMAIN lv \cup {key}
  BY AddSide
<1>2. Cardinality(Q[key]) = Cardinality(R[key]) + 1
  BY FS_AddElement
<1>3. new[key].orders = Cardinality(Q[key])
  <2>1. CASE key \in DOMAIN lv
    BY <2>1, <1>2 DEF LevelAdd, Counts, IsSide
  <2>2. CASE key \notin DOMAIN lv
    <3>1. R[key] = {}
      BY <2>2 DEF Counts
    <3>2. Cardinality(Q[key]) = 1
      BY <1>2, <3>1, FS_EmptySet
    <3> QED BY <3>2, <2>2 DEF LevelAdd
  <2> QED BY <2>1, <2>2
<1>4. \A k \in DOMAIN lv \ {key} : new[k] = lv[k] /\ Q[k] = R[k]
  BY DEF LevelAdd, Counts
<1>5. DOMAIN new = {k \in Keys : Q[k] # {}}
  BY <1>1 DEF Counts
<1> HIDE DEF new
<1>6. Counts(new, Q)
  BY <1>1, <1>3, <1>4, <1>5 DEF Counts
<1> QED BY <1>6 DEF new

\* An order that leaves a level is no longer counted, and takes the level with
\* it if it was the last.
LEMMA LeaveCounts ==
    ASSUME NEW lv, IsSide(lv), NEW key \in DOMAIN lv, NEW n \in Nat, NEW R, NEW ref,
           Counts(lv, R), IsFiniteSet(R[key]), ref \in R[key],
           NEW Q, Q = [k \in Keys |-> IF k = key THEN R[k] \ {ref} ELSE R[k]]
    PROVE  Counts(LevelReduce(lv, key, n, TRUE), Q)
<1> DEFINE new == LevelReduce(lv, key, n, TRUE)
           left == lv[key].orders - 1
<1>1. key \in Keys /\ Q[key] = R[key] \ {ref}
  BY DEF IsSide
<1>2. /\ IsFiniteSet(Q[key])
      /\ Cardinality(Q[key]) = left
  BY <1>1, FS_RemoveElement DEF Counts
<1>3. (left = 0) <=> Q[key] = {}
  BY <1>2, FS_EmptySet
<1>4. \A k \in DOMAIN lv \ {key} : k \in DOMAIN new /\ new[k] = lv[k] /\ Q[k] = R[k]
  BY DEF LevelReduce, IsSide
<1>5. DOMAIN new = IF left = 0 THEN DOMAIN lv \ {key} ELSE DOMAIN lv
  BY DEF LevelReduce
<1>6. left # 0 => new[key].orders = left
  BY DEF LevelReduce
<1>7. DOMAIN new = {k \in Keys : Q[k] # {}}
  BY <1>1, <1>3, <1>5 DEF Counts
<1> HIDE DEF new, left
<1>8. Counts(new, Q)
  BY <1>2, <1>4, <1>5, <1>6, <1>7 DEF Counts
<1> QED BY <1>8 DEF new

\* An order that stays on a level is still counted.
LEMMA StayCounts ==
    ASSUME NEW lv, IsSide(lv), NEW key \in DOMAIN lv, NEW n \in Nat, NEW R,
           Counts(lv, R), IsFiniteSet(R[key])
    PROVE  Counts(LevelReduce(lv, key, n, FALSE), R)
<1>1. Cardinality(R[key]) \in Nat /\ R[key] # {}
  BY FS_CardinalityType DEF Counts
<1>2. Cardinality(R[key]) # 0
  BY <1>1, FS_EmptySet
<1> QED BY <1>2 DEF Counts, LevelReduce, IsSide
-----------------------------------------------------------------------------
(* The engine.                                                             *)

\* The live orders on the levels of a side.
RestingOn(e, l, s) == [k \in Keys |-> Resting(e, l, s, k)]

\* Replacing one side leaves the orders and every other side alone.
SideSet(e, d, l, s, lv) ==
    /\ IsEngine(d)
    /\ d.orders = e.orders
    /\ d.missing = e.missing
    /\ \A m \in Locates, t \in Sides :
           d.levels[m][t] = IF m = l /\ t = s THEN lv ELSE e.levels[m][t]

LEMMA SetSideFields ==
    ASSUME NEW e, IsEngine(e), NEW l \in Locates, NEW s \in Sides, NEW lv, IsSide(lv)
    PROVE  SideSet(e, SetSide(e, l, s, lv), l, s, lv)
<1> DEFINE d == SetSide(e, l, s, lv)
<1>1. d = [orders |-> e.orders, levels |-> d.levels, missing |-> e.missing]
  <2>1. e = [orders |-> e.orders, levels |-> e.levels, missing |-> e.missing]
    BY DEF IsEngine
  <2>2. d = [e EXCEPT !.levels = [e.levels EXCEPT ![l] = [e.levels[l] EXCEPT ![s] = lv]]]
    BY DEF SetSide
  <2> QED
    BY <2>1, <2>2
<1>2. d.orders = e.orders /\ d.missing = e.missing
  BY <1>1
<1>3. d.levels = [e.levels EXCEPT ![l] = [@ EXCEPT ![s] = lv]]
  BY DEF SetSide, IsEngine
<1>4. \A m \in Locates, t \in Sides :
          d.levels[m][t] = IF m = l /\ t = s THEN lv ELSE e.levels[m][t]
  BY <1>3 DEF IsEngine
<1>5. d.levels = [m \in Locates |-> [t \in Sides |-> d.levels[m][t]]]
  BY <1>3 DEF IsEngine
<1> HIDE DEF d
<1>6. IsEngine(d)
  BY <1>1, <1>2, <1>4, <1>5 DEF IsEngine, Live
<1>7. SideSet(e, d, l, s, lv)
  BY <1>2, <1>4, <1>6 DEF SideSet
<1> QED BY <1>7 DEF d

\* Inserting an order changes that order alone.
LEMMA InsertFields ==
    ASSUME NEW e, IsEngine(e), NEW ref \in Refs, NEW o \in Order
    PROVE  LET d == Insert(e, ref, o)
           IN  /\ IsEngine(d)
               /\ d.levels = e.levels
               /\ d.missing = e.missing
               /\ Live(d) = Live(e) \cup {ref}
               /\ \A r \in Live(d) : d.orders[r] = IF r = ref THEN o ELSE e.orders[r]
<1> DEFINE d == Insert(e, ref, o)
<1>1. /\ d = [orders |-> d.orders, levels |-> e.levels, missing |-> e.missing]
      /\ d.orders = [r \in Live(e) \cup {ref} |-> IF r = ref THEN o ELSE e.orders[r]]
  BY DEF Insert, IsEngine, Live
<1>2. d.levels = e.levels /\ d.missing = e.missing
  BY <1>1
<1>3. Live(d) = Live(e) \cup {ref}
  BY <1>1 DEF Live
<1>4. \A r \in Live(d) : d.orders[r] = IF r = ref THEN o ELSE e.orders[r]
  BY <1>1, <1>3
<1>5. d.orders \in [Live(d) -> Order]
  BY <1>1, <1>3 DEF IsEngine
<1> HIDE DEF d
<1>6. IsEngine(d)
  BY <1>1, <1>2, <1>3, <1>5 DEF IsEngine
<1> QED BY <1>2, <1>3, <1>4, <1>6 DEF d

\* Erasing an order leaves every other order alone.
LEMMA EraseFields ==
    ASSUME NEW e, IsEngine(e), NEW ref
    PROVE  LET d == Erase(e, ref)
           IN  /\ IsEngine(d)
               /\ d.levels = e.levels
               /\ d.missing = e.missing
               /\ Live(d) = Live(e) \ {ref}
               /\ \A r \in Live(d) : d.orders[r] = e.orders[r]
<1> DEFINE d == Erase(e, ref)
<1>1. /\ d = [orders |-> d.orders, levels |-> e.levels, missing |-> e.missing]
      /\ d.orders = [r \in Live(e) \ {ref} |-> e.orders[r]]
  BY DEF Erase, IsEngine, Live
<1>2. d.levels = e.levels /\ d.missing = e.missing
  BY <1>1
<1>3. Live(d) = Live(e) \ {ref}
  BY <1>1 DEF Live
<1>4. \A r \in Live(d) : d.orders[r] = e.orders[r]
  BY <1>1, <1>3
<1>5. d.orders \in [Live(d) -> Order]
  BY <1>1, <1>3 DEF IsEngine
<1> HIDE DEF d
<1>6. IsEngine(d)
  BY <1>1, <1>2, <1>3, <1>5 DEF IsEngine
<1> QED BY <1>2, <1>3, <1>4, <1>6 DEF d

\* The order map and the levels agree side by side.
LEMMA CountsBySide ==
    ASSUME NEW e
    PROVE  CountsMatch(e) <=> \A l \in Locates, s \in Sides :
                                  Counts(e.levels[l][s], RestingOn(e, l, s))
<1>1. ASSUME NEW l \in Locates, NEW s \in Sides
      PROVE  /\ {k \in Keys : RestingOn(e, l, s)[k] # {}} = {k \in Keys : Resting(e, l, s, k) # {}}
             /\ \A k \in Keys : RestingOn(e, l, s)[k] = Resting(e, l, s, k)
  BY DEF RestingOn
<1> QED BY <1>1 DEF CountsMatch, Counts

\* d is e with the order ref on its level.
OrderAdded(e, d, l, ref, s, n, p) ==
    /\ \A m \in Locates, t \in Sides :
           d.levels[m][t] = IF m = l /\ t = s THEN LevelAdd(e.levels[m][t], Key(s, p), n)
                                              ELSE e.levels[m][t]
    /\ \A m \in Locates, t \in Sides, k \in Keys :
           Resting(d, m, t, k) = IF m = l /\ t = s /\ k = Key(s, p)
                                 THEN Resting(e, m, t, k) \cup {ref}
                                 ELSE Resting(e, m, t, k)
    /\ \A r \in Live(e) : d.orders[r] = e.orders[r]
    /\ d.orders[ref].shares = n

\* d has the levels of e except that of the order ref, which is reduced.
LevelReduced(e, d, ref, n, gone) ==
    LET o   == e.orders[ref]
        key == Key(o.side, o.price)
    IN  /\ key \in DOMAIN e.levels[o.locate][o.side]
        /\ \A l \in Locates, s \in Sides :
               d.levels[l][s] = IF l = o.locate /\ s = o.side
                                THEN LevelReduce(e.levels[l][s], key, n, gone)
                                ELSE e.levels[l][s]

\* the same of an update
TakesFromLevel(e, u, ref, n, gone) == LevelReduced(e, u.engine, ref, n, gone)

\* d has the orders of e except ref.
OrderLeft(e, d, ref) ==
    /\ \A l \in Locates, s \in Sides, k \in Keys :
           Resting(d, l, s, k) = Resting(e, l, s, k) \ {ref}
    /\ \A r \in Live(e) \ {ref} : d.orders[r] = e.orders[r]

\* d has the orders of e, and ref has n shares.
OrderShrunk(e, d, ref, n) ==
    /\ \A l \in Locates, s \in Sides, k \in Keys : Resting(d, l, s, k) = Resting(e, l, s, k)
    /\ \A r \in Live(e) \ {ref} : d.orders[r] = e.orders[r]
    /\ d.orders[ref].shares = n

\* The engine part of the invariant is kept by an add, which reports honestly.
LEMMA AddGood ==
    ASSUME NEW e, Good(e), NEW l \in Locates, NEW ref \in Refs, ref \notin Live(e),
           NEW s \in Sides, NEW n \in Nat, NEW p \in Prices
    PROVE  LET u == Add(e, l, ref, s, n, p)
           IN  /\ Good(u.engine)
               /\ Reports(e, u)
               /\ u.found
               /\ u.locate = l
               /\ Live(u.engine) = Live(e) \cup {ref}
               /\ OrderAdded(e, u.engine, l, ref, s, n, p)
<1> DEFINE key == Key(s, p)
           lv  == e.levels[l][s]
           o   == [locate |-> l, side |-> s, price |-> p, shares |-> n]
           i   == Insert(e, ref, o)
           new == LevelAdd(lv, key, n)
           d   == SetSide(i, l, s, new)
           u   == Add(e, l, ref, s, n, p)
<1>1. key \in Keys /\ o \in Order
  BY KeyType DEF Order
<1>2. IsSide(lv) /\ IsEngine(e)
  BY DEF Good, IsEngine
<1>3. /\ IsEngine(i) /\ i.levels = e.levels /\ i.missing = e.missing
      /\ Live(i) = Live(e) \cup {ref}
      /\ \A r \in Live(i) : i.orders[r] = IF r = ref THEN o ELSE e.orders[r]
  BY <1>1, <1>2, InsertFields
<1>4. IsSide(new)
  BY <1>1, <1>2, AddSide
<1>5. /\ IsEngine(d) /\ d.orders = i.orders /\ d.missing = i.missing
      /\ \A m \in Locates, t \in Sides :
             d.levels[m][t] = IF m = l /\ t = s THEN new ELSE i.levels[m][t]
  <2> HIDE DEF i, new
  <2>1. SideSet(i, d, l, s, new)
    BY <1>3, <1>4, SetSideFields
  <2> HIDE DEF d
  <2> QED BY <2>1 DEF SideSet
<1>6. /\ u.engine = d /\ u.found = TRUE /\ u.locate = l /\ u.top = IsTop(lv, key)
  BY DEF Add, Update
<1>7. Live(d) = Live(e) \cup {ref}
  BY <1>3, <1>5 DEF Live
<1>8. IsFiniteSet(Live(d))
  BY <1>7, FS_AddElement DEF Good
<1>9. \A m \in Locates, t \in Sides, k \in Keys :
          Resting(d, m, t, k) = IF m = l /\ t = s /\ k = key
                                THEN Resting(e, m, t, k) \cup {ref}
                                ELSE Resting(e, m, t, k)
  <2> HIDE DEF i, d
  <2> QED BY <1>3, <1>5, <1>7 DEF Resting
<1> HIDE DEF d, i
<1>9a. OrderAdded(e, d, l, ref, s, n, p)
  <2>1. \A r \in Live(e) : d.orders[r] = e.orders[r]
    BY <1>3, <1>5
  <2>2. d.orders[ref].shares = n
    BY <1>3, <1>5
  <2> HIDE DEF o
  <2> QED BY <1>3, <1>5, <1>9, <2>1, <2>2 DEF OrderAdded
<1> HIDE DEF new
<1>10. ASSUME NEW m \in Locates, NEW t \in Sides
       PROVE  Counts(d.levels[m][t], RestingOn(d, m, t))
  <2>1. Counts(e.levels[m][t], RestingOn(e, m, t))
    BY CountsBySide DEF Good
  <2>2. CASE m = l /\ t = s
    <3> DEFINE R == RestingOn(e, m, t)
               Q == RestingOn(d, m, t)
    <3>1. Q = [k \in Keys |-> IF k = key THEN R[k] \cup {ref} ELSE R[k]]
      BY <1>9, <2>2 DEF RestingOn
    <3>2. R[key] = Resting(e, m, t, key)
      BY <1>1 DEF RestingOn
    <3>3. ref \notin R[key] /\ IsFiniteSet(R[key])
      BY <3>2, FS_Subset DEF Resting, Good
    <3> HIDE DEF R, Q
    <3>4. Counts(lv, R)
      BY <2>1, <2>2 DEF R
    <3>5. Counts(new, Q)
      BY <1>1, <1>2, <3>1, <3>3, <3>4, AddCounts DEF new
    <3> QED BY <1>5, <2>2, <3>5 DEF Q
  <2>3. CASE ~(m = l /\ t = s)
    <3>1. RestingOn(d, m, t) = RestingOn(e, m, t)
      BY <1>9, <2>3 DEF RestingOn
    <3>2. d.levels[m][t] = e.levels[m][t]
      BY <1>3, <1>5, <2>3
    <3> QED BY <2>1, <3>1, <3>2
  <2> QED BY <2>2, <2>3
<1>11. CountsMatch(d)
  BY <1>10, CountsBySide
<1>12. Good(d)
  BY <1>3, <1>5, <1>8, <1>11 DEF Good
<1>13. ASSUME NEW m \in Locates, ~(IsTop(lv, key) /\ m = l)
       PROVE  Top(d, m) = Top(e, m)
  <2>1. m = l => \A t \in Sides : SideTop(t, new) = SideTop(t, lv)
    BY <1>1, <1>2, <1>13, AddTop DEF new
  <2>2. \A t \in Sides : SideTop(t, d.levels[m][t]) = SideTop(t, e.levels[m][t])
    BY <1>3, <1>5, <2>1
  <2> QED BY <2>2 DEF Top, Sides
<1>14. Reports(e, u)
  <2> HIDE DEF u
  <2>1. u.top \in BOOLEAN
    BY <1>6 DEF IsTop
  <2> QED BY <1>6, <1>13, <2>1 DEF Reports
<1> QED BY <1>6, <1>7, <1>9a, <1>12, <1>14

\* The live orders on the levels of a side, without ref.
RestingWithout(e, ref, l, s) == [k \in Keys |-> Resting(e, l, s, k) \ {ref}]

\* A live order finds its level.
LEMMA LiveHasLevel ==
    ASSUME NEW e, Good(e), NEW ref \in Live(e),
           NEW l, NEW s, NEW key,
           l = e.orders[ref].locate, s = e.orders[ref].side,
           key = Key(s, e.orders[ref].price)
    PROVE  /\ l \in Locates /\ s \in Sides /\ key \in Keys
           /\ IsSide(e.levels[l][s]) /\ key \in DOMAIN e.levels[l][s]
<1>1. e.orders[ref] \in Order
  BY DEF Good, IsEngine
<1>2. l \in Locates /\ s \in Sides /\ key \in Keys
  BY <1>1, KeyType DEF Order
<1>3. ref \in Resting(e, l, s, key)
  BY DEF Resting
<1>4. key \in DOMAIN e.levels[l][s]
  BY <1>2, <1>3 DEF Good, CountsMatch
<1>5. IsSide(e.levels[l][s])
  BY <1>2 DEF Good, IsEngine
<1> QED BY <1>2, <1>4, <1>5

\* It is this level that ApplyReduce reduces.
LEMMA ApplyReduceLevel ==
    ASSUME NEW e, Good(e), NEW ref \in Live(e), NEW n \in Nat, NEW gone \in BOOLEAN
    PROVE  TakesFromLevel(e, ApplyReduce(e, e.orders[ref], n, gone), ref, n, gone)
<1> DEFINE o   == e.orders[ref]
           u   == ApplyReduce(e, o, n, gone)
<1>1. PICK l, s, key : l = o.locate /\ s = o.side /\ key = Key(s, o.price)
  OBVIOUS
<1>2. /\ l \in Locates /\ s \in Sides /\ key \in Keys
      /\ IsSide(e.levels[l][s]) /\ key \in DOMAIN e.levels[l][s]
  BY <1>1, LiveHasLevel
<1>3. PICK new : new = LevelReduce(e.levels[l][s], key, n, gone)
  OBVIOUS
<1>4. IsSide(new) /\ IsEngine(e)
  BY <1>2, <1>3, ReduceSide DEF Good
<1>5. u.engine = SetSide(e, l, s, new)
  BY <1>1, <1>2, <1>3 DEF ApplyReduce, Update
<1>6. \A m \in Locates, t \in Sides :
          u.engine.levels[m][t] = IF m = l /\ t = s THEN new ELSE e.levels[m][t]
  <2> HIDE DEF u
  <2>1. SideSet(e, u.engine, l, s, new)
    BY <1>2, <1>4, <1>5, SetSideFields
  <2> QED BY <2>1 DEF SideSet
<1> HIDE DEF u
<1>7. \A m \in Locates, t \in Sides :
          u.engine.levels[m][t] = IF m = l /\ t = s
                                  THEN LevelReduce(e.levels[m][t], key, n, gone)
                                  ELSE e.levels[m][t]
  BY <1>3, <1>6
<1>8. LevelReduced(e, u.engine, ref, n, gone)
  BY <1>1, <1>2, <1>7 DEF LevelReduced
<1> QED BY <1>8 DEF TakesFromLevel, u

\* Reducing the level of a live order leaves the orders alone, and the counts
\* are those of the orders that stay on it.
LEMMA ApplyReduceGood ==
    ASSUME NEW e, Good(e), NEW ref \in Live(e), NEW n \in Nat, NEW gone \in BOOLEAN
    PROVE  LET u == ApplyReduce(e, e.orders[ref], n, gone)
           IN  /\ IsEngine(u.engine)
               /\ u.engine.orders = e.orders
               /\ ~u.engine.missing
               /\ u.locate = e.orders[ref].locate
               /\ u.found
               /\ u = [engine |-> u.engine, found |-> TRUE, locate |-> u.locate, top |-> u.top]
               /\ Reports(e, u)
               /\ \A l \in Locates, s \in Sides :
                      Counts(u.engine.levels[l][s],
                             IF gone THEN RestingWithout(e, ref, l, s)
                                     ELSE RestingOn(e, l, s))
<1> DEFINE o   == e.orders[ref]
           l   == o.locate
           s   == o.side
           key == Key(s, o.price)
           lv  == e.levels[l][s]
           new == LevelReduce(lv, key, n, gone)
           d   == SetSide(e, l, s, new)
           u   == ApplyReduce(e, o, n, gone)
<1>1. o \in Order
  BY DEF Good, IsEngine
<1>2. l \in Locates /\ s \in Sides /\ key \in Keys
  BY <1>1, KeyType DEF Order
<1>3. IsEngine(e) /\ IsSide(lv) /\ ~e.missing
  BY <1>2 DEF Good, IsEngine
<1>4. \A m \in Locates, t \in Sides : Counts(e.levels[m][t], RestingOn(e, m, t))
  BY CountsBySide DEF Good
<1>5. ref \in Resting(e, l, s, key)
  BY DEF Resting
<1>6. RestingOn(e, l, s)[key] = Resting(e, l, s, key)
  BY <1>2 DEF RestingOn
<1>7. key \in DOMAIN lv
  BY <1>2, <1>4, <1>5, <1>6 DEF Counts
<1>8. IsSide(new)
  BY <1>3, <1>7, ReduceSide
<1>9. /\ IsEngine(d) /\ d.orders = e.orders /\ d.missing = e.missing
      /\ \A m \in Locates, t \in Sides :
             d.levels[m][t] = IF m = l /\ t = s THEN new ELSE e.levels[m][t]
  <2> HIDE DEF new, key, lv, l, s, o
  <2>1. IsEngine(e) /\ l \in Locates /\ s \in Sides /\ IsSide(new)
    BY <1>2, <1>3, <1>8
  <2>2. SideSet(e, d, l, s, new)
    BY <2>1, SetSideFields
  <2> HIDE DEF d
  <2> QED BY <2>2 DEF SideSet, lv
<1>10. u = [engine |-> d, found |-> TRUE, locate |-> l, top |-> IsTop(lv, key)]
  BY <1>7 DEF ApplyReduce, Update
<1> HIDE DEF d
<1>11. ASSUME NEW m \in Locates, ~(IsTop(lv, key) /\ m = l)
       PROVE  Top(d, m) = Top(e, m)
  <2> HIDE DEF new
  <2>1. m = l => \A t \in Sides : SideTop(t, new) = SideTop(t, lv)
    BY <1>3, <1>7, <1>11, ReduceTop DEF new
  <2>2. \A t \in Sides : SideTop(t, d.levels[m][t]) = SideTop(t, e.levels[m][t])
    BY <1>9, <2>1
  <2> QED BY <2>2 DEF Top, Sides
<1>12. Reports(e, u)
  <2> HIDE DEF u, l
  <2>1. u.top \in BOOLEAN
    BY <1>10 DEF IsTop
  <2> QED BY <1>2, <1>10, <1>11, <2>1 DEF Reports
<1>13. IsFiniteSet(Resting(e, l, s, key))
  BY FS_Subset DEF Resting, Good
<1>14. ASSUME NEW m \in Locates, NEW t \in Sides
       PROVE  Counts(d.levels[m][t], IF gone THEN RestingWithout(e, ref, m, t)
                                             ELSE RestingOn(e, m, t))
  <2>1. CASE m = l /\ t = s
    <3> DEFINE R == RestingOn(e, l, s)
               Q == RestingWithout(e, ref, l, s)
    <3>1. Counts(lv, R) /\ IsFiniteSet(R[key]) /\ ref \in R[key]
      BY <1>2, <1>4, <1>5, <1>6, <1>13
    <3>2. CASE gone
      <4>1. \A k \in Keys : k # key => ref \notin Resting(e, l, s, k)
        BY DEF Resting
      <4>2. Q = [k \in Keys |-> IF k = key THEN R[k] \ {ref} ELSE R[k]]
        BY <4>1 DEF RestingWithout, RestingOn
      <4> HIDE DEF R, Q
      <4>3. Counts(LevelReduce(lv, key, n, TRUE), Q)
        BY <1>3, <1>7, <3>1, <4>2, LeaveCounts
      <4>4. new = LevelReduce(lv, key, n, TRUE)
        BY <3>2
      <4> QED BY <1>9, <2>1, <3>2, <4>3, <4>4 DEF Q
    <3>3. CASE ~gone
      <4> HIDE DEF R
      <4>1. Counts(LevelReduce(lv, key, n, FALSE), R)
        BY <1>3, <1>7, <3>1, StayCounts
      <4>2. new = LevelReduce(lv, key, n, FALSE)
        BY <3>3
      <4> QED BY <1>9, <2>1, <3>3, <4>1, <4>2 DEF R
    <3> QED BY <3>2, <3>3
  <2>2. CASE ~(m = l /\ t = s)
    <3>1. d.levels[m][t] = e.levels[m][t]
      BY <1>9, <2>2
    <3>2. RestingWithout(e, ref, m, t) = RestingOn(e, m, t)
      BY <2>2 DEF RestingWithout, RestingOn, Resting
    <3> QED BY <1>4, <3>1, <3>2
  <2> QED BY <2>1, <2>2
<1> HIDE DEF u
<1>15. /\ u.engine = d /\ u.found = TRUE /\ u.locate = l
       /\ u = [engine |-> u.engine, found |-> TRUE, locate |-> u.locate, top |-> u.top]
  BY <1>10
<1>16. /\ IsEngine(u.engine) /\ u.engine.orders = e.orders /\ ~u.engine.missing
       /\ \A m \in Locates, t \in Sides :
              Counts(u.engine.levels[m][t], IF gone THEN RestingWithout(e, ref, m, t)
                                                   ELSE RestingOn(e, m, t))
  BY <1>3, <1>9, <1>14, <1>15
<1> HIDE DEF l
<1>17. /\ IsEngine(u.engine) /\ u.engine.orders = e.orders /\ ~u.engine.missing
       /\ u.locate = l /\ u.found
       /\ u = [engine |-> u.engine, found |-> TRUE, locate |-> u.locate, top |-> u.top]
       /\ Reports(e, u)
       /\ \A m \in Locates, t \in Sides :
              Counts(u.engine.levels[m][t], IF gone THEN RestingWithout(e, ref, m, t)
                                                   ELSE RestingOn(e, m, t))
  BY <1>12, <1>15, <1>16
<1> QED BY <1>17 DEF u, l

\* An engine value that differs from a good one in one erased order, and whose
\* levels already count the orders without it, is good.
LEMMA EraseGood ==
    ASSUME NEW e, Good(e), NEW ref \in Live(e), NEW d, IsEngine(d), ~d.missing,
           d.orders = e.orders,
           \A l \in Locates, s \in Sides :
               Counts(d.levels[l][s], RestingWithout(e, ref, l, s))
    PROVE  /\ Good(Erase(d, ref))
           /\ Live(Erase(d, ref)) = Live(e) \ {ref}
           /\ Erase(d, ref).levels = d.levels
           /\ OrderLeft(e, Erase(d, ref), ref)
<1> DEFINE x == Erase(d, ref)
<1>1. /\ IsEngine(x) /\ x.levels = d.levels /\ x.missing = d.missing
      /\ Live(x) = Live(d) \ {ref}
      /\ \A r \in Live(x) : x.orders[r] = d.orders[r]
  BY EraseFields
<1> HIDE DEF x
<1>2. Live(x) = Live(e) \ {ref}
  BY <1>1 DEF Live
<1>3. IsFiniteSet(Live(x))
  BY <1>2, FS_Subset DEF Good
<1>4. \A l \in Locates, s \in Sides : RestingOn(x, l, s) = RestingWithout(e, ref, l, s)
  BY <1>1, <1>2 DEF RestingOn, RestingWithout, Resting
<1>5. CountsMatch(x)
  BY <1>1, <1>4, CountsBySide
<1>6. Good(x)
  BY <1>1, <1>3, <1>5 DEF Good
<1>7. OrderLeft(e, x, ref)
  <2>1. \A r \in Live(e) \ {ref} : x.orders[r] = e.orders[r]
    BY <1>1, <1>2
  <2>2. \A l \in Locates, s \in Sides, k \in Keys :
            Resting(x, l, s, k) = Resting(e, l, s, k) \ {ref}
    BY <1>2, <2>1 DEF Resting
  <2> QED BY <2>1, <2>2 DEF OrderLeft
<1> QED BY <1>1, <1>2, <1>6, <1>7 DEF x

\* The quantity of every level, as a sum.
LEMMA QuantitiesAreSums ==
    ASSUME NEW e
    PROVE  QuantitiesMatch(e) <=>
               \A l \in Locates, s \in Sides : \A k \in DOMAIN e.levels[l][s] :
                   e.levels[l][s][k].qty = SharesOf(e.orders, Resting(e, l, s, k))
BY Zenon DEF QuantitiesMatch, SharesOf

\* What a good engine says of one level.
LEMMA GoodLevel ==
    ASSUME NEW e, Good(e), NEW l \in Locates, NEW s \in Sides, NEW k \in Keys
    PROVE  /\ IsSide(e.levels[l][s])
           /\ Resting(e, l, s, k) \subseteq Live(e)
           /\ IsFiniteSet(Resting(e, l, s, k))
           /\ \A r \in Resting(e, l, s, k) : e.orders[r].shares \in Nat
           /\ k \notin DOMAIN e.levels[l][s] => Resting(e, l, s, k) = {}
<1>1. Resting(e, l, s, k) \subseteq Live(e)
  BY DEF Resting
<1>2. IsFiniteSet(Resting(e, l, s, k))
  BY <1>1, FS_Subset DEF Good
<1>3. \A r \in Live(e) : e.orders[r].shares \in Nat
  BY DEF Good, IsEngine, Order
<1>4. IsSide(e.levels[l][s])
  BY DEF Good, IsEngine
<1>5. k \notin DOMAIN e.levels[l][s] => Resting(e, l, s, k) = {}
  BY DEF Good, CountsMatch
<1> QED BY <1>1, <1>2, <1>3, <1>4, <1>5

\* An add brings its level the shares of the order.
LEMMA AddHolds ==
    ASSUME NEW e, Good(e), QuantitiesMatch(e), NEW l \in Locates, NEW s \in Sides,
           NEW n \in Nat, NEW p \in Prices, NEW ref, ref \notin Live(e), NEW d,
           OrderAdded(e, d, l, ref, s, n, p)
    PROVE  QuantitiesMatch(d)
<1> DEFINE key == Key(s, p)
<1>1. key \in Keys
  BY KeyType
<1>2. ASSUME NEW m \in Locates, NEW t \in Sides, NEW k \in DOMAIN d.levels[m][t]
      PROVE  d.levels[m][t][k].qty = SharesOf(d.orders, Resting(d, m, t, k))
  <2> DEFINE lv == e.levels[m][t]
             S  == Resting(e, m, t, k)
  <2>1. IsSide(lv) /\ DOMAIN lv \subseteq Keys
    BY DEF Good, IsEngine, IsSide
  <2>2. CASE m = l /\ t = s /\ k = key
    <3>1. d.levels[m][t] = LevelAdd(lv, key, n)
      BY <2>2 DEF OrderAdded
    <3>2. /\ S \subseteq Live(e) /\ IsFiniteSet(S) /\ ref \notin S
          /\ \A r \in S : e.orders[r].shares \in Nat
          /\ k \notin DOMAIN lv => S = {}
      BY <1>1, <2>2, GoodLevel
    <3>3. Resting(d, m, t, k) = S \cup {ref}
      BY <1>1, <2>2 DEF OrderAdded
    <3>4. /\ d.orders[ref].shares = n
          /\ \A r \in S : d.orders[r].shares = e.orders[r].shares
      BY <3>2 DEF OrderAdded
    <3>5. SharesOf(d.orders, S \cup {ref}) = SharesOf(e.orders, S) + n
      <4> HIDE DEF S
      <4> QED BY <3>2, <3>4, SharesAdd
    <3>6. CASE k \in DOMAIN lv
      <4>1. d.levels[m][t][k].qty = lv[k].qty + n
        BY <2>1, <2>2, <3>1, <3>6 DEF LevelAdd, IsSide
      <4>2. lv[k].qty = SharesOf(e.orders, S)
        BY <3>6, QuantitiesAreSums
      <4> QED BY <3>3, <3>5, <4>1, <4>2
    <3>7. CASE k \notin DOMAIN lv
      <4>1. d.levels[m][t][k].qty = n
        BY <2>2, <3>1, <3>7 DEF LevelAdd
      <4>2. SharesOf(e.orders, S) = 0
        BY <3>2, <3>7, SharesEmpty
      <4> QED BY <3>3, <3>5, <4>1, <4>2
    <3> QED BY <3>6, <3>7
  <2>3. CASE ~(m = l /\ t = s /\ k = key)
    <3>1. k \in DOMAIN lv /\ d.levels[m][t][k] = lv[k]
      <4>1. CASE m = l /\ t = s
        <5>1. d.levels[m][t] = LevelAdd(lv, key, n) /\ k # key
          BY <2>3, <4>1 DEF OrderAdded
        <5> QED BY <5>1 DEF LevelAdd
      <4>2. CASE ~(m = l /\ t = s)
        BY <4>2 DEF OrderAdded
      <4> QED BY <4>1, <4>2
    <3>2. k \in Keys
      BY <2>1, <3>1
    <3>3. Resting(d, m, t, k) = S
      BY <2>3, <3>2 DEF OrderAdded
    <3>4. S \subseteq Live(e) /\ IsFiniteSet(S)
      BY <3>2, GoodLevel
    <3>5. \A r \in S : e.orders[r].shares = d.orders[r].shares
      BY <3>4 DEF OrderAdded
    <3>6. SharesOf(e.orders, S) = SharesOf(d.orders, S)
      <4> HIDE DEF S
      <4> QED BY <3>4, <3>5, SharesSame
    <3>7. lv[k].qty = SharesOf(e.orders, S)
      BY <3>1, QuantitiesAreSums
    <3> QED BY <3>1, <3>3, <3>6, <3>7
  <2> QED BY <2>2, <2>3
<1> QED BY <1>2, QuantitiesAreSums

\* An order takes from its level what it gives up, all of its shares if it leaves.
LEMMA ReduceHolds ==
    ASSUME NEW e, Good(e), QuantitiesMatch(e), NEW ref \in Live(e), NEW n \in Nat,
           NEW gone \in BOOLEAN, NEW d, LevelReduced(e, d, ref, n, gone),
           IF gone THEN n = e.orders[ref].shares /\ OrderLeft(e, d, ref)
           ELSE /\ n <= e.orders[ref].shares
                /\ OrderShrunk(e, d, ref, e.orders[ref].shares - n)
    PROVE  QuantitiesMatch(d)
<1> DEFINE l   == e.orders[ref].locate
           s   == e.orders[ref].side
           key == Key(s, e.orders[ref].price)
<1>1. l \in Locates /\ s \in Sides /\ key \in Keys /\ e.orders[ref].shares \in Nat
  BY KeyType DEF Good, IsEngine, Order
<1>2. /\ key \in DOMAIN e.levels[l][s]
      /\ \A m \in Locates, t \in Sides :
             d.levels[m][t] = IF m = l /\ t = s THEN LevelReduce(e.levels[m][t], key, n, gone)
                                                ELSE e.levels[m][t]
  BY DEF LevelReduced
<1>3. \A m \in Locates, t \in Sides, k \in Keys :
          /\ Resting(d, m, t, k) = IF gone THEN Resting(e, m, t, k) \ {ref} ELSE Resting(e, m, t, k)
          /\ ref \in Resting(e, m, t, k) <=> m = l /\ t = s /\ k = key
  BY DEF OrderLeft, OrderShrunk, Resting
<1>4. \A r \in Live(e) \ {ref} : d.orders[r].shares = e.orders[r].shares
  BY DEF OrderLeft, OrderShrunk
<1> HIDE DEF l, s, key
<1>5. ASSUME NEW m \in Locates, NEW t \in Sides, NEW k \in DOMAIN d.levels[m][t]
      PROVE  d.levels[m][t][k].qty = SharesOf(d.orders, Resting(d, m, t, k))
  <2> DEFINE lv == e.levels[m][t]
             S  == Resting(e, m, t, k)
  <2>1. IsSide(lv) /\ DOMAIN lv \subseteq Keys
    BY DEF Good, IsEngine, IsSide
  <2>2. /\ k \in DOMAIN lv
        /\ d.levels[m][t][k].qty = IF m = l /\ t = s /\ k = key THEN lv[k].qty - n ELSE lv[k].qty
    <3>1. CASE m = l /\ t = s
      <4>1. d.levels[m][t] = LevelReduce(lv, key, n, gone)
        BY <1>2, <3>1
      <4> QED BY <2>1, <3>1, <4>1 DEF LevelReduce, IsSide
    <3>2. CASE ~(m = l /\ t = s)
      BY <1>2, <3>2
    <3> QED BY <3>1, <3>2
  <2>3. k \in Keys
    BY <2>1, <2>2
  <2>4. S \subseteq Live(e) /\ IsFiniteSet(S) /\ \A r \in S : e.orders[r].shares \in Nat
    BY <2>3, GoodLevel
  <2>5. \A r \in S \ {ref} : d.orders[r].shares = e.orders[r].shares
    BY <1>4, <2>4
  <2>6. lv[k].qty = SharesOf(e.orders, S)
    BY <2>2, QuantitiesAreSums
  <2>7. /\ Resting(d, m, t, k) = IF gone THEN S \ {ref} ELSE S
        /\ ref \in S <=> m = l /\ t = s /\ k = key
    BY <1>3, <2>3
  <2> HIDE DEF S
  <2>8. CASE ref \in S
    <3>1. d.levels[m][t][k].qty = SharesOf(e.orders, S) - n
      BY <2>2, <2>6, <2>7, <2>8
    <3>2. CASE gone
      <4>1. SharesOf(d.orders, S \ {ref}) = SharesOf(e.orders, S) - e.orders[ref].shares
        <5>1. PICK T : T = S \ {ref}
          OBVIOUS
        <5>2. \A r \in T : d.orders[r].shares = e.orders[r].shares
          BY <2>5, <5>1
        <5>3. SharesOf(d.orders, T) = SharesOf(e.orders, S) - e.orders[ref].shares
          BY ONLY <2>4, <2>8, <5>1, <5>2, SharesLeave
        <5> QED BY <5>1, <5>3
      <4> QED BY <2>7, <3>1, <3>2, <4>1
    <3>3. CASE ~gone
      <4>1. d.orders[ref].shares = e.orders[ref].shares - n /\ n <= e.orders[ref].shares
        BY <3>3 DEF OrderShrunk
      <4>2. d.orders[ref].shares \in Nat
        BY <1>1, <4>1
      <4>3. SharesOf(d.orders, S) = SharesOf(e.orders, S) - n
        BY <2>4, <2>5, <2>8, <4>1, <4>2, SharesShrink
      <4> QED BY <2>7, <3>1, <3>3, <4>3
    <3> QED BY <3>2, <3>3
  <2>9. CASE ref \notin S
    <3>1. \A r \in S : e.orders[r].shares = d.orders[r].shares
      BY <2>5, <2>9
    <3>2. SharesOf(e.orders, S) = SharesOf(d.orders, S)
      BY <2>4, <3>1, SharesSame
    <3>3. Resting(d, m, t, k) = S
      BY <2>7, <2>9
    <3> QED BY <2>2, <2>6, <2>7, <2>9, <3>2, <3>3
  <2> QED BY <2>8, <2>9
<1> QED BY <1>5, QuantitiesAreSums

\* A delete keeps the engine good and reports honestly.
LEMMA RemoveGood ==
    ASSUME NEW e, Good(e), NEW ref
    PROVE  LET u == Remove(e, ref)
           IN  /\ Good(u.engine)
               /\ Reports(e, u)
               /\ ref \in Live(e) => /\ u.found
                                     /\ u.locate = e.orders[ref].locate
               /\ Live(u.engine) = Live(e) \ {ref}
               /\ QuantitiesMatch(e) => QuantitiesMatch(u.engine)
<1> DEFINE u == Remove(e, ref)
<1>1. CASE ref \notin Live(e)
  <2>1. u = [engine |-> e, found |-> FALSE, top |-> FALSE]
    BY <1>1 DEF Remove, Unknown
  <2>2. Live(u.engine) = Live(e) \ {ref}
    BY <1>1, <2>1
  <2> QED BY <1>1, <2>1, <2>2 DEF Reports
<1>2. CASE ref \in Live(e)
  <2> DEFINE o == e.orders[ref]
             v == ApplyReduce(e, o, o.shares, TRUE)
             d == v.engine
  <2>1. o \in Order /\ o.shares \in Nat
    BY <1>2 DEF Good, IsEngine, Order
  <2>2. /\ IsEngine(d) /\ d.orders = e.orders /\ ~d.missing /\ v.locate = o.locate
        /\ v.found
        /\ v = [engine |-> d, found |-> TRUE, locate |-> v.locate, top |-> v.top]
        /\ Reports(e, v)
        /\ \A l \in Locates, s \in Sides :
               Counts(d.levels[l][s], RestingWithout(e, ref, l, s))
        /\ LevelReduced(e, d, ref, o.shares, TRUE)
    <3>1. PICK n \in Nat : n = o.shares
      BY <2>1
    <3>2. PICK gone \in BOOLEAN : gone = TRUE
      OBVIOUS
    <3>3. v = ApplyReduce(e, e.orders[ref], n, gone)
      BY <3>1, <3>2
    <3> HIDE DEF v
    <3>4. /\ IsEngine(v.engine) /\ v.engine.orders = e.orders /\ ~v.engine.missing
          /\ v.locate = e.orders[ref].locate /\ v.found
          /\ v = [engine |-> v.engine, found |-> TRUE, locate |-> v.locate, top |-> v.top]
          /\ Reports(e, v)
      BY <1>2, <3>3, ApplyReduceGood
    <3>5. \A l \in Locates, s \in Sides :
              Counts(v.engine.levels[l][s], IF gone THEN RestingWithout(e, ref, l, s)
                                                    ELSE RestingOn(e, l, s))
      BY <1>2, <3>3, ApplyReduceGood
    <3>6. LevelReduced(e, v.engine, ref, n, gone)
      <4>1. TakesFromLevel(e, v, ref, n, gone)
        BY <1>2, <3>3, ApplyReduceLevel
      <4> QED BY <4>1 DEF TakesFromLevel
    <3> QED BY <3>1, <3>2, <3>4, <3>5, <3>6
  <2>3. u = [v EXCEPT !.engine = Erase(@, ref)]
    BY <1>2 DEF Remove
  <2> HIDE DEF v, u
  <2>4. u = [engine |-> Erase(d, ref), found |-> TRUE, locate |-> o.locate, top |-> v.top]
    BY <2>2, <2>3
  <2> HIDE DEF o, d
  <2>5. /\ Good(Erase(d, ref))
        /\ Live(Erase(d, ref)) = Live(e) \ {ref}
        /\ Erase(d, ref).levels = d.levels
        /\ OrderLeft(e, Erase(d, ref), ref)
    BY <1>2, <2>2, EraseGood
  <2>6. \A l \in Locates : Top(Erase(d, ref), l) = Top(d, l)
    BY <2>5 DEF Top
  <2>7. Reports(e, u)
    BY <2>2, <2>4, <2>6 DEF Reports, d
  <2>8. QuantitiesMatch(e) => QuantitiesMatch(Erase(d, ref))
    <3>1. PICK n \in Nat : n = e.orders[ref].shares
      BY <2>1 DEF o
    <3>2. PICK gone \in BOOLEAN : gone = TRUE
      OBVIOUS
    <3>3. LevelReduced(e, d, ref, n, gone)
      BY <2>2, <3>1, <3>2 DEF o
    <3>4. LevelReduced(e, Erase(d, ref), ref, n, gone)
      BY <2>5, <3>3 DEF LevelReduced
    <3> QED BY <1>2, <2>5, <3>1, <3>2, <3>4, ReduceHolds
  <2> QED BY <2>4, <2>5, <2>7, <2>8 DEF o, u
<1> QED BY <1>1, <1>2

\* An order that keeps its place and has fewer shares leaves the counts alone.
LEMMA ShrinkGood ==
    ASSUME NEW e, Good(e), NEW ref \in Live(e), NEW d, IsEngine(d), ~d.missing,
           d.orders = e.orders, NEW n \in Nat,
           \A l \in Locates, s \in Sides : Counts(d.levels[l][s], RestingOn(e, l, s))
    PROVE  LET x == Insert(d, ref, [e.orders[ref] EXCEPT !.shares = n])
           IN  /\ Good(x)
               /\ Live(x) = Live(e)
               /\ x.levels = d.levels
               /\ OrderShrunk(e, x, ref, n)
<1> DEFINE o == [e.orders[ref] EXCEPT !.shares = n]
           x == Insert(d, ref, o)
<1>1. /\ o \in Order
      /\ o.locate = e.orders[ref].locate
      /\ o.side = e.orders[ref].side
      /\ o.price = e.orders[ref].price
      /\ o.shares = n
  <2>1. e.orders[ref] \in Order
    BY DEF Good, IsEngine
  <2> QED BY <2>1 DEF Order
<1>2. ref \in Refs
  BY DEF Good, IsEngine
<1> HIDE DEF o
<1>3. /\ IsEngine(x) /\ x.levels = d.levels /\ x.missing = d.missing
      /\ Live(x) = Live(d) \cup {ref}
      /\ \A r \in Live(x) : x.orders[r] = IF r = ref THEN o ELSE d.orders[r]
  BY <1>1, <1>2, InsertFields
<1> HIDE DEF x
<1>4. Live(x) = Live(e)
  BY <1>3 DEF Live
<1>5. \A l \in Locates, s \in Sides : RestingOn(x, l, s) = RestingOn(e, l, s)
  BY <1>1, <1>3, <1>4 DEF RestingOn, Resting
<1>6. CountsMatch(x)
  BY <1>3, <1>5, CountsBySide
<1>7. Good(x)
  BY <1>3, <1>4, <1>6 DEF Good
<1>8. OrderShrunk(e, x, ref, n)
  <2>1. \A r \in Live(e) \ {ref} : x.orders[r] = e.orders[r]
    BY <1>3, <1>4
  <2>2. x.orders[ref].shares = n
    BY <1>1, <1>3, <1>4
  <2>3. \A l \in Locates, s \in Sides, k \in Keys : Resting(x, l, s, k) = Resting(e, l, s, k)
    BY <1>1, <1>3, <1>4 DEF Resting
  <2> QED BY <2>1, <2>2, <2>3 DEF OrderShrunk
<1> QED BY <1>3, <1>4, <1>7, <1>8 DEF x, o

\* An execution or a cancel keeps the engine good and reports honestly.
LEMMA ReduceGood ==
    ASSUME NEW e, Good(e), NEW ref, NEW n \in Nat
    PROVE  LET u == Reduce(e, ref, n)
           IN  /\ Good(u.engine)
               /\ Reports(e, u)
               /\ Live(u.engine) \subseteq Live(e)
               /\ QuantitiesMatch(e) => QuantitiesMatch(u.engine)
<1> DEFINE u == Reduce(e, ref, n)
<1>1. CASE ref \notin Live(e)
  <2>1. u = [engine |-> e, found |-> FALSE, top |-> FALSE]
    BY <1>1 DEF Reduce, Unknown
  <2> QED BY <2>1 DEF Reports
<1>2. CASE ref \in Live(e)
  <2> DEFINE o     == e.orders[ref]
             taken == Taken(o, n)
             left  == o.shares - taken
             v     == ApplyReduce(e, o, taken, left = 0)
             d     == v.engine
             x     == IF left = 0 THEN Erase(d, ref)
                                  ELSE Insert(d, ref, [o EXCEPT !.shares = left])
  <2>1. o \in Order /\ o.shares \in Nat /\ o.locate \in Locates
    BY <1>2 DEF Good, IsEngine, Order
  <2>2. taken \in Nat /\ left \in Nat
    <3> HIDE DEF o
    <3> QED BY <2>1 DEF Taken
  <2>3. u = IF taken = 0 THEN Update(e, o.locate, FALSE)
                         ELSE [v EXCEPT !.engine = x]
    BY <1>2 DEF Reduce
  <2> HIDE DEF u
  <2>4. CASE taken = 0
    <3>1. u = [engine |-> e, found |-> TRUE, locate |-> o.locate, top |-> FALSE]
      BY <2>3, <2>4 DEF Update
    <3> HIDE DEF o, taken
    <3> QED BY <2>1, <3>1 DEF Reports, u
  <2>5. CASE taken # 0
    <3>1. PICK gone \in BOOLEAN : gone = (left = 0)
      OBVIOUS
    <3>2. v = ApplyReduce(e, e.orders[ref], taken, gone)
      BY <3>1
    <3> HIDE DEF v, taken, left
    <3>3. /\ IsEngine(v.engine) /\ v.engine.orders = e.orders /\ ~v.engine.missing
          /\ v.locate = e.orders[ref].locate /\ v.found
          /\ v = [engine |-> v.engine, found |-> TRUE, locate |-> v.locate, top |-> v.top]
          /\ Reports(e, v)
      BY <1>2, <2>2, <3>2, ApplyReduceGood
    <3>4. \A l \in Locates, s \in Sides :
              Counts(v.engine.levels[l][s], IF gone THEN RestingWithout(e, ref, l, s)
                                                    ELSE RestingOn(e, l, s))
      BY <1>2, <2>2, <3>2, ApplyReduceGood
    <3>4a. LevelReduced(e, d, ref, taken, gone)
      <4>1. TakesFromLevel(e, v, ref, taken, gone)
        BY <1>2, <2>2, <3>2, ApplyReduceLevel
      <4> QED BY <4>1 DEF TakesFromLevel
    <3>5. /\ Good(x) /\ Live(x) \subseteq Live(e) /\ x.levels = d.levels
          /\ IF gone THEN OrderLeft(e, x, ref) ELSE OrderShrunk(e, x, ref, left)
      <4>1. CASE left = 0
        <5>1. \A l \in Locates, s \in Sides :
                  Counts(d.levels[l][s], RestingWithout(e, ref, l, s))
          BY <3>1, <3>4, <4>1
        <5>2. x = Erase(d, ref)
          BY <4>1
        <5> HIDE DEF d, x
        <5>3. /\ Good(Erase(d, ref)) /\ Live(Erase(d, ref)) = Live(e) \ {ref}
              /\ Erase(d, ref).levels = d.levels
              /\ OrderLeft(e, Erase(d, ref), ref)
          BY <1>2, <3>3, <5>1, EraseGood DEF d
        <5> QED BY <3>1, <4>1, <5>2, <5>3
      <4>2. CASE left # 0
        <5>1. \A l \in Locates, s \in Sides : Counts(d.levels[l][s], RestingOn(e, l, s))
          BY <3>1, <3>4, <4>2
        <5>2. x = Insert(d, ref, [e.orders[ref] EXCEPT !.shares = left])
          BY <4>2
        <5>3. IsEngine(d) /\ ~d.missing /\ d.orders = e.orders
          BY <3>3
        <5> HIDE DEF d, x
        <5>4. /\ Good(x) /\ Live(x) = Live(e) /\ x.levels = d.levels
              /\ OrderShrunk(e, x, ref, left)
          BY <1>2, <2>2, <5>1, <5>2, <5>3, ShrinkGood
        <5> QED BY <3>1, <4>2, <5>4
      <4> QED BY <4>1, <4>2
    <3> HIDE DEF x
    <3>6. u = [engine |-> x, found |-> TRUE, locate |-> v.locate, top |-> v.top]
      BY <2>3, <2>5, <3>3
    <3>7. \A l \in Locates : Top(x, l) = Top(d, l)
      BY <3>5 DEF Top
    <3>8. Reports(e, u)
      BY <3>3, <3>6, <3>7 DEF Reports
    <3>9. /\ LevelReduced(e, x, ref, taken, gone)
          /\ taken <= e.orders[ref].shares /\ left = e.orders[ref].shares - taken
          /\ gone => taken = e.orders[ref].shares
      <4>1. LevelReduced(e, x, ref, taken, gone)
        BY <3>4a, <3>5 DEF LevelReduced
      <4>2. taken <= e.orders[ref].shares /\ left = e.orders[ref].shares - taken
        BY <2>1 DEF taken, left, Taken
      <4>3. left = 0 => taken = e.orders[ref].shares
        <5>1. \A i, j \in Nat : i - j = 0 => j = i
          OBVIOUS
        <5> QED BY <2>1, <2>2, <4>2, <5>1
      <4> QED BY <3>1, <4>1, <4>2, <4>3
    <3>10. QuantitiesMatch(e) => QuantitiesMatch(x)
      <4> HIDE DEF o
      <4>1. IF gone THEN taken = e.orders[ref].shares /\ OrderLeft(e, x, ref)
            ELSE /\ taken <= e.orders[ref].shares
                 /\ OrderShrunk(e, x, ref, e.orders[ref].shares - taken)
        BY <3>5, <3>9
      <4> QED BY <1>2, <2>2, <3>9, <4>1, ReduceHolds
    <3> QED BY <3>5, <3>6, <3>8, <3>10 DEF u
  <2> QED BY <2>4, <2>5
<1> QED BY <1>1, <1>2

\* A replace keeps the engine good, and reports a top changed by its delete as
\* well as one changed by its add.
LEMMA ReplaceGood ==
    ASSUME NEW e, Good(e), NEW old, NEW new \in Refs, new \notin Live(e) \ {old},
           NEW n \in Nat, NEW p \in Prices
    PROVE  LET u == Replace(e, old, new, n, p)
           IN  /\ Good(u.engine)
               /\ Reports(e, u)
               /\ old \in Live(e) => Live(u.engine) = (Live(e) \ {old}) \cup {new}
               /\ old \notin Live(e) => Live(u.engine) = Live(e)
               /\ QuantitiesMatch(e) => QuantitiesMatch(u.engine)
<1> DEFINE u == Replace(e, old, new, n, p)
<1>1. CASE old \notin Live(e)
  <2>1. u = [engine |-> e, found |-> FALSE, top |-> FALSE]
    BY <1>1 DEF Replace, Unknown
  <2> QED BY <1>1, <2>1 DEF Reports
<1>2. CASE old \in Live(e)
  <2> DEFINE o == e.orders[old]
             v == Remove(e, old)
             w == Add(v.engine, o.locate, new, o.side, n, p)
  <2>1. o.locate \in Locates /\ o.side \in Sides
    BY <1>2 DEF Good, IsEngine, Order
  <2>2. /\ Good(v.engine) /\ Reports(e, v) /\ v.found /\ v.locate = o.locate
        /\ Live(v.engine) = Live(e) \ {old}
        /\ QuantitiesMatch(e) => QuantitiesMatch(v.engine)
    BY <1>2, RemoveGood
  <2>3. w = [engine |-> w.engine, found |-> TRUE, locate |-> o.locate, top |-> w.top]
    BY DEF Add, Update
  <2>4. u = [w EXCEPT !.top = @ \/ v.top]
    BY <1>2 DEF Replace
  <2> HIDE DEF v, o, u
  <2>5. /\ Good(w.engine) /\ Reports(v.engine, w) /\ w.found /\ w.locate = o.locate
        /\ Live(w.engine) = Live(v.engine) \cup {new}
        /\ OrderAdded(v.engine, w.engine, o.locate, new, o.side, n, p)
    BY <2>1, <2>2, AddGood
  <2> HIDE DEF w
  <2>6. PICK top \in BOOLEAN : top = (w.top \/ v.top)
    OBVIOUS
  <2>7. /\ u.engine = w.engine /\ u.found = TRUE /\ u.locate = o.locate
        /\ u.top = (w.top \/ v.top)
    <3>1. u = [w EXCEPT !.top = top]
      BY <2>4, <2>6
    <3>2. u.engine = w.engine /\ u.found = TRUE /\ u.locate = o.locate /\ u.top = top
      BY <2>3, <3>1
    <3> QED BY <2>6, <3>2
  <2>8. u.top \in BOOLEAN
    BY <2>2, <2>5, <2>7 DEF Reports
  <2>9. ASSUME NEW l \in Locates, ~(u.top /\ l = o.locate)
        PROVE  Top(u.engine, l) = Top(e, l)
    <3>1. Top(v.engine, l) = Top(e, l)
      BY <2>2, <2>7, <2>9 DEF Reports
    <3>2. Top(w.engine, l) = Top(v.engine, l)
      BY <2>5, <2>7, <2>9 DEF Reports
    <3> QED BY <2>7, <3>1, <3>2
  <2>10. Reports(e, u)
    BY <2>1, <2>7, <2>8, <2>9 DEF Reports
  <2>11. Live(u.engine) = (Live(e) \ {old}) \cup {new}
    BY <2>2, <2>5, <2>7
  <2>12. QuantitiesMatch(e) => QuantitiesMatch(w.engine)
    BY <2>1, <2>2, <2>5, AddHolds
  <2> QED BY <1>2, <2>5, <2>7, <2>10, <2>11, <2>12 DEF u
<1> QED BY <1>1, <1>2
-----------------------------------------------------------------------------
(* The feed thread.                                                        *)

\* The inductive invariant: the engine is good and its levels hold the shares of
\* their orders, and the two copies of the tops and the peak follow it.
IInv == /\ TypeOK
        /\ Good(engine)
        /\ LevelsHoldShares
        /\ BboIsFresh
        /\ EventsCarryTop
        /\ PeakCovers

\* Publishing an honest update keeps the cache and the events fresh.
LEMMA ApplyKeeps ==
    ASSUME IInv, NEW u, Good(u.engine), Reports(engine, u), Apply(u)
    PROVE  /\ engine' = u.engine
           /\ Good(engine')
           /\ BboIsFresh'
           /\ EventsCarryTop'
           /\ bbo' = [l \in Locates |-> bbo'[l]]
           /\ seen' = [l \in Locates |-> seen'[l]]
           /\ missed' \subseteq Locates
<1>1. engine' = u.engine
  BY DEF Apply
<1>2. \A l \in Locates : bbo[l] = Top(engine, l)
  BY DEF IInv, BboIsFresh
<1>3. \A l \in Locates \ missed : seen[l] = Top(engine, l)
  BY DEF IInv, EventsCarryTop
<1>4. /\ bbo = [l \in Locates |-> bbo[l]] /\ seen = [l \in Locates |-> seen[l]]
      /\ missed \subseteq Locates
  BY DEF IInv, TypeOK
<1>5. CASE u.found /\ u.top
  <2> DEFINE top == Top(u.engine, u.locate)
  <2>1. u.locate \in Locates
    BY <1>5 DEF Reports
  <2>2. bbo' = [bbo EXCEPT ![u.locate] = top] /\ PushEvent(u.locate, top)
    BY <1>5 DEF Apply, Publish
  <2>3. \A l \in Locates : l # u.locate => Top(u.engine, l) = Top(engine, l)
    BY DEF Reports
  <2> HIDE DEF top
  <2>4. \A l \in Locates : bbo'[l] = Top(u.engine, l)
    BY <1>2, <1>4, <2>1, <2>2, <2>3 DEF top
  <2>5. bbo' = [l \in Locates |-> bbo'[l]]
    BY <1>4, <2>2
  <2>6. /\ seen' = [l \in Locates |-> seen'[l]] /\ missed' \subseteq Locates
        /\ \A l \in Locates \ missed' : seen'[l] = Top(u.engine, l)
    <3>1. CASE seen' = [seen EXCEPT ![u.locate] = top] /\ missed' = missed \ {u.locate}
      BY <1>3, <1>4, <2>1, <2>3, <3>1 DEF top
    <3>2. CASE missed' = missed \cup {u.locate} /\ seen' = seen
      BY <1>3, <1>4, <2>1, <2>3, <3>2
    <3> QED BY <2>2, <3>1, <3>2 DEF PushEvent
  <2> QED BY <1>1, <2>4, <2>5, <2>6 DEF BboIsFresh, EventsCarryTop
<1>6. CASE ~(u.found /\ u.top)
  <2>1. bbo' = bbo /\ seen' = seen /\ missed' = missed
    BY <1>6 DEF Apply, Publish
  <2>2. \A l \in Locates : Top(u.engine, l) = Top(engine, l)
    BY <1>6 DEF Reports
  <2> QED BY <1>1, <1>2, <1>3, <1>4, <2>1, <2>2 DEF BboIsFresh, EventsCarryTop
<1> QED BY <1>5, <1>6

\* An empty engine is good, and has no level to hold anything.
LEMMA NewGood == Good(NewEngine) /\ QuantitiesMatch(NewEngine)
<1> DEFINE e == NewEngine
<1>1. /\ e = [orders |-> e.orders, levels |-> e.levels, missing |-> e.missing]
      /\ e.missing = FALSE
      /\ e.levels = [l \in Locates |-> [s \in Sides |-> EmptySide]]
      /\ e.orders = [r \in {} |-> 0]
  BY DEF NewEngine
<1>2. Live(e) = {}
  BY <1>1 DEF Live
<1>3. IsSide(EmptySide) /\ DOMAIN EmptySide = {}
  BY DEF IsSide, EmptySide
<1> HIDE DEF e
<1>4. IsEngine(e)
  <2>1. e.orders \in [Live(e) -> Order]
    BY <1>1, <1>2
  <2>2. \A l \in Locates, s \in Sides : e.levels[l][s] = EmptySide
    BY <1>1
  <2>3. e.levels = [l \in Locates |-> [s \in Sides |-> e.levels[l][s]]]
    BY <1>1
  <2> QED BY <1>1, <1>2, <1>3, <2>1, <2>2, <2>3 DEF IsEngine
<1>5. CountsMatch(e)
  BY <1>1, <1>2, <1>3 DEF CountsMatch, Resting
<1>6. Good(e)
  BY <1>1, <1>2, <1>4, <1>5, FS_EmptySet DEF Good
<1>7. QuantitiesMatch(e)
  BY <1>1, <1>3, QuantitiesAreSums
<1> QED BY <1>6, <1>7 DEF e

\* Every message keeps the invariant.
THEOREM Invariant == Spec => []IInv
<1>1. Init => IInv
  <2> SUFFICES ASSUME Init PROVE IInv
    OBVIOUS
  <2>1. Good(engine) /\ Live(engine) = {} /\ LevelsHoldShares
    BY NewGood DEF Init, NewEngine, Live, LevelsHoldShares
  <2>2. Cardinality(Live(engine)) = 0
    BY <2>1, FS_EmptySet
  <2>3. TypeOK
    BY <2>1 DEF TypeOK, Good, Init
  <2>4. BboIsFresh /\ EventsCarryTop /\ PeakCovers
    BY <2>2 DEF BboIsFresh, EventsCarryTop, PeakCovers, Init
  <2> QED BY <2>1, <2>3, <2>4 DEF IInv
<1>2. IInv /\ [Next]_vars => IInv'
  <2> SUFFICES ASSUME IInv, [Next]_vars PROVE IInv'
    OBVIOUS
  <2>1. /\ Good(engine) /\ QuantitiesMatch(engine)
        /\ peakLive \in Nat /\ Cardinality(Live(engine)) <= peakLive
        /\ IsFiniteSet(Live(engine)) /\ Cardinality(Live(engine)) \in Nat
    BY FS_CardinalityType DEF IInv, TypeOK, Good, PeakCovers, LevelsHoldShares
  <2>2. ASSUME NEW u, Good(u.engine), QuantitiesMatch(u.engine), Reports(engine, u), Apply(u),
               peakLive' \in Nat, Cardinality(Live(u.engine)) <= peakLive'
        PROVE  IInv'
    <3>1. /\ engine' = u.engine /\ Good(engine') /\ BboIsFresh' /\ EventsCarryTop'
          /\ bbo' = [l \in Locates |-> bbo'[l]] /\ seen' = [l \in Locates |-> seen'[l]]
          /\ missed' \subseteq Locates
      BY <2>2, ApplyKeeps
    <3>2. TypeOK' /\ PeakCovers'
      BY <2>2, <3>1 DEF TypeOK, PeakCovers, Good
    <3>3. Good(engine)'
      BY <3>1 DEF Good, IsEngine, IsSide, Live, CountsMatch, Resting
    <3>4. LevelsHoldShares'
      BY <2>2, <3>1 DEF LevelsHoldShares
    <3> QED BY <3>1, <3>2, <3>3, <3>4 DEF IInv
  <2>3. ASSUME NEW l \in Locates, NEW r \in Refs, NEW s \in Sides, NEW n \in Shares,
               NEW p \in Prices, OnAdd(l, r, s, n, p)
        PROVE  IInv'
    <3> DEFINE u == Add(engine, l, r, s, n, p)
    <3>1. n \in Nat /\ r \notin Live(engine) /\ Apply(u)
      BY <2>3, BookAssumption DEF OnAdd
    <3>2. /\ Good(u.engine) /\ Reports(engine, u) /\ Live(u.engine) = Live(engine) \cup {r}
          /\ OrderAdded(engine, u.engine, l, r, s, n, p)
      BY <2>1, <3>1, AddGood
    <3>2a. QuantitiesMatch(u.engine)
      <4> HIDE DEF u
      <4> QED BY <2>1, <3>1, <3>2, AddHolds
    <3>3. engine' = u.engine
      BY <3>1 DEF Apply
    <3> HIDE DEF u
    <3>4. Cardinality(Live(u.engine)) \in Nat
      BY <3>2, FS_CardinalityType DEF Good
    <3>5. /\ peakLive' \in Nat /\ Cardinality(Live(u.engine)) <= peakLive'
      BY <2>1, <2>3, <3>3, <3>4 DEF OnAdd
    <3> QED BY <2>2, <3>1, <3>2, <3>2a, <3>5
  <2>4. ASSUME NEW r \in Refs, NEW n \in Shares, OnReduce(r, n)
        PROVE  IInv'
    <3> DEFINE u == Reduce(engine, r, n)
    <3>1. n \in Nat /\ Apply(u) /\ peakLive' = peakLive
      BY <2>4, BookAssumption DEF OnReduce
    <3>2. /\ Good(u.engine) /\ Reports(engine, u) /\ Live(u.engine) \subseteq Live(engine)
          /\ QuantitiesMatch(u.engine)
      BY <2>1, <3>1, ReduceGood
    <3> HIDE DEF u
    <3>3. /\ Cardinality(Live(u.engine)) \in Nat
          /\ Cardinality(Live(u.engine)) <= Cardinality(Live(engine))
      BY <2>1, <3>2, FS_Subset, FS_CardinalityType
    <3>4. Cardinality(Live(u.engine)) <= peakLive'
      BY <2>1, <3>1, <3>3
    <3> QED BY <2>1, <2>2, <3>1, <3>2, <3>4
  <2>5. ASSUME NEW r \in Refs, OnDelete(r)
        PROVE  IInv'
    <3> DEFINE u == Remove(engine, r)
    <3>1. Apply(u) /\ peakLive' = peakLive
      BY <2>5 DEF OnDelete
    <3>2. /\ Good(u.engine) /\ Reports(engine, u) /\ Live(u.engine) \subseteq Live(engine)
          /\ QuantitiesMatch(u.engine)
      BY <2>1, RemoveGood
    <3> HIDE DEF u
    <3>3. /\ Cardinality(Live(u.engine)) \in Nat
          /\ Cardinality(Live(u.engine)) <= Cardinality(Live(engine))
      BY <2>1, <3>2, FS_Subset, FS_CardinalityType
    <3>4. Cardinality(Live(u.engine)) <= peakLive'
      BY <2>1, <3>1, <3>3
    <3> QED BY <2>1, <2>2, <3>1, <3>2, <3>4
  <2>6. ASSUME NEW old \in Refs, NEW new \in Refs, NEW n \in Shares, NEW p \in Prices,
               OnReplace(old, new, n, p)
        PROVE  IInv'
    <3> DEFINE u == Replace(engine, old, new, n, p)
    <3>1. /\ n \in Nat /\ new \notin Live(engine) \ {old} /\ Apply(u) /\ peakLive' = peakLive
      BY <2>6, BookAssumption DEF OnReplace
    <3>2. /\ Good(u.engine) /\ Reports(engine, u)
          /\ old \in Live(engine) => Live(u.engine) = (Live(engine) \ {old}) \cup {new}
          /\ old \notin Live(engine) => Live(u.engine) = Live(engine)
          /\ QuantitiesMatch(u.engine)
      BY <2>1, <3>1, ReplaceGood
    <3> HIDE DEF u
    <3>3. Cardinality(Live(u.engine)) = Cardinality(Live(engine))
      <4>1. CASE old \in Live(engine)
        <5>1. /\ IsFiniteSet(Live(engine) \ {old})
              /\ Cardinality(Live(engine) \ {old}) = Cardinality(Live(engine)) - 1
          BY <2>1, <4>1, FS_RemoveElement
        <5>2. new \notin Live(engine) \ {old}
          BY <3>1
        <5>3. Cardinality((Live(engine) \ {old}) \cup {new})
                  = Cardinality(Live(engine) \ {old}) + 1
          BY <5>1, <5>2, FS_AddElement
        <5>4. Live(u.engine) = (Live(engine) \ {old}) \cup {new}
          BY <3>2, <4>1
        <5> QED BY <2>1, <5>1, <5>3, <5>4
      <4>2. CASE old \notin Live(engine)
        BY <3>2, <4>2
      <4> QED BY <4>1, <4>2
    <3>4. Cardinality(Live(u.engine)) <= peakLive'
      BY <2>1, <3>1, <3>3
    <3> QED BY <2>1, <2>2, <3>1, <3>2, <3>4
  <2>7. CASE UNCHANGED vars
    <3>1. /\ engine' = engine /\ bbo' = bbo /\ peakLive' = peakLive
          /\ seen' = seen /\ missed' = missed
      BY <2>7 DEF vars
    <3>2. /\ TypeOK' = TypeOK /\ BboIsFresh' = BboIsFresh
          /\ EventsCarryTop' = EventsCarryTop /\ PeakCovers' = PeakCovers
          /\ LevelsHoldShares' = LevelsHoldShares
      BY <3>1 DEF TypeOK, BboIsFresh, EventsCarryTop, PeakCovers, LevelsHoldShares
    <3> QED BY <3>1, <3>2 DEF IInv
  <2> QED BY <2>3, <2>4, <2>5, <2>6, <2>7 DEF Next
<1> QED BY <1>1, <1>2, PTL DEF Spec

\* Every variable keeps its type, whatever messages arrive.
THEOREM TypeCorrect == Spec => []TypeOK
BY Invariant, PTL DEF IInv

\* The order map and the levels agree on which levels exist and on how many
\* orders each counts: no order ever finds its level gone.
THEOREM LevelsAgree == Spec => []LevelsCountOrders
<1>1. IInv => LevelsCountOrders
  BY DEF IInv, Good, LevelsCountOrders
<1> QED BY <1>1, Invariant, PTL

\* A level holds exactly the shares its live orders have left, however many
\* orders rest on it and whatever executions, cancels and replaces they had.
THEOREM LevelsHold == Spec => []LevelsHoldShares
BY Invariant, PTL DEF IInv

\* The BBO cache of every locate holds the top of its book after every message.
THEOREM CacheFresh == Spec => []BboIsFresh
BY Invariant, PTL DEF IInv

\* An event the ring took carries the top of book until a later one is refused.
THEOREM EventsFresh == Spec => []EventsCarryTop
BY Invariant, PTL DEF IInv

\* The reported peak is never below the number of live orders.
THEOREM PeakNotBelow == Spec => []PeakCovers
BY Invariant, PTL DEF IInv

-----------------------------------------------------------------------------
(* The depth profiler.                                                     *)

\* the keys above k
Above(lv, k) == {j \in DOMAIN lv : j > k}

\* the keys at or above k
FromOn(lv, k) == {j \in DOMAIN lv : j >= k}

\* The keys of a side are finitely many numbers.
LEMMA FiniteKeys ==
    ASSUME NEW lv, IsSide(lv)
    PROVE  /\ IsFiniteSet(DOMAIN lv)
           /\ \A k \in DOMAIN lv : k \in Int
<1>1. IsFiniteSet(0 .. MaxKey)
  BY BookAssumption, FS_Interval
<1>2. DOMAIN lv \subseteq 0 .. MaxKey
  BY DEF IsSide, Keys
<1>3. IsFiniteSet(DOMAIN lv)
  BY ONLY <1>1, <1>2, FS_Subset
<1>4. \A k \in DOMAIN lv : k \in Int
  BY <1>2
<1> QED BY <1>3, <1>4

\* No two keys have as many keys above them.
LEMMA RankTells ==
    ASSUME NEW lv, IsSide(lv), NEW j \in DOMAIN lv, NEW k \in DOMAIN lv,
           Cardinality(Above(lv, j)) = Cardinality(Above(lv, k))
    PROVE  j = k
<1>1. IsFiniteSet(DOMAIN lv) /\ \A i \in DOMAIN lv : i \in Int
  BY FiniteKeys
<1>2. ASSUME NEW a \in DOMAIN lv, NEW b \in DOMAIN lv, a < b,
             Cardinality(Above(lv, a)) = Cardinality(Above(lv, b))
      PROVE  FALSE
  <2>1. Above(lv, a) \subseteq DOMAIN lv /\ Above(lv, b) \subseteq Above(lv, a)
    BY <1>1, <1>2 DEF Above
  <2>2. IsFiniteSet(Above(lv, a))
    BY <1>1, <2>1, FS_Subset
  <2>3. Above(lv, a) = Above(lv, b)
    BY <1>2, <2>1, <2>2, FS_Subset
  <2>4. b \in Above(lv, a) /\ b \notin Above(lv, b)
    BY <1>1, <1>2 DEF Above
  <2> QED BY <2>3, <2>4
<1>3. j \in Int /\ k \in Int
  BY <1>1
<1>4. CASE j < k
  BY <1>2, <1>4
<1>5. CASE k < j
  BY <1>2, <1>5
<1> QED BY <1>3, <1>4, <1>5

\* The profiler finds the level of a key by its depth.
LEMMA OrdersAtDepth ==
    ASSUME NEW lv, IsSide(lv), NEW key \in DOMAIN lv
    PROVE  OrdersAt(lv, LevelOf(lv, key)) = lv[key].orders
<1> DEFINE Is(k) == Cardinality(Above(lv, k)) = Cardinality(Above(lv, key))
           found == CHOOSE k \in DOMAIN lv : Is(k)
<1>1. found \in DOMAIN lv /\ Is(found)
  <2>1. \E k \in DOMAIN lv : Is(k)
    OBVIOUS
  <2> HIDE DEF Is
  <2> QED BY <2>1
<1>2. OrdersAt(lv, LevelOf(lv, key)) = lv[found].orders
  BY DEF OrdersAt, LevelOf, Above
<1> HIDE DEF found
<1>3. found = key
  BY <1>1, RankTells
<1> QED BY <1>2, <1>3

\* How many keys are left at or above a place once a level may have gone.
LEMMA KeysLeft ==
    ASSUME NEW lv, IsSide(lv), NEW key \in DOMAIN lv, NEW n, NEW to \in Keys,
           NEW left, left = LevelReduce(lv, key, n, TRUE)
    PROVE  KeysAtOrAbove(left, to) =
               KeysAtOrAbove(lv, to) - (IF lv[key].orders = 1 /\ key >= to THEN 1 ELSE 0)
<1>1. /\ IsFiniteSet(DOMAIN lv) /\ lv[key].orders \in Int
      /\ \A i \in DOMAIN lv : i \in Int
  BY FiniteKeys DEF IsSide
<1>2. IsFiniteSet(FromOn(lv, to)) /\ Cardinality(FromOn(lv, to)) \in Nat
  <2>1. FromOn(lv, to) \subseteq DOMAIN lv
    BY DEF FromOn
  <2> QED BY <1>1, <2>1, FS_Subset, FS_CardinalityType
<1>3. /\ KeysAtOrAbove(lv, to) = Cardinality(FromOn(lv, to))
      /\ KeysAtOrAbove(left, to) = Cardinality(FromOn(left, to))
  BY DEF KeysAtOrAbove, FromOn
<1>4. DOMAIN left = IF lv[key].orders = 1 THEN DOMAIN lv \ {key} ELSE DOMAIN lv
  BY <1>1 DEF LevelReduce
<1>5. CASE lv[key].orders = 1
  <2>1. FromOn(left, to) = FromOn(lv, to) \ {key}
    BY <1>4, <1>5 DEF FromOn
  <2>2. key \in FromOn(lv, to) <=> key >= to
    BY DEF FromOn
  <2>3. Cardinality(FromOn(lv, to) \ {key}) =
            IF key \in FromOn(lv, to) THEN Cardinality(FromOn(lv, to)) - 1
                                      ELSE Cardinality(FromOn(lv, to))
    BY <1>2, FS_RemoveElement
  <2>4. CASE key >= to
    <3>1. KeysAtOrAbove(left, to) = KeysAtOrAbove(lv, to) - 1
      BY <1>3, <2>1, <2>2, <2>3, <2>4
    <3> QED BY <1>5, <2>4, <3>1
  <2>5. CASE ~(key >= to)
    <3>1. KeysAtOrAbove(lv, to) \in Nat /\ KeysAtOrAbove(left, to) = KeysAtOrAbove(lv, to)
      BY <1>2, <1>3, <2>1, <2>2, <2>3, <2>5
    <3>2. KeysAtOrAbove(left, to) = KeysAtOrAbove(lv, to) - 0
      BY ONLY <3>1
    <3> QED BY <1>5, <2>5, <3>2
  <2> QED BY <2>4, <2>5
<1>6. CASE lv[key].orders # 1
  <2>1. FromOn(left, to) = FromOn(lv, to)
    BY <1>4, <1>6 DEF FromOn
  <2>2. KeysAtOrAbove(lv, to) \in Nat /\ KeysAtOrAbove(left, to) = KeysAtOrAbove(lv, to)
    BY <1>2, <1>3, <2>1
  <2>3. KeysAtOrAbove(left, to) = KeysAtOrAbove(lv, to) - 0
    BY ONLY <2>2
  <2> QED BY <1>6, <2>3
<1> QED BY <1>5, <1>6

\* A delete reduces the level of the order.
LEMMA RemoveLevel ==
    ASSUME NEW e, Good(e), NEW ref \in Live(e)
    PROVE  LevelReduced(e, Remove(e, ref).engine, ref, e.orders[ref].shares, TRUE)
<1>1. PICK n \in Nat : n = e.orders[ref].shares
  BY DEF Good, IsEngine, Order
<1>2. PICK gone \in BOOLEAN : gone = TRUE
  OBVIOUS
<1>3. PICK v : v = ApplyReduce(e, e.orders[ref], n, gone)
  OBVIOUS
<1>4. TakesFromLevel(e, v, ref, n, gone)
  BY <1>3, ApplyReduceLevel
<1>5. /\ IsEngine(v.engine)
      /\ v = [engine |-> v.engine, found |-> TRUE, locate |-> v.locate, top |-> v.top]
  BY <1>3, ApplyReduceGood
<1>6. Remove(e, ref) = [v EXCEPT !.engine = Erase(@, ref)]
  BY <1>1, <1>2, <1>3 DEF Remove
<1>7. Remove(e, ref).engine = Erase(v.engine, ref)
  BY ONLY <1>5, <1>6
<1>8. Erase(v.engine, ref).levels = v.engine.levels
  BY <1>5, EraseFields
<1> QED BY <1>1, <1>2, <1>4, <1>7, <1>8 DEF TakesFromLevel, LevelReduced

\* The profiler foresees the second search of a replace.
LEMMA InsertionForeseen ==
    ASSUME NEW e, Good(e), NEW ref \in Live(e), NEW price \in Prices
    PROVE  LET o == e.orders[ref]
           IN  Insertion(e, o, price)
                   = Measure(Remove(e, ref).engine, o.locate, o.side, price)
<1> DEFINE o == e.orders[ref]
           d == Remove(e, ref).engine
<1>1. PICK l, s, key : l = o.locate /\ s = o.side /\ key = Key(s, o.price)
  OBVIOUS
<1>2. PICK lv : lv = e.levels[l][s]
  OBVIOUS
<1>3. l \in Locates /\ s \in Sides /\ IsSide(lv) /\ key \in DOMAIN lv
  BY <1>1, <1>2, LiveHasLevel
<1>4. PICK left : left = LevelReduce(lv, key, o.shares, TRUE)
  OBVIOUS
<1>5. d.levels[l][s] = left
  BY <1>1, <1>2, <1>3, <1>4, RemoveLevel DEF LevelReduced
<1>6. PICK to \in Keys : to = Key(s, price)
  BY <1>3, KeyType
<1>7. KeysAtOrAbove(left, to) =
          KeysAtOrAbove(lv, to) - (IF lv[key].orders = 1 /\ key >= to THEN 1 ELSE 0)
  BY <1>3, <1>4, KeysLeft
<1>8. OrdersAt(lv, LevelOf(lv, key)) = lv[key].orders
  BY <1>3, OrdersAtDepth
<1>9. Measure(d, l, s, price) = KeysAtOrAbove(left, to)
  BY <1>5, <1>6 DEF Measure
<1>10. Insertion(e, o, price) =
           KeysAtOrAbove(lv, to)
               - (IF OrdersAt(lv, LevelOf(lv, key)) = 1 /\ key >= to THEN 1 ELSE 0)
  BY <1>1, <1>2, <1>6 DEF Insertion, Measure
<1> QED BY <1>1, <1>7, <1>8, <1>9, <1>10

\* A search on a side that has levels is measured; on any other there is none, and
\* it is measured as one without keys.
LEMMA SearchMeasured ==
    ASSUME NEW e, NEW l, NEW s, NEW price
    PROVE  LET lv == e.levels[l][s]
           IN  /\ DOMAIN lv # {} =>
                      LevelSearch(e, l, s, price) = <<Measure(e, l, s, price)>>
               /\ DOMAIN lv = {} =>
                      LevelSearch(e, l, s, price) = <<>> /\ Measure(e, l, s, price) = 0
<1>1. PICK lv : lv = e.levels[l][s]
  OBVIOUS
<1>2. Measure(e, l, s, price) = KeysAtOrAbove(lv, Key(s, price))
  BY <1>1 DEF Measure
<1>3. CASE DOMAIN lv # {}
  BY <1>1, <1>2, <1>3 DEF LevelSearch
<1>4. CASE DOMAIN lv = {}
  <2>1. {k \in DOMAIN lv : k >= Key(s, price)} = {}
    BY <1>4
  <2>2. KeysAtOrAbove(lv, Key(s, price)) = 0
    BY <2>1, FS_EmptySet DEF KeysAtOrAbove
  <2> QED BY <1>1, <1>2, <1>4, <2>2 DEF LevelSearch
<1> QED BY <1>1, <1>3, <1>4

\* One search followed by none, or by another.
LEMMA ListsOfSearches ==
    ASSUME NEW f, NEW g
    PROVE  /\ <<f>> \o <<>> = <<f>> /\ <<f>> \o <<g>> = Append(<<f>>, g)
           /\ Append(<<>>, f) = <<f>> /\ Len(<<f>>) = 1
<1>1. <<f>> \in Seq({f, g}) /\ <<g>> \in Seq({f, g}) /\ <<>> \in Seq({f, g})
  OBVIOUS
<1> QED BY <1>1

\* What the profiler records of a message are the searches it leads to, or one too
\* many.
Foreseen(m) ==
    LET recorded == Recorded(engine, m)
        searched == Searches(engine, m)
    IN  IF TakesNothing(m) THEN searched = <<>> /\ Len(recorded) = 1
        ELSE IF FindsEmptySide(m) THEN recorded = Append(searched, 0)
        ELSE recorded = searched

LEMMA SearchesForeseen ==
    ASSUME Good(engine), NEW m \in Incoming
    PROVE  Foreseen(m)
<1>1. CASE m.kind = "A"
  <2>1. PICK f : f = Measure(engine, m.locate, m.side, m.price)
    OBVIOUS
  <2>2. /\ Recorded(engine, m) = <<f>>
        /\ Searches(engine, m) = LevelSearch(engine, m.locate, m.side, m.price)
        /\ ~TakesNothing(m)
        /\ FindsEmptySide(m) <=> DOMAIN engine.levels[m.locate][m.side] = {}
    BY <1>1, <2>1 DEF Recorded, Searches, TakesNothing, FindsEmptySide
  <2>3. CASE FindsEmptySide(m)
    <3>1. Searches(engine, m) = <<>> /\ f = 0
      BY <2>1, <2>2, <2>3, SearchMeasured
    <3>2. Append(<<>>, f) = <<f>>
      BY ListsOfSearches
    <3> QED BY <2>2, <2>3, <3>1, <3>2 DEF Foreseen
  <2>4. CASE ~FindsEmptySide(m)
    <3>1. Searches(engine, m) = <<f>>
      BY <2>1, <2>2, <2>4, SearchMeasured
    <3> QED BY <2>2, <2>4, <3>1 DEF Foreseen
  <2> QED BY <2>3, <2>4
<1>2. CASE m.kind # "A" /\ m.ref \notin Live(engine)
  <2>1. Recorded(engine, m) = <<>> /\ Searches(engine, m) = <<>>
    BY <1>2 DEF Recorded, Searches
  <2>2. ~TakesNothing(m) /\ ~FindsEmptySide(m)
    BY <1>2 DEF TakesNothing, FindsEmptySide
  <2> QED BY <2>1, <2>2 DEF Foreseen
<1>3. CASE m.kind # "A" /\ m.ref \in Live(engine)
  <2> DEFINE o == engine.orders[m.ref]
             d == Remove(engine, m.ref).engine
  <2>1. m.kind \in {"X", "D", "U"} /\ (m.kind = "U" => m.price \in Prices)
    BY <1>3 DEF Incoming
  <2>2. PICK f : f = Measure(engine, o.locate, o.side, o.price)
    OBVIOUS
  <2>3. LevelSearch(engine, o.locate, o.side, o.price) = <<f>>
    <3>1. DOMAIN engine.levels[o.locate][o.side] # {}
      BY <1>3, LiveHasLevel
    <3> QED BY <2>2, <3>1, SearchMeasured
  <2>4. <<f>> \o <<>> = <<f>> /\ Len(<<f>>) = 1
    BY ListsOfSearches
  <2>5. CASE m.kind = "X"
    <3>1. Recorded(engine, m) = <<f>>
      BY <1>3, <2>2, <2>4, <2>5 DEF Recorded
    <3>2. /\ Searches(engine, m) = IF Taken(o, m.shares) = 0 THEN <<>> ELSE <<f>>
          /\ TakesNothing(m) <=> Taken(o, m.shares) = 0
          /\ ~FindsEmptySide(m)
      BY <1>3, <2>3, <2>5 DEF Searches, TakesNothing, FindsEmptySide
    <3> QED BY <2>4, <3>1, <3>2 DEF Foreseen
  <2>6. CASE m.kind = "D"
    <3>1. Recorded(engine, m) = <<f>>
      BY <1>3, <2>2, <2>4, <2>6 DEF Recorded
    <3>2. Searches(engine, m) = <<f>> /\ ~TakesNothing(m) /\ ~FindsEmptySide(m)
      BY <1>3, <2>3, <2>6 DEF Searches, TakesNothing, FindsEmptySide
    <3> QED BY <3>1, <3>2 DEF Foreseen
  <2>7. CASE m.kind = "U"
    <3>1. PICK g : g = Measure(d, o.locate, o.side, m.price)
      OBVIOUS
    <3>2. Insertion(engine, o, m.price) = g
      BY <1>3, <2>1, <2>7, <3>1, InsertionForeseen
    <3>3. Recorded(engine, m) = <<f>> \o <<g>>
      BY <1>3, <2>2, <2>7, <3>2 DEF Recorded
    <3>4. /\ Searches(engine, m) = <<f>> \o LevelSearch(d, o.locate, o.side, m.price)
          /\ ~TakesNothing(m)
          /\ FindsEmptySide(m) <=> DOMAIN d.levels[o.locate][o.side] = {}
      BY <1>3, <2>3, <2>7 DEF Searches, TakesNothing, FindsEmptySide
    <3>5. CASE FindsEmptySide(m)
      <4>1. LevelSearch(d, o.locate, o.side, m.price) = <<>> /\ g = 0
        BY <3>1, <3>4, <3>5, SearchMeasured
      <4>2. <<f>> \o <<g>> = Append(<<f>>, g)
        BY ListsOfSearches
      <4> QED BY <2>4, <3>3, <3>4, <3>5, <4>1, <4>2 DEF Foreseen
    <3>6. CASE ~FindsEmptySide(m)
      <4>1. LevelSearch(d, o.locate, o.side, m.price) = <<g>>
        BY <3>1, <3>4, <3>6, SearchMeasured
      <4> QED BY <3>3, <3>4, <3>6, <4>1 DEF Foreseen
    <3> QED BY <3>5, <3>6
  <2> QED BY <2>1, <2>5, <2>6, <2>7
<1> QED BY <1>1, <1>2, <1>3

\* The depth profiler records each search the engine then makes, and the keys it
\* meets, whatever message comes: a level that the first half of a replace takes
\* away is left out of the second.  What it records beyond them is one search without
\* keys for an insertion into an empty side, and one for a reduction by no shares.
THEOREM ProfileForesees == Spec => []ForeseesSearches
<1>1. IInv => ForeseesSearches
  BY SearchesForeseen DEF IInv, ForeseesSearches, Foreseen
<1> QED BY <1>1, Invariant, PTL

-----------------------------------------------------------------------------
(* The live path.                                                          *)

\* What is proved of one packet, of the sequencer as FeedHandler uses it.
Loop == INSTANCE MoldSequencer_proofs
            WITH LastSeq <- 0, MaxBatch <- 1, running <- TRUE, left <- 0, eos <- {}

\* The assumption of its module.
LEMMA LoopAssumption == 0 \in Nat /\ MaxCount \in Nat /\ 1 \in Nat /\ MaxEpochs \in Nat
BY PathAssumption

-----------------------------------------------------------------------------
(* What a message does to the orders of an engine.                         *)

\* An engine whose levels are those of its orders.
Sound(e) == Good(e) /\ QuantitiesMatch(e)

\* d is e with the order o under the reference ref.
Added(e, d, ref, o) ==
    /\ Sound(d)
    /\ Live(d) = Live(e) \cup {ref}
    /\ d.orders[ref] = o
    /\ \A r \in Live(e) \ {ref} : d.orders[r] = e.orders[r]

\* d is e without the order ref.
Removed(e, d, ref) ==
    /\ Sound(d)
    /\ Live(d) = Live(e) \ {ref}
    /\ \A r \in Live(d) : d.orders[r] = e.orders[r]

\* The order o with n shares.
WithShares(o, n) == [locate |-> o.locate, side |-> o.side, price |-> o.price, shares |-> n]

\* d is e after n shares of the order ref were taken, if it has so many.
Reduced(e, d, ref, n) ==
    IF e.orders[ref].shares <= n THEN Removed(e, d, ref)
    ELSE Added(e, d, ref, WithShares(e.orders[ref], e.orders[ref].shares - n))

\* d is e with the order new in the place of old.
Replaced(e, d, old, new, o) ==
    /\ Sound(d)
    /\ Live(d) = (Live(e) \ {old}) \cup {new}
    /\ d.orders[new] = o
    /\ \A r \in Live(e) \ {old, new} : d.orders[r] = e.orders[r]

\* An add.
LEMMA AddEffect ==
    ASSUME NEW e, Sound(e), NEW l \in Locates, NEW ref \in Refs, ref \notin Live(e),
           NEW s \in Sides, NEW n \in Nat, NEW p \in Prices
    PROVE  /\ Add(e, l, ref, s, n, p).found
           /\ Added(e, Add(e, l, ref, s, n, p).engine, ref,
                    [locate |-> l, side |-> s, price |-> p, shares |-> n])
<1> DEFINE key == Key(s, p)
           lv  == e.levels[l][s]
           o   == [locate |-> l, side |-> s, price |-> p, shares |-> n]
           i   == Insert(e, ref, o)
           new == LevelAdd(lv, key, n)
           d   == SetSide(i, l, s, new)
           u   == Add(e, l, ref, s, n, p)
<1>1. key \in Keys /\ o \in Order
  BY KeyType DEF Order
<1>2. IsSide(lv) /\ IsEngine(e)
  BY DEF Sound, Good, IsEngine
<1>3. /\ IsEngine(i) /\ Live(i) = Live(e) \cup {ref}
      /\ \A r \in Live(i) : i.orders[r] = IF r = ref THEN o ELSE e.orders[r]
  BY <1>1, <1>2, InsertFields
<1>4. IsSide(new)
  BY <1>1, <1>2, AddSide
<1>5. d.orders = i.orders
  <2> HIDE DEF i, new
  <2>1. SideSet(i, d, l, s, new)
    BY <1>3, <1>4, SetSideFields
  <2> HIDE DEF d
  <2> QED BY <2>1 DEF SideSet
<1>6. u.engine = d /\ u.found
  BY DEF Add, Update
<1> HIDE DEF u, d, i, o
<1>7. Good(u.engine) /\ Live(u.engine) = Live(e) \cup {ref} /\ OrderAdded(e, u.engine, l, ref, s, n, p)
  BY AddGood DEF Sound, u
<1>8. QuantitiesMatch(u.engine)
  BY <1>7, AddHolds DEF Sound
<1>9. u.engine.orders[ref] = o /\ \A r \in Live(e) \ {ref} : u.engine.orders[r] = e.orders[r]
  BY <1>3, <1>5, <1>6
<1> QED BY <1>6, <1>7, <1>8, <1>9 DEF Added, Sound, u, o

\* A delete; of an order that is not live it changes nothing.
LEMMA RemoveEffect ==
    ASSUME NEW e, Sound(e), NEW ref
    PROVE  /\ ref \in Live(e) => Remove(e, ref).found
           /\ Removed(e, Remove(e, ref).engine, ref)
<1> DEFINE u == Remove(e, ref)
<1>1. Sound(u.engine) /\ Live(u.engine) = Live(e) \ {ref} /\ (ref \in Live(e) => u.found)
  BY RemoveGood DEF Sound
<1>2. \A r \in Live(u.engine) : u.engine.orders[r] = e.orders[r]
  <2>1. CASE ref \notin Live(e)
    <3>1. u.engine = e
      BY <2>1 DEF Remove, Unknown
    <3> QED BY <3>1
  <2>2. CASE ref \in Live(e)
    <3>1. PICK n \in Nat : n = e.orders[ref].shares
      BY <2>2 DEF Sound, Good, IsEngine, Order
    <3>2. PICK gone \in BOOLEAN : gone = TRUE
      OBVIOUS
    <3> DEFINE v == ApplyReduce(e, e.orders[ref], n, gone)
    <3>3. /\ IsEngine(v.engine) /\ v.engine.orders = e.orders
          /\ v = [engine |-> v.engine, found |-> TRUE, locate |-> v.locate, top |-> v.top]
      BY <2>2, ApplyReduceGood DEF Sound
    <3>4. u = [v EXCEPT !.engine = Erase(@, ref)]
      BY <2>2, <3>1, <3>2 DEF Remove
    <3> HIDE DEF v, u
    <3>5. u.engine = Erase(v.engine, ref)
      BY <3>3, <3>4
    <3>6. \A r \in Live(Erase(v.engine, ref)) : Erase(v.engine, ref).orders[r] = v.engine.orders[r]
      BY <3>3, EraseFields
    <3> QED BY <3>3, <3>5, <3>6
  <2> QED BY <2>1, <2>2
<1> QED BY <1>1, <1>2 DEF Removed

\* An execution or a cancel of an order that has shares.
LEMMA ReduceEffect ==
    ASSUME NEW e, Sound(e), NEW ref \in Live(e), e.orders[ref].shares > 0,
           NEW n \in Nat, n > 0
    PROVE  Reduce(e, ref, n).found /\ Reduced(e, Reduce(e, ref, n).engine, ref, n)
<1> DEFINE u     == Reduce(e, ref, n)
           o     == e.orders[ref]
           taken == Taken(o, n)
           rest  == o.shares - taken
<1>1. Sound(u.engine)
  BY ReduceGood DEF Sound
<1>2. o \in Order /\ o.shares \in Nat /\ ref \in Refs /\ IsEngine(e)
  BY DEF Sound, Good, IsEngine, Order
<1>3. /\ taken \in Nat /\ taken # 0 /\ rest \in Nat
      /\ o.shares <= n => rest = 0
      /\ o.shares > n => rest = o.shares - n /\ rest # 0
  <2>1. PICK k \in Nat : k = o.shares
    BY <1>2
  <2>2. taken = IF n > k THEN k ELSE n
    BY <2>1 DEF Taken
  <2>3. rest = k - taken /\ k > 0
    BY <2>1
  <2> HIDE DEF taken, rest, o
  <2> QED BY <2>1, <2>2, <2>3
<1>4. PICK gone \in BOOLEAN : gone = (rest = 0)
  OBVIOUS
<1> DEFINE v == ApplyReduce(e, o, taken, gone)
<1>5. /\ IsEngine(v.engine) /\ v.engine.orders = e.orders
      /\ v = [engine |-> v.engine, found |-> TRUE, locate |-> v.locate, top |-> v.top]
  <2> HIDE DEF taken, rest
  <2> QED BY <1>3, ApplyReduceGood DEF Sound
<1>6. u = [v EXCEPT !.engine = IF rest = 0 THEN Erase(@, ref)
                                           ELSE Insert(@, ref, [o EXCEPT !.shares = rest])]
  BY <1>3, <1>4 DEF Reduce
<1> HIDE DEF u, v
<1>7. u.found
  BY <1>5, <1>6
<1>8. CASE o.shares <= n
  <2>1. u.engine = Erase(v.engine, ref)
    BY <1>3, <1>5, <1>6, <1>8
  <2>2. /\ Live(Erase(v.engine, ref)) = Live(v.engine) \ {ref}
        /\ \A r \in Live(Erase(v.engine, ref)) : Erase(v.engine, ref).orders[r] = v.engine.orders[r]
    BY <1>5, EraseFields
  <2>3. Live(v.engine) = Live(e)
    BY <1>5 DEF Live
  <2> QED BY <1>1, <1>5, <1>7, <1>8, <2>1, <2>2, <2>3 DEF Reduced, Removed, u
<1>9. CASE o.shares > n
  <2> DEFINE w == WithShares(o, rest)
  <2>1. w \in Order /\ w = [o EXCEPT !.shares = rest]
    <3> HIDE DEF o, rest
    <3> QED BY <1>2, <1>3 DEF WithShares, Order
  <2>2. u.engine = Insert(v.engine, ref, w)
    BY <1>3, <1>5, <1>6, <1>9, <2>1
  <2> HIDE DEF w
  <2>3. /\ Live(Insert(v.engine, ref, w)) = Live(v.engine) \cup {ref}
        /\ \A r \in Live(Insert(v.engine, ref, w)) :
               Insert(v.engine, ref, w).orders[r] = IF r = ref THEN w ELSE v.engine.orders[r]
    BY <1>2, <1>5, <2>1, InsertFields
  <2>4. Live(v.engine) = Live(e)
    BY <1>5 DEF Live
  <2>5. Added(e, u.engine, ref, w)
    BY <1>1, <1>5, <2>2, <2>3, <2>4 DEF Added
  <2>6. w = WithShares(e.orders[ref], e.orders[ref].shares - n)
    BY <1>3, <1>9 DEF w
  <2>7. ~(e.orders[ref].shares <= n)
    BY <1>2, <1>9
  <2> QED BY <1>7, <2>5, <2>6, <2>7 DEF Reduced, u
<1> QED BY <1>2, <1>8, <1>9

\* A replace by an order that is not live.
LEMMA ReplaceEffect ==
    ASSUME NEW e, Sound(e), NEW old \in Live(e), NEW new \in Refs, new \notin Live(e),
           NEW n \in Nat, NEW p \in Prices
    PROVE  /\ Replace(e, old, new, n, p).found
           /\ Replaced(e, Replace(e, old, new, n, p).engine, old, new,
                       [locate |-> e.orders[old].locate, side |-> e.orders[old].side,
                        price |-> p, shares |-> n])
<1> DEFINE u == Replace(e, old, new, n, p)
           o == e.orders[old]
           x == [locate |-> o.locate, side |-> o.side, price |-> p, shares |-> n]
<1>1. PICK l \in Locates, s \in Sides : l = o.locate /\ s = o.side
  BY DEF Sound, Good, IsEngine, Order
<1> DEFINE v == Remove(e, old).engine
           w == Add(v, o.locate, new, o.side, n, p)
<1>2. Removed(e, v, old)
  BY RemoveEffect
<1>3. Sound(v) /\ new \notin Live(v)
  BY <1>2 DEF Removed
<1>4. Added(v, w.engine, new, x)
  <2> HIDE DEF v, o
  <2> QED BY <1>1, <1>3, AddEffect
<1>5. u.engine = w.engine /\ u.found
  <2>1. u = [w EXCEPT !.top = @ \/ Remove(e, old).top]
    BY DEF Replace
  <2>2. w = [engine |-> w.engine, found |-> TRUE, locate |-> o.locate, top |-> w.top]
    BY DEF Add, Update
  <2> HIDE DEF w, u
  <2> QED BY <2>1, <2>2
<1> HIDE DEF u, v, w
<1>6. Replaced(e, u.engine, old, new, x)
  BY <1>2, <1>4, <1>5 DEF Added, Removed, Replaced
<1> QED BY <1>5, <1>6 DEF u

-----------------------------------------------------------------------------
(* The resting orders of the generator mirror the engine.                  *)

\* What the generator keeps of a resting order.
RestingOrder == [ref : Refs, price : Prices, shares : Nat \ {0}, side : Sides]

\* The orders q of the symbol l are the orders of l in e, each once.
MirrorsAt(q, l, e) ==
    /\ \A i \in DOMAIN q : /\ q[i].ref \in Live(e)
                           /\ e.orders[q[i].ref] = OrderOf(l, q[i])
    /\ \A i, j \in DOMAIN q : q[i].ref = q[j].ref => i = j
    /\ \A r \in Live(e) : e.orders[r].locate = l => \E i \in DOMAIN q : q[i].ref = r

\* The fields of an order.
LEMMA OrderFields ==
    ASSUME NEW l, NEW o
    PROVE  /\ OrderOf(l, o).locate = l /\ OrderOf(l, o).side = o.side
           /\ OrderOf(l, o).price = o.price /\ OrderOf(l, o).shares = o.shares
BY DEF OrderOf

\* Another symbol's orders do not matter.
LEMMA OtherMirrors ==
    ASSUME NEW q, NEW l, NEW e, NEW d, MirrorsAt(q, l, e),
           \A r \in Live(e) : e.orders[r].locate = l => r \in Live(d) /\ d.orders[r] = e.orders[r],
           \A r \in Live(d) : d.orders[r].locate = l => r \in Live(e) /\ d.orders[r] = e.orders[r]
    PROVE  MirrorsAt(q, l, d)
<1>1. ASSUME NEW i \in DOMAIN q
      PROVE  q[i].ref \in Live(d) /\ d.orders[q[i].ref] = OrderOf(l, q[i])
  <2>1. q[i].ref \in Live(e) /\ e.orders[q[i].ref] = OrderOf(l, q[i])
    BY DEF MirrorsAt
  <2>2. e.orders[q[i].ref].locate = l
    BY <2>1, OrderFields
  <2> QED BY <2>1, <2>2
<1>2. \A r \in Live(d) : d.orders[r].locate = l => \E i \in DOMAIN q : q[i].ref = r
  BY DEF MirrorsAt
<1>3. \A i, j \in DOMAIN q : q[i].ref = q[j].ref => i = j
  BY DEF MirrorsAt
<1> QED BY <1>1, <1>2, <1>3 DEF MirrorsAt

\* A new order.
LEMMA AppendMirrors ==
    ASSUME NEW q \in Seq(RestingOrder), NEW l, NEW e, NEW d, MirrorsAt(q, l, e),
           NEW o \in RestingOrder, o.ref \notin Live(e), Added(e, d, o.ref, OrderOf(l, o))
    PROVE  Append(q, o) \in Seq(RestingOrder) /\ MirrorsAt(Append(q, o), l, d)
<1> DEFINE t == Append(q, o)
<1>1. /\ t \in Seq(RestingOrder) /\ DOMAIN q = 1 .. Len(q) /\ Len(q) \in Nat
      /\ DOMAIN t = 1 .. Len(q) + 1 /\ t[Len(q) + 1] = o
      /\ \A i \in 1 .. Len(q) : t[i] = q[i]
  OBVIOUS
<1> HIDE DEF t
<1>2. /\ \A i \in DOMAIN q : /\ q[i].ref \in Live(e) /\ q[i].ref # o.ref
                             /\ e.orders[q[i].ref] = OrderOf(l, q[i])
      /\ \A i, j \in DOMAIN q : q[i].ref = q[j].ref => i = j
      /\ \A r \in Live(e) : e.orders[r].locate = l => \E i \in DOMAIN q : q[i].ref = r
  BY DEF MirrorsAt
<1>3. /\ Live(d) = Live(e) \cup {o.ref} /\ d.orders[o.ref] = OrderOf(l, o)
      /\ \A r \in Live(e) : d.orders[r] = e.orders[r]
  BY DEF Added
<1>4. \A i \in DOMAIN t : i \in DOMAIN q \/ i = Len(q) + 1
  BY <1>1
<1>5. ASSUME NEW i \in DOMAIN t
      PROVE  t[i].ref \in Live(d) /\ d.orders[t[i].ref] = OrderOf(l, t[i])
  BY <1>1, <1>2, <1>3, <1>4
<1>6. ASSUME NEW i \in DOMAIN t, NEW j \in DOMAIN t, t[i].ref = t[j].ref
      PROVE  i = j
  BY <1>1, <1>2, <1>4, <1>6
<1>7. ASSUME NEW r \in Live(d), d.orders[r].locate = l
      PROVE  \E i \in DOMAIN t : t[i].ref = r
  <2>1. CASE r = o.ref
    BY <1>1, <2>1
  <2>2. CASE r # o.ref
    <3>1. PICK i \in DOMAIN q : q[i].ref = r
      BY <1>2, <1>3, <1>7, <2>2
    <3>2. i \in DOMAIN t /\ t[i] = q[i]
      BY <1>1
    <3> QED BY <3>1, <3>2
  <2> QED BY <2>1, <2>2
<1>8. MirrorsAt(t, l, d)
  BY <1>5, <1>6, <1>7 DEF MirrorsAt
<1> QED BY <1>1, <1>8 DEF t

\* The vector without the order at i, the last one in its place.
LEMMA EraseFacts ==
    ASSUME NEW S, NEW q \in Seq(S), NEW i \in DOMAIN q
    PROVE  /\ EraseLive(q, i) \in Seq(S)
           /\ DOMAIN EraseLive(q, i) = 1 .. Len(q) - 1
           /\ \A j \in 1 .. Len(q) - 1 :
                  EraseLive(q, i)[j] = IF j = i THEN q[Len(q)] ELSE q[j]
<1>1. Len(q) \in Nat /\ DOMAIN q = 1 .. Len(q) /\ i \in 1 .. Len(q) /\ Len(q) > 0
  OBVIOUS
<1>2. PICK n \in Nat : Len(q) = n + 1
  <2>1. Len(q) - 1 \in Nat /\ Len(q) = (Len(q) - 1) + 1
    BY <1>1
  <2> QED BY <2>1
<1>3. \A j \in 1 .. n + 1 : q[j] \in S
  BY <1>1, <1>2, ElementOfSeq
<1>4. PICK last \in S : last = q[n + 1]
  BY <1>2, <1>3
<1> DEFINE t == [q EXCEPT ![i] = last]
<1>5. \A j \in 1 .. n + 1 : t[j] = IF j = i THEN last ELSE q[j]
  BY <1>1, <1>2
<1>6. EraseLive(q, i) = SubSeq(t, 1, n)
  <2>1. Len(q) - 1 = n
    BY <1>2
  <2> QED BY <1>2, <1>4, <2>1 DEF EraseLive
<1> HIDE DEF t
<1>7. \A j \in 1 .. n : t[j] \in S
  BY <1>3, <1>4, <1>5
<1>8. /\ SubSeq(t, 1, n) \in Seq(S)
      /\ Len(SubSeq(t, 1, n)) = IF 1 <= n THEN n - 1 + 1 ELSE 0
      /\ \A j \in 1 .. n - 1 + 1 : SubSeq(t, 1, n)[j] = t[1 + j - 1]
  <2>1. 1 \in Int /\ n \in Int
    OBVIOUS
  <2> QED BY <1>7, <2>1, SubSeqProperties
<1>9. Len(SubSeq(t, 1, n)) = n /\ n - 1 + 1 = n /\ \A j \in Int : 1 + j - 1 = j
  BY <1>8
<1>10. \A j \in 1 .. n : SubSeq(t, 1, n)[j] = t[j]
  BY <1>8, <1>9
<1>11. DOMAIN SubSeq(t, 1, n) = 1 .. n
  BY <1>8, <1>9, LenProperties
<1>12. Len(q) - 1 = n
  BY <1>2
<1>13. \A j \in 1 .. n : SubSeq(t, 1, n)[j] = IF j = i THEN q[Len(q)] ELSE q[j]
  BY <1>2, <1>4, <1>5, <1>10
<1> QED BY <1>6, <1>8, <1>11, <1>12, <1>13

\* A delete, or an execution of the last shares.
LEMMA EraseMirrors ==
    ASSUME NEW q \in Seq(RestingOrder), NEW l, NEW e, NEW d, MirrorsAt(q, l, e),
           NEW i \in DOMAIN q, Removed(e, d, q[i].ref)
    PROVE  EraseLive(q, i) \in Seq(RestingOrder) /\ MirrorsAt(EraseLive(q, i), l, d)
<1> DEFINE t == EraseLive(q, i)
<1>1. /\ t \in Seq(RestingOrder) /\ DOMAIN t = 1 .. Len(q) - 1
      /\ \A j \in 1 .. Len(q) - 1 : t[j] = IF j = i THEN q[Len(q)] ELSE q[j]
  BY EraseFacts
<1>2. Len(q) \in Nat /\ DOMAIN q = 1 .. Len(q)
  OBVIOUS
<1> HIDE DEF t
<1> DEFINE from(j) == IF j = i THEN Len(q) ELSE j
<1>3. ASSUME NEW j \in DOMAIN t
      PROVE  from(j) \in DOMAIN q /\ from(j) # i /\ t[j] = q[from(j)]
  <2>1. j \in Int /\ 1 <= j /\ j <= Len(q) - 1
    BY <1>1, <1>2
  <2> QED BY <1>1, <1>2, <2>1
<1>4. \A j, k \in DOMAIN t : from(j) = from(k) => j = k
  BY <1>1, <1>2
<1>5. \A k \in DOMAIN q : k # i => \E j \in DOMAIN t : from(j) = k
  <2> SUFFICES ASSUME NEW k \in DOMAIN q, k # i PROVE \E j \in DOMAIN t : from(j) = k
    OBVIOUS
  <2>1. CASE k = Len(q)
    <3>1. i \in DOMAIN t
      BY <1>1, <1>2, <2>1
    <3> QED BY <2>1, <3>1
  <2>2. CASE k # Len(q)
    <3>1. k \in DOMAIN t
      BY <1>1, <1>2, <2>2
    <3> QED BY <3>1
  <2> QED BY <2>1, <2>2
<1> HIDE DEF from
<1>6. /\ \A j \in DOMAIN q : /\ q[j].ref \in Live(e)
                             /\ e.orders[q[j].ref] = OrderOf(l, q[j])
      /\ \A j, k \in DOMAIN q : q[j].ref = q[k].ref => j = k
      /\ \A r \in Live(e) : e.orders[r].locate = l => \E j \in DOMAIN q : q[j].ref = r
  BY DEF MirrorsAt
<1>7. Live(d) = Live(e) \ {q[i].ref} /\ \A r \in Live(d) : d.orders[r] = e.orders[r]
  BY DEF Removed
<1>8. ASSUME NEW j \in DOMAIN t
      PROVE  t[j].ref \in Live(d) /\ d.orders[t[j].ref] = OrderOf(l, t[j])
  BY <1>3, <1>6, <1>7
<1>9. ASSUME NEW j \in DOMAIN t, NEW k \in DOMAIN t, t[j].ref = t[k].ref
      PROVE  j = k
  BY <1>3, <1>4, <1>6, <1>9
<1>10. ASSUME NEW r \in Live(d), d.orders[r].locate = l
       PROVE  \E j \in DOMAIN t : t[j].ref = r
  <2>1. PICK k \in DOMAIN q : q[k].ref = r
    BY <1>6, <1>7, <1>10
  <2>2. k # i
    BY <1>7, <2>1
  <2>3. PICK j \in DOMAIN t : from(j) = k
    BY <1>5, <2>2
  <2> QED BY <1>3, <2>1, <2>3
<1>11. MirrorsAt(t, l, d)
  BY <1>8, <1>9, <1>10 DEF MirrorsAt
<1> QED BY <1>1, <1>11 DEF t

\* An order that takes the place of another, or of itself with fewer shares.
LEMMA ExchangeMirrors ==
    ASSUME NEW q \in Seq(RestingOrder), NEW l, NEW e, NEW d, MirrorsAt(q, l, e),
           NEW i \in DOMAIN q, NEW o \in RestingOrder,
           o.ref = q[i].ref \/ o.ref \notin Live(e),
           Replaced(e, d, q[i].ref, o.ref, OrderOf(l, o))
    PROVE  [q EXCEPT ![i] = o] \in Seq(RestingOrder) /\ MirrorsAt([q EXCEPT ![i] = o], l, d)
<1> DEFINE t == [q EXCEPT ![i] = o]
<1>1. /\ t \in Seq(RestingOrder) /\ DOMAIN t = DOMAIN q /\ t[i] = o
      /\ \A j \in DOMAIN q : j # i => t[j] = q[j]
  <2>1. i \in 1 .. Len(q)
    OBVIOUS
  <2>2. t \in Seq(RestingOrder)
    BY <2>1, ExceptSeq
  <2> QED BY <2>2
<1> HIDE DEF t
<1>2. /\ \A j \in DOMAIN q : /\ q[j].ref \in Live(e)
                             /\ e.orders[q[j].ref] = OrderOf(l, q[j])
      /\ \A j, k \in DOMAIN q : q[j].ref = q[k].ref => j = k
      /\ \A r \in Live(e) : e.orders[r].locate = l => \E j \in DOMAIN q : q[j].ref = r
  BY DEF MirrorsAt
<1>3. /\ Live(d) = (Live(e) \ {q[i].ref}) \cup {o.ref} /\ d.orders[o.ref] = OrderOf(l, o)
      /\ \A r \in Live(e) \ {q[i].ref, o.ref} : d.orders[r] = e.orders[r]
  BY DEF Replaced
<1>4. \A j \in DOMAIN q : j # i => q[j].ref # o.ref /\ q[j].ref # q[i].ref
  BY <1>2
<1>5. ASSUME NEW j \in DOMAIN t
      PROVE  t[j].ref \in Live(d) /\ d.orders[t[j].ref] = OrderOf(l, t[j])
  <2>1. CASE j = i
    BY <1>1, <1>3, <2>1
  <2>2. CASE j # i
    BY <1>1, <1>2, <1>3, <1>4, <2>2
  <2> QED BY <2>1, <2>2
<1>6. ASSUME NEW j \in DOMAIN t, NEW k \in DOMAIN t, t[j].ref = t[k].ref
      PROVE  j = k
  BY <1>1, <1>2, <1>4, <1>6
<1>7. ASSUME NEW r \in Live(d), d.orders[r].locate = l
      PROVE  \E j \in DOMAIN t : t[j].ref = r
  <2>1. CASE r = o.ref
    BY <1>1, <2>1
  <2>2. CASE r # o.ref
    <3>1. r \in Live(e) /\ r # q[i].ref /\ e.orders[r].locate = l
      BY <1>3, <1>7, <2>2
    <3>2. PICK j \in DOMAIN q : q[j].ref = r
      BY <1>2, <3>1
    <3>3. j # i /\ t[j] = q[j]
      BY <1>1, <3>1, <3>2
    <3> QED BY <1>1, <3>2, <3>3
  <2> QED BY <2>1, <2>2
<1>8. MirrorsAt(t, l, d)
  BY <1>5, <1>6, <1>7 DEF MirrorsAt
<1> QED BY <1>1, <1>8 DEF t

-----------------------------------------------------------------------------
(* The messages of the stream.                                             *)

Message ==
    [kind : {"R", "P"}, locate : Locates]
    \cup [kind : {"A"}, locate : Locates, ref : Refs, side : Sides, shares : Nat \ {0},
          price : Prices]
    \cup [kind : {"X"}, locate : Locates, ref : Refs, shares : Nat \ {0}]
    \cup [kind : {"D"}, locate : Locates, ref : Refs]
    \cup [kind : {"U"}, locate : Locates, ref : Refs, new : Refs, shares : Nat \ {0},
          price : Prices]

\* An engine all of whose orders have shares.
Firm(e) == Sound(e) /\ \A r \in Live(e) : e.orders[r].shares > 0

\* What the stream owes to an engine that has got every message before m: m
\* names orders that are live, takes no more than they have, and adds an order
\* that is not.
Valid(e, m) ==
    /\ m.kind = "A" => /\ m.ref \in Refs \ Live(e) /\ m.locate \in Locates
                       /\ m.side \in Sides /\ m.shares \in Nat \ {0} /\ m.price \in Prices
    /\ m.kind = "X" => /\ m.ref \in Live(e) /\ m.shares \in Nat \ {0}
                       /\ m.shares <= e.orders[m.ref].shares
    /\ m.kind = "D" => m.ref \in Live(e)
    /\ m.kind = "U" => /\ m.ref \in Live(e) /\ m.new \in Refs \ Live(e)
                       /\ m.shares \in Nat \ {0} /\ m.price \in Prices

\* the order a message adds
NewOrder(e, m) ==
    IF m.kind = "A"
    THEN [locate |-> m.locate, side |-> m.side, price |-> m.price, shares |-> m.shares]
    ELSE [locate |-> e.orders[m.ref].locate, side |-> e.orders[m.ref].side,
          price |-> m.price, shares |-> m.shares]

\* d is e after a valid message.
Follows(e, d, m) ==
    /\ m.kind = "A" => Added(e, d, m.ref, NewOrder(e, m))
    /\ m.kind = "X" => Reduced(e, d, m.ref, m.shares)
    /\ m.kind = "D" => Removed(e, d, m.ref)
    /\ m.kind = "U" => Replaced(e, d, m.ref, m.new, NewOrder(e, m))
    /\ m.kind \notin {"A", "X", "D", "U"} => d = e

\* A valid message is found and does what it says.
LEMMA ValidEffect ==
    ASSUME NEW e, Firm(e), NEW m, Valid(e, m)
    PROVE  /\ OnMessage(e, m).found
           /\ Follows(e, OnMessage(e, m).engine, m)
           /\ Firm(OnMessage(e, m).engine)
<1> DEFINE d == OnMessage(e, m).engine
<1>1. Sound(e) /\ \A r \in Live(e) : e.orders[r].shares > 0 /\ e.orders[r].shares \in Nat
  BY DEF Firm, Sound, Good, IsEngine, Order
<1>2. CASE m.kind = "A"
  <2>1. OnMessage(e, m) = Add(e, m.locate, m.ref, m.side, m.shares, m.price)
    BY <1>2 DEF OnMessage
  <2>2. PICK l \in Locates, ref \in Refs, s \in Sides, n \in Nat, p \in Prices :
            /\ m.locate = l /\ m.ref = ref /\ m.side = s /\ m.shares = n /\ m.price = p
            /\ n > 0 /\ ref \notin Live(e)
    BY <1>2 DEF Valid
  <2>3. OnMessage(e, m) = Add(e, l, ref, s, n, p)
    BY <2>1, <2>2
  <2>4. /\ OnMessage(e, m).found
        /\ Added(e, d, ref, [locate |-> l, side |-> s, price |-> p, shares |-> n])
    BY <1>1, <2>2, <2>3, AddEffect
  <2>5. Added(e, d, m.ref, NewOrder(e, m))
    BY <1>2, <2>2, <2>4 DEF NewOrder
  <2> HIDE DEF d
  <2>6. Follows(e, d, m)
    BY <1>2, <2>5 DEF Follows
  <2>7. Firm(d)
    BY <1>1, <2>2, <2>4 DEF Added, Firm
  <2> QED BY <2>4, <2>6, <2>7 DEF d
<1>3. CASE m.kind = "X"
  <2>1. OnMessage(e, m) = Reduce(e, m.ref, m.shares)
    BY <1>3 DEF OnMessage
  <2>2. PICK ref \in Live(e), n \in Nat : m.ref = ref /\ m.shares = n /\ n > 0
    BY <1>3 DEF Valid
  <2>3. OnMessage(e, m) = Reduce(e, ref, n)
    BY <2>1, <2>2
  <2>4. OnMessage(e, m).found /\ Reduced(e, d, ref, n)
    BY <1>1, <2>2, <2>3, ReduceEffect
  <2> HIDE DEF d
  <2>5. Follows(e, d, m)
    BY <1>3, <2>2, <2>4 DEF Follows
  <2>6. Firm(d)
    <3>1. CASE e.orders[ref].shares <= n
      BY <1>1, <2>4, <3>1 DEF Reduced, Removed, Firm
    <3>2. CASE ~(e.orders[ref].shares <= n)
      <4>1. Added(e, d, ref, WithShares(e.orders[ref], e.orders[ref].shares - n))
        BY <2>4, <3>2 DEF Reduced
      <4>2. e.orders[ref].shares - n > 0
        BY <1>1, <2>2, <3>2
      <4> QED BY <1>1, <4>1, <4>2 DEF Added, WithShares, Firm
    <3> QED BY <3>1, <3>2
  <2> QED BY <2>4, <2>5, <2>6 DEF d
<1>4. CASE m.kind = "D"
  <2>1. OnMessage(e, m) = Remove(e, m.ref)
    BY <1>4 DEF OnMessage
  <2>2. PICK ref \in Live(e) : m.ref = ref
    BY <1>4 DEF Valid
  <2>3. OnMessage(e, m).found /\ Removed(e, d, ref)
    BY <1>1, <2>1, <2>2, RemoveEffect
  <2> HIDE DEF d
  <2>4. Follows(e, d, m)
    BY <1>4, <2>2, <2>3 DEF Follows
  <2>5. Firm(d)
    BY <1>1, <2>3 DEF Removed, Firm
  <2> QED BY <2>3, <2>4, <2>5 DEF d
<1>5. CASE m.kind = "U"
  <2>1. OnMessage(e, m) = Replace(e, m.ref, m.new, m.shares, m.price)
    BY <1>5 DEF OnMessage
  <2>2. PICK old \in Live(e), new \in Refs, n \in Nat, p \in Prices :
            /\ m.ref = old /\ m.new = new /\ m.shares = n /\ m.price = p
            /\ n > 0 /\ new \notin Live(e)
    BY <1>5 DEF Valid
  <2>3. OnMessage(e, m) = Replace(e, old, new, n, p)
    BY <2>1, <2>2
  <2>4. /\ OnMessage(e, m).found
        /\ Replaced(e, d, old, new, [locate |-> e.orders[old].locate, side |-> e.orders[old].side,
                                     price |-> p, shares |-> n])
    BY <1>1, <2>2, <2>3, ReplaceEffect
  <2>5. Replaced(e, d, m.ref, m.new, NewOrder(e, m))
    BY <1>5, <2>2, <2>4 DEF NewOrder
  <2> HIDE DEF d
  <2>6. Follows(e, d, m)
    BY <1>5, <2>5 DEF Follows
  <2>7. Firm(d)
    BY <1>1, <2>2, <2>4 DEF Replaced, Firm
  <2> QED BY <2>4, <2>6, <2>7 DEF d
<1>6. CASE m.kind \notin {"A", "X", "D", "U"}
  <2>1. OnMessage(e, m) = Update(e, m.locate, FALSE)
    BY <1>6 DEF OnMessage
  <2>2. d = e /\ OnMessage(e, m).found
    BY <2>1 DEF Update
  <2> QED BY <1>6, <2>2 DEF Follows
<1> QED BY <1>2, <1>3, <1>4, <1>5, <1>6

-----------------------------------------------------------------------------
(* The generator.                                                          *)

\* The orders of another symbol are the same in both engines.
OnlyAt(e, d, l) ==
    /\ \A r \in Live(e) : e.orders[r].locate # l => r \in Live(d) /\ d.orders[r] = e.orders[r]
    /\ \A r \in Live(d) : d.orders[r].locate # l => r \in Live(e) /\ d.orders[r] = e.orders[r]

\* The generator's orders are those of the engine, which has shares in each
\* and knows no reference that is still to come.
FeedCore == /\ mid \in [Locates -> Prices]
            /\ live \in [Locates -> Seq(RestingOrder)]
            /\ nextRef \in Nat /\ nextRef >= 1
            /\ Firm(replica)
            /\ \A l \in Locates : MirrorsAt(live[l], l, replica)
            /\ \A r \in Live(replica) : r < nextRef
            /\ strays = 0

\* There is a reference for every order still to be added.
FeedCounts == /\ seeded \in 0 .. Cardinality(Locates) * InitialOrders
              /\ emitted \in 0 .. Events
              /\ done \in BOOLEAN
              /\ nextRef <= seeded + emitted + 1

\* The inductive invariant of the generator.
FeedInv == FeedCore /\ FeedCounts

\* The step appends the message m, which is valid and adds no old reference,
\* and the engine applies it.
Emits(m) == /\ m \in Message /\ Valid(replica, m)
            /\ out' = Append(out, m)
            /\ replica' = OnMessage(replica, m).engine
            /\ m.kind = "A" => m.ref >= nextRef
            /\ m.kind = "U" => m.new >= nextRef
            /\ nextRef' \in Nat /\ nextRef' >= nextRef
            /\ \A r \in Named(m) : r < nextRef'

\* An action of the generator that emits one message.
FeedStep == FeedCore' /\ \E m \in Message : Emits(m)

\* What a valid message does to the stream and the engine.
LEMMA WriteEffect ==
    ASSUME FeedCore, NEW m, Valid(replica, m), Write(m)
    PROVE  /\ out' = Append(out, m)
           /\ replica' = OnMessage(replica, m).engine
           /\ Follows(replica, replica', m) /\ Firm(replica') /\ strays' = 0
<1>1. OnMessage(replica, m).found /\ Follows(replica, OnMessage(replica, m).engine, m)
      /\ Firm(OnMessage(replica, m).engine)
  BY ValidEffect DEF FeedCore
<1>2. /\ out' = Append(out, m) /\ replica' = OnMessage(replica, m).engine
      /\ strays' = strays + (IF OnMessage(replica, m).found THEN 0 ELSE 1)
  BY DEF Write
<1>3. strays' = 0
  BY <1>1, <1>2 DEF FeedCore
<1> QED BY <1>1, <1>2, <1>3

\* The orders of the other symbols stay mirrored.
LEMMA RestMirrors ==
    ASSUME FeedCore, NEW l \in Locates, NEW t \in Seq(RestingOrder),
           OnlyAt(replica, replica', l), MirrorsAt(t, l, replica'),
           live' = [live EXCEPT ![l] = t]
    PROVE  /\ live' \in [Locates -> Seq(RestingOrder)]
           /\ \A k \in Locates : MirrorsAt(live'[k], k, replica')
<1>1. live' \in [Locates -> Seq(RestingOrder)]
  BY DEF FeedCore
<1>2. ASSUME NEW k \in Locates PROVE MirrorsAt(live'[k], k, replica')
  <2>1. CASE k = l
    <3>1. live'[k] = t
      BY <2>1 DEF FeedCore
    <3> QED BY <2>1, <3>1
  <2>2. CASE k # l
    <3>1. live'[k] = live[k] /\ MirrorsAt(live[k], k, replica)
      BY <2>2 DEF FeedCore
    <3>2. \A r \in Live(replica) : replica.orders[r].locate = k
              => r \in Live(replica') /\ replica'.orders[r] = replica.orders[r]
      BY <2>2 DEF OnlyAt
    <3>3. \A r \in Live(replica') : replica'.orders[r].locate = k
              => r \in Live(replica) /\ replica'.orders[r] = replica.orders[r]
      BY <2>2 DEF OnlyAt
    <3>4. PICK e, d : e = replica /\ d = replica'
      OBVIOUS
    <3>5. MirrorsAt(live[k], k, d)
      BY <3>1, <3>2, <3>3, <3>4, OtherMirrors
    <3> QED BY <3>1, <3>4, <3>5
  <2> QED BY <2>1, <2>2
<1> QED BY <1>1, <1>2

\* The symbol at place i of the vector, and its order.
LEMMA LiveOrder ==
    ASSUME FeedCore, NEW l \in Locates, NEW i \in DOMAIN live[l]
    PROVE  /\ live[l] \in Seq(RestingOrder) /\ live[l][i] \in RestingOrder
           /\ live[l][i].ref \in Live(replica)
           /\ live[l][i].ref < nextRef
           /\ replica.orders[live[l][i].ref] = OrderOf(l, live[l][i])
           /\ MirrorsAt(live[l], l, replica)
<1>1. live[l] \in Seq(RestingOrder) /\ MirrorsAt(live[l], l, replica)
  BY DEF FeedCore
<1>2. live[l][i] \in RestingOrder
  BY <1>1
<1> QED BY <1>1, <1>2 DEF MirrorsAt, FeedCore

\* A price wraps into the prices.
LEMMA PickedPrice ==
    ASSUME FeedCore, NEW l \in Locates, NEW side, NEW p \in PickPrice(l, side)
    PROVE  p \in Prices
<1>1. /\ \A b \in Behind : b \in Nat
      /\ Prices = 0 .. MaxKey /\ MaxKey \in Nat
      /\ mid[l] \in Int
  BY BookAssumption, FeedAssumption DEF FeedCore, Keys
<1>2. PICK b \in Nat : p = Wrap(IF side = "B" THEN mid[l] - (1 + b) ELSE mid[l] + (1 + b))
  BY <1>1 DEF PickPrice
<1>3. PICK x \in Int : p = Wrap(x)
  <2>1. (IF side = "B" THEN mid[l] - (1 + b) ELSE mid[l] + (1 + b)) \in Int
    BY <1>1
  <2> QED BY <1>2, <2>1
<1>4. PICK n \in Nat : n = MaxKey + 1 /\ n > 0 /\ p = x % n
  BY <1>1, <1>3 DEF Wrap
<1>5. x % n \in 0 .. n - 1
  BY <1>4
<1>6. n - 1 = MaxKey
  BY <1>1, <1>4
<1> QED BY <1>1, <1>4, <1>5, <1>6

\* References are numbers.
LEMMA RefsAreNumbers == Refs \subseteq Nat \ {0}
BY FeedAssumption

\* An order of another reference does not move the bound on references.
LEMMA BoundAdded ==
    ASSUME FeedCore, NEW ref, NEW x, Added(replica, replica', ref, x),
           nextRef' \in Nat, nextRef' >= nextRef, ref < nextRef'
    PROVE  \A r \in Live(replica') : r < nextRef'
<1>1. \A r \in Live(replica') : r \in Live(replica) \/ r = ref
  BY DEF Added
<1>2. \A r \in Live(replica) : r \in Nat /\ r < nextRef
  BY RefsAreNumbers DEF FeedCore, Firm, Sound, Good, IsEngine
<1>3. nextRef \in Nat
  BY DEF FeedCore
<1> QED BY <1>1, <1>2, <1>3

\* An add.
LEMMA AddOrderStep ==
    ASSUME FeedCore, NEW l \in Locates, nextRef \in Refs, AddOrder(l)
    PROVE  FeedStep
<1>1. PICK side \in Sides, shares \in Lots : \E price \in PickPrice(l, side) :
          /\ live' = [live EXCEPT ![l] = Append(@,
                         [ref |-> nextRef, price |-> price, shares |-> shares, side |-> side])]
          /\ nextRef' = nextRef + 1
          /\ Write([kind |-> "A", locate |-> l, ref |-> nextRef, side |-> side,
                    shares |-> shares, price |-> price])
          /\ UNCHANGED mid
  BY DEF AddOrder
<1>2. PICK price \in PickPrice(l, side) :
          /\ live' = [live EXCEPT ![l] = Append(@,
                         [ref |-> nextRef, price |-> price, shares |-> shares, side |-> side])]
          /\ nextRef' = nextRef + 1
          /\ Write([kind |-> "A", locate |-> l, ref |-> nextRef, side |-> side,
                    shares |-> shares, price |-> price])
          /\ UNCHANGED mid
  BY <1>1
<1>3. price \in Prices /\ shares \in Nat \ {0} /\ nextRef \in Nat
  BY PickedPrice, FeedAssumption DEF FeedCore
<1> DEFINE m == [kind |-> "A", locate |-> l, ref |-> nextRef, side |-> side,
                 shares |-> shares, price |-> price]
           o == [ref |-> nextRef, price |-> price, shares |-> shares, side |-> side]
<1>4. /\ m.kind = "A" /\ m.locate = l /\ m.ref = nextRef /\ m.side = side
      /\ m.shares = shares /\ m.price = price /\ m \in Message
  BY <1>3 DEF Message
<1>5. o \in RestingOrder /\ o.ref = nextRef
  BY <1>3 DEF RestingOrder
<1>6. OrderOf(l, o) = NewOrder(replica, m)
  BY DEF OrderOf, NewOrder
<1>7. Write(m) /\ live' = [live EXCEPT ![l] = Append(live[l], o)]
  BY <1>2
<1> HIDE DEF m, o
<1>8. nextRef \notin Live(replica)
  BY <1>3 DEF FeedCore
<1>9. Valid(replica, m)
  BY <1>3, <1>4, <1>8 DEF Valid
<1>10. /\ out' = Append(out, m) /\ replica' = OnMessage(replica, m).engine
       /\ Follows(replica, replica', m) /\ Firm(replica') /\ strays' = 0
  BY <1>7, <1>9, WriteEffect
<1>11. Added(replica, replica', nextRef, OrderOf(l, o))
  BY <1>4, <1>6, <1>10 DEF Follows
<1>12. live[l] \in Seq(RestingOrder) /\ MirrorsAt(live[l], l, replica)
  BY DEF FeedCore
<1>13. Append(live[l], o) \in Seq(RestingOrder) /\ MirrorsAt(Append(live[l], o), l, replica')
  <2>1. PICK e, d : e = replica /\ d = replica'
    OBVIOUS
  <2>2. Append(live[l], o) \in Seq(RestingOrder) /\ MirrorsAt(Append(live[l], o), l, d)
    BY <1>5, <1>8, <1>11, <1>12, <2>1, AppendMirrors
  <2> QED BY <2>1, <2>2
<1>14. OnlyAt(replica, replica', l)
  BY <1>8, <1>11 DEF OnlyAt, Added, OrderOf
<1>15. /\ live' \in [Locates -> Seq(RestingOrder)]
       /\ \A k \in Locates : MirrorsAt(live'[k], k, replica')
  BY <1>7, <1>13, <1>14, RestMirrors
<1>16. nextRef' \in Nat /\ nextRef' >= nextRef /\ nextRef < nextRef' /\ nextRef' >= 1
  BY <1>2, <1>3
<1>17. \A r \in Live(replica') : r < nextRef'
  BY <1>11, <1>16, BoundAdded
<1>18. mid' \in [Locates -> Prices]
  BY <1>2 DEF FeedCore
<1>19. FeedCore'
  BY <1>10, <1>15, <1>16, <1>17, <1>18 DEF FeedCore
<1>20. Emits(m)
  <2>1. \A r \in Named(m) : r = m.ref
    BY <1>4 DEF Named
  <2>2. m.kind # "U" /\ m.ref >= nextRef
    BY <1>3, <1>4
  <2>3. \A r \in Named(m) : r < nextRef'
    BY <1>4, <1>16, <2>1
  <2> QED BY <1>4, <1>9, <1>10, <1>16, <2>2, <2>3 DEF Emits
<1> QED BY <1>4, <1>19, <1>20 DEF FeedStep

\* What remains to be shown of a message that names the live order at i.
LEMMA NamedStep ==
    ASSUME FeedCore, NEW l \in Locates, NEW m \in Message, Valid(replica, m), Write(m),
           m.kind \in {"X", "D", "U"}, m.kind = "U" => m.new >= nextRef /\ m.new < nextRef',
           m.ref < nextRef, nextRef' \in Nat, nextRef' >= nextRef, UNCHANGED mid,
           NEW t \in Seq(RestingOrder), MirrorsAt(t, l, replica'), OnlyAt(replica, replica', l),
           live' = [live EXCEPT ![l] = t],
           \A r \in Live(replica') : r < nextRef'
    PROVE  FeedStep
<1>1. /\ out' = Append(out, m) /\ replica' = OnMessage(replica, m).engine
      /\ Firm(replica') /\ strays' = 0
  BY WriteEffect
<1>2. /\ live' \in [Locates -> Seq(RestingOrder)]
      /\ \A k \in Locates : MirrorsAt(live'[k], k, replica')
  BY RestMirrors
<1>3. nextRef \in Nat /\ nextRef >= 1 /\ nextRef' >= 1
  BY DEF FeedCore
<1>4. FeedCore'
  BY <1>1, <1>2, <1>3 DEF FeedCore
<1>5. \A r \in Named(m) : r = m.ref \/ (m.kind = "U" /\ r = m.new)
  BY DEF Named
<1>6. m.ref < nextRef'
  <2>1. PICK r \in Nat : r = m.ref
    BY RefsAreNumbers DEF Message
  <2> QED BY <1>3, <2>1
<1>7. \A r \in Named(m) : r < nextRef'
  BY <1>5, <1>6
<1>8. Emits(m)
  BY <1>1, <1>7 DEF Emits
<1> QED BY <1>4, <1>8 DEF FeedStep

\* A delete.
LEMMA DeleteOrderStep ==
    ASSUME FeedCore, NEW l \in Locates, NEW i \in DOMAIN live[l], DeleteOrder(l, i)
    PROVE  FeedStep
<1> DEFINE ref == live[l][i].ref
           m   == [kind |-> "D", locate |-> l, ref |-> ref]
           t   == EraseLive(live[l], i)
<1>1. /\ live[l] \in Seq(RestingOrder) /\ live[l][i] \in RestingOrder
      /\ ref \in Live(replica) /\ ref < nextRef
      /\ replica.orders[ref] = OrderOf(l, live[l][i])
      /\ MirrorsAt(live[l], l, replica)
  BY LiveOrder
<1>2. m.kind = "D" /\ m.ref = ref /\ m \in Message
  BY <1>1 DEF Message, RestingOrder
<1>3. Write(m) /\ live' = [live EXCEPT ![l] = t] /\ mid' = mid /\ nextRef' = nextRef
  BY DEF DeleteOrder
<1> HIDE DEF m
<1>4. Valid(replica, m)
  BY <1>1, <1>2 DEF Valid
<1>5. Follows(replica, replica', m)
  BY <1>3, <1>4, WriteEffect
<1>6. Removed(replica, replica', ref)
  BY <1>2, <1>5 DEF Follows
<1>7. t \in Seq(RestingOrder) /\ MirrorsAt(t, l, replica')
  <2>1. PICK e, d : e = replica /\ d = replica'
    OBVIOUS
  <2>2. t \in Seq(RestingOrder) /\ MirrorsAt(t, l, d)
    BY <1>1, <1>6, <2>1, EraseMirrors
  <2> QED BY <2>1, <2>2
<1> HIDE DEF t
<1>8. OnlyAt(replica, replica', l)
  <2>1. replica.orders[ref].locate = l
    BY <1>1, OrderFields
  <2> HIDE DEF ref
  <2> QED BY <1>6, <2>1 DEF OnlyAt, Removed
<1>9. \A r \in Live(replica') : r < nextRef'
  BY <1>3, <1>6 DEF FeedCore, Removed
<1>10. nextRef' \in Nat /\ nextRef' >= nextRef /\ mid' = mid
  BY <1>3 DEF FeedCore
<1> QED BY <1>1, <1>2, <1>3, <1>4, <1>7, <1>8, <1>9, <1>10, NamedStep

\* A replace.
LEMMA ReplaceOrderStep ==
    ASSUME FeedCore, NEW l \in Locates, NEW i \in DOMAIN live[l], nextRef \in Refs,
           ReplaceOrder(l, i)
    PROVE  FeedStep
<1> DEFINE old == live[l][i]
<1>1. /\ live[l] \in Seq(RestingOrder) /\ old \in RestingOrder
      /\ old.ref \in Live(replica) /\ old.ref < nextRef
      /\ replica.orders[old.ref] = OrderOf(l, old)
      /\ MirrorsAt(live[l], l, replica)
  BY LiveOrder
<1>2. PICK shares \in Lots, price \in PickPrice(l, old.side) :
          /\ live' = [live EXCEPT ![l][i] =
                         [ref |-> nextRef, price |-> price, shares |-> shares, side |-> old.side]]
          /\ nextRef' = nextRef + 1
          /\ Write([kind |-> "U", locate |-> l, ref |-> old.ref, new |-> nextRef,
                    shares |-> shares, price |-> price])
          /\ UNCHANGED mid
  BY DEF ReplaceOrder
<1>3. price \in Prices /\ shares \in Nat \ {0} /\ nextRef \in Nat
  BY PickedPrice, FeedAssumption DEF FeedCore
<1> DEFINE m == [kind |-> "U", locate |-> l, ref |-> old.ref, new |-> nextRef,
                 shares |-> shares, price |-> price]
           o == [ref |-> nextRef, price |-> price, shares |-> shares, side |-> old.side]
<1>4. /\ m.kind = "U" /\ m.ref = old.ref /\ m.new = nextRef
      /\ m.shares = shares /\ m.price = price /\ m \in Message
  BY <1>1, <1>3 DEF Message, RestingOrder
<1>5. o \in RestingOrder /\ o.ref = nextRef
  BY <1>1, <1>3 DEF RestingOrder
<1>6. OrderOf(l, o) = NewOrder(replica, m)
  BY <1>1 DEF OrderOf, NewOrder
<1>7. Write(m) /\ live' = [live EXCEPT ![l] = [live[l] EXCEPT ![i] = o]]
  BY <1>2
<1> HIDE DEF m, o
<1>8. nextRef \notin Live(replica)
  BY <1>3 DEF FeedCore
<1>9. Valid(replica, m)
  BY <1>1, <1>3, <1>4, <1>8 DEF Valid
<1>10. Follows(replica, replica', m)
  BY <1>7, <1>9, WriteEffect
<1>11. Replaced(replica, replica', old.ref, nextRef, OrderOf(l, o))
  BY <1>4, <1>6, <1>10 DEF Follows
<1> DEFINE t == [live[l] EXCEPT ![i] = o]
<1>12. t \in Seq(RestingOrder) /\ MirrorsAt(t, l, replica')
  <2>1. PICK e, d : e = replica /\ d = replica'
    OBVIOUS
  <2>2. t \in Seq(RestingOrder) /\ MirrorsAt(t, l, d)
    BY <1>1, <1>5, <1>8, <1>11, <2>1, ExchangeMirrors
  <2> QED BY <2>1, <2>2
<1>13. live' = [live EXCEPT ![l] = t]
  BY <1>7
<1> HIDE DEF t
<1>14. OnlyAt(replica, replica', l)
  <2>1. replica.orders[old.ref].locate = l /\ OrderOf(l, o).locate = l
    BY <1>1, OrderFields
  <2> HIDE DEF old
  <2> QED BY <1>8, <1>11, <2>1 DEF OnlyAt, Replaced
<1>15. nextRef' \in Nat /\ nextRef' >= nextRef /\ nextRef < nextRef' /\ UNCHANGED mid
  BY <1>2, <1>3
<1>16. \A r \in Live(replica') : r < nextRef'
  <2>1. \A r \in Live(replica') : r \in Live(replica) \/ r = nextRef
    BY <1>11 DEF Replaced
  <2>2. \A r \in Live(replica) : r \in Nat /\ r < nextRef
    BY RefsAreNumbers DEF FeedCore, Firm, Sound, Good, IsEngine
  <2> QED BY <1>3, <1>15, <2>1, <2>2
<1>17. m.new >= nextRef /\ m.new < nextRef'
  BY <1>3, <1>4, <1>15
<1> QED BY <1>1, <1>4, <1>7, <1>9, <1>12, <1>13, <1>14, <1>15, <1>16, <1>17, NamedStep

\* A cancel or an execution of no more shares than rest.
LEMMA TakeStep ==
    ASSUME FeedCore, NEW l \in Locates, NEW i \in DOMAIN live[l],
           NEW n \in Nat \ {0}, n <= live[l][i].shares, Take(l, i, n)
    PROVE  FeedStep
<1> DEFINE o == live[l][i]
           m == [kind |-> "X", locate |-> l, ref |-> o.ref, shares |-> n]
<1>1. /\ live[l] \in Seq(RestingOrder) /\ o \in RestingOrder
      /\ o.ref \in Live(replica) /\ o.ref < nextRef
      /\ replica.orders[o.ref] = OrderOf(l, o)
      /\ MirrorsAt(live[l], l, replica)
  BY LiveOrder
<1>2. m.kind = "X" /\ m.ref = o.ref /\ m.shares = n /\ m \in Message
  BY <1>1 DEF Message, RestingOrder
<1>3. /\ live' = [live EXCEPT ![l] = TakeLive(live[l], i, n)]
      /\ Write(m) /\ mid' = mid /\ nextRef' = nextRef
  BY DEF Take
<1>4. o.shares \in Nat \ {0} /\ replica.orders[o.ref].shares = o.shares
  BY <1>1, OrderFields DEF RestingOrder
<1> HIDE DEF m
<1>5. Valid(replica, m)
  BY <1>1, <1>2, <1>4 DEF Valid
<1>6. Follows(replica, replica', m)
  BY <1>3, <1>5, WriteEffect
<1>7. Reduced(replica, replica', o.ref, n)
  BY <1>2, <1>6 DEF Follows
<1>8. nextRef' \in Nat /\ nextRef' >= nextRef /\ mid' = mid
  BY <1>3 DEF FeedCore
<1>9. replica.orders[o.ref].locate = l
  BY <1>1, OrderFields
<1>10. CASE n = o.shares
  <2> DEFINE t == EraseLive(live[l], i)
  <2>1. Removed(replica, replica', o.ref)
    BY <1>4, <1>7, <1>10 DEF Reduced
  <2>2. t \in Seq(RestingOrder) /\ MirrorsAt(t, l, replica')
    <3>1. PICK e, d : e = replica /\ d = replica'
      OBVIOUS
    <3>2. t \in Seq(RestingOrder) /\ MirrorsAt(t, l, d)
      BY <1>1, <2>1, <3>1, EraseMirrors
    <3> QED BY <3>1, <3>2
  <2>3. live' = [live EXCEPT ![l] = t]
    BY <1>3, <1>10 DEF TakeLive
  <2> HIDE DEF t, o
  <2>4. OnlyAt(replica, replica', l)
    BY <1>9, <2>1 DEF OnlyAt, Removed
  <2>5. \A r \in Live(replica') : r < nextRef'
    BY <1>3, <2>1 DEF FeedCore, Removed
  <2> QED BY <1>1, <1>2, <1>3, <1>5, <1>8, <2>2, <2>3, <2>4, <2>5, NamedStep
<1>11. CASE n # o.shares
  <2> DEFINE x == [ref |-> o.ref, price |-> o.price, shares |-> o.shares - n, side |-> o.side]
             t == [live[l] EXCEPT ![i] = x]
  <2>1. o.shares - n \in Nat \ {0} /\ ~(replica.orders[o.ref].shares <= n)
    BY <1>4, <1>11
  <2>2. x \in RestingOrder /\ x.ref = o.ref
    BY <1>1, <2>1 DEF RestingOrder
  <2>3. OrderOf(l, x) = WithShares(replica.orders[o.ref], replica.orders[o.ref].shares - n)
    BY <1>1 DEF OrderOf, WithShares
  <2>4. live' = [live EXCEPT ![l] = t]
    <3>1. x = [live[l][i] EXCEPT !.shares = @ - n]
      BY <1>1 DEF RestingOrder
    <3>2. TakeLive(live[l], i, n) = [live[l] EXCEPT ![i] = [live[l][i] EXCEPT !.shares = @ - n]]
      BY <1>11 DEF TakeLive
    <3> HIDE DEF x
    <3> QED BY <1>3, <3>1, <3>2
  <2> HIDE DEF x
  <2>5. Added(replica, replica', o.ref, OrderOf(l, x))
    BY <1>7, <2>1, <2>3 DEF Reduced
  <2>6. Replaced(replica, replica', o.ref, x.ref, OrderOf(l, x))
    BY <1>1, <2>2, <2>5 DEF Added, Replaced
  <2>7. t \in Seq(RestingOrder) /\ MirrorsAt(t, l, replica')
    <3>1. PICK e, d : e = replica /\ d = replica'
      OBVIOUS
    <3>2. t \in Seq(RestingOrder) /\ MirrorsAt(t, l, d)
      BY <1>1, <2>2, <2>6, <3>1, ExchangeMirrors
    <3> QED BY <3>1, <3>2
  <2> HIDE DEF t, o
  <2>8. OnlyAt(replica, replica', l)
    <3>1. OrderOf(l, x).locate = l
      BY OrderFields
    <3> QED BY <1>1, <1>9, <2>5, <3>1 DEF OnlyAt, Added
  <2>9. \A r \in Live(replica') : r < nextRef'
    BY <1>1, <1>3, <2>5 DEF FeedCore, Added
  <2> QED BY <1>1, <1>2, <1>3, <1>5, <1>8, <2>4, <2>7, <2>8, <2>9, NamedStep
<1> QED BY <1>10, <1>11

\* A part of an order is at least a share and at most the order.
LEMMA PartBounds ==
    ASSUME NEW s \in Nat \ {0}, NEW d \in Nat \ {0}, NEW n \in Part(s, d)
    PROVE  n \in Nat \ {0} /\ n <= s
<1>1. PICK q : q = s \div d
  OBVIOUS
<1>2. q \in Nat /\ q <= s
  BY <1>1, Z3
<1>3. n = s \/ n = (IF q > 1 THEN q ELSE 1)
  BY <1>1 DEF Part
<1> QED BY <1>2, <1>3

\* A trade.
LEMMA TradeStep ==
    ASSUME FeedCore, NEW l \in Locates, Trade(l)
    PROVE  FeedStep
<1> DEFINE m == [kind |-> "P", locate |-> l]
<1>1. m.kind = "P" /\ m \in Message
  BY DEF Message
<1>2. PICK d \in {-1, 0, 1} : mid' = [mid EXCEPT ![l] = Wrap(@ + d)]
  BY DEF Trade
<1>3. Write(m) /\ live' = live /\ nextRef' = nextRef
  BY DEF Trade
<1> HIDE DEF m
<1>4. Valid(replica, m)
  BY <1>1 DEF Valid
<1>5. /\ out' = Append(out, m) /\ replica' = OnMessage(replica, m).engine
      /\ Follows(replica, replica', m) /\ Firm(replica') /\ strays' = 0
  BY <1>3, <1>4, WriteEffect
<1>6. replica' = replica
  BY <1>1, <1>5 DEF Follows
<1>7. Wrap(mid[l] + d) \in Prices
  <2>1. Prices = 0 .. MaxKey /\ MaxKey \in Nat /\ mid[l] \in Int
    BY BookAssumption, FeedAssumption DEF FeedCore, Keys
  <2>2. PICK x \in Int : x = mid[l] + d
    BY <2>1
  <2>3. PICK n \in Nat : n = MaxKey + 1 /\ n > 0
    BY <2>1
  <2>4. x % n \in 0 .. n - 1 /\ n - 1 = MaxKey
    BY <2>1, <2>3
  <2> QED BY <2>1, <2>2, <2>3, <2>4 DEF Wrap
<1>8. mid' \in [Locates -> Prices]
  BY <1>2, <1>7 DEF FeedCore
<1>9. nextRef \in Nat /\ nextRef' >= nextRef
  BY <1>3 DEF FeedCore
<1>10. FeedCore'
  BY <1>3, <1>5, <1>6, <1>8 DEF FeedCore
<1>11. Emits(m)
  BY <1>1, <1>3, <1>4, <1>5, <1>9 DEF Emits, Named
<1> QED BY <1>1, <1>10, <1>11 DEF FeedStep

\* A step of the generator: it emits one message, or it ends the stream.
BuildStep == /\ FeedInv'
             /\ \/ \E m \in Message : Emits(m)
                \/ UNCHANGED <<out, replica, nextRef>>

\* The number of the symbol that the next seed belongs to.
LEMMA SeedLocate ==
    ASSUME NEW a \in Nat, NEW b \in Nat, NEW c \in Nat, a < c * b
    PROVE  a \div b + 1 \in 1 .. c
<1>1. b > 0
  BY Z3
<1>2. PICK q : q = a \div b
  OBVIOUS
<1>3. q \in Nat /\ q * b <= a
  BY <1>1, <1>2, Z3
<1>4. q < c
  BY <1>1, <1>3, Z3
<1> QED BY <1>2, <1>3, <1>4

\* The bounds on the counters of build().
LEMMA FeedNumbers ==
    ASSUME FeedInv
    PROVE  /\ Cardinality(Locates) \in Nat /\ InitialOrders \in Nat /\ Events \in Nat
           /\ Cardinality(Locates) * InitialOrders \in Nat
           /\ Refs = 1 .. Cardinality(Locates) * InitialOrders + Events
           /\ seeded \in Nat /\ emitted \in Nat /\ nextRef \in Nat /\ nextRef >= 1
           /\ seeded <= Cardinality(Locates) * InitialOrders /\ emitted <= Events
           /\ nextRef <= seeded + emitted + 1
<1>1. /\ Cardinality(Locates) \in Nat /\ InitialOrders \in Nat /\ Events \in Nat
      /\ Refs = 1 .. Cardinality(Locates) * InitialOrders + Events
  BY FeedAssumption, FS_CardinalityType
<1>2. PICK n \in Nat : n = Cardinality(Locates) * InitialOrders
  BY <1>1
<1> QED BY <1>1, <1>2 DEF FeedInv, FeedCore, FeedCounts

\* An order is seeded, or added or replaced by an event.
LEMMA SeedStep ==
    ASSUME FeedInv, Seed
    PROVE  BuildStep
<1>1. PICK n \in Nat : n = Cardinality(Locates) * InitialOrders
  BY FeedNumbers
<1>2. /\ seeded \in Nat /\ emitted \in Nat /\ Events \in Nat /\ nextRef \in Nat /\ nextRef >= 1
      /\ seeded < n /\ emitted <= Events /\ nextRef <= seeded + emitted + 1
      /\ Refs = 1 .. n + Events
  BY <1>1, FeedNumbers DEF Seed, Seeding
<1>3. nextRef \in Refs
  BY <1>2
<1>4. PICK l \in Locates : l = seeded \div InitialOrders + 1
  <2>1. Cardinality(Locates) \in Nat /\ InitialOrders \in Nat
    BY FeedNumbers
  <2>2. seeded \div InitialOrders + 1 \in 1 .. Cardinality(Locates)
    BY <1>1, <1>2, <2>1, SeedLocate
  <2> QED BY <2>2, FeedAssumption
<1>5. AddOrder(l) /\ seeded' = seeded + 1 /\ emitted' = emitted /\ done' = done
  BY <1>4 DEF Seed
<1>6. nextRef' = nextRef + 1
  BY <1>5 DEF AddOrder
<1>7. FeedStep
  BY <1>3, <1>5, AddOrderStep DEF FeedInv
<1>8. FeedCounts'
  BY <1>1, <1>2, <1>5, <1>6 DEF FeedInv, FeedCounts
<1> QED BY <1>7, <1>8 DEF FeedStep, BuildStep, FeedInv

\* An order event.
LEMMA EventStep ==
    ASSUME FeedInv, Step
    PROVE  BuildStep
<1>1. PICK n \in Nat : n = Cardinality(Locates) * InitialOrders
  BY FeedNumbers
<1>2. /\ seeded \in Nat /\ emitted \in Nat /\ Events \in Nat /\ nextRef \in Nat /\ nextRef >= 1
      /\ seeded <= n /\ emitted < Events /\ nextRef <= seeded + emitted + 1
      /\ Refs = 1 .. n + Events
  BY <1>1, FeedNumbers DEF Step
<1>3. nextRef \in Refs
  BY <1>2
<1>4. emitted' = emitted + 1 /\ seeded' = seeded /\ done' = done
  BY DEF Step
<1>5. ASSUME FeedStep, nextRef' = nextRef \/ nextRef' = nextRef + 1
      PROVE  BuildStep
  <2>1. FeedCounts'
    BY <1>1, <1>2, <1>4, <1>5 DEF FeedInv, FeedCounts
  <2> QED BY <1>5, <2>1 DEF FeedStep, BuildStep, FeedInv
<1>6. FeedCore
  BY DEF FeedInv
<1>7. ASSUME NEW l \in Locates, AddOrder(l) PROVE BuildStep
  <2>1. nextRef' = nextRef + 1
    BY <1>7 DEF AddOrder
  <2> QED BY <1>3, <1>5, <1>6, <1>7, <2>1, AddOrderStep
<1>8. ASSUME NEW l \in Locates, NEW i \in DOMAIN live[l], DeleteOrder(l, i) PROVE BuildStep
  <2>1. nextRef' = nextRef
    BY <1>8 DEF DeleteOrder
  <2> QED BY <1>5, <1>6, <1>8, <2>1, DeleteOrderStep
<1>9. ASSUME NEW l \in Locates, NEW i \in DOMAIN live[l], ReplaceOrder(l, i) PROVE BuildStep
  <2>1. nextRef' = nextRef + 1
    BY <1>9 DEF ReplaceOrder
  <2> QED BY <1>3, <1>5, <1>6, <1>9, <2>1, ReplaceOrderStep
<1>10. ASSUME NEW l \in Locates, NEW i \in DOMAIN live[l], NEW d \in Nat \ {0},
              NEW s \in Part(live[l][i].shares, d), Take(l, i, s)
       PROVE  BuildStep
  <2>1. live[l][i].shares \in Nat \ {0}
    BY <1>6, LiveOrder DEF RestingOrder
  <2>2. s \in Nat \ {0} /\ s <= live[l][i].shares
    BY <2>1, PartBounds
  <2>3. nextRef' = nextRef
    BY <1>10 DEF Take
  <2> QED BY <1>5, <1>6, <1>10, <2>2, <2>3, TakeStep
<1>11. ASSUME NEW l \in Locates, NEW i \in DOMAIN live[l], CancelOrder(l, i) PROVE BuildStep
  BY <1>10, <1>11 DEF CancelOrder
<1>12. ASSUME NEW l \in Locates, NEW i \in DOMAIN live[l], ExecuteOrder(l, i) PROVE BuildStep
  BY <1>10, <1>12 DEF ExecuteOrder
<1>13. ASSUME NEW l \in Locates, Trade(l) PROVE BuildStep
  <2>1. nextRef' = nextRef
    BY <1>13 DEF Trade
  <2> QED BY <1>5, <1>6, <1>13, <2>1, TradeStep
<1> QED BY <1>7, <1>8, <1>9, <1>11, <1>12, <1>13 DEF Step

\* A step of the drain.
LEMMA DrainStep ==
    ASSUME FeedInv, Drain
    PROVE  BuildStep
<1>1. CASE ToDrain = {}
  <2>1. done' = TRUE /\ UNCHANGED <<mid, live, nextRef, out, replica, strays, seeded, emitted>>
    BY <1>1 DEF Drain
  <2>2. FeedCore' /\ FeedCounts'
    BY <2>1 DEF FeedInv, FeedCore, FeedCounts
  <2> QED BY <2>1, <2>2 DEF BuildStep, FeedInv
<1>2. CASE ToDrain # {}
  <2>1. PICK l \in ToDrain : l = Min(ToDrain)
    <3>1. ToDrain \in SUBSET Nat
      BY FeedAssumption, FS_CardinalityType DEF ToDrain
    <3>2. PICK x \in ToDrain : \A y \in ToDrain : x <= y
      BY <1>2, <3>1, Least
    <3> QED BY <3>2 DEF Min
  <2>2. l \in Locates /\ live[l] # <<>>
    BY DEF ToDrain
  <2>3. PICK i \in DOMAIN live[l] : i = Len(live[l])
    BY <2>2 DEF FeedInv, FeedCore
  <2>4. DeleteOrder(l, i) /\ done' = done /\ seeded' = seeded /\ emitted' = emitted
    BY <1>2, <2>1, <2>3 DEF Drain
  <2>5. FeedStep
    BY <2>2, <2>4, DeleteOrderStep DEF FeedInv
  <2>6. nextRef' = nextRef
    BY <2>4 DEF DeleteOrder
  <2>7. FeedCounts'
    BY <2>4, <2>6 DEF FeedInv, FeedCounts
  <2> QED BY <2>5, <2>7 DEF FeedStep, BuildStep, FeedInv
<1> QED BY <1>1, <1>2

\* Every step of the generator keeps its invariant.
LEMMA BuildKeeps ==
    ASSUME FeedInv, Build
    PROVE  BuildStep
BY SeedStep, EventStep, DrainStep DEF Build

\* The first state of the generator.
LEMMA FeedStarts ==
    ASSUME FeedInit
    PROVE  FeedInv /\ replica = NewEngine
<1>1. Firm(NewEngine) /\ Live(NewEngine) = {}
  BY NewGood DEF Firm, Sound, NewEngine, Live
<1>2. /\ mid \in [Locates -> Prices]
      /\ live = [l \in Locates |-> <<>>] /\ nextRef = 1 /\ replica = NewEngine /\ strays = 0
  BY FeedAssumption DEF FeedInit
<1>3. FeedCore
  BY <1>1, <1>2 DEF FeedCore, MirrorsAt
<1>4. FeedCounts
  <2>1. PICK n \in Nat : n = Cardinality(Locates) * InitialOrders
    BY FeedAssumption, FS_CardinalityType
  <2>2. seeded = 0 /\ emitted = 0 /\ Events \in Nat
    BY FeedAssumption DEF FeedInit
  <2>3. /\ seeded \in 0 .. Cardinality(Locates) * InitialOrders /\ emitted \in 0 .. Events
        /\ nextRef <= seeded + emitted + 1
    BY <1>2, <2>1, <2>2
  <2>4. done \in BOOLEAN
    BY DEF FeedInit
  <2> QED BY <2>3, <2>4 DEF FeedCounts
<1> QED BY <1>2, <1>3, <1>4 DEF FeedInv

\* What rests is what the generator believes to rest.
LEMMA CoreConsistent ==
    ASSUME FeedCore
    PROVE  SelfConsistent
<1> DEFINE held == {[ref |-> r, order |-> replica.orders[r]] : r \in Live(replica)}
<1>1. ASSUME NEW r \in Live(replica)
      PROVE  [ref |-> r, order |-> replica.orders[r]] \in Expected
  <2>1. PICK l \in Locates : replica.orders[r].locate = l
    BY DEF FeedCore, Firm, Sound, Good, IsEngine, Order
  <2>2. PICK i \in DOMAIN live[l] : live[l][i].ref = r
    BY <2>1 DEF FeedCore, MirrorsAt
  <2>3. replica.orders[r] = OrderOf(l, live[l][i])
    BY <2>2 DEF FeedCore, MirrorsAt
  <2>4. [ref |-> r, order |-> replica.orders[r]] \in ExpectedOf(l)
    BY <2>2, <2>3 DEF ExpectedOf
  <2> QED BY <2>4 DEF Expected
<1>2. ASSUME NEW x \in Expected PROVE x \in held
  <2>1. PICK l \in Locates : x \in ExpectedOf(l)
    BY <1>2 DEF Expected
  <2>2. PICK i \in DOMAIN live[l] : x = [ref |-> live[l][i].ref, order |-> OrderOf(l, live[l][i])]
    BY <2>1 DEF ExpectedOf
  <2>3. live[l][i].ref \in Live(replica) /\ replica.orders[live[l][i].ref] = OrderOf(l, live[l][i])
    BY LiveOrder
  <2> QED BY <2>2, <2>3
<1>3. held = Expected
  <2>1. \A x \in held : x \in Expected
    BY <1>1
  <2> QED BY <1>2, <2>1
<1>4. CountsMatch(replica) /\ QuantitiesMatch(replica) /\ ~replica.missing
  BY DEF FeedCore, Firm, Sound, Good
<1> QED BY <1>3, <1>4 DEF FeedCore, SelfConsistent

\* The generator's invariant does not look at the network.
LEMMA FeedIdle ==
    ASSUME FeedInv, UNCHANGED feedVars
    PROVE  FeedInv'
BY DEF FeedInv, FeedCore, FeedCounts, feedVars

\* The invariant of the generator holds along the live path.
THEOREM FeedInvariant == PathSpec => []FeedInv
<1>1. PathInit => FeedInv
  BY FeedStarts DEF PathInit
<1>2. FeedInv /\ [PathNext]_pathVars => FeedInv'
  <2> SUFFICES ASSUME FeedInv, [PathNext]_pathVars PROVE FeedInv'
    OBVIOUS
  <2>1. CASE Send
    BY <2>1, BuildKeeps DEF Send, BuildStep
  <2>2. CASE Network
    BY <2>2, FeedIdle DEF Network, Receive
  <2>3. CASE Quiet \/ UNCHANGED pathVars
    BY <2>3, FeedIdle DEF Quiet, pathVars
  <2> QED BY <2>1, <2>2, <2>3 DEF PathNext
<1> QED BY <1>1, <1>2, PTL DEF PathSpec

\* The stream is self-consistent: no message of the generator names an order
\* the replaying engine does not have, and what the generator believes to rest
\* is what that engine holds, order by order and level by level.
THEOREM StreamConsistent == PathSpec => []SelfConsistent
<1>1. FeedInv => SelfConsistent
  BY CoreConsistent DEF FeedInv
<1> QED BY <1>1, FeedInvariant, PTL

-----------------------------------------------------------------------------
(* The engine that gets the whole stream.                                  *)

\* e are the engines after each of the first n messages of q.
EngineRun(q, n, e) ==
    e = [i \in 0 .. n |-> IF i = 0 THEN NewEngine ELSE OnMessage(e[i - 1], q[i]).engine]

\* There are such engines for every stream.
LEMMA EngineRunExists ==
    ASSUME NEW q, NEW n \in Nat
    PROVE  \E e : EngineRun(q, n, e)
<1> DEFINE T == {k \in Nat : ~ \E e : EngineRun(q, k, e)}
<1>1. SUFFICES ASSUME T # {} PROVE FALSE
  OBVIOUS
<1>2. PICK k \in T : \A j \in T : k <= j
  BY <1>1, Least
<1>3. k \in Nat /\ ~ \E e : EngineRun(q, k, e)
  OBVIOUS
<1>4. CASE k = 0
  <2> DEFINE e == [i \in 0 .. 0 |-> NewEngine]
  <2>1. EngineRun(q, 0, e)
    BY DEF EngineRun
  <2> QED BY <1>3, <1>4, <2>1
<1>5. CASE k # 0
  <2>1. PICK j \in Nat : k = j + 1
    BY <1>3, <1>5
  <2>2. j \notin T
    BY <1>2, <2>1
  <2>3. PICK e : EngineRun(q, j, e)
    BY <2>2
  <2> DEFINE x == OnMessage(e[j], q[k]).engine
             f == [i \in 0 .. k |-> IF i = k THEN x ELSE e[i]]
  <2>4. ASSUME NEW i \in 0 .. k
        PROVE  f[i] = IF i = 0 THEN NewEngine ELSE OnMessage(f[i - 1], q[i]).engine
    <3>1. CASE i = 0
      <4>1. f[i] = e[0] /\ e[0] = NewEngine
        BY <1>3, <1>5, <2>3, <3>1 DEF EngineRun
      <4> QED BY <3>1, <4>1
    <3>2. CASE i # 0 /\ i # k
      <4>1. f[i] = e[i] /\ f[i - 1] = e[i - 1] /\ i \in 0 .. j
        BY <2>1, <3>2
      <4>2. e[i] = OnMessage(e[i - 1], q[i]).engine
        BY <2>3, <3>2, <4>1 DEF EngineRun
      <4> QED BY <3>2, <4>1, <4>2
    <3>3. CASE i = k
      <4>1. f[i] = x /\ f[i - 1] = e[j]
        BY <1>3, <2>1, <3>3
      <4> QED BY <1>5, <3>3, <4>1
    <3> QED BY <3>1, <3>2, <3>3
  <2>5. EngineRun(q, k, f)
    <3>1. f = [i \in 0 .. k |-> f[i]]
      OBVIOUS
    <3> HIDE DEF f
    <3>2. f = [i \in 0 .. k |-> IF i = 0 THEN NewEngine ELSE OnMessage(f[i - 1], q[i]).engine]
      BY <2>4, <3>1
    <3> QED BY <3>2 DEF EngineRun
  <2> QED BY <1>3, <2>5
<1> QED BY <1>4, <1>5

\* The engines of a stream, one message at a time.
LEMMA EnginesStep ==
    ASSUME NEW q, Len(q) \in Nat
    PROVE  /\ Engines(q)[0] = NewEngine
           /\ \A i \in 1 .. Len(q) : Engines(q)[i] = OnMessage(Engines(q)[i - 1], q[i]).engine
<1>1. Engines(q) = CHOOSE e : EngineRun(q, Len(q), e)
  BY DEF Engines, EngineRun
<1>2. EngineRun(q, Len(q), Engines(q))
  BY <1>1, EngineRunExists
<1>3. \A i \in 0 .. Len(q) : Engines(q)[i] =
          IF i = 0 THEN NewEngine ELSE OnMessage(Engines(q)[i - 1], q[i]).engine
  BY <1>2 DEF EngineRun
<1>4. 0 \in 0 .. Len(q) /\ \A i \in 1 .. Len(q) : i \in 0 .. Len(q) /\ i # 0
  OBVIOUS
<1> QED BY <1>3, <1>4

\* The engines of two streams are the same as long as their messages are.
LEMMA EnginesPrefix ==
    ASSUME NEW q, NEW s, Len(q) \in Nat, Len(s) \in Nat, NEW n \in Nat, n <= Len(q), n <= Len(s),
           \A i \in 1 .. n : q[i] = s[i]
    PROVE  \A i \in 0 .. n : Engines(q)[i] = Engines(s)[i]
<1> DEFINE T == {k \in 0 .. n : Engines(q)[k] # Engines(s)[k]}
<1>1. SUFFICES ASSUME T # {} PROVE FALSE
  OBVIOUS
<1>2. T \in SUBSET Nat
  OBVIOUS
<1>3. PICK k \in T : \A j \in T : k <= j
  <2> HIDE DEF T
  <2> QED BY <1>1, <1>2, Least
<1>4. k \in 0 .. n /\ Engines(q)[k] # Engines(s)[k]
  OBVIOUS
<1>5. k # 0
  BY <1>4, EnginesStep
<1>6. k - 1 \in 0 .. n /\ k - 1 \notin T
  <2> HIDE DEF T
  <2>1. k - 1 \in 0 .. n /\ ~(k <= k - 1)
    BY <1>4, <1>5
  <2> QED BY <1>3, <2>1
<1>7. Engines(q)[k - 1] = Engines(s)[k - 1] /\ q[k] = s[k] /\ k \in 1 .. Len(q) /\ k \in 1 .. Len(s)
  BY <1>4, <1>5, <1>6
<1>8. /\ Engines(q)[k] = OnMessage(Engines(q)[k - 1], q[k]).engine
      /\ Engines(s)[k] = OnMessage(Engines(s)[k - 1], s[k]).engine
  BY <1>7, EnginesStep
<1> QED BY <1>4, <1>7, <1>8

\* the reference of the order a message adds
Adds(m) == IF m.kind = "A" THEN {m.ref} ELSE IF m.kind = "U" THEN {m.new} ELSE {}

\* What a stream promises: each message is valid for the engine that has got
\* those before it, and no reference is used for a second order.
IsStream(q) ==
    /\ q \in Seq(Message)
    /\ \A i \in 1 .. Len(q) : Valid(Engines(q)[i - 1], q[i]) /\ Firm(Engines(q)[i - 1])
    /\ \A i, j \in 1 .. Len(q) : j < i => Adds(q[i]) \cap Named(q[j]) = {}

\* The stream so far: the replaying engine has got all of it, no message names
\* a reference that is still to come, and the drain ends it.
StreamInv == /\ IsStream(out)
             /\ Engines(out)[Len(out)] = replica
             /\ \A i \in 1 .. Len(out) : \A r \in Named(out[i]) : r \in Nat /\ r < nextRef
             /\ done => ~Seeding /\ emitted = Events

\* A message more.
LEMMA StreamGrows ==
    ASSUME FeedInv, IsStream(out), Engines(out)[Len(out)] = replica,
           \A i \in 1 .. Len(out) : \A r \in Named(out[i]) : r \in Nat /\ r < nextRef,
           NEW m \in Message, Emits(m)
    PROVE  /\ IsStream(out') /\ Engines(out')[Len(out')] = replica'
           /\ \A i \in 1 .. Len(out') : \A r \in Named(out'[i]) : r \in Nat /\ r < nextRef'
<1>1. PICK q \in Seq(Message) : q = out
  BY DEF IsStream
<1>2. PICK s : s = Append(q, m)
  OBVIOUS
<1>3. PICK n \in Nat : n = Len(q)
  OBVIOUS
<1>4. /\ s \in Seq(Message) /\ Len(s) = n + 1 /\ s[n + 1] = m
      /\ \A i \in 1 .. n : s[i] = q[i]
  BY <1>2, <1>3
<1>5. \A i \in 0 .. n : Engines(s)[i] = Engines(q)[i]
  <2>1. Len(q) \in Nat /\ Len(s) \in Nat /\ n <= Len(q) /\ n <= Len(s)
    BY <1>3, <1>4
  <2>2. \A i \in 1 .. n : s[i] = q[i]
    BY <1>4
  <2> QED BY <2>1, <2>2, EnginesPrefix
<1>6. Engines(s)[n] = replica
  BY <1>1, <1>3, <1>5
<1>7. Engines(s)[n + 1] = OnMessage(Engines(s)[n], s[n + 1]).engine
  <2>1. n + 1 \in 1 .. Len(s) /\ Len(s) \in Nat /\ n + 1 - 1 = n
    BY <1>4
  <2>2. Engines(s)[n + 1] = OnMessage(Engines(s)[n + 1 - 1], s[n + 1]).engine
    BY <2>1, EnginesStep
  <2> QED BY <2>1, <2>2
<1>8. out' = s /\ replica' = Engines(s)[n + 1] /\ Valid(Engines(s)[n], m) /\ Firm(Engines(s)[n])
  BY <1>1, <1>2, <1>4, <1>6, <1>7 DEF Emits, FeedInv, FeedCore
<1>9. \A i \in 1 .. n + 1 : i \in 1 .. n \/ i = n + 1
  OBVIOUS
<1>10. ASSUME NEW i \in 1 .. n + 1
       PROVE  Valid(Engines(s)[i - 1], s[i]) /\ Firm(Engines(s)[i - 1])
  <2>1. CASE i \in 1 .. n
    <3>1. i - 1 \in 0 .. n /\ s[i] = q[i]
      BY <1>4, <2>1
    <3>2. Valid(Engines(q)[i - 1], q[i]) /\ Firm(Engines(q)[i - 1])
      BY <1>1, <1>3, <2>1 DEF IsStream
    <3>3. Engines(s)[i - 1] = Engines(q)[i - 1]
      BY <1>5, <3>1
    <3> QED BY <3>1, <3>2, <3>3
  <2>2. CASE i = n + 1
    <3>1. i - 1 = n
      BY <2>2
    <3> QED BY <1>4, <1>8, <2>2, <3>1
  <2> QED BY <1>9, <2>1, <2>2
<1>11. \A r \in Named(m) : r \in Nat /\ r < nextRef'
  <2>1. \A r \in Named(m) : r \in Refs
    BY DEF Named, Message
  <2> QED BY <2>1, RefsAreNumbers DEF Emits
<1>12. nextRef \in Nat /\ nextRef' \in Nat /\ nextRef' >= nextRef
  BY DEF FeedInv, FeedCore, Emits
<1>13. \A i \in 1 .. n : \A r \in Named(s[i]) : r \in Nat /\ r < nextRef
  BY <1>1, <1>3, <1>4
<1>14. \A r \in Adds(m) : r >= nextRef
  BY DEF Emits, Adds
<1>15. ASSUME NEW i \in 1 .. n + 1, NEW j \in 1 .. n + 1, j < i
       PROVE  Adds(s[i]) \cap Named(s[j]) = {}
  <2>1. j \in 1 .. n
    BY <1>15
  <2>2. CASE i \in 1 .. n
    <3>1. Adds(q[i]) \cap Named(q[j]) = {}
      BY <1>1, <1>3, <1>15, <2>1, <2>2 DEF IsStream
    <3> QED BY <1>4, <2>1, <2>2, <3>1
  <2>3. CASE i = n + 1
    <3>1. \A r \in Named(s[j]) : r \in Nat /\ r < nextRef
      BY <1>13, <2>1
    <3>2. s[i] = m
      BY <1>4, <2>3
    <3> QED BY <1>12, <1>14, <3>1, <3>2
  <2> QED BY <1>9, <2>2, <2>3
<1>16. IsStream(s)
  BY <1>4, <1>10, <1>15 DEF IsStream
<1>17. \A i \in 1 .. n + 1 : \A r \in Named(s[i]) : r \in Nat /\ r < nextRef'
  BY <1>4, <1>9, <1>11, <1>12, <1>13
<1> QED BY <1>4, <1>8, <1>16, <1>17

\* A step of the generator keeps the promise; a finished stream stays as it is.
LEMMA StreamKeeps ==
    ASSUME FeedInv, StreamInv, Build
    PROVE  StreamInv' /\ ~done
<1>1. BuildStep
  BY BuildKeeps
<1>2. ~done
  BY DEF StreamInv, Build, Seed, Step, Drain, Seeding, FeedInv, FeedCounts
<1>3. done' => ~Seeding' /\ emitted' = Events
  BY <1>2 DEF Build, Seed, Step, Drain, Seeding
<1>4. ASSUME NEW m \in Message, Emits(m) PROVE StreamInv'
  <2>1. /\ IsStream(out') /\ Engines(out')[Len(out')] = replica'
        /\ \A i \in 1 .. Len(out') : \A r \in Named(out'[i]) : r \in Nat /\ r < nextRef'
    BY <1>4, StreamGrows DEF StreamInv
  <2> QED BY <1>3, <2>1 DEF StreamInv
<1>5. CASE UNCHANGED <<out, replica, nextRef>>
  <2>1. out' = out /\ replica' = replica /\ nextRef' = nextRef
    BY <1>5
  <2>2. /\ IsStream(out') /\ Engines(out')[Len(out')] = replica'
        /\ \A i \in 1 .. Len(out') : \A r \in Named(out'[i]) : r \in Nat /\ r < nextRef'
    BY <2>1 DEF StreamInv
  <2> QED BY <1>2, <1>3, <2>2 DEF StreamInv
<1> QED BY <1>1, <1>2, <1>4, <1>5 DEF BuildStep

\* The directory messages that start the stream.
LEMMA StreamStarts ==
    ASSUME FeedInit
    PROVE  StreamInv
<1>1. PICK n \in Nat : Locates = 1 .. n
  BY FeedAssumption, FS_CardinalityType
<1>2. /\ out \in Seq(Message) /\ Len(out) = n
      /\ \A i \in 1 .. n : out[i].kind = "R"
  <2>1. out = [i \in 1 .. n |-> [kind |-> "R", locate |-> i]]
    BY <1>1 DEF FeedInit
  <2>2. \A i \in 1 .. n : [kind |-> "R", locate |-> i] \in Message
    BY <1>1 DEF Message
  <2> QED BY <2>1, <2>2, IsASeq
<1>3. \A i \in 0 .. n : Engines(out)[i] = NewEngine
  <2> DEFINE T == {k \in 0 .. n : Engines(out)[k] # NewEngine}
  <2>1. SUFFICES ASSUME T # {} PROVE FALSE
    OBVIOUS
  <2>2. T \in SUBSET Nat
    OBVIOUS
  <2>3. PICK k \in T : \A j \in T : k <= j
    <3> HIDE DEF T
    <3> QED BY <2>1, <2>2, Least
  <2>4. k \in 0 .. n /\ Engines(out)[k] # NewEngine
    OBVIOUS
  <2>5. k # 0
    BY <1>2, <2>4, EnginesStep
  <2>6. k - 1 \in 0 .. n /\ k - 1 \notin T /\ k \in 1 .. n
    <3> HIDE DEF T
    <3>1. k - 1 \in 0 .. n /\ ~(k <= k - 1) /\ k \in 1 .. n
      BY <2>4, <2>5
    <3> QED BY <2>3, <3>1
  <2>7. Engines(out)[k] = OnMessage(Engines(out)[k - 1], out[k]).engine
    BY <1>2, <2>6, EnginesStep
  <2>8. OnMessage(NewEngine, out[k]).engine = NewEngine
    BY <1>2, <2>6 DEF OnMessage, Update
  <2> QED BY <2>4, <2>6, <2>7, <2>8
<1>4. Firm(NewEngine)
  BY NewGood DEF Firm, Sound, NewEngine, Live
<1>5. \A i \in 1 .. n : i - 1 \in 0 .. n /\ Valid(NewEngine, out[i]) /\ Named(out[i]) = {} /\ Adds(out[i]) = {}
  BY <1>2 DEF Valid, Named, Adds
<1>6. IsStream(out)
  BY <1>2, <1>3, <1>4, <1>5 DEF IsStream
<1>7. replica = NewEngine /\ done = FALSE
  BY DEF FeedInit
<1> QED BY <1>2, <1>3, <1>5, <1>6, <1>7 DEF StreamInv

-----------------------------------------------------------------------------
(* The damage of what is lost, and the handler of what is not.             *)

\* What message i does to the damage d.
Worse(q, got, d, i) ==
    IF i \notin got \/ Named(q[i]) \cap d # {} THEN d \cup Named(q[i]) ELSE d

\* d is the damage after each of the first n messages of q.
DamageRun(q, got, n, d) ==
    d = [i \in 0 .. n |-> IF i = 0 THEN {} ELSE Worse(q, got, d[i - 1], i)]

\* There is such a damage for every stream.
LEMMA DamageRunExists ==
    ASSUME NEW q, NEW got, NEW n \in Nat
    PROVE  \E d : DamageRun(q, got, n, d)
<1> DEFINE T == {k \in Nat : ~ \E d : DamageRun(q, got, k, d)}
<1>1. SUFFICES ASSUME T # {} PROVE FALSE
  OBVIOUS
<1>2. PICK k \in T : \A j \in T : k <= j
  BY <1>1, Least
<1>3. k \in Nat /\ ~ \E d : DamageRun(q, got, k, d)
  OBVIOUS
<1>4. CASE k = 0
  <2> DEFINE e == [i \in 0 .. 0 |-> {}]
  <2>1. DamageRun(q, got, 0, e)
    BY DEF DamageRun
  <2> QED BY <1>3, <1>4, <2>1
<1>5. CASE k # 0
  <2>1. PICK j \in Nat : k = j + 1
    BY <1>3, <1>5
  <2>2. j \notin T
    BY <1>2, <2>1
  <2>3. PICK e : DamageRun(q, got, j, e)
    BY <2>2
  <2> DEFINE x == Worse(q, got, e[j], k)
             f == [i \in 0 .. k |-> IF i = k THEN x ELSE e[i]]
  <2>4. ASSUME NEW i \in 0 .. k
        PROVE  f[i] = IF i = 0 THEN {} ELSE Worse(q, got, f[i - 1], i)
    <3>1. CASE i = 0
      <4>1. f[i] = e[0] /\ e[0] = {}
        BY <1>3, <1>5, <2>3, <3>1 DEF DamageRun
      <4> QED BY <3>1, <4>1
    <3>2. CASE i # 0 /\ i # k
      <4>1. f[i] = e[i] /\ f[i - 1] = e[i - 1] /\ i \in 0 .. j
        BY <2>1, <3>2
      <4>2. e[i] = Worse(q, got, e[i - 1], i)
        BY <2>3, <3>2, <4>1 DEF DamageRun
      <4> QED BY <3>2, <4>1, <4>2
    <3>3. CASE i = k
      <4>1. f[i] = x /\ f[i - 1] = e[j]
        BY <1>3, <2>1, <3>3
      <4> QED BY <1>5, <3>3, <4>1
    <3> QED BY <3>1, <3>2, <3>3
  <2>5. DamageRun(q, got, k, f)
    <3>1. f = [i \in 0 .. k |-> f[i]]
      OBVIOUS
    <3> HIDE DEF f
    <3>2. f = [i \in 0 .. k |-> IF i = 0 THEN {} ELSE Worse(q, got, f[i - 1], i)]
      BY <2>4, <3>1
    <3> QED BY <3>2 DEF DamageRun
  <2> QED BY <1>3, <2>5
<1> QED BY <1>4, <1>5

\* The damage, one message at a time.
LEMMA DamageStep ==
    ASSUME NEW q, NEW got, Len(q) \in Nat
    PROVE  /\ Damage(q, got)[0] = {}
           /\ \A i \in 1 .. Len(q) : Damage(q, got)[i] = Worse(q, got, Damage(q, got)[i - 1], i)
<1>1. Damage(q, got) = CHOOSE d : DamageRun(q, got, Len(q), d)
  BY DEF Damage, DamageRun, Worse
<1>2. DamageRun(q, got, Len(q), Damage(q, got))
  BY <1>1, DamageRunExists
<1>3. \A i \in 0 .. Len(q) : Damage(q, got)[i] =
          IF i = 0 THEN {} ELSE Worse(q, got, Damage(q, got)[i - 1], i)
  BY <1>2 DEF DamageRun
<1>4. 0 \in 0 .. Len(q) /\ \A i \in 1 .. Len(q) : i \in 0 .. Len(q) /\ i # 0
  OBVIOUS
<1> QED BY <1>3, <1>4

\* A message that is got later changes nothing before it.
LEMMA DamageBefore ==
    ASSUME NEW q, NEW got, NEW more, Len(q) \in Nat, NEW n \in Nat, n <= Len(q),
           \A i \in 1 .. n : i \in got <=> i \in more
    PROVE  \A i \in 0 .. n : Damage(q, got)[i] = Damage(q, more)[i]
<1> DEFINE T == {k \in 0 .. n : Damage(q, got)[k] # Damage(q, more)[k]}
<1>1. SUFFICES ASSUME T # {} PROVE FALSE
  OBVIOUS
<1>2. T \in SUBSET Nat
  OBVIOUS
<1>3. PICK k \in T : \A j \in T : k <= j
  <2> HIDE DEF T
  <2> QED BY <1>1, <1>2, Least
<1>4. k \in 0 .. n /\ Damage(q, got)[k] # Damage(q, more)[k]
  OBVIOUS
<1>5. k # 0
  BY <1>4, DamageStep
<1>6. k - 1 \in 0 .. n /\ k - 1 \notin T
  <2> HIDE DEF T
  <2>1. k - 1 \in 0 .. n /\ ~(k <= k - 1)
    BY <1>4, <1>5
  <2> QED BY <1>3, <2>1
<1>7. Damage(q, got)[k - 1] = Damage(q, more)[k - 1] /\ k \in 1 .. Len(q) /\ k \in 1 .. n
  BY <1>4, <1>5, <1>6
<1>8. /\ Damage(q, got)[k] = Worse(q, got, Damage(q, got)[k - 1], k)
      /\ Damage(q, more)[k] = Worse(q, more, Damage(q, more)[k - 1], k)
  BY <1>7, DamageStep
<1>9. k \in got <=> k \in more
  BY <1>7
<1> QED BY <1>4, <1>7, <1>8, <1>9 DEF Worse

\* h is the handler after each of the first n messages of q.
HandlingRun(q, n, h) ==
    h = [i \in 0 .. n |-> IF i = 0 THEN Handled ELSE Deliver(h[i - 1], q[i])]

\* There are such handlers for every run of messages.
LEMMA HandlingRunExists ==
    ASSUME NEW q, NEW n \in Nat
    PROVE  \E h : HandlingRun(q, n, h)
<1> DEFINE T == {k \in Nat : ~ \E h : HandlingRun(q, k, h)}
<1>1. SUFFICES ASSUME T # {} PROVE FALSE
  OBVIOUS
<1>2. PICK k \in T : \A j \in T : k <= j
  BY <1>1, Least
<1>3. k \in Nat /\ ~ \E h : HandlingRun(q, k, h)
  OBVIOUS
<1>4. CASE k = 0
  <2> DEFINE e == [i \in 0 .. 0 |-> Handled]
  <2>1. HandlingRun(q, 0, e)
    BY DEF HandlingRun
  <2> QED BY <1>3, <1>4, <2>1
<1>5. CASE k # 0
  <2>1. PICK j \in Nat : k = j + 1
    BY <1>3, <1>5
  <2>2. j \notin T
    BY <1>2, <2>1
  <2>3. PICK e : HandlingRun(q, j, e)
    BY <2>2
  <2> DEFINE x == Deliver(e[j], q[k])
             f == [i \in 0 .. k |-> IF i = k THEN x ELSE e[i]]
  <2>4. ASSUME NEW i \in 0 .. k
        PROVE  f[i] = IF i = 0 THEN Handled ELSE Deliver(f[i - 1], q[i])
    <3>1. CASE i = 0
      <4>1. f[i] = e[0] /\ e[0] = Handled
        BY <1>3, <1>5, <2>3, <3>1 DEF HandlingRun
      <4> QED BY <3>1, <4>1
    <3>2. CASE i # 0 /\ i # k
      <4>1. f[i] = e[i] /\ f[i - 1] = e[i - 1] /\ i \in 0 .. j
        BY <2>1, <3>2
      <4>2. e[i] = Deliver(e[i - 1], q[i])
        BY <2>3, <3>2, <4>1 DEF HandlingRun
      <4> QED BY <3>2, <4>1, <4>2
    <3>3. CASE i = k
      <4>1. f[i] = x /\ f[i - 1] = e[j]
        BY <1>3, <2>1, <3>3
      <4> QED BY <1>5, <3>3, <4>1
    <3> QED BY <3>1, <3>2, <3>3
  <2>5. HandlingRun(q, k, f)
    <3>1. f = [i \in 0 .. k |-> f[i]]
      OBVIOUS
    <3> HIDE DEF f
    <3>2. f = [i \in 0 .. k |-> IF i = 0 THEN Handled ELSE Deliver(f[i - 1], q[i])]
      BY <2>4, <3>1
    <3> QED BY <3>2 DEF HandlingRun
  <2> QED BY <1>3, <2>5
<1> QED BY <1>4, <1>5

\* The handler, one message at a time.
LEMMA HandlingStep ==
    ASSUME NEW q, Len(q) \in Nat, DOMAIN q = 1 .. Len(q)
    PROVE  /\ Handling(q)[0] = Handled
           /\ \A i \in 1 .. Len(q) : Handling(q)[i] = Deliver(Handling(q)[i - 1], q[i])
<1>1. {0} \cup DOMAIN q = 0 .. Len(q)
  OBVIOUS
<1>2. Handling(q) = CHOOSE h : HandlingRun(q, Len(q), h)
  BY <1>1 DEF Handling, HandlingRun
<1>3. HandlingRun(q, Len(q), Handling(q))
  BY <1>2, HandlingRunExists
<1>4. \A i \in 0 .. Len(q) : Handling(q)[i] =
          IF i = 0 THEN Handled ELSE Deliver(Handling(q)[i - 1], q[i])
  BY <1>3 DEF HandlingRun
<1>5. 0 \in 0 .. Len(q) /\ \A i \in 1 .. Len(q) : i \in 0 .. Len(q) /\ i # 0
  OBVIOUS
<1> QED BY <1>4, <1>5

-----------------------------------------------------------------------------
(* A book that has lost messages, against the engine that has got them all.*)

\* The order o is x with at least the shares of x.
AtLeast(o, x) ==
    /\ o.locate = x.locate /\ o.side = x.side /\ o.price = x.price
    /\ o.shares \in Nat /\ x.shares \in Nat /\ o.shares >= x.shares

\* The engine e differs from the whole engine w in the damaged orders d at
\* most, and has at least the shares of w for an order they share.
Contained(e, w, d) ==
    /\ Firm(e) /\ Firm(w)
    /\ \A r \in (Live(e) \cup Live(w)) \ d :
           r \in Live(e) /\ r \in Live(w) /\ e.orders[r] = w.orders[r]
    /\ \A r \in Live(e) \cap Live(w) : AtLeast(e.orders[r], w.orders[r])

\* A message changes the orders it names.
LEMMA FollowsOutside ==
    ASSUME NEW e, NEW d, NEW m, Follows(e, d, m), NEW r, r \notin Named(m)
    PROVE  /\ r \in Live(d) <=> r \in Live(e)
           /\ r \in Live(e) => d.orders[r] = e.orders[r]
<1>1. CASE m.kind = "A"
  <2>1. r # m.ref
    BY <1>1 DEF Named
  <2> QED BY <1>1, <2>1 DEF Follows, Added
<1>2. CASE m.kind = "X"
  <2>1. r # m.ref
    BY <1>2 DEF Named
  <2>2. Reduced(e, d, m.ref, m.shares)
    BY <1>2 DEF Follows
  <2>3. CASE e.orders[m.ref].shares <= m.shares
    BY <2>1, <2>2, <2>3 DEF Reduced, Removed
  <2>4. CASE ~(e.orders[m.ref].shares <= m.shares)
    BY <2>1, <2>2, <2>4 DEF Reduced, Added
  <2> QED BY <2>3, <2>4
<1>3. CASE m.kind = "D"
  <2>1. r # m.ref
    BY <1>3 DEF Named
  <2> QED BY <1>3, <2>1 DEF Follows, Removed
<1>4. CASE m.kind = "U"
  <2>1. r # m.ref /\ r # m.new
    BY <1>4 DEF Named
  <2> QED BY <1>4, <2>1 DEF Follows, Replaced
<1>5. CASE m.kind \notin {"A", "X", "D", "U"}
  BY <1>5 DEF Follows
<1> QED BY <1>1, <1>2, <1>3, <1>4, <1>5

\* The orders of an engine have their fields.
LEMMA FirmOrder ==
    ASSUME NEW e, Firm(e), NEW r \in Live(e)
    PROVE  /\ r \in Refs
           /\ e.orders[r] \in Order
           /\ e.orders[r].shares \in Nat /\ e.orders[r].shares > 0
BY DEF Firm, Sound, Good, IsEngine, Order

\* What the whole engine gets and the book does not damages what it names.
LEMMA LostStep ==
    ASSUME NEW e, NEW w, NEW d, Contained(e, w, d),
           NEW m, Valid(w, m), Adds(m) \cap Live(e) = {}
    PROVE  Contained(e, OnMessage(w, m).engine, d \cup Named(m))
<1> DEFINE x == OnMessage(w, m).engine
<1>1. Firm(e) /\ Firm(w) /\ Follows(w, x, m) /\ Firm(x)
  BY ValidEffect DEF Contained
<1> HIDE DEF x
<1>2. ASSUME NEW r \in (Live(e) \cup Live(x)) \ (d \cup Named(m))
      PROVE  r \in Live(e) /\ r \in Live(x) /\ e.orders[r] = x.orders[r]
  <2>1. r \in Live(x) <=> r \in Live(w)
    BY <1>1, FollowsOutside
  <2>2. r \in Live(w) => x.orders[r] = w.orders[r]
    BY <1>1, FollowsOutside
  <2> QED BY <2>1, <2>2 DEF Contained
<1>3. ASSUME NEW r \in Live(e) \cap Live(x)
      PROVE  AtLeast(e.orders[r], x.orders[r])
  <2>1. CASE r \notin Named(m)
    <3>1. r \in Live(x) <=> r \in Live(w)
      BY <1>1, <2>1, FollowsOutside
    <3>2. r \in Live(w) => x.orders[r] = w.orders[r]
      BY <1>1, <2>1, FollowsOutside
    <3> QED BY <3>1, <3>2 DEF Contained
  <2>2. CASE r \in Named(m)
    <3>1. r \notin Adds(m)
      BY <1>3
    <3>2. CASE m.kind = "X"
      <4>1. r = m.ref /\ Reduced(w, x, r, m.shares) /\ r \in Live(w) /\ m.shares \in Nat \ {0}
            /\ m.shares <= w.orders[r].shares
        BY <1>1, <2>2, <3>2 DEF Named, Follows, Valid
      <4>2. AtLeast(e.orders[r], w.orders[r])
        BY <1>3, <4>1 DEF Contained
      <4>3. CASE w.orders[r].shares <= m.shares
        BY <1>3, <4>1, <4>3 DEF Reduced, Removed
      <4>4. CASE ~(w.orders[r].shares <= m.shares)
        <5>1. x.orders[r] = WithShares(w.orders[r], w.orders[r].shares - m.shares)
          BY <4>1, <4>4 DEF Reduced, Added
        <5>2. /\ x.orders[r].locate = w.orders[r].locate /\ x.orders[r].side = w.orders[r].side
              /\ x.orders[r].price = w.orders[r].price
              /\ x.orders[r].shares = w.orders[r].shares - m.shares
          BY <5>1 DEF WithShares
        <5>3. PICK k \in Nat, n \in Nat : k = w.orders[r].shares /\ n = m.shares /\ n <= k
          BY <4>1, <4>2 DEF AtLeast
        <5> QED BY <4>2, <5>2, <5>3 DEF AtLeast
      <4> QED BY <4>3, <4>4
    <3>3. CASE m.kind = "D"
      BY <1>1, <1>3, <2>2, <3>3 DEF Named, Follows, Removed
    <3>4. CASE m.kind = "U"
      <4>1. r = m.ref /\ r # m.new
        BY <2>2, <3>1, <3>4 DEF Named, Adds
      <4> QED BY <1>1, <1>3, <3>4, <4>1 DEF Follows, Replaced
    <3> QED BY <2>2, <3>1, <3>2, <3>3, <3>4 DEF Named, Adds
  <2> QED BY <2>1, <2>2
<1>4. Contained(e, x, d \cup Named(m))
  BY <1>1, <1>2, <1>3 DEF Contained
<1> QED BY <1>4 DEF x

\* Two orders that lose the same shares.
LEMMA BothReduced ==
    ASSUME NEW e, NEW w, NEW x, NEW y, NEW r, NEW n \in Nat,
           Reduced(e, x, r, n), Reduced(w, y, r, n), r \in Live(e), r \in Live(w),
           n <= w.orders[r].shares, AtLeast(e.orders[r], w.orders[r])
    PROVE  /\ e.orders[r] = w.orders[r] =>
                  /\ r \in Live(x) <=> r \in Live(y)
                  /\ r \in Live(x) => x.orders[r] = y.orders[r]
           /\ r \in Live(x) /\ r \in Live(y) => AtLeast(x.orders[r], y.orders[r])
<1>1. PICK k \in Nat, j \in Nat : k = e.orders[r].shares /\ j = w.orders[r].shares /\ k >= j /\ n <= j
  BY DEF AtLeast
<1>2. k <= n => r \notin Live(x)
  BY <1>1 DEF Reduced, Removed
<1>3. ~(k <= n) => r \in Live(x) /\ x.orders[r] = WithShares(e.orders[r], k - n)
  BY <1>1 DEF Reduced, Added
<1>4. j <= n => r \notin Live(y)
  BY <1>1 DEF Reduced, Removed
<1>5. ~(j <= n) => r \in Live(y) /\ y.orders[r] = WithShares(w.orders[r], j - n)
  BY <1>1 DEF Reduced, Added
<1>6. ASSUME e.orders[r] = w.orders[r]
      PROVE  (r \in Live(x) <=> r \in Live(y)) /\ (r \in Live(x) => x.orders[r] = y.orders[r])
  BY <1>1, <1>2, <1>3, <1>4, <1>5, <1>6
<1>7. ASSUME r \in Live(x), r \in Live(y)
      PROVE  AtLeast(x.orders[r], y.orders[r])
  <2>1. ~(k <= n) /\ ~(j <= n)
    BY <1>2, <1>4, <1>7
  <2>2. k - n \in Nat /\ j - n \in Nat /\ k - n >= j - n
    BY <1>1, <2>1
  <2>3. AtLeast(WithShares(e.orders[r], k - n), WithShares(w.orders[r], j - n))
    BY <2>2 DEF AtLeast, WithShares
  <2> QED BY <1>3, <1>5, <2>1, <2>3
<1> QED BY <1>6, <1>7

\* A message that is valid for both engines damages nothing.
LEMMA GotStep ==
    ASSUME NEW e, NEW w, NEW d, Contained(e, w, d), NEW m, Valid(w, m), Valid(e, m)
    PROVE  Contained(OnMessage(e, m).engine, OnMessage(w, m).engine, d)
<1> DEFINE x == OnMessage(e, m).engine
           y == OnMessage(w, m).engine
<1>1. Firm(e) /\ Firm(w)
  BY DEF Contained
<1>2. Follows(e, x, m) /\ Firm(x)
  BY <1>1, ValidEffect
<1>3. Follows(w, y, m) /\ Firm(y)
  BY <1>1, ValidEffect
<1> HIDE DEF x, y
<1>4. ASSUME NEW r, r \notin Named(m)
      PROVE  /\ (r \in Live(x) <=> r \in Live(e)) /\ (r \in Live(e) => x.orders[r] = e.orders[r])
             /\ (r \in Live(y) <=> r \in Live(w)) /\ (r \in Live(w) => y.orders[r] = w.orders[r])
  <2>1. (r \in Live(x) <=> r \in Live(e)) /\ (r \in Live(e) => x.orders[r] = e.orders[r])
    BY <1>2, <1>4, FollowsOutside
  <2>2. (r \in Live(y) <=> r \in Live(w)) /\ (r \in Live(w) => y.orders[r] = w.orders[r])
    BY <1>3, <1>4, FollowsOutside
  <2> QED BY <2>1, <2>2
<1>5. ASSUME NEW r \in Named(m)
      PROVE  /\ r \notin d => /\ r \in Live(x) <=> r \in Live(y)
                              /\ r \in Live(x) => x.orders[r] = y.orders[r]
             /\ r \in Live(x) /\ r \in Live(y) => AtLeast(x.orders[r], y.orders[r])
  <2>1. CASE m.kind = "A"
    <3>1. r = m.ref
      BY <2>1 DEF Named
    <3>2. /\ r \in Live(x) /\ r \in Live(y)
          /\ x.orders[r] = NewOrder(e, m) /\ y.orders[r] = NewOrder(w, m)
      BY <1>2, <1>3, <2>1, <3>1 DEF Follows, Added
    <3>3. NewOrder(e, m) = NewOrder(w, m)
      BY <2>1 DEF NewOrder
    <3>4. y.orders[r].shares \in Nat
      BY <1>3, <3>2, FirmOrder
    <3> QED BY <3>2, <3>3, <3>4 DEF AtLeast
  <2>2. CASE m.kind = "X"
    <3>1. /\ r = m.ref /\ r \in Live(e) /\ r \in Live(w) /\ m.shares \in Nat
          /\ m.shares <= w.orders[r].shares
          /\ Reduced(e, x, r, m.shares) /\ Reduced(w, y, r, m.shares)
      BY <1>2, <1>3, <2>2 DEF Named, Valid, Follows
    <3>2. AtLeast(e.orders[r], w.orders[r]) /\ (r \notin d => e.orders[r] = w.orders[r])
      BY <3>1 DEF Contained
    <3>3. PICK n \in Nat : n = m.shares
      BY <3>1
    <3>4. /\ e.orders[r] = w.orders[r] =>
                  /\ r \in Live(x) <=> r \in Live(y)
                  /\ r \in Live(x) => x.orders[r] = y.orders[r]
          /\ r \in Live(x) /\ r \in Live(y) => AtLeast(x.orders[r], y.orders[r])
      BY <3>1, <3>2, <3>3, BothReduced
    <3> QED BY <3>2, <3>4
  <2>3. CASE m.kind = "D"
    <3>1. r = m.ref
      BY <2>3 DEF Named
    <3> QED BY <1>2, <1>3, <2>3, <3>1 DEF Follows, Removed
  <2>4. CASE m.kind = "U"
    <3>1. /\ Replaced(e, x, m.ref, m.new, NewOrder(e, m))
          /\ Replaced(w, y, m.ref, m.new, NewOrder(w, m))
          /\ m.ref \in Live(e) /\ m.ref \in Live(w) /\ m.new # m.ref
      BY <1>2, <1>3, <2>4 DEF Follows, Valid
    <3>2. NewOrder(e, m) = NewOrder(w, m)
      <4>1. AtLeast(e.orders[m.ref], w.orders[m.ref])
        BY <3>1 DEF Contained
      <4> QED BY <2>4, <4>1 DEF NewOrder, AtLeast
    <3>3. CASE r = m.ref
      BY <3>1, <3>3 DEF Replaced
    <3>4. CASE r = m.new
      <4>1. r \in Live(x) /\ r \in Live(y) /\ x.orders[r] = y.orders[r]
        BY <3>1, <3>2, <3>4 DEF Replaced
      <4>2. y.orders[r].shares \in Nat
        BY <1>3, <4>1, FirmOrder
      <4> QED BY <4>1, <4>2 DEF AtLeast
    <3> QED BY <2>4, <3>3, <3>4 DEF Named
  <2> QED BY <2>1, <2>2, <2>3, <2>4 DEF Named
<1>6. ASSUME NEW r \in (Live(x) \cup Live(y)) \ d
      PROVE  r \in Live(x) /\ r \in Live(y) /\ x.orders[r] = y.orders[r]
  <2>1. CASE r \in Named(m)
    BY <1>5, <1>6, <2>1
  <2>2. CASE r \notin Named(m)
    BY <1>4, <1>6, <2>2 DEF Contained
  <2> QED BY <2>1, <2>2
<1>7. ASSUME NEW r \in Live(x) \cap Live(y)
      PROVE  AtLeast(x.orders[r], y.orders[r])
  <2>1. CASE r \in Named(m)
    BY <1>5, <1>7, <2>1
  <2>2. CASE r \notin Named(m)
    BY <1>4, <1>7, <2>2 DEF Contained
  <2> QED BY <2>1, <2>2
<1>8. Contained(x, y, d)
  BY <1>2, <1>3, <1>6, <1>7 DEF Contained
<1> QED BY <1>8 DEF x, y

\* More damage contains more.
LEMMA ContainedMore ==
    ASSUME NEW e, NEW w, NEW d, Contained(e, w, d), NEW c, d \subseteq c
    PROVE  Contained(e, w, c)
BY DEF Contained

\* A message of the stream is valid for the book too, or it names a damaged
\* order that the book does not have.
LEMMA GotOrUnknown ==
    ASSUME NEW e, NEW w, NEW d, Contained(e, w, d),
           NEW m, Valid(w, m), Adds(m) \cap Live(e) = {}
    PROVE  /\ Valid(e, m) \/ (Named(m) \cap d # {} /\ OnMessage(e, m).engine = e)
           /\ ~Duplicate(e, m) /\ ~Overfill(e, m)
<1>1. CASE m.kind = "A"
  <2>1. m.ref \notin Live(e)
    BY <1>1 DEF Adds
  <2> QED BY <1>1, <2>1 DEF Valid, Duplicate, Overfill
<1>2. CASE m.kind = "X"
  <2>1. m.ref \in Live(w) /\ m.shares \in Nat \ {0} /\ m.shares <= w.orders[m.ref].shares
    BY <1>2 DEF Valid
  <2>2. CASE m.ref \in Live(e)
    <3>1. AtLeast(e.orders[m.ref], w.orders[m.ref])
      BY <2>1, <2>2 DEF Contained
    <3>2. m.shares <= e.orders[m.ref].shares /\ ~(m.shares > e.orders[m.ref].shares)
      BY <2>1, <3>1 DEF AtLeast
    <3> QED BY <1>2, <2>1, <2>2, <3>2 DEF Valid, Duplicate, Overfill
  <2>3. CASE m.ref \notin Live(e)
    <3>1. m.ref \in d
      BY <2>1, <2>3 DEF Contained
    <3>2. OnMessage(e, m).engine = e
      BY <1>2, <2>3 DEF OnMessage, Reduce, Unknown
    <3> QED BY <1>2, <2>3, <3>1, <3>2 DEF Named, Duplicate, Overfill
  <2> QED BY <2>2, <2>3
<1>3. CASE m.kind = "D"
  <2>1. m.ref \in Live(w)
    BY <1>3 DEF Valid
  <2>2. CASE m.ref \in Live(e)
    BY <1>3, <2>2 DEF Valid, Duplicate, Overfill
  <2>3. CASE m.ref \notin Live(e)
    <3>1. m.ref \in d
      BY <2>1, <2>3 DEF Contained
    <3>2. OnMessage(e, m).engine = e
      BY <1>3, <2>3 DEF OnMessage, Remove, Unknown
    <3> QED BY <1>3, <3>1, <3>2 DEF Named, Duplicate, Overfill
  <2> QED BY <2>2, <2>3
<1>4. CASE m.kind = "U"
  <2>1. /\ m.ref \in Live(w) /\ m.new \in Refs \ Live(w) /\ m.shares \in Nat \ {0}
        /\ m.price \in Prices /\ m.new \notin Live(e)
    BY <1>4 DEF Valid, Adds
  <2>2. CASE m.ref \in Live(e)
    BY <1>4, <2>1, <2>2 DEF Valid, Duplicate, Overfill
  <2>3. CASE m.ref \notin Live(e)
    <3>1. m.ref \in d
      BY <2>1, <2>3 DEF Contained
    <3>2. OnMessage(e, m).engine = e
      BY <1>4, <2>3 DEF OnMessage, Replace, Unknown
    <3> QED BY <1>4, <2>1, <3>1, <3>2 DEF Named, Duplicate, Overfill
  <2> QED BY <2>2, <2>3
<1>5. CASE m.kind \notin {"A", "X", "D", "U"}
  BY <1>5 DEF Valid, Duplicate, Overfill
<1> QED BY <1>1, <1>2, <1>3, <1>4, <1>5

-----------------------------------------------------------------------------
(* The symbol directory.                                                   *)

\* A padded name is the name and then spaces up to the width.
LEMMA PaddedName ==
    ASSUME NEW l \in DOMAIN Names, NEW k \in Nat, k = Len(Names[l])
    PROVE  LET a == Directory!Padded(Names[l])
           IN  /\ Len(a) = Width /\ k \in 0 .. Width
               /\ \A i \in 1 .. k : a[i] = Names[l][i]
               /\ \A i \in k + 1 .. Width : a[i] = Blank
               /\ k > 0 => a[k] # Blank
<1> DEFINE name == Names[l]
           S    == Seqs!ToSet(name) \cup {Blank}
<1>1. /\ Width \in Nat /\ name \in Seq(Seqs!ToSet(name)) /\ k <= Width
      /\ name # <<>> => name[k] # Blank
  BY PathAssumption
<1> HIDE DEF name
<1>2. name \in Seq(S) /\ Len(name) = k
  <2>1. Seqs!ToSet(name) \subseteq S
    OBVIOUS
  <2> HIDE DEF S
  <2> QED BY <1>1, <2>1, SeqMonotonic DEF name
<1>3. PICK w \in Nat : w = Width - k
  BY <1>1
<1>4. PICK b : b = Directory!Spaces(w)
  OBVIOUS
<1>5. b = [i \in 1 .. w |-> Blank]
  BY <1>4 DEF Directory!Spaces
<1>6. b \in Seq(S) /\ Len(b) = w /\ \A i \in 1 .. w : b[i] = Blank
  <2>1. Blank \in S
    OBVIOUS
  <2> HIDE DEF S
  <2> QED BY <1>5, <2>1, IsASeq
<1>7. Directory!Padded(name) = name \o b
  BY <1>2, <1>3, <1>4 DEF Directory!Padded
<1> HIDE DEF S
<1>8. /\ Len(name \o b) = k + w
      /\ \A i \in 1 .. k + w : (name \o b)[i] = IF i <= k THEN name[i] ELSE b[i - k]
  <2>0. PICK T : T = S
    OBVIOUS
  <2>1. PICK s \in Seq(T), t \in Seq(T) : s = name /\ t = b
    BY <1>2, <1>6, <2>0
  <2>2. /\ Len(s \o t) = Len(s) + Len(t)
        /\ \A i \in 1 .. Len(s) + Len(t) : (s \o t)[i] = IF i <= Len(s) THEN s[i] ELSE t[i - Len(s)]
    BY ConcatProperties
  <2> QED BY <1>2, <1>6, <2>1, <2>2
<1>9. PICK a : a = name \o b
  OBVIOUS
<1>10. k + w = Width
  BY <1>1, <1>3
<1>11. \A i \in 1 .. Width : a[i] = IF i <= k THEN name[i] ELSE b[i - k]
  BY <1>8, <1>9, <1>10
<1>12. \A i \in 1 .. k : a[i] = name[i]
  BY <1>1, <1>11
<1>13. ASSUME NEW i \in k + 1 .. Width PROVE a[i] = Blank
  <2>1. i \in 1 .. Width /\ ~(i <= k) /\ i - k \in 1 .. w
    BY <1>1, <1>3
  <2> QED BY <1>6, <1>11, <2>1
<1>14. k > 0 => a[k] # Blank
  <2>1. k > 0 => k \in 1 .. k /\ name # <<>>
    BY <1>2
  <2> QED BY <1>1, <1>12, <2>1
<1> QED BY <1>1, <1>7, <1>8, <1>9, <1>10, <1>12, <1>13, <1>14 DEF name

\* Trimming a padded name gives the name.
LEMMA TrimPadded ==
    ASSUME NEW l \in DOMAIN Names
    PROVE  Directory!Trimmed(Directory!Padded(Names[l])) = Names[l]
<1> DEFINE name == Names[l]
           S    == Seqs!ToSet(name)
           a    == Directory!Padded(name)
           Ends(n) == /\ n > 0 => a[n] # Blank
                      /\ \A i \in n + 1 .. Len(a) : a[i] = Blank
<1>1. name \in Seq(S)
  BY PathAssumption
<1>2. PICK k \in Nat : k = Len(name)
  BY <1>1, LenProperties
<1>3. /\ Len(a) = Width /\ k \in 0 .. Width
      /\ \A i \in 1 .. k : a[i] = name[i]
      /\ \A i \in k + 1 .. Width : a[i] = Blank
      /\ k > 0 => a[k] # Blank
  BY <1>2, PaddedName
<1>4. Width \in Nat
  BY PathAssumption
<1>5. Directory!Trimmed(a) = SubSeq(a, 1, CHOOSE n \in 0 .. Len(a) : Ends(n))
  BY DEF Directory!Trimmed
<1> HIDE DEF a, name
<1>6. Ends(k) /\ k \in 0 .. Len(a)
  BY <1>3
<1>7. ASSUME NEW n \in 0 .. Len(a), Ends(n) PROVE n = k
  <2>1. CASE n < k
    <3>1. k \in n + 1 .. Len(a) /\ k > 0
      BY <1>3, <1>4, <2>1
    <3> QED BY <1>3, <1>7, <3>1
  <2>2. CASE n > k
    <3>1. n \in k + 1 .. Width /\ n > 0
      BY <1>3, <1>4, <2>2
    <3> QED BY <1>3, <1>7, <3>1
  <2> QED BY <1>3, <1>4, <2>1, <2>2
<1> HIDE DEF Ends
<1>8. (CHOOSE n \in 0 .. Len(a) : Ends(n)) = k
  BY <1>6, <1>7
<1>9. Directory!Trimmed(a) = SubSeq(a, 1, k)
  BY <1>5, <1>8
<1>10. PICK t : t = SubSeq(a, 1, k)
  OBVIOUS
<1>11. \A i \in 1 .. k : a[i] \in S
  <2> HIDE DEF S
  <2>1. \A i \in 1 .. k : name[i] \in S
    BY <1>1, <1>2, ElementOfSeq
  <2> QED BY <1>3, <2>1
<1> HIDE DEF S
<1>12. /\ t \in Seq(S) /\ Len(t) = IF 1 <= k THEN k - 1 + 1 ELSE 0
       /\ \A i \in 1 .. k - 1 + 1 : t[i] = a[1 + i - 1]
  <2>1. 1 \in Int /\ k \in Int
    OBVIOUS
  <2> QED BY <1>10, <1>11, <2>1, SubSeqProperties
<1>13. Len(t) = k
  BY <1>12
<1>14. k - 1 + 1 = k /\ \A i \in 1 .. k : 1 + i - 1 = i
  OBVIOUS
<1>15. \A i \in 1 .. k : t[i] = name[i]
  BY <1>3, <1>12, <1>14
<1>16. t = name
  BY <1>1, <1>2, <1>12, <1>13, <1>15, SeqEqual
<1> QED BY <1>9, <1>10, <1>16 DEF a, name

\* The directory holds the symbols of the locates L.
Holds(d, L) ==
    /\ L \subseteq Locates
    /\ d.symbols = [l \in Locates |-> d.symbols[l]]
    /\ DOMAIN d.by_symbol = {Directory!Padded(Names[l]) : l \in L}
    /\ \A l \in L : /\ d.symbols[l] = Directory!Padded(Names[l])
                    /\ d.by_symbol[Directory!Padded(Names[l])] = l

\* Two symbols are not stored alike.
LEMMA PaddedDiffer ==
    ASSUME NEW k \in DOMAIN Names, NEW l \in DOMAIN Names,
           Directory!Padded(Names[k]) = Directory!Padded(Names[l])
    PROVE  k = l
<1>1. Names[k] = Names[l]
  BY TrimPadded
<1> QED BY <1>1, PathAssumption

\* A new directory holds none.
LEMMA HoldsNone == Holds(Directory!NewDirectory(Locates), {})
<1> DEFINE d == Directory!NewDirectory(Locates)
<1>1. /\ d.symbols = [l \in Locates |-> Directory!Spaces(Width)]
      /\ DOMAIN d.by_symbol = {}
  BY DEF Directory!NewDirectory
<1> HIDE DEF d
<1>2. d.symbols = [l \in Locates |-> d.symbols[l]]
  BY <1>1
<1>3. Holds(d, {})
  BY <1>1, <1>2 DEF Holds
<1> QED BY <1>3 DEF d

\* Listing a symbol.
LEMMA HoldsListed ==
    ASSUME NEW d, NEW L, Holds(d, L), NEW m, m.locate \in Locates
    PROVE  Holds(ListStock(d, m), L \cup {m.locate})
<1> DEFINE x == ListStock(d, m)
           P(l) == Directory!Padded(Names[l])
<1>1. PICK k \in Locates : k = m.locate
  OBVIOUS
<1>2. Locates \subseteq DOMAIN Names
  BY PathAssumption
<1>3. /\ x.symbols = [d.symbols EXCEPT ![k] = P(k)]
      /\ x.by_symbol = [s \in DOMAIN d.by_symbol \cup {P(k)} |->
                            IF s = P(k) THEN k ELSE d.by_symbol[s]]
  BY <1>1 DEF ListStock, Directory!List
<1> HIDE DEF x
<1>4. /\ L \subseteq Locates /\ d.symbols = [l \in Locates |-> d.symbols[l]]
      /\ DOMAIN d.by_symbol = {P(l) : l \in L}
      /\ \A l \in L : d.symbols[l] = P(l) /\ d.by_symbol[P(l)] = l
  BY DEF Holds
<1>5. \A l \in Locates : P(l) = P(k) => l = k
  BY <1>2, PaddedDiffer
<1> HIDE DEF P
<1>6. x.symbols = [l \in Locates |-> x.symbols[l]]
  BY <1>3, <1>4
<1>7. DOMAIN x.by_symbol = {P(l) : l \in L \cup {k}}
  BY <1>3, <1>4
<1>8. ASSUME NEW l \in L \cup {k}
      PROVE  x.symbols[l] = P(l) /\ x.by_symbol[P(l)] = l
  <2>1. CASE l = k
    BY <1>3, <1>4, <2>1
  <2>2. CASE l # k
    <3>1. l \in L /\ l \in Locates /\ P(l) # P(k) /\ P(l) \in DOMAIN d.by_symbol
      BY <1>4, <1>5, <2>2
    <3> QED BY <1>3, <1>4, <2>2, <3>1
  <2> QED BY <2>1, <2>2
<1>9. Holds(x, L \cup {k})
  BY <1>4, <1>6, <1>7, <1>8 DEF Holds, P
<1> QED BY <1>1, <1>9 DEF x

\* The directory finds the symbols it holds by their names, and no other.
LEMMA HoldsFinds ==
    ASSUME NEW d, NEW L, Holds(d, L), NEW l \in DOMAIN Names
    PROVE  IF l \in L
           THEN Directory!Locate(d, Names[l]) = l /\ Directory!Symbol(d, l) = Names[l]
           ELSE Directory!Locate(d, Names[l]) = Directory!NoLocate
<1> DEFINE P(k) == Directory!Padded(Names[k])
<1>1. Len(Names[l]) <= Width /\ L \subseteq DOMAIN Names
  BY PathAssumption DEF Holds
<1>2. Directory!Locate(d, Names[l]) =
          IF P(l) \in DOMAIN d.by_symbol THEN d.by_symbol[P(l)] ELSE Directory!NoLocate
  BY <1>1 DEF Directory!Locate
<1>3. /\ DOMAIN d.by_symbol = {P(k) : k \in L}
      /\ \A k \in L : d.symbols[k] = P(k) /\ d.by_symbol[P(k)] = k
  BY DEF Holds
<1>4. \A k \in L : P(k) = P(l) => k = l
  BY <1>1, PaddedDiffer
<1>5. Directory!Trimmed(P(l)) = Names[l]
  BY TrimPadded
<1> HIDE DEF P
<1>6. P(l) \in DOMAIN d.by_symbol <=> l \in L
  BY <1>3, <1>4
<1>7. l \in L => Directory!Symbol(d, l) = Names[l]
  BY <1>3, <1>5 DEF Directory!Symbol
<1> QED BY <1>2, <1>3, <1>6, <1>7

-----------------------------------------------------------------------------
(* The book against the engine that gets the whole stream.                 *)

\* the locates that the messages of S among the first n of q list
ListedOf(q, S, n) == {q[i].locate : i \in {j \in S \cap (1 .. n) : q[j].kind = "R"}}

\* The handler h has got the messages of S among the first n of the stream q.
PathRel(q, h, S, n) ==
    /\ Contained(h.book, Engines(q)[n], Damage(q, S)[n])
    /\ \A i \in n + 1 .. Len(q) : Adds(q[i]) \cap Live(h.book) = {}
    /\ Holds(h.dir, ListedOf(q, S, n))
    /\ h.faults = {}

\* A handler that has got nothing.
LEMMA RelStarts ==
    ASSUME NEW q, IsStream(q), NEW S, NEW h, h.book = NewEngine,
           h.dir = Directory!NewDirectory(Locates), h.faults = {}
    PROVE  PathRel(q, h, S, 0)
<1>1. Len(q) \in Nat
  BY DEF IsStream
<1>2. Engines(q)[0] = NewEngine /\ Damage(q, S)[0] = {}
  BY <1>1, EnginesStep, DamageStep
<1>3. Firm(NewEngine) /\ Live(NewEngine) = {}
  BY NewGood DEF Firm, Sound, NewEngine, Live
<1>4. Contained(NewEngine, NewEngine, {})
  BY <1>3 DEF Contained
<1>5. ListedOf(q, S, 0) = {}
  <2>1. S \cap (1 .. 0) = {}
    OBVIOUS
  <2> QED BY <2>1 DEF ListedOf
<1>6. Holds(h.dir, {})
  BY HoldsNone
<1> QED BY <1>2, <1>3, <1>4, <1>5, <1>6 DEF PathRel

\* What is got later changes nothing.
LEMMA RelMore ==
    ASSUME NEW q, IsStream(q), NEW S, NEW T, NEW h, NEW n \in Nat, n <= Len(q),
           \A i \in 1 .. n : i \in S <=> i \in T, PathRel(q, h, S, n)
    PROVE  PathRel(q, h, T, n)
<1>1. Len(q) \in Nat
  BY DEF IsStream
<1>2. Damage(q, S)[n] = Damage(q, T)[n]
  <2>1. \A i \in 0 .. n : Damage(q, S)[i] = Damage(q, T)[i]
    BY <1>1, DamageBefore
  <2> QED BY <2>1
<1>3. S \cap (1 .. n) = T \cap (1 .. n)
  OBVIOUS
<1>4. ListedOf(q, S, n) = ListedOf(q, T, n)
  BY <1>3 DEF ListedOf
<1> QED BY <1>2, <1>4 DEF PathRel

\* The message i of a stream.
LEMMA StreamMessage ==
    ASSUME NEW q, IsStream(q), NEW S, NEW n \in Nat, n < Len(q)
    PROVE  /\ n + 1 \in 1 .. Len(q) /\ q[n + 1] \in Message
           /\ Valid(Engines(q)[n], q[n + 1])
           /\ Engines(q)[n + 1] = OnMessage(Engines(q)[n], q[n + 1]).engine
           /\ Damage(q, S)[n + 1] = Worse(q, S, Damage(q, S)[n], n + 1)
           /\ \A i \in n + 2 .. Len(q) : Adds(q[i]) \cap Named(q[n + 1]) = {}
<1>1. Len(q) \in Nat /\ q \in Seq(Message)
  BY DEF IsStream
<1>2. PICK k : k = n + 1
  OBVIOUS
<1>3. k \in 1 .. Len(q) /\ k - 1 = n
  BY <1>1, <1>2
<1>4. q[k] \in Message
  BY <1>1, <1>3, ElementOfSeq
<1>5. Valid(Engines(q)[k - 1], q[k])
  BY <1>3 DEF IsStream
<1>6. /\ Engines(q)[k] = OnMessage(Engines(q)[k - 1], q[k]).engine
      /\ Damage(q, S)[k] = Worse(q, S, Damage(q, S)[k - 1], k)
  BY <1>1, <1>3, EnginesStep, DamageStep
<1>7. ASSUME NEW i \in n + 2 .. Len(q) PROVE Adds(q[i]) \cap Named(q[k]) = {}
  <2>1. i \in 1 .. Len(q) /\ k < i
    BY <1>1, <1>2
  <2> QED BY <1>3, <2>1 DEF IsStream
<1> QED BY <1>2, <1>3, <1>4, <1>5, <1>6, <1>7

\* A lost message.
LEMMA LostOne ==
    ASSUME NEW q, IsStream(q), NEW S, NEW h, NEW n \in Nat, n < Len(q),
           n + 1 \notin S, PathRel(q, h, S, n)
    PROVE  PathRel(q, h, S, n + 1)
<1>1. PICK e, w, d, m : e = h.book /\ w = Engines(q)[n] /\ d = Damage(q, S)[n] /\ m = q[n + 1]
  OBVIOUS
<1>2. /\ Valid(w, m) /\ Engines(q)[n + 1] = OnMessage(w, m).engine
      /\ Damage(q, S)[n + 1] = d \cup Named(m)
  BY <1>1, StreamMessage DEF Worse
<1>3. Contained(e, w, d)
  BY <1>1 DEF PathRel
<1>4. Len(q) \in Nat
  BY DEF IsStream
<1>5. Adds(m) \cap Live(e) = {}
  <2>1. n + 1 \in n + 1 .. Len(q)
    BY <1>4
  <2> QED BY <1>1, <2>1 DEF PathRel
<1>6. Contained(e, OnMessage(w, m).engine, d \cup Named(m))
  BY <1>2, <1>3, <1>5, LostStep
<1>7. \A i \in n + 2 .. Len(q) : Adds(q[i]) \cap Live(e) = {}
  <2>1. \A i \in n + 2 .. Len(q) : i \in n + 1 .. Len(q)
    BY <1>4
  <2> QED BY <1>1, <2>1 DEF PathRel
<1>8. ListedOf(q, S, n + 1) = ListedOf(q, S, n)
  <2>1. S \cap (1 .. n + 1) = S \cap (1 .. n)
    <3>1. \A i : i \in 1 .. n + 1 <=> i \in 1 .. n \/ i = n + 1
      OBVIOUS
    <3> QED BY <3>1
  <2> QED BY <2>1 DEF ListedOf
<1>9. (n + 1) + 1 = n + 2
  OBVIOUS
<1> QED BY <1>1, <1>2, <1>6, <1>7, <1>8, <1>9 DEF PathRel

\* A message that the handler gets.
LEMMA GotOne ==
    ASSUME NEW q, IsStream(q), NEW S, NEW h, NEW n \in Nat, n < Len(q),
           n + 1 \in S, PathRel(q, h, S, n)
    PROVE  PathRel(q, Deliver(h, q[n + 1]), S, n + 1)
<1>1. PICK e, w, d, c, m : /\ e = h.book /\ w = Engines(q)[n] /\ m = q[n + 1]
                           /\ d = Damage(q, S)[n] /\ c = Damage(q, S)[n + 1]
  OBVIOUS
<1>2. /\ m \in Message /\ Valid(w, m) /\ Engines(q)[n + 1] = OnMessage(w, m).engine
      /\ c = IF Named(m) \cap d # {} THEN d \cup Named(m) ELSE d
      /\ \A i \in n + 2 .. Len(q) : Adds(q[i]) \cap Named(m) = {}
  <2>1. /\ m \in Message /\ Valid(w, m) /\ Engines(q)[n + 1] = OnMessage(w, m).engine
        /\ \A i \in n + 2 .. Len(q) : Adds(q[i]) \cap Named(m) = {}
    BY <1>1, StreamMessage
  <2>2. c = Worse(q, S, d, n + 1)
    BY <1>1, StreamMessage
  <2>3. c = IF Named(m) \cap d # {} THEN d \cup Named(m) ELSE d
    BY <1>1, <2>2 DEF Worse
  <2> QED BY <2>1, <2>3
<1>3. Contained(e, w, d)
  BY <1>1 DEF PathRel
<1>4. Len(q) \in Nat
  BY DEF IsStream
<1>5. Adds(m) \cap Live(e) = {}
  <2>1. n + 1 \in n + 1 .. Len(q)
    BY <1>4
  <2> QED BY <1>1, <2>1 DEF PathRel
<1>6. /\ Valid(e, m) \/ (Named(m) \cap d # {} /\ OnMessage(e, m).engine = e)
      /\ ~Duplicate(e, m) /\ ~Overfill(e, m)
  BY <1>2, <1>3, <1>5, GotOrUnknown
<1>7. PICK x, y : x = OnMessage(e, m).engine /\ y = OnMessage(w, m).engine
  OBVIOUS
<1>8. Contained(x, y, c) /\ \A r \in Live(x) : r \in Live(e) \/ r \in Named(m)
  <2>1. CASE Valid(e, m)
    <3>1. Contained(x, y, d)
      BY <1>2, <1>3, <1>7, <2>1, GotStep
    <3>2. d \subseteq c
      BY <1>2
    <3>3. Contained(x, y, c)
      BY <3>1, <3>2, ContainedMore
    <3>4. Follows(e, x, m)
      BY <1>3, <1>7, <2>1, ValidEffect DEF Contained
    <3>5. \A r \in Live(x) : r \in Live(e) \/ r \in Named(m)
      BY <3>4, FollowsOutside
    <3> QED BY <3>3, <3>5
  <2>2. CASE Named(m) \cap d # {} /\ OnMessage(e, m).engine = e
    <3>1. Contained(e, y, d \cup Named(m))
      BY <1>2, <1>3, <1>5, <1>7, LostStep
    <3> QED BY <1>2, <1>7, <2>2, <3>1
  <2> QED BY <1>6, <2>1, <2>2
<1>9. \A i \in n + 2 .. Len(q) : Adds(q[i]) \cap Live(x) = {}
  <2>1. \A i \in n + 2 .. Len(q) : i \in n + 1 .. Len(q)
    BY <1>4
  <2>2. \A i \in n + 2 .. Len(q) : Adds(q[i]) \cap Live(e) = {}
    BY <1>1, <2>1 DEF PathRel
  <2> QED BY <1>2, <1>8, <2>2
<1>10. PICK g : g = Deliver(h, m)
  OBVIOUS
<1>11. g.book = x /\ g.dir = (IF m.kind = "R" THEN ListStock(h.dir, m) ELSE h.dir)
  BY <1>1, <1>7, <1>10 DEF Deliver
<1>12. g.faults = {}
  <2>1. h.faults = {}
    BY DEF PathRel
  <2> QED BY <1>1, <1>6, <1>10, <2>1 DEF Deliver
<1>13. ListedOf(q, S, n + 1) = IF m.kind = "R" THEN ListedOf(q, S, n) \cup {m.locate} ELSE ListedOf(q, S, n)
  <2>1. S \cap (1 .. n + 1) = (S \cap (1 .. n)) \cup {n + 1}
    <3>1. \A i : i \in 1 .. n + 1 <=> i \in 1 .. n \/ i = n + 1
      OBVIOUS
    <3> QED BY <3>1
  <2>2. PICK A : A = S \cap (1 .. n)
    OBVIOUS
  <2>3. /\ ListedOf(q, S, n + 1) = {q[i].locate : i \in {j \in A \cup {n + 1} : q[j].kind = "R"}}
        /\ ListedOf(q, S, n) = {q[i].locate : i \in {j \in A : q[j].kind = "R"}}
    BY <2>1, <2>2 DEF ListedOf
  <2> QED BY ONLY <1>1, <2>3
<1>14. Holds(g.dir, ListedOf(q, S, n + 1))
  <2>1. Holds(h.dir, ListedOf(q, S, n))
    BY DEF PathRel
  <2>2. CASE m.kind = "R"
    <3>1. m.locate \in Locates
      BY <1>2 DEF Message
    <3>2. PICK L, D : L = ListedOf(q, S, n) /\ D = h.dir
      OBVIOUS
    <3>3. Holds(ListStock(D, m), L \cup {m.locate})
      BY <2>1, <3>1, <3>2, HoldsListed
    <3> QED BY <1>11, <1>13, <2>2, <3>2, <3>3
  <2>3. CASE m.kind # "R"
    BY <1>11, <1>13, <2>1, <2>3
  <2> QED BY <2>2, <2>3
<1>15. (n + 1) + 1 = n + 2
  OBVIOUS
<1>16. PathRel(q, g, S, n + 1)
  BY <1>1, <1>2, <1>7, <1>8, <1>9, <1>11, <1>12, <1>14, <1>15 DEF PathRel
<1> QED BY <1>1, <1>10, <1>16

\* A run of lost messages.
LEMMA LostRun ==
    ASSUME NEW q, IsStream(q), NEW S, NEW h, NEW y \in Nat, NEW z \in Nat, y <= z, z <= Len(q),
           \A i \in y + 1 .. z : i \notin S, PathRel(q, h, S, y)
    PROVE  PathRel(q, h, S, z)
<1> DEFINE T == {k \in y .. z : ~PathRel(q, h, S, k)}
<1>0. Len(q) \in Nat
  BY DEF IsStream
<1>1. SUFFICES ASSUME T # {} PROVE FALSE
  <2>1. z \in y .. z
    OBVIOUS
  <2> QED BY <2>1
<1>2. T \in SUBSET Nat
  OBVIOUS
<1>3. PICK k \in T : \A j \in T : k <= j
  <2> HIDE DEF T
  <2> QED BY <1>1, <1>2, Least
<1>4. k \in y .. z /\ ~PathRel(q, h, S, k)
  OBVIOUS
<1>5. k # y
  BY <1>4
<1>6. PICK n \in y .. z : n + 1 = k
  <2>1. k - 1 \in y .. z /\ (k - 1) + 1 = k
    BY <1>4, <1>5
  <2> QED BY <2>1
<1>7. PathRel(q, h, S, n)
  <2>1. n \notin T
    <3> HIDE DEF T
    <3>1. ~(k <= n)
      BY <1>6
    <3> QED BY <1>3, <3>1
  <2> QED BY <2>1
<1>8. n \in Nat /\ n < Len(q) /\ n + 1 \in y + 1 .. z
  BY <1>0, <1>4, <1>6
<1>9. PathRel(q, h, S, n + 1)
  BY <1>7, <1>8, LostOne
<1> QED BY <1>4, <1>6, <1>9

\* A run of messages that the handler gets.
LEMMA GotRun ==
    ASSUME NEW q, IsStream(q), NEW S, NEW y \in Nat, NEW n \in Nat, y + n <= Len(q),
           NEW h, \A i \in 1 .. n : h[i] = Deliver(h[i - 1], q[y + i]),
           \A i \in 1 .. n : y + i \in S, PathRel(q, h[0], S, y)
    PROVE  PathRel(q, h[n], S, y + n)
<1> DEFINE T == {k \in 0 .. n : ~PathRel(q, h[k], S, y + k)}
<1>0. Len(q) \in Nat
  BY DEF IsStream
<1>1. SUFFICES ASSUME T # {} PROVE FALSE
  <2>1. n \in 0 .. n
    OBVIOUS
  <2> QED BY <2>1
<1>2. T \in SUBSET Nat
  OBVIOUS
<1>3. PICK k \in T : \A j \in T : k <= j
  <2> HIDE DEF T
  <2> QED BY <1>1, <1>2, Least
<1>4. k \in 0 .. n /\ ~PathRel(q, h[k], S, y + k)
  OBVIOUS
<1>5. k # 0
  <2>1. y + 0 = y
    OBVIOUS
  <2> QED BY <1>4, <2>1
<1>6. PICK j \in 0 .. n : j = k - 1
  <2>1. k - 1 \in 0 .. n
    BY <1>4, <1>5
  <2> QED BY <2>1
<1>7. PathRel(q, h[j], S, y + j)
  <2>1. j \notin T
    <3> HIDE DEF T
    <3>1. ~(k <= j)
      BY <1>4, <1>6
    <3> QED BY <1>3, <3>1
  <2> QED BY <2>1
<1>8. PICK x \in Nat : x = y + j /\ x < Len(q) /\ x + 1 = y + k /\ k \in 1 .. n
  <2>1. y + j \in Nat /\ y + j < Len(q) /\ (y + j) + 1 = y + k /\ k \in 1 .. n
    BY <1>0, <1>4, <1>5, <1>6
  <2> QED BY <2>1
<1>9. h[k] = Deliver(h[j], q[x + 1]) /\ x + 1 \in S
  BY <1>6, <1>8
<1>10. PathRel(q, Deliver(h[j], q[x + 1]), S, x + 1)
  BY <1>7, <1>8, <1>9, GotOne
<1> QED BY <1>4, <1>8, <1>9, <1>10

\* The handler after a run of lost messages and then a run of those it gets.
LEMMA RelPacket ==
    ASSUME NEW q, IsStream(q), NEW S, NEW y \in Nat, NEW x \in Nat, y <= x, NEW n \in Nat,
           x + n <= Len(q), \A i \in y + 1 .. x : i \notin S, \A i \in 1 .. n : x + i \in S,
           NEW h, \A i \in 1 .. n : h[i] = Deliver(h[i - 1], q[x + i]),
           PathRel(q, h[0], S, y)
    PROVE  PathRel(q, h[n], S, x + n)
<1>1. Len(q) \in Nat
  BY DEF IsStream
<1>2. x <= Len(q)
  BY <1>1
<1>3. PICK g : g = h[0]
  OBVIOUS
<1>4. PathRel(q, g, S, x)
  BY <1>2, <1>3, LostRun
<1> QED BY <1>3, <1>4, GotRun

-----------------------------------------------------------------------------
(* A packet of the live path.                                              *)

\* The exchange never restarts the stream under another name.
OneSession == \A s, t \in Sessions : s = t

\* The two instances of the sequencer handle a packet alike.
LEMMA SameLoop ==
    ASSUME NEW p, NEW intact
    PROVE  /\ Mold!Fresh(p, intact) = Loop!Fresh(p, intact)
           /\ Mold!OnPacket(p, intact) => Loop!OnPacket(p, intact)
<1>1. /\ Mold!Rebaselines(p) <=> Loop!Rebaselines(p)
      /\ Mold!Baseline(p) = Loop!Baseline(p)
  BY DEF Mold!Rebaselines, Loop!Rebaselines, Mold!Baseline, Loop!Baseline
<1>2. Mold!Gap(p) = Loop!Gap(p) /\ Mold!Expected(p) = Loop!Expected(p)
  BY <1>1 DEF Mold!Gap, Loop!Gap, Mold!Expected, Loop!Expected
<1>3. Mold!Fresh(p, intact) = Loop!Fresh(p, intact)
  BY <1>2 DEF Mold!Fresh, Loop!Fresh
<1>4. Mold!Current(p) = Loop!Current(p) /\ Mold!Earlier(p) = Loop!Earlier(p)
  BY <1>1 DEF Mold!Current, Loop!Current, Mold!Earlier, Loop!Earlier
<1>5. Mold!OnPacket(p, intact) => Loop!OnPacket(p, intact)
  BY <1>1, <1>2, <1>3, <1>4
     DEF Mold!OnPacket, Loop!OnPacket, Mold!Cardinality, Loop!Cardinality, Cardinality
<1> QED BY <1>3, <1>5

\* What is known of the path once a packet has been handled.
Started == next # 0 => /\ Len(log) = 1 /\ next <= Len(out) + 1
                       /\ Seen \subseteq 1 .. next - 1

\* A log of one epoch.
LEMMA SeenLatest ==
    ASSUME Len(log) = 1, DOMAIN log = 1 .. 1
    PROVE  Seen = Loop!Delivered(Loop!Latest)
BY DEF Seen, Loop!Delivered, Loop!Latest, Seqs!ToSet

\* What the handler gets and has seen after a packet: next_ moves to x, and n
\* messages from x on are delivered.
Advances(x, n, q) ==
    /\ x >= 1 /\ x >= next /\ next' = x + n /\ x + n <= Len(out) + 1
    /\ Len(log') = 1
    /\ Seen' = Seen \cup (x .. (x + n) - 1)
    /\ DOMAIN q = 1 .. n /\ Len(q) = n
    /\ \A i \in 1 .. n : q[i] = out[x + i - 1]

\* A packet of the only session.
LEMMA PathPacket ==
    ASSUME OneSession, Loop!SeqInv, Started, Len(out) \in Nat, NEW p \in Packets,
           NEW intact \in 0 .. p.count, Mold!OnPacket(p, intact)
    PROVE  \E x \in Nat, n \in Nat : Advances(x, n, Delivers(p, intact))
<1> DEFINE c == Loop!Current(p)
           b == Loop!Baseline(p)
           f == Loop!Fresh(p, intact)
<1>1. /\ p.session \in Sessions /\ p.sequence \in Nat /\ p.sequence >= 1 /\ p.count \in Nat
      /\ p.sequence + p.count <= Len(out) + 1 /\ intact \in Nat /\ intact <= p.count
  BY PathAssumption DEF Packets
<1>2. Loop!IsPacket(p, intact) /\ Loop!SeqTypeOK
  BY <1>1 DEF Loop!IsPacket, Loop!SeqInv
<1>3. PICK x : x = Loop!Expected(p)
  OBVIOUS
<1>4. PICK n : n = Len(f)
  OBVIOUS
<1>5. /\ b \in Nat \ {0} /\ x \in Nat /\ x >= b /\ Loop!Gap(p) = b .. x - 1
      /\ f \in Seq(Nat) /\ n \in Nat
      /\ \A i \in 1 .. n : f[i] = x + i - 1
      /\ n # 0 => x + n = p.sequence + intact
  BY <1>2, <1>3, <1>4, Loop!PacketArithmetic, LoopAssumption
<1>6. Loop!Tallied(c, b) /\ Loop!Increasing(c.got)
  BY <1>1, Loop!CurrentTallied, LoopAssumption
<1>7. Loop!OnPacket(p, intact) /\ Mold!Fresh(p, intact) = f
  BY SameLoop
<1>8. PICK e : e = Loop!Extended(c, f, b, x)
  OBVIOUS
<1>9. next' = x + n /\ log' = Append(Loop!Earlier(p), e)
  BY <1>3, <1>4, <1>5, <1>7, <1>8 DEF Loop!OnPacket, Loop!Extended
<1>10. next \in Nat /\ (next = 0 <=> log = <<>>)
  BY <1>2 DEF Loop!SeqTypeOK
<1>11. Loop!Rebaselines(p) <=> next = 0
  <2>1. next # 0 => session \in Sessions
    BY DEF Loop!SeqInv, Loop!Tallied, Loop!Epoch
  <2>2. next # 0 => session = p.session
    BY <1>1, <2>1 DEF OneSession
  <2> QED BY <2>2 DEF Loop!Rebaselines
<1>12. Loop!Earlier(p) = <<>> /\ Seen = Loop!Delivered(c) /\ b >= next
  <2>1. CASE next = 0
    <3>1. Loop!Earlier(p) = <<>>
      BY <1>10, <1>11, <2>1 DEF Loop!Earlier
    <3>2. Seen = {}
      BY <1>10, <2>1 DEF Seen
    <3>3. c.got = <<>>
      BY <1>11, <2>1 DEF Loop!Current
    <3>4. Loop!Delivered(c) = {}
      BY <3>3 DEF Loop!Delivered
    <3> QED BY <1>5, <2>1, <3>1, <3>2, <3>4
  <2>2. CASE next # 0
    <3>1. Len(log) = 1 /\ log \in Seq(Loop!Epoch)
      BY <1>2, <2>2 DEF Started, Loop!SeqTypeOK
    <3>2. DOMAIN log = 1 .. 1
      BY <3>1, LenProperties
    <3>3. c = Loop!Latest /\ b = next
      BY <1>11, <2>2 DEF Loop!Current, Loop!Baseline, Loop!Latest
    <3>4. Loop!Earlier(p) = SubSeq(log, 1, 0)
      BY <1>11, <2>2, <3>1 DEF Loop!Earlier
    <3>5. SubSeq(log, 1, 0) = <<>>
      BY <3>1
    <3>6. Seen = Loop!Delivered(c)
      BY <3>1, <3>2, <3>3, SeenLatest
    <3> QED BY <1>10, <3>3, <3>4, <3>5, <3>6
  <2> QED BY <2>1, <2>2
<1> HIDE DEF b, c, f
<1>13. /\ Loop!Delivered(e) = Loop!Delivered(c) \cup (x .. (x + n) - 1)
       /\ Loop!Tallied(e, x + n)
  BY <1>4, <1>5, <1>6, <1>8, Loop!StepTallied, LoopAssumption
<1>14. log' = <<e>>
  <2>1. Append(<<>>, e) = <<e>>
    OBVIOUS
  <2> QED BY <1>9, <1>12, <2>1
<1>15. Len(log') = 1 /\ Seen' = Seen \cup (x .. (x + n) - 1)
  <2>1. Len(log') = 1 /\ DOMAIN log' = {1} /\ log'[1] = e
    BY <1>14
  <2>2. Seen' = UNION {Seqs!ToSet(log'[i].got) : i \in DOMAIN log'}
    BY DEF Seen
  <2>3. Seen' = Seqs!ToSet(e.got)
    BY <2>1, <2>2
  <2>4. Seen' = Loop!Delivered(e)
    BY <2>3 DEF Seqs!ToSet, Loop!Delivered
  <2> QED BY <1>12, <1>13, <2>1, <2>4
<1>16. x + n <= Len(out) + 1
  <2>1. CASE n # 0
    BY <1>1, <1>5, <2>1
  <2>2. CASE n = 0
    <3>1. b = next \/ b = p.sequence
      BY DEF b, Loop!Baseline
    <3>2. x = p.sequence \/ x = b
      BY <1>3 DEF Loop!Expected, b
    <3>3. x = p.sequence \/ (x = next /\ next # 0)
      BY <1>5, <3>1, <3>2
    <3> QED BY <1>1, <1>5, <1>10, <2>2, <3>3 DEF Started
  <2> QED BY <2>1, <2>2
<1>17. /\ DOMAIN Delivers(p, intact) = 1 .. n /\ Len(Delivers(p, intact)) = n
       /\ \A i \in 1 .. n : Delivers(p, intact)[i] = out[x + i - 1]
  <2>1. DOMAIN f = 1 .. n
    BY <1>4, <1>5, LenProperties
  <2>2. Delivers(p, intact) = [i \in 1 .. n |-> out[f[i]]]
    BY <1>7, <2>1 DEF Delivers
  <2>3. Len(Delivers(p, intact)) = n
    BY <1>5, <2>2
  <2> QED BY <1>5, <2>2, <2>3
<1>18. x >= 1 /\ x >= next
  BY <1>5, <1>10, <1>12
<1>19. Advances(x, n, Delivers(p, intact))
  BY <1>9, <1>15, <1>16, <1>17, <1>18 DEF Advances
<1> QED BY <1>5, <1>19

-----------------------------------------------------------------------------
(* The live path.                                                          *)

\* The inductive invariant of the live path: before the first packet the
\* handler is new; after it the handler has got the messages it has seen among
\* those before next_.
PathInv == /\ OneSession
           /\ FeedInv /\ StreamInv /\ Loop!SeqInv /\ Started
           /\ next = 0 => /\ book = NewEngine /\ faults = {}
                          /\ dir = Directory!NewDirectory(Locates)
           /\ next # 0 => done /\ PathRel(out, Handled, Seen, next - 1)

\* A packet keeps it.
LEMMA ReceiveKeeps ==
    ASSUME PathInv, done, NEW p \in Packets,
           NEW intact \in 0 .. p.count, Receive(p, intact)
    PROVE  PathInv'
<1>1. UNCHANGED feedVars /\ Mold!OnPacket(p, intact)
  BY DEF Receive
<1>2. FeedInv' /\ out' = out /\ done'
  BY <1>1, FeedIdle DEF PathInv, feedVars
<1>3. StreamInv'
  BY <1>1 DEF PathInv, StreamInv, feedVars, Seeding
<1>4. Loop!SeqInv'
  <2>1. Loop!IsPacket(p, intact)
    BY PathAssumption DEF Packets, Loop!IsPacket
  <2>2. Loop!OnPacket(p, intact)
    BY <1>1, SameLoop
  <2> QED BY <2>1, <2>2, Loop!PacketKeeps, LoopAssumption DEF PathInv
<1>5. IsStream(out) /\ Len(out) \in Nat
  <2>1. IsStream(out)
    BY DEF PathInv, StreamInv
  <2>2. out \in Seq(Message)
    BY <2>1 DEF IsStream
  <2> QED BY <2>1, <2>2, LenProperties
<1>6. PICK x \in Nat, n \in Nat : Advances(x, n, Delivers(p, intact))
  BY <1>1, <1>5, PathPacket DEF PathInv
<1>7. PICK q : q = Delivers(p, intact)
  OBVIOUS
<1>8. PICK z, S, T : z = out /\ S = Seen /\ T = Seen'
  OBVIOUS
<1>9. /\ x >= 1 /\ x >= next /\ next' = x + n /\ x + n <= Len(z) + 1 /\ Len(log') = 1
      /\ T = S \cup (x .. (x + n) - 1)
      /\ DOMAIN q = 1 .. n /\ Len(q) = n /\ \A i \in 1 .. n : q[i] = z[x + i - 1]
  BY <1>6, <1>7, <1>8 DEF Advances
<1>10. next \in Nat /\ IsStream(z) /\ Len(z) \in Nat
  BY <1>5, <1>8 DEF PathInv, Loop!SeqInv, Loop!SeqTypeOK
<1>11. PICK h : h = Handling(q)
  OBVIOUS
<1>12. h[0] = Handled /\ \A i \in 1 .. n : h[i] = Deliver(h[i - 1], q[i])
  BY <1>9, <1>11, HandlingStep
<1>13. PICK y \in Nat : /\ y = (IF next = 0 THEN 0 ELSE next - 1)
                        /\ PathRel(z, h[0], S, y) /\ \A i \in S : i \in 1 .. y
  <2>1. CASE next = 0
    <3>1. log = <<>>
      BY <2>1 DEF PathInv, Loop!SeqInv, Loop!SeqTypeOK
    <3>2. S = {}
      BY <1>8, <3>1 DEF Seen
    <3>3. PathRel(z, h[0], S, 0)
      <4>1. h[0].book = NewEngine /\ h[0].dir = Directory!NewDirectory(Locates) /\ h[0].faults = {}
        BY <1>12, <2>1 DEF PathInv, Handled
      <4> QED BY <1>10, <4>1, RelStarts
    <3> QED BY <2>1, <3>2, <3>3
  <2>2. CASE next # 0
    <3>1. PathRel(z, h[0], S, next - 1)
      BY <1>8, <1>12, <2>2 DEF PathInv
    <3>2. \A i \in S : i \in 1 .. next - 1
      BY <1>8, <2>2 DEF PathInv, Started
    <3>3. next - 1 \in Nat
      BY <1>10, <2>2
    <3> QED BY <2>2, <3>1, <3>2, <3>3
  <2> QED BY <2>1, <2>2
<1>14. PICK w \in Nat : w = x - 1 /\ y <= w /\ w + n <= Len(z) /\ y <= Len(z)
  <2>1. x - 1 \in Nat /\ y <= x - 1 /\ (x - 1) + n <= Len(z) /\ y <= Len(z)
    BY <1>9, <1>10, <1>13
  <2> QED BY <2>1
<1>15. \A i : i \in T <=> i \in S \/ i \in w + 1 .. w + n
  <2>1. x .. (x + n) - 1 = w + 1 .. w + n
    BY <1>14
  <2> QED BY <1>9, <2>1
<1>16. PathRel(z, h[0], T, y)
  <2>1. \A i \in 1 .. y : i \in S <=> i \in T
    <3>1. \A i \in 1 .. y : i \notin w + 1 .. w + n
      BY <1>14
    <3> QED BY <1>15, <3>1
  <2>2. PICK g : g = h[0]
    OBVIOUS
  <2>3. PathRel(z, g, T, y)
    BY <1>10, <1>13, <1>14, <2>1, <2>2, RelMore
  <2> QED BY <2>2, <2>3
<1>17. PathRel(z, h[n], T, w + n)
  <2>1. \A i \in y + 1 .. w : i \notin T
    <3>1. \A i \in y + 1 .. w : i \notin 1 .. y /\ i \notin w + 1 .. w + n
      BY <1>14
    <3> QED BY <1>13, <1>15, <3>1
  <2>2. \A i \in 1 .. n : w + i \in T
    <3>1. \A i \in 1 .. n : w + i \in w + 1 .. w + n
      BY <1>14
    <3> QED BY <1>15, <3>1
  <2>3. ASSUME NEW i \in 1 .. n PROVE h[i] = Deliver(h[i - 1], z[w + i])
    <3>1. w + i = x + i - 1
      BY <1>14
    <3> QED BY <1>9, <1>12, <3>1
  <2> QED BY <1>10, <1>14, <1>16, <2>1, <2>2, <2>3, RelPacket
<1>18. h[n] = Handled'
  <2>1. book' = h[n].book /\ dir' = h[n].dir /\ faults' = h[n].faults
    BY <1>7, <1>9, <1>11 DEF Receive
  <2>2. h[n] = [book |-> h[n].book, dir |-> h[n].dir, faults |-> h[n].faults]
    <3>1. CASE n = 0
      BY <1>12, <3>1 DEF Handled
    <3>2. CASE n # 0
      <4>1. n \in 1 .. n
        BY <3>2
      <4>2. h[n] = Deliver(h[n - 1], q[n])
        BY <1>12, <4>1
      <4>3. PICK g, m : g = h[n - 1] /\ m = q[n]
        OBVIOUS
      <4>4. h[n] = Deliver(g, m)
        BY <4>2, <4>3
      <4> QED BY <4>4 DEF Deliver
    <3> QED BY <3>1, <3>2
  <2> QED BY <2>1, <2>2 DEF Handled
<1>19. next' # 0 /\ next' - 1 = w + n
  BY <1>9, <1>14
<1>20. PathRel(out, Handled, Seen, next - 1)'
  BY <1>2, <1>8, <1>17, <1>18, <1>19
<1>21. Started'
  <2>1. \A i \in T : i \in 1 .. next' - 1
    <3>1. \A i \in 1 .. y : i \in 1 .. w + n
      BY <1>14
    <3>2. \A i \in w + 1 .. w + n : i \in 1 .. w + n
      BY <1>14
    <3> QED BY <1>13, <1>15, <1>19, <3>1, <3>2
  <2>2. next' <= Len(out') + 1
    BY <1>2, <1>8, <1>9
  <2> QED BY <1>8, <1>9, <2>1, <2>2 DEF Started
<1>22. OneSession'
  BY DEF PathInv, OneSession
<1> QED BY <1>2, <1>3, <1>4, <1>19, <1>20, <1>21, <1>22 DEF PathInv

\* A step of the live path keeps the invariant.
LEMMA PathKeeps ==
    ASSUME PathInv, [PathNext]_pathVars
    PROVE  PathInv'
<1>0. OneSession'
  BY DEF PathInv, OneSession
<1>1. CASE Send
  <2>1. Build /\ UNCHANGED <<session, next, lost, log, book, dir, faults>>
    BY <1>1 DEF Send, netVars
  <2>2. FeedInv' /\ StreamInv' /\ ~done
    BY <2>1, BuildKeeps, StreamKeeps DEF PathInv, BuildStep
  <2>3. next = 0 /\ next' = 0
    BY <2>1, <2>2 DEF PathInv
  <2>4. Loop!SeqInv'
    BY <2>1, Loop!IdleKeeps, LoopAssumption DEF PathInv
  <2>5. Started'
    BY <2>3 DEF Started
  <2>6. book' = NewEngine /\ faults' = {} /\ dir' = Directory!NewDirectory(Locates)
    BY <2>1, <2>3 DEF PathInv
  <2> QED BY <1>0, <2>2, <2>3, <2>4, <2>5, <2>6 DEF PathInv
<1>2. CASE Network
  BY <1>2, ReceiveKeeps DEF Network
<1>3. CASE UNCHANGED pathVars
  <2>1. /\ UNCHANGED feedVars /\ UNCHANGED <<session, next, lost, log>>
        /\ out' = out /\ done' = done
        /\ book' = book /\ dir' = dir /\ faults' = faults
    BY <1>3 DEF pathVars, netVars, feedVars
  <2>2. FeedInv' /\ Loop!SeqInv'
    BY <2>1, FeedIdle, Loop!IdleKeeps, LoopAssumption DEF PathInv
  <2>3. StreamInv'
    BY <2>1 DEF PathInv, StreamInv, feedVars, Seeding
  <2>4. Seen' = Seen /\ Handled' = Handled /\ next' = next
    BY <2>1 DEF Seen, Handled
  <2>5. Started'
    BY <2>1, <2>4 DEF PathInv, Started
  <2>6. next' # 0 => done' /\ PathRel(out, Handled, Seen, next - 1)'
    BY <2>1, <2>4 DEF PathInv
  <2> QED BY <1>0, <2>1, <2>2, <2>3, <2>5, <2>6 DEF PathInv
<1> QED BY <1>1, <1>2, <1>3 DEF PathNext, Quiet

\* The invariant of the live path, under one session name.
THEOREM PathInvariant == OneSession /\ PathSpec => []PathInv
<1>1. OneSession /\ PathInit => PathInv
  <2> SUFFICES ASSUME OneSession, PathInit PROVE PathInv
    OBVIOUS
  <2>1. FeedInv /\ StreamInv /\ next = 0 /\ log = <<>> /\ lost = 0 /\ session = NoSession
    BY FeedStarts, StreamStarts DEF PathInit
  <2>2. Loop!SeqInv
    BY <2>1 DEF Loop!SeqInv, Loop!SeqTypeOK, Loop!InOrder
  <2> QED BY <2>1, <2>2 DEF PathInv, Started, PathInit
<1>2. PathInv /\ [PathNext]_pathVars => PathInv'
  BY PathKeeps
<1> QED BY <1>1, <1>2, PTL DEF PathSpec

\* What the relation says of the book.
LEMMA RelContained ==
    ASSUME PathInv, next # 0
    PROVE  /\ Contained(book, Reference, Damaged)
           /\ Holds(dir, Listed) /\ faults = {}
<1>1. PathRel(out, Handled, Seen, next - 1)
  BY DEF PathInv
<1>2. Contained(book, Reference, Damaged) /\ Holds(dir, ListedOf(out, Seen, next - 1)) /\ faults = {}
  BY <1>1 DEF PathRel, Handled, Reference, Damaged
<1>3. ListedOf(out, Seen, next - 1) = Listed
  <2>1. Seen \cap (1 .. next - 1) = Seen
    BY DEF PathInv, Started
  <2> QED BY <2>1 DEF ListedOf, Listed
<1> QED BY <1>2, <1>3

\* A gap damages the orders that lost messages name and their replacements, and
\* the symbols that lost messages list: everything else is in the book and in
\* the directory exactly as if nothing had been lost.
THEOREM GapsContained == OneSession /\ PathSpec => []DamageContained
<1>1. PathInv => DamageContained
  <2> SUFFICES ASSUME PathInv, next # 0
               PROVE  LET whole == Reference
                          sound == Refs \ Damaged
                      IN  /\ Live(book) \cap sound = Live(whole) \cap sound
                          /\ \A r \in Live(book) \cap sound : book.orders[r] = whole.orders[r]
                          /\ CountsMatch(book) /\ QuantitiesMatch(book) /\ ~book.missing
                          /\ \A l \in DOMAIN Names :
                                 IF l \in Listed
                                 THEN /\ Directory!Locate(dir, Names[l]) = l
                                      /\ Directory!Symbol(dir, l) = Names[l]
                                 ELSE Directory!Locate(dir, Names[l]) = Directory!NoLocate
    BY DEF DamageContained
  <2>1. PICK w, d : w = Reference /\ d = Damaged
    OBVIOUS
  <2>2. Contained(book, w, d) /\ Holds(dir, Listed)
    BY <2>1, RelContained
  <2>3. /\ Live(book) \cap (Refs \ d) = Live(w) \cap (Refs \ d)
        /\ \A r \in Live(book) \cap (Refs \ d) : book.orders[r] = w.orders[r]
    BY <2>2 DEF Contained
  <2>4. CountsMatch(book) /\ QuantitiesMatch(book) /\ ~book.missing
    BY <2>2 DEF Contained, Firm, Sound, Good
  <2>5. ASSUME NEW l \in DOMAIN Names
        PROVE  IF l \in Listed
               THEN Directory!Locate(dir, Names[l]) = l /\ Directory!Symbol(dir, l) = Names[l]
               ELSE Directory!Locate(dir, Names[l]) = Directory!NoLocate
    BY <2>2, HoldsFinds
  <2> QED BY <2>1, <2>3, <2>4, <2>5
<1> QED BY <1>1, PathInvariant, PTL

\* An order that is live in the book and at the exchange has at least the shares
\* it has there, and no execution or cancel exceeds what rests.
THEOREM NeverUnderstated == OneSession /\ PathSpec => []OverstatesOnly
<1>1. PathInv => OverstatesOnly
  <2> SUFFICES ASSUME PathInv, next # 0
               PROVE  LET whole == Reference
                      IN  /\ \A r \in Live(book) \cap Live(whole) :
                                 /\ book.orders[r].shares >= whole.orders[r].shares
                                 /\ [book.orders[r] EXCEPT !.shares = 0]
                                        = [whole.orders[r] EXCEPT !.shares = 0]
                          /\ "overfill" \notin faults
    BY DEF OverstatesOnly
  <2>1. PICK w, d : w = Reference /\ d = Damaged
    OBVIOUS
  <2>2. Contained(book, w, d) /\ faults = {}
    BY <2>1, RelContained
  <2>3. ASSUME NEW r \in Live(book) \cap Live(w)
        PROVE  /\ book.orders[r].shares >= w.orders[r].shares
               /\ [book.orders[r] EXCEPT !.shares = 0] = [w.orders[r] EXCEPT !.shares = 0]
    <3>1. AtLeast(book.orders[r], w.orders[r])
      BY <2>2 DEF Contained
    <3>2. PICK o \in Order, x \in Order : o = book.orders[r] /\ x = w.orders[r]
      <4>1. Firm(book) /\ Firm(w)
        BY <2>2 DEF Contained
      <4> QED BY <4>1, FirmOrder
    <3>3. AtLeast(o, x)
      BY <3>1, <3>2
    <3>4. [o EXCEPT !.shares = 0] = [x EXCEPT !.shares = 0]
      BY <3>3 DEF AtLeast, Order
    <3> QED BY <3>2, <3>3, <3>4 DEF AtLeast
  <2> QED BY <2>1, <2>2, <2>3
<1> QED BY <1>1, PathInvariant, PTL

\* With one session no add and no replace names an order that is live in the
\* book, whatever was lost before.
THEOREM OneSessionAddsAreNew == OneSession /\ PathSpec => []AddsAreNew
<1>1. PathInv => AddsAreNew
  BY RelContained DEF AddsAreNew, PathInv
<1> QED BY <1>1, PathInvariant, PTL
=============================================================================
