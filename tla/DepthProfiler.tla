---------------------------- MODULE DepthProfiler ----------------------------
(***************************************************************************)
(* feed_handler --depth-profile (depth_profiler.hpp): before a message is  *)
(* applied the profiler works out which level searches the engine is going *)
(* to make and how many keys at or above its target each of them meets.    *)
(* It runs in front of the book builder and must foresee what the engine   *)
(* does, a replace in particular, which searches twice and changes the     *)
(* side in between.  The engine searches no side that is empty, which the  *)
(* profiler does not look at.                                              *)
(***************************************************************************)
EXTENDS BookEngine, Sequences

\* A count that leaves out the level searched for.
KeysAbove(lv, key) == Cardinality({k \in DOMAIN lv : k > key})

KeysAtOrAbove(lv, key) == Cardinality({k \in DOMAIN lv : k >= key})

\* level_of: how far below the top the first key is that is not above key
LevelOf(lv, key) == Cardinality({k \in DOMAIN lv : k > key})

\* orders_at: the order count of the level at a depth
OrdersAt(lv, depth) ==
    lv[CHOOSE k \in DOMAIN lv : Cardinality({j \in DOMAIN lv : j > k}) = depth].orders

\* chunks_for: chunks of pad keys the search from the back compares
ChunksFor(ge, pad) == ge \div pad + 1

\* measure
Measure(e, l, side, price) == KeysAtOrAbove(e.levels[l][side], Key(side, price))

\* The second search of a replace measured on the book as it stands.
InsertionAsItStands(e, o, price) == Measure(e, o.locate, o.side, price)

\* The second search of a replace, on the side without the old order.
Insertion(e, o, price) ==
    LET lv       == e.levels[o.locate][o.side]
        removed  == Key(o.side, o.price)
        new      == Key(o.side, price)
        vanishes == OrdersAt(lv, LevelOf(lv, removed)) = 1
    IN  Measure(e, o.locate, o.side, price) - (IF vanishes /\ removed >= new THEN 1 ELSE 0)

\* What the profiler records for a message, before it is applied.
Recorded(e, m) ==
    IF m.kind = "A" THEN <<Measure(e, m.locate, m.side, m.price)>>
    ELSE IF m.ref \notin Live(e) THEN <<>>
    ELSE LET o == e.orders[m.ref]
         IN  <<Measure(e, o.locate, o.side, o.price)>>
                 \o (IF m.kind = "U" THEN <<Insertion(e, o, m.price)>> ELSE <<>>)

\* The search of LevelSide::add and LevelSide::reduce, by the keys at or above its
\* target: none on an empty side.
LevelSearch(e, l, side, price) ==
    LET lv == e.levels[l][side]
    IN  IF DOMAIN lv = {} THEN <<>> ELSE <<KeysAtOrAbove(lv, Key(side, price))>>

\* The searches the engine makes for the message, one after the other.
Searches(e, m) ==
    IF m.kind = "A" THEN LevelSearch(e, m.locate, m.side, m.price)
    ELSE IF m.ref \notin Live(e) THEN <<>>
    ELSE LET o       == e.orders[m.ref]
             resting == LevelSearch(e, o.locate, o.side, o.price)
         IN  CASE m.kind = "X" -> IF Taken(o, m.shares) = 0 THEN <<>> ELSE resting
               [] m.kind = "D" -> resting
               [] m.kind = "U" ->
                      resting \o LevelSearch(Remove(e, m.ref).engine, o.locate, o.side, m.price)
=============================================================================
