------------------------------ MODULE Publisher ------------------------------
(***************************************************************************)
(* The feed thread of the feed handler: the book builder applies each ITCH *)
(* order message to the engine and hands the update to the Publisher,      *)
(* which republishes a changed top of book to the BBO cache of its locate  *)
(* and as an event to the consumer's ring (book_builder.hpp,               *)
(* feed_handler_main.cpp).  With --depth-profile the profiler looks at a   *)
(* message, and the engine, before the builder does.                       *)
(*                                                                         *)
(* The ring may refuse an event; which events it refuses is the business   *)
(* of SpscRing, here it is a free choice.  A BBO cache store is one step   *)
(* of the feed thread: that readers see it so is the business of BboCache. *)
(*                                                                         *)
(* Messages come in every order the exchange and the network allow: a      *)
(* reference is never added while it is live, and everything else (an      *)
(* unknown reference, too many shares, none at all) may arrive.            *)
(***************************************************************************)
EXTENDS DepthProfiler

VARIABLES engine,     \* the book engine
          bbo,        \* top of book in the BBO cache of each locate
          peakLive,   \* largest number of live orders seen
          seen,       \* top of book in the last event of each locate the ring took
          missed      \* locates whose last event the ring refused

vars == <<engine, bbo, peakLive, seen, missed>>

Init == /\ engine = NewEngine
        /\ bbo = [l \in Locates |-> Top(NewEngine, l)]
        /\ peakLive = 0
        /\ seen = [l \in Locates |-> Top(NewEngine, l)]
        /\ missed = {}

-----------------------------------------------------------------------------
(* Publisher::on_book.                                                     *)

PushEvent(l, top) ==
    \/ /\ seen' = [seen EXCEPT ![l] = top]
       /\ missed' = missed \ {l}
    \/ /\ missed' = missed \cup {l}
       /\ UNCHANGED seen

\* A publication that takes the top before the update is applied.
PublishBefore(u) ==
    IF u.found /\ u.top
    THEN LET top == Top(u.engine, u.locate)
         IN  /\ bbo' = [bbo EXCEPT ![u.locate] = top]
             /\ PushEvent(u.locate, Top(engine, u.locate))
    ELSE UNCHANGED <<bbo, seen, missed>>

Publish(u) ==
    IF u.found /\ u.top
    THEN LET top == Top(u.engine, u.locate)
         IN  /\ bbo' = [bbo EXCEPT ![u.locate] = top]
             /\ PushEvent(u.locate, top)
    ELSE UNCHANGED <<bbo, seen, missed>>

Apply(u) == /\ engine' = u.engine
            /\ Publish(u)

-----------------------------------------------------------------------------
(* BookBuilder::on, one action per kind of message.                        *)

\* Add Order, with or without attribution (A, F)
OnAdd(l, ref, side, shares, price) ==
    /\ ref \notin Live(engine)
    /\ Apply(Add(engine, l, ref, side, shares, price))
    /\ LET live == Cardinality(Live(engine'))
       IN  peakLive' = IF live > peakLive THEN live ELSE peakLive

\* Order Executed, Order Executed With Price and Order Cancel (E, C, X)
OnReduce(ref, shares) ==
    /\ Apply(Reduce(engine, ref, shares))
    /\ UNCHANGED peakLive

\* Order Delete (D)
OnDelete(ref) ==
    /\ Apply(Remove(engine, ref))
    /\ UNCHANGED peakLive

\* Order Replace (U)
OnReplace(old, new, shares, price) ==
    /\ new \notin Live(engine) \ {old}
    /\ Apply(Replace(engine, old, new, shares, price))
    /\ UNCHANGED peakLive

Next ==
    \/ \E l \in Locates, r \in Refs, s \in Sides, n \in Shares, p \in Prices :
           OnAdd(l, r, s, n, p)
    \/ \E r \in Refs, n \in Shares : OnReduce(r, n)
    \/ \E r \in Refs : OnDelete(r)
    \/ \E old, new \in Refs, n \in Shares, p \in Prices : OnReplace(old, new, n, p)

Spec == Init /\ [][Next]_vars

-----------------------------------------------------------------------------
(* Properties.                                                             *)

\* Every variable has its type; keys stay within 32 bits.
TypeOK ==
    /\ IsEngine(engine)
    /\ bbo = [l \in Locates |-> bbo[l]]
    /\ peakLive \in Nat
    /\ seen = [l \in Locates |-> seen[l]]
    /\ missed \subseteq Locates

\* The order map and the level books agree after every message, whatever mix
\* of partial executions, cancels, deletes and replaces led there: a level
\* exists exactly where a live order rests and counts those orders, so an order
\* never finds its level gone (stats().missing_level stays zero, the "bug
\* indicator" of the engine).
LevelsCountOrders == CountsMatch(engine) /\ ~engine.missing

\* A level holds exactly the shares its live orders have left.  It follows that
\* a level drains with its last order, the assertion in LevelSide::reduce.
LevelsHoldShares == QuantitiesMatch(engine)

\* After every message the BBO cache of every locate holds the top of its book:
\* top_changed is never false when the best level of either side has changed,
\* been erased or been overtaken, a replace that does both at once included.
BboIsFresh == \A l \in Locates : bbo[l] = Top(engine, l)

\* The last event the consumer gets of a locate carries the top of book as it
\* stands, unless the ring refused the event of a later change.
EventsCarryTop == \A l \in Locates \ missed : seen[l] = Top(engine, l)

\* peak_live is never below the number of live orders, although a replace adds
\* an order and does not update it.
PeakCovers == Cardinality(Live(engine)) <= peakLive

\* the order messages that may come next
Incoming ==
    [kind : {"A"}, locate : Locates, ref : Refs \ Live(engine), side : Sides,
     shares : Shares, price : Prices]
    \cup [kind : {"X"}, ref : Refs, shares : Shares]
    \cup [kind : {"D"}, ref : Refs]
    \cup [kind : {"U"}, ref : Refs, new : Refs, shares : Shares, price : Prices]

\* a reduction that takes no shares
TakesNothing(m) ==
    m.kind = "X" /\ m.ref \in Live(engine) /\ Taken(engine.orders[m.ref], m.shares) = 0

\* an order whose side is empty when it is inserted, in the case of a replace because
\* the old order was the only one
FindsEmptySide(m) ==
    \/ m.kind = "A" /\ DOMAIN engine.levels[m.locate][m.side] = {}
    \/ /\ m.kind = "U" /\ m.ref \in Live(engine)
       /\ LET o == engine.orders[m.ref]
          IN  DOMAIN Remove(engine, m.ref).engine.levels[o.locate][o.side] = {}

\* Before a message is applied the profiler foresees each search the engine then
\* makes, in order, and the keys it meets, also the second search of a replace,
\* after the old order and perhaps its level have gone.  It records too much in two
\* cases, so depth_profiler.hpp:17, "Measures every level search exactly as the
\* kernel sees it", does not hold of them: it counts a search without keys for an
\* insertion into an empty side, which makes none (order_book.hpp:51), and one for
\* a reduction by no shares, which returns before it (order_book.hpp:209).
ForeseesSearches ==
    \A m \in Incoming :
        LET recorded == Recorded(engine, m)
            searched == Searches(engine, m)
        IN  IF TakesNothing(m) THEN searched = <<>> /\ Len(recorded) = 1
            ELSE IF FindsEmptySide(m) THEN recorded = Append(searched, 0)
            ELSE recorded = searched
=============================================================================
