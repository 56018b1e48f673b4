----------------------------- MODULE BookEngine -----------------------------
(***************************************************************************)
(* The order-book engine (order_book.hpp): the live orders, and for every  *)
(* locate and side the price levels those orders rest on.  The engine is   *)
(* sequential and has no thread of its own, so its operations are          *)
(* operators from an engine value and the arguments of the call to a       *)
(* BookUpdate, which here also carries the engine value after the call.    *)
(*                                                                         *)
(* A side is a function from the keys that have a level to the level's     *)
(* quantity and order count: the sorted arrays, their growth and their     *)
(* block moves are abstracted to the set of keys they hold.  The order map *)
(* is a function from the live references to their orders.                 *)
(***************************************************************************)
EXTENDS Integers, FiniteSets, FiniteSetsExt

CONSTANTS Refs,       \* order reference numbers
          Locates,    \* stock locates
          Prices,     \* limit prices
          Shares,     \* share counts a message can carry, 0 included
          MaxKey      \* the largest key, 2^32 - 1 in the code

ASSUME BookAssumption == /\ MaxKey \in Nat
                         /\ Prices \subseteq 0 .. MaxKey
                         /\ Shares \subseteq Nat

Sides == {"B", "S"}

Keys == 0 .. MaxKey

Order == [locate : Locates, side : Sides, price : Prices, shares : Nat]

-----------------------------------------------------------------------------
(* One side of one book.                                                   *)

\* Bids use key = price and asks key = ~price: the higher key is the better.
Key(side, price) == IF side = "B" THEN price ELSE MaxKey - price

PriceOf(side, key) == IF side = "B" THEN key ELSE MaxKey - key

EmptySide == [k \in {} |-> [qty |-> 0, orders |-> 0]]

\* key is at or above the back of the array
IsTop(lv, key) == \A k \in DOMAIN lv : k <= key

\* the best key of a side, none if the side is empty
BestKeys(lv) == {k \in DOMAIN lv : IsTop(lv, k)}

Best(lv) == CHOOSE k \in BestKeys(lv) : TRUE

\* an empty side is reported with price 0 and quantity 0
SideTop(side, lv) ==
    IF BestKeys(lv) = {} THEN [price |-> 0, qty |-> 0]
    ELSE [price |-> PriceOf(side, Best(lv)), qty |-> lv[Best(lv)].qty]

LevelAdd(lv, key, shares) ==
    IF key \in DOMAIN lv
    THEN [lv EXCEPT ![key] = [qty |-> @.qty + shares, orders |-> @.orders + 1]]
    ELSE [k \in DOMAIN lv \cup {key} |->
             IF k = key THEN [qty |-> shares, orders |-> 1] ELSE lv[k]]

\* What a level would be that is erased when it has no shares left.
ErasesAtZeroShares(lv, key, shares, gone) ==
    IF lv[key].qty = shares
    THEN [k \in DOMAIN lv \ {key} |-> lv[k]]
    ELSE [lv EXCEPT ![key].qty = @ - shares,
                    ![key].orders = @ - (IF gone THEN 1 ELSE 0)]

LevelReduce(lv, key, shares, gone) ==
    LET left == [qty    |-> lv[key].qty - shares,
                 orders |-> lv[key].orders - (IF gone THEN 1 ELSE 0)]
    IN  IF left.orders = 0
        THEN [k \in DOMAIN lv \ {key} |-> lv[k]]
        ELSE [lv EXCEPT ![key] = left]

-----------------------------------------------------------------------------
(* The engine.                                                             *)

NewEngine == [orders  |-> [r \in {} |-> 0],
              levels  |-> [l \in Locates |-> [s \in Sides |-> EmptySide]],
              missing |-> FALSE]     \* stats().missing_level is not zero

Live(e) == DOMAIN e.orders

IsSide(lv) == /\ DOMAIN lv \subseteq Keys
              /\ lv \in [DOMAIN lv -> [qty : Int, orders : Int]]

IsEngine(e) ==
    /\ e = [orders |-> e.orders, levels |-> e.levels, missing |-> e.missing]
    /\ Live(e) \subseteq Refs
    /\ e.orders \in [Live(e) -> Order]
    /\ e.levels = [l \in Locates |-> [s \in Sides |-> e.levels[l][s]]]
    /\ \A l \in Locates, s \in Sides : IsSide(e.levels[l][s])
    /\ e.missing \in BOOLEAN

Top(e, l) == [bid |-> SideTop("B", e.levels[l]["B"]),
              ask |-> SideTop("S", e.levels[l]["S"])]

SetSide(e, l, side, lv) == [e EXCEPT !.levels[l][side] = lv]

Insert(e, ref, o) ==
    [e EXCEPT !.orders = [r \in DOMAIN @ \cup {ref} |-> IF r = ref THEN o ELSE @[r]]]

Erase(e, ref) == [e EXCEPT !.orders = [r \in DOMAIN @ \ {ref} |-> @[r]]]

\* A BookUpdate: the engine after the call, whether the order was known, the
\* locate of its book, and whether the top of that book may have changed.
Unknown(e) == [engine |-> e, found |-> FALSE, top |-> FALSE]

Update(e, l, top) == [engine |-> e, found |-> TRUE, locate |-> l, top |-> top]

Add(e, l, ref, side, shares, price) ==
    LET key == Key(side, price)
        lv  == e.levels[l][side]
        o   == [locate |-> l, side |-> side, price |-> price, shares |-> shares]
    IN  Update(SetSide(Insert(e, ref, o), l, side, LevelAdd(lv, key, shares)),
               l, IsTop(lv, key))

\* e is the engine of the call, o the order before its shares were reduced
ApplyReduce(e, o, shares, gone) ==
    LET key == Key(o.side, o.price)
        lv  == e.levels[o.locate][o.side]
    IN  IF key \in DOMAIN lv
        THEN Update(SetSide(e, o.locate, o.side, LevelReduce(lv, key, shares, gone)),
                    o.locate, IsTop(lv, key))
        ELSE Update([e EXCEPT !.missing = TRUE], o.locate, FALSE)

\* An execution or a cancel of more shares than rest takes those that rest.
Taken(o, shares) == IF shares > o.shares THEN o.shares ELSE shares

\* A reduction that takes the message's shares from the level, although the
\* order has fewer.
ReduceUnclamped(e, ref, shares) ==
    IF ref \notin Live(e) THEN Unknown(e)
    ELSE LET o    == e.orders[ref]
             left == o.shares - Taken(o, shares)
             u    == ApplyReduce(e, o, shares, left = 0)
         IN  [u EXCEPT !.engine =
                  IF left = 0 THEN Erase(@, ref)
                              ELSE Insert(@, ref, [o EXCEPT !.shares = left])]

Reduce(e, ref, shares) ==
    IF ref \notin Live(e) THEN Unknown(e)
    ELSE LET o     == e.orders[ref]
             taken == Taken(o, shares)
             left  == o.shares - taken
             u     == ApplyReduce(e, o, taken, left = 0)
         IN  IF taken = 0 THEN Update(e, o.locate, FALSE)
             ELSE [u EXCEPT !.engine =
                       IF left = 0 THEN Erase(@, ref)
                                   ELSE Insert(@, ref, [o EXCEPT !.shares = left])]

Remove(e, ref) ==
    IF ref \notin Live(e) THEN Unknown(e)
    ELSE LET o == e.orders[ref]
         IN  [ApplyReduce(e, o, o.shares, TRUE) EXCEPT !.engine = Erase(@, ref)]

\* A replace that reports the top of the add alone.
ReplaceAddOnly(e, old, new, shares, price) ==
    IF old \notin Live(e) THEN Unknown(e)
    ELSE LET o == e.orders[old]
         IN  Add(Remove(e, old).engine, o.locate, new, o.side, shares, price)

\* The new order keeps the side and the locate of the one it replaces.
Replace(e, old, new, shares, price) ==
    IF old \notin Live(e) THEN Unknown(e)
    ELSE LET o       == e.orders[old]
             removed == Remove(e, old)
             added   == Add(removed.engine, o.locate, new, o.side, shares, price)
         IN  [added EXCEPT !.top = @ \/ removed.top]

-----------------------------------------------------------------------------
(* What an ITCH message does to the engine (BookBuilder::on).              *)

\* The order messages by the letter of their type; A stands for F as well, and
\* X for E and C.  No other message touches the engine.
OnMessage(e, m) ==
    CASE m.kind = "A" -> Add(e, m.locate, m.ref, m.side, m.shares, m.price)
      [] m.kind = "X" -> Reduce(e, m.ref, m.shares)
      [] m.kind = "D" -> Remove(e, m.ref)
      [] m.kind = "U" -> Replace(e, m.ref, m.new, m.shares, m.price)
      [] OTHER        -> Update(e, m.locate, FALSE)

-----------------------------------------------------------------------------
(* What the levels owe to the orders.                                      *)

\* the live orders that rest on a level
Resting(e, l, s, k) ==
    {r \in Live(e) : /\ e.orders[r].locate = l
                     /\ e.orders[r].side = s
                     /\ Key(s, e.orders[r].price) = k}

\* A side has a level exactly where a live order rests, and the level counts
\* those orders.
CountsMatch(e) ==
    \A l \in Locates, s \in Sides :
        LET lv == e.levels[l][s]
        IN  /\ DOMAIN lv = {k \in Keys : Resting(e, l, s, k) # {}}
            /\ \A k \in DOMAIN lv : lv[k].orders = Cardinality(Resting(e, l, s, k))

\* The quantity of a level is what its live orders have left.
QuantitiesMatch(e) ==
    \A l \in Locates, s \in Sides :
        LET lv == e.levels[l][s]
        IN  \A k \in DOMAIN lv :
                lv[k].qty = MapThenSumSet(LAMBDA r : e.orders[r].shares,
                                          Resting(e, l, s, k))
=============================================================================
