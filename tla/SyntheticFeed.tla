---------------------------- MODULE SyntheticFeed ----------------------------
(***************************************************************************)
(* The generator of synthetic ITCH streams that the tests and benchmarks   *)
(* use (sim/synthetic_feed.hpp), together with the engine that replays its *)
(* stream from empty.  build() lists the symbols, seeds every book, emits  *)
(* random order events, deletes what is left, and is done.  Each action    *)
(* writes one message and hands it to the engine; both sides are           *)
(* sequential and neither waits for the other, so running them in step is  *)
(* the same as replaying the finished stream.                              *)
(*                                                                         *)
(* Every random draw is a free choice.  A locate is the index of a symbol  *)
(* plus one, a price is counted in ticks modulo MaxKey + 1, as the uint32  *)
(* price is modulo 2^32.  The system messages are left out.                *)
(***************************************************************************)
EXTENDS BookEngine, Sequences

CONSTANTS InitialOrders,   \* orders seeded per symbol
          Events,          \* order events before the drain
          Mids,            \* mid prices a symbol may start from
          Behind,          \* ticks an order may land behind the touch
          Lots             \* share counts of a new order

ASSUME FeedAssumption ==
    /\ Locates = 1 .. Cardinality(Locates) /\ IsFiniteSet(Locates)
    /\ Prices = Keys
    /\ InitialOrders \in Nat /\ Events \in Nat
    /\ Refs = 1 .. Cardinality(Locates) * InitialOrders + Events
    /\ Mids \subseteq Prices /\ Behind \subseteq Nat
    /\ Lots \subseteq Nat \ {0}

VARIABLES mid,       \* mid price of each symbol
          live,      \* resting orders of each symbol, the vector Symbol::live
          nextRef,   \* next_ref_
          seeded,    \* orders seeded so far
          emitted,   \* order events emitted so far
          done,      \* the drain has ended and build() returned
          out,       \* out_, the messages written
          replica,   \* the engine that replays the stream
          strays     \* messages that named an order the engine does not have

feedVars == <<mid, live, nextRef, seeded, emitted, done, out, replica, strays>>

FeedInit ==
        /\ mid \in [Locates -> Mids]
        /\ live = [l \in Locates |-> <<>>]
        /\ nextRef = 1
        /\ seeded = 0 /\ emitted = 0
        /\ done = FALSE
        /\ out = [l \in Locates |-> [kind |-> "R", locate |-> l]]
        /\ replica = NewEngine
        /\ strays = 0

-----------------------------------------------------------------------------
(* The draws and the bookkeeping of a message.                             *)

Wrap(price) == price % (MaxKey + 1)

PickPrice(l, side) ==
    {Wrap(IF side = "B" THEN mid[l] - (1 + b) ELSE mid[l] + (1 + b)) : b \in Behind}

\* An erasure that drops the last order of the vector.
DropLast(q, i) == SubSeq(q, 1, Len(q) - 1)

\* The last order takes the place of the erased one.
EraseLive(q, i) == SubSeq([q EXCEPT ![i] = q[Len(q)]], 1, Len(q) - 1)

\* Shares are taken from an order, and one with none left is forgotten.
TakeLive(q, i, shares) == IF shares = q[i].shares THEN EraseLive(q, i)
                          ELSE [q EXCEPT ![i].shares = @ - shares]

\* all of an order, or 1/d of it but at least one share
Part(shares, d) == {shares, IF shares \div d > 1 THEN shares \div d ELSE 1}

\* The message is appended to the stream, and the engine applies it.
Write(m) == LET u == OnMessage(replica, m)
            IN  /\ out' = Append(out, m)
                /\ replica' = u.engine
                /\ strays' = strays + (IF u.found THEN 0 ELSE 1)

-----------------------------------------------------------------------------
(* The messages.                                                           *)

AddOrder(l) ==
    \E side \in Sides, shares \in Lots : \E price \in PickPrice(l, side) :
        /\ live' = [live EXCEPT ![l] = Append(@,
                       [ref |-> nextRef, price |-> price, shares |-> shares, side |-> side])]
        /\ nextRef' = nextRef + 1
        /\ Write([kind |-> "A", locate |-> l, ref |-> nextRef, side |-> side,
                  shares |-> shares, price |-> price])
        /\ UNCHANGED mid

DeleteOrder(l, i) ==
    /\ live' = [live EXCEPT ![l] = EraseLive(@, i)]
    /\ Write([kind |-> "D", locate |-> l, ref |-> live[l][i].ref])
    /\ UNCHANGED <<mid, nextRef>>

ReplaceOrder(l, i) ==
    LET o == live[l][i]
    IN  \E shares \in Lots, price \in PickPrice(l, o.side) :
            /\ live' = [live EXCEPT ![l][i] =
                           [ref |-> nextRef, price |-> price, shares |-> shares, side |-> o.side]]
            /\ nextRef' = nextRef + 1
            /\ Write([kind |-> "U", locate |-> l, ref |-> o.ref, new |-> nextRef,
                      shares |-> shares, price |-> price])
            /\ UNCHANGED mid

\* cancel_order and execute_order
Take(l, i, shares) ==
    LET o == live[l][i]
    IN  /\ live' = [live EXCEPT ![l] = TakeLive(@, i, shares)]
        /\ Write([kind |-> "X", locate |-> l, ref |-> o.ref, shares |-> shares])
        /\ UNCHANGED <<mid, nextRef>>

CancelOrder(l, i) == \E shares \in Part(live[l][i].shares, 2) : Take(l, i, shares)

ExecuteOrder(l, i) == \E shares \in Part(live[l][i].shares, 3) : Take(l, i, shares)

\* A trade touches no order.  The draw that moves the mid by a tick is one of
\* those that emit a trade.
Trade(l) == /\ \E d \in {-1, 0, 1} : mid' = [mid EXCEPT ![l] = Wrap(@ + d)]
            /\ Write([kind |-> "P", locate |-> l])
            /\ UNCHANGED <<live, nextRef>>

-----------------------------------------------------------------------------
(* build().                                                                *)

Seeding == seeded < Cardinality(Locates) * InitialOrders

Seed == /\ Seeding
        /\ seeded' = seeded + 1
        /\ AddOrder(seeded \div InitialOrders + 1)
        /\ UNCHANGED <<emitted, done>>

Step == /\ ~Seeding /\ emitted < Events
        /\ emitted' = emitted + 1
        /\ \E l \in Locates :
               \/ AddOrder(l)
               \/ \E i \in DOMAIN live[l] : \/ DeleteOrder(l, i)
                                            \/ ReplaceOrder(l, i)
                                            \/ CancelOrder(l, i)
                                            \/ ExecuteOrder(l, i)
               \/ live[l] # <<>> /\ Trade(l)
        /\ UNCHANGED <<seeded, done>>

\* A drain that leaves a symbol with its last order.
KeepsOne == {l \in Locates : Len(live[l]) > 1}

ToDrain == {l \in Locates : live[l] # <<>>}

Drain == /\ ~Seeding /\ emitted = Events /\ ~done
         /\ IF ToDrain = {}
            THEN done' = TRUE /\ UNCHANGED <<mid, live, nextRef, out, replica, strays>>
            ELSE LET l == Min(ToDrain)
                 IN  DeleteOrder(l, Len(live[l])) /\ UNCHANGED done
         /\ UNCHANGED <<seeded, emitted>>

Build == Seed \/ Step \/ Drain

-----------------------------------------------------------------------------
(* Properties.                                                             *)

\* What the engine should hold, from the resting orders of the generator.
OrderOf(l, o) == [locate |-> l, side |-> o.side, price |-> o.price, shares |-> o.shares]

ExpectedOf(l) == {[ref |-> live[l][i].ref, order |-> OrderOf(l, live[l][i])] :
                  i \in DOMAIN live[l]}

Expected == UNION {ExpectedOf(l) : l \in Locates}

\* The stream is self-consistent: every execute, cancel, delete and replace
\* names an order the engine holds, and what the generator believes to rest is
\* what the engine holds, order by order and level by level, although a partial
\* cancel rounds, an execution may take the last share, an erased order is
\* overwritten by the last one, and prices may wrap or cross.
SelfConsistent ==
    /\ strays = 0
    /\ {[ref |-> r, order |-> replica.orders[r]] : r \in Live(replica)} = Expected
    /\ CountsMatch(replica) /\ QuantitiesMatch(replica) /\ ~replica.missing

\* Replaying a whole stream from an empty engine returns it to empty, so a
\* benchmark can replay it again without a reset.
ReturnsToEmpty == <>(done /\ replica = NewEngine)
=============================================================================
