------------------------------ MODULE LevelSide ------------------------------
(***************************************************************************)
(* One side of one book as it is stored (order_book.hpp, LevelSide): three *)
(* parallel arrays, ascending by key with the best level at the back, and  *)
(* what lies behind the last level is left over from earlier ones.  A key  *)
(* is searched from the back, Pad keys at a time and after Chunks of those *)
(* by binary search (simd/level_search.hpp), and levels are shifted in     *)
(* blocks of 16 bytes, each read before it is written (simd/block_move.hpp).*)
(*                                                                         *)
(* The search is that of the SSE2, SSE4.1 and AVX2 builds, which differ in *)
(* how they compare Pad keys.  Array indices start at 0 as in the code.    *)
(***************************************************************************)
EXTENDS Integers, SequencesExt

CONSTANTS Prices,          \* the keys searched for
          Shares,          \* share counts a message can carry, 0 included
          MaxKey,          \* the largest key
          Pad,             \* kLevelSearchPad
          Chunks,          \* kLinearChunks
          InitialLevels,   \* kInitialLevels
          MaxOrders        \* orders on the side, to keep the model finite

ASSUME LevelAssumption == /\ MaxKey \in Nat /\ Prices \subseteq 0 .. MaxKey
                          /\ Shares \subseteq Nat
                          /\ Pad \in Nat /\ Pad > 0
                          /\ Chunks \in Nat
                          /\ InitialLevels \in Nat /\ InitialLevels >= Pad
                          /\ MaxOrders \in Nat

VARIABLES keys,     \* keys_
          qty,      \* qty_
          orders,   \* orders_
          size,     \* size_
          cap,      \* cap_
          reply     \* what the last call returned

vars == <<keys, qty, orders, size, cap, reply>>

NoArray == [i \in {} |-> 0]

Init == /\ keys = NoArray /\ qty = NoArray /\ orders = NoArray
        /\ size = 0 /\ cap = 0
        /\ reply = "none"

-----------------------------------------------------------------------------
(* lower_bound_from_back: the first index whose key is not below the one   *)
(* searched for, n if there is none.                                       *)

\* The binary search: the answer lies between base and base + m.
LowerBoundBranchless(a, n, key) ==
    LET search[m \in 1 .. n] ==
            [base \in 0 .. n - m |->
                LET half == m \div 2
                IN  IF m = 1 THEN IF a[base] < key THEN base + 1 ELSE base
                    ELSE search[m - half][IF a[base + half] < key THEN base + half ELSE base]]
    IN  search[n][0]

\* how many of the Pad keys from base on are not below key, of those before i
GE(a, base, i, key) ==
    Cardinality({j \in base .. base + Pad - 1 : j < i /\ a[j] >= key})

\* The scalar build walks one key at a time for as many keys.
ScalarLowerBoundFromBack(a, n, key) ==
    LET stop  == IF n > Chunks * Pad THEN n - Chunks * Pad ELSE 0
        below == {i \in stop .. n - 1 : a[i] < key}
        left  == IF below = {} THEN stop ELSE Max(below) + 1
    IN  IF left > stop \/ left = 0 THEN left ELSE LowerBoundBranchless(a, left, key)

LowerBoundFromBack(a, n, key) ==
    LET scanned == IF n \div Pad < Chunks THEN n \div Pad ELSE Chunks
        Base(c) == n - c * Pad
        stops   == {c \in 1 .. scanned : GE(a, Base(c), n, key) # Pad}
        rest    == Base(scanned)
    IN  IF stops # {} THEN LET c == Min(stops)
                           IN  Base(c) + Pad - GE(a, Base(c), n, key)
        ELSE IF rest >= Pad THEN LowerBoundBranchless(a, rest, key)
        ELSE rest - GE(a, 0, rest, key)

-----------------------------------------------------------------------------
(* Block moves.  A block is a number of elements: 16 bytes hold 4 keys or  *)
(* order counts, and 2 quantities.                                         *)

\* The blocks n elements are moved in: whole ones, then what is left over.
Blocks(n, whole) ==
    [i \in 1 .. n \div whole |-> whole]
        \o (IF n % whole >= 2 THEN <<2>> ELSE <<>>)
        \o (IF n % 2 = 1 THEN <<1>> ELSE <<>>)

\* b elements are read at src and then written at dst
CopyBlock(a, dst, src, b) ==
    [i \in DOMAIN a |-> IF dst <= i /\ i < dst + b THEN a[src + i - dst] ELSE a[i]]

\* A shift that walks from the bottom up.
ShiftUpFromBottom(a, pos, n, whole) ==
    FoldLeft(LAMBDA m, b : [a |-> CopyBlock(m.a, m.i + 1, m.i, b), i |-> m.i + b],
             [a |-> a, i |-> pos], Blocks(n, whole)).a

\* shift_up walks from the top down,
ShiftUp(a, pos, n, whole) ==
    FoldLeft(LAMBDA m, b : [a |-> CopyBlock(m.a, m.i - b + 1, m.i - b, b), i |-> m.i - b],
             [a |-> a, i |-> pos + n], Blocks(n, whole)).a

\* and shift_down from the bottom up.
ShiftDown(a, pos, n, whole) ==
    FoldLeft(LAMBDA m, b : [a |-> CopyBlock(m.a, m.i, m.i + 1, b), i |-> m.i + b],
             [a |-> a, i |-> pos], Blocks(n, whole)).a

-----------------------------------------------------------------------------
(* The operations.                                                         *)

NewCap == IF cap = 0 THEN InitialLevels ELSE 2 * cap

\* The fresh array is zero where nothing is copied.
Regrow(a) == [i \in 0 .. NewCap - 1 |-> IF i < size THEN a[i] ELSE 0]

Full == size = cap

Room(a) == IF Full THEN Regrow(a) ELSE a

Position(key) == IF size = 0 THEN 0 ELSE LowerBoundFromBack(keys, size, key)

Found(key) == Position(key) < size /\ keys[Position(key)] = key

Answer(key) == IF Position(key) = size - 1 THEN "top" ELSE "ok"

\* reserve_initial, on a Stock Directory message
Reserve ==
    /\ cap = 0
    /\ keys' = Regrow(keys) /\ qty' = Regrow(qty) /\ orders' = Regrow(orders)
    /\ cap' = NewCap
    /\ UNCHANGED <<size, reply>>

\* add, on a level that is there
AddToLevel(key, shares) ==
    /\ Found(key)
    /\ qty' = [qty EXCEPT ![Position(key)] = @ + shares]
    /\ orders' = [orders EXCEPT ![Position(key)] = @ + 1]
    /\ reply' = Answer(key)
    /\ UNCHANGED <<keys, size, cap>>

\* add, of a level: make room, shift the better levels up, and write it
AddLevel(key, shares) ==
    LET pos  == Position(key)
        tail == size - pos
        Put(a, whole, v) == [ShiftUp(Room(a), pos, tail, whole) EXCEPT ![pos] = v]
    IN  /\ ~Found(key)
        /\ cap' = IF Full THEN NewCap ELSE cap
        /\ keys' = Put(keys, 4, key)
        /\ qty' = Put(qty, 2, shares)
        /\ orders' = Put(orders, 4, 1)
        /\ size' = size + 1
        /\ reply' = IF tail = 0 THEN "top" ELSE "ok"

Levels == [k \in {keys[i] : i \in 0 .. size - 1} |->
              LET i == CHOOSE j \in 0 .. size - 1 : keys[j] = k
              IN  [qty |-> qty[i], orders |-> orders[i]]]

Map == INSTANCE LevelMap WITH lv <- Levels, Refs <- {}, Locates <- {}

\* reduce: the last order takes its level with it
Reduction(key, shares, gone) ==
    LET pos  == Position(key)
        tail == size - pos - 1
        less == [qty EXCEPT ![pos] = @ - shares]
        left == [orders EXCEPT ![pos] = @ - (IF gone THEN 1 ELSE 0)]
        last == left[pos] = 0
    IN  /\ Found(key)
        /\ Map!Owed([qty |-> qty[pos], orders |-> orders[pos]], shares, gone)
        /\ keys' = IF last THEN ShiftDown(keys, pos, tail, 4) ELSE keys
        /\ qty' = IF last THEN ShiftDown(less, pos, tail, 2) ELSE less
        /\ orders' = IF last THEN ShiftDown(left, pos, tail, 4) ELSE left
        /\ size' = IF last THEN size - 1 ELSE size
        /\ reply' = Answer(key)
        /\ UNCHANGED cap

\* reduce, for a key without a level
ReduceMissing(key) ==
    /\ ~Found(key)
    /\ reply' = "missing"
    /\ UNCHANGED <<keys, qty, orders, size, cap>>

OrdersHeld == FoldLeft(LAMBDA sum, i : sum + orders[i - 1], 0, [i \in 1 .. size |-> i])

Next == \/ Reserve
        \/ \E p \in Prices, n \in Shares :
               /\ OrdersHeld < MaxOrders
               /\ AddToLevel(p, n) \/ AddLevel(p, n)
        \/ \E p \in Prices, gone \in BOOLEAN :
               \E n \in 0 .. (IF Found(p) THEN qty[Position(p)] ELSE 0) : Reduction(p, n, gone)
        \/ \E p \in Prices : ReduceMissing(p)

Spec == Init /\ [][Next]_vars

-----------------------------------------------------------------------------
(* Properties.                                                             *)

\* Every variable has its type: the arrays hold cap elements, enough of them
\* for a search to read Pad keys, and no more levels than they can.
TypeOK == /\ \A a \in {keys, qty, orders} : a \in [0 .. cap - 1 -> Nat]
          /\ cap \in Nat /\ size \in 0 .. cap
          /\ cap = 0 \/ cap >= Pad
          /\ reply \in {"none", "top", "ok", "missing"}

\* The arrays implement the map of LevelMap, the answers included: whatever
\* adds, erasures and growth came before, the search from the back finds a
\* level exactly when there is one and else the place that keeps the arrays
\* sorted, no shift loses, repeats or mixes up levels, and keys left over
\* behind the last level are never taken for levels.
ImplementsLevels == Map!Spec

Profile == INSTANCE DepthProfiler WITH Refs <- {}, Locates <- {}

\* What a search costs: the chunks it compares, and whether it then turns to
\* the binary search.
Cost(n, key) ==
    LET scanned == IF n \div Pad < Chunks THEN n \div Pad ELSE Chunks
        stops   == {c \in 1 .. scanned : GE(keys, n - c * Pad, n, key) # Pad}
        binary  == stops = {} /\ n - scanned * Pad >= Pad
    IN  [binary |-> binary,
         chunks |-> IF stops # {} THEN Min(stops) ELSE scanned + (IF binary THEN 0 ELSE 1)]

\* The scalar and the SIMD builds find the same position, and a search costs
\* what the depth profile says it does, by which ITCH_LEVEL_LINEAR_CHUNKS is
\* chosen: if it meets ge keys at or above its target it compares chunks_for(ge)
\* chunks, or it turns to the binary search and ge keys fill all of them.
KernelsAgree ==
    size > 0 => \A key \in Prices :
        LET cost == Cost(size, key)
            ge   == Profile!KeysAtOrAbove(Levels, key)
        IN  /\ ScalarLowerBoundFromBack(keys, size, key) = LowerBoundFromBack(keys, size, key)
            /\ IF cost.binary THEN ge >= Chunks * Pad
                              ELSE cost.chunks = Profile!ChunksFor(ge, Pad)
=============================================================================
