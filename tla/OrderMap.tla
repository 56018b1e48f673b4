------------------------------ MODULE OrderMap ------------------------------
(***************************************************************************)
(* The hash map from order references to resting orders (order_map.hpp,    *)
(* simd/group.hpp): open addressing over groups of W slots, probed with    *)
(* triangular steps.  Every slot has a control tag: EMPTY, DELETED or the  *)
(* tag of the reference it holds.                                          *)
(*                                                                         *)
(* A tag is seven bits of the hash and only a filter for the comparison of *)
(* the whole reference, so a full slot is modelled by its reference.  The  *)
(* rest of the order travels with it and is left out.  The hash is any     *)
(* function: the map has to be right for every one.                        *)
(*                                                                         *)
(* A rehash is modelled slot by slot, for its copies are inserts           *)
(* themselves and must not run into the limit that caused the rehash.      *)
(***************************************************************************)
EXTENDS Integers, FiniteSets

CONSTANTS Refs,       \* order references
          W,          \* slots in a group: 8, 16 or 32 in the code
          HashRange,  \* number of hash values, a power of two
          Hash,       \* the hash of each reference
          Expected,   \* expected_orders, the size asked for at construction
          Empty,      \* tag of a slot never used since the last rehash
          Deleted,    \* tag of an erased slot that probes must pass
          NoRef       \* no insert is waiting for a rehash

VARIABLES groups,      \* number of groups
          ctrl,        \* tag of each slot
          size,        \* size_
          tombstones,  \* tombstones_
          growthLeft,  \* growth_left_
          live,        \* history: references inserted and not erased
          pending,     \* reference whose insert is rehashing, or NoRef
          old,         \* tags of the table being copied
          cursor       \* next slot of that table

table == <<groups, ctrl, size, tombstones, growthLeft>>
rehash == <<pending, old, cursor>>
vars == <<table, live, rehash>>

\* A limit that keeps no slot EMPTY.
MaxLoadFull(capacity) == capacity

\* an eighth of a table is kept EMPTY
MaxLoad(capacity) == capacity - capacity \div 8

BitCeil(n) == CHOOSE p \in {2^k : k \in 0 .. n} : n <= p /\ p < 2 * n

\* Enough groups for the expected orders to fill 7/8 of the slots; at least 2.
GroupsFor(orders) ==
    LET slots == orders + orders \div 7 + 1
        count == BitCeil((slots + W - 1) \div W)
    IN  IF count < 2 THEN 2 ELSE count

\* What std::bit_ceil returns: no odd number but 1 divides it.
PowerOfTwo(n) == n > 0 /\ \A k, q \in 0 .. n : n = (2 * k + 1) * q => k = 0

\* The first table is a power of two that keeps a slot EMPTY.  The hash has bits
\* for the largest one that all references can make it grow to: both are of 64
\* bits, and a group has 8 slots or more.
ASSUME MapAssumption ==
    /\ W \in Nat /\ W > 0
    /\ Expected \in Nat
    /\ HashRange \in Nat /\ Hash \in [Refs -> 0 .. HashRange - 1]
    /\ GroupsFor(Expected) \in Nat /\ GroupsFor(Expected) * W >= 8
    /\ PowerOfTwo(GroupsFor(Expected)) /\ GroupsFor(Expected) <= HashRange
    /\ IsFiniteSet(Refs) /\ 32 * Cardinality(Refs) <= 7 * W * HashRange
    /\ Empty # Deleted /\ Empty # NoRef /\ Deleted # NoRef
    /\ {Empty, Deleted, NoRef} \cap Refs = {}

-----------------------------------------------------------------------------
(* The table.                                                              *)

Tags == Refs \cup {Empty, Deleted}

Slots(g) == 0 .. g * W - 1

GroupOf(s) == s \div W

\* the top bits of the hash select a group
Home(r) == Hash[r] \div (HashRange \div groups)

\* Steps of +1, +2, +3, ... from the home group.
Probe(r, i) == (Home(r) + (i * (i + 1)) \div 2) % groups

Probes == 0 .. groups - 1

HasEmpty(g) == \E s \in Slots(groups) : GroupOf(s) = g /\ ctrl[s] = Empty

Free(s) == ctrl[s] \in {Empty, Deleted}

HasFree(g) == \E s \in Slots(groups) : GroupOf(s) = g /\ Free(s)

Holds(g, r) == \E s \in Slots(groups) : GroupOf(s) = g /\ ctrl[s] = r

\* find returns a slot: the probe meets the reference before a group with an EMPTY.
Finds(r) == \E i \in Probes : /\ Holds(Probe(r, i), r)
                              /\ \A j \in 0 .. i - 1 : ~HasEmpty(Probe(r, j))

\* find returns at all.
Terminates(r) == \E i \in Probes : Holds(Probe(r, i), r) \/ HasEmpty(Probe(r, i))

\* An insert that takes the first free slot of the home group or of the table.
FirstFreeAnywhere(r, s) ==
    /\ Free(s)
    /\ \A t \in Slots(groups) : Free(t) => s <= t

\* The lowest free slot of the first group of the probe that has one.
FirstFree(r, s) ==
    /\ Free(s)
    /\ \A t \in Slots(groups) : GroupOf(t) = GroupOf(s) /\ Free(t) => s <= t
    /\ \E i \in Probes : /\ Probe(r, i) = GroupOf(s)
                         /\ \A j \in 0 .. i - 1 : ~HasFree(Probe(r, j))

-----------------------------------------------------------------------------
(* The operations.                                                         *)

\* clear, and the table that allocate leaves behind
Cleared(g) ==
    /\ groups' = g
    /\ ctrl' = [s \in Slots(g) |-> Empty]
    /\ size' = 0
    /\ tombstones' = 0
    /\ growthLeft' = MaxLoad(g * W)

Init == /\ groups = GroupsFor(Expected)
        /\ ctrl = [s \in Slots(groups) |-> Empty]
        /\ size = 0
        /\ tombstones = 0
        /\ growthLeft = MaxLoad(groups * W)
        /\ live = {}
        /\ pending = NoRef
        /\ old = <<>>
        /\ cursor = 0

\* The second half of insert: claim a slot, charged to the budget if EMPTY.
Claim(r) ==
    \E s \in Slots(groups) :
        /\ FirstFree(r, s)
        /\ ctrl' = [ctrl EXCEPT ![s] = r]
        /\ growthLeft' = growthLeft - (IF ctrl[s] = Empty THEN 1 ELSE 0)
        /\ tombstones' = tombstones - (IF ctrl[s] = Empty THEN 0 ELSE 1)
        /\ size' = size + 1
        /\ UNCHANGED groups

\* An insert of a reference that may be present.
InsertAgain(r) ==
    /\ pending = NoRef
    /\ growthLeft # 0
    /\ Claim(r)
    /\ live' = live \cup {r}
    /\ UNCHANGED rehash

\* insert, while the budget of EMPTY slots lasts
Insert(r) ==
    /\ pending = NoRef
    /\ r \notin live
    /\ growthLeft # 0
    /\ Claim(r)
    /\ live' = live \cup {r}
    /\ UNCHANGED rehash

\* A rehash that always keeps the size of the table.
NeverGrows == FALSE

\* Grow if live orders take more than half of the budget; otherwise the budget
\* went to tombstones.
Grows == size * 2 > MaxLoad(groups * W)

\* insert, when it is used up: rehash_for_insert starts
RehashBegin(r) ==
    /\ pending = NoRef
    /\ r \notin live
    /\ growthLeft = 0
    /\ pending' = r
    /\ old' = ctrl
    /\ cursor' = 0
    /\ Cleared(IF Grows THEN groups * 2 ELSE groups)
    /\ UNCHANGED live

\* One slot of the old table: a full one is inserted into the new table.
RehashCopy ==
    /\ pending # NoRef
    /\ cursor \in DOMAIN old
    /\ growthLeft # 0
    /\ cursor' = cursor + 1
    /\ IF old[cursor] \in Refs THEN Claim(old[cursor]) ELSE UNCHANGED table
    /\ UNCHANGED <<pending, old, live>>

\* The rehash is over, the insert that caused it claims its slot.
RehashEnd ==
    /\ pending # NoRef
    /\ cursor \notin DOMAIN old
    /\ Claim(pending)
    /\ live' = live \cup {pending}
    /\ pending' = NoRef
    /\ old' = <<>>
    /\ cursor' = 0

\* An erase that never leaves a tombstone.
EraseToEmpty(r) ==
    /\ pending = NoRef
    /\ r \in live
    /\ \E s \in Slots(groups) :
           /\ ctrl[s] = r
           /\ ctrl' = [ctrl EXCEPT ![s] = Empty]
           /\ growthLeft' = growthLeft + 1
    /\ size' = size - 1
    /\ live' = live \ {r}
    /\ UNCHANGED <<groups, tombstones, rehash>>

\* erase of an order that find returned: EMPTY if its group has an EMPTY
\* already, DELETED otherwise.
Erase(r) ==
    /\ pending = NoRef
    /\ r \in live
    /\ \E s \in Slots(groups) :
           /\ ctrl[s] = r
           /\ LET empty == HasEmpty(GroupOf(s))
              IN  /\ ctrl' = [ctrl EXCEPT ![s] = IF empty THEN Empty ELSE Deleted]
                  /\ growthLeft' = growthLeft + (IF empty THEN 1 ELSE 0)
                  /\ tombstones' = tombstones + (IF empty THEN 0 ELSE 1)
    /\ size' = size - 1
    /\ live' = live \ {r}
    /\ UNCHANGED <<groups, rehash>>

\* clear keeps the allocation
Clear ==
    /\ pending = NoRef
    /\ Cleared(groups)
    /\ live' = {}
    /\ UNCHANGED rehash

Next == \/ \E r \in Refs : Insert(r) \/ RehashBegin(r) \/ Erase(r)
        \/ RehashCopy
        \/ RehashEnd
        \/ Clear

Spec == Init /\ [][Next]_vars

-----------------------------------------------------------------------------
(* Properties.                                                             *)

\* Every variable has its type.
TypeOK == /\ groups \in Nat /\ groups > 0
          /\ ctrl \in [Slots(groups) -> Tags]
          /\ size \in Nat /\ tombstones \in Nat /\ growthLeft \in Nat
          /\ live \subseteq Refs
          /\ pending \in Refs \cup {NoRef}
          /\ cursor \in Nat

Count(T) == Cardinality({s \in Slots(groups) : ctrl[s] \in T})

\* The three counters add up: every EMPTY slot that is given up is charged to
\* the budget once, so one slot in eight stays EMPTY for the probes to stop at.
Budget == /\ size = Count(Refs)
          /\ tombstones = Count({Deleted})
          /\ size + tombstones + growthLeft = MaxLoad(groups * W)

\* Between operations find returns an order for every live reference and for no
\* other, whatever erasures, reuses and rehashes its probe has been through.
FindsLive == pending = NoRef => \A r \in Refs : Finds(r) <=> r \in live

\* No reference is held by two slots: an erase leaves no second copy behind.
HeldOnce == \A s, t \in Slots(groups) : ctrl[s] = ctrl[t] /\ ctrl[s] \in Refs => s = t

\* Every probe ends, at every moment: of a live, an unknown or an inserted
\* reference.
ProbesEnd == \A r \in Refs : Terminates(r)

\* A rehash makes room: neither its copies nor the insert that caused it find
\* the budget used up again, which would start a rehash within the rehash.
RehashMakesRoom == pending # NoRef => growthLeft > 0

\* order_map.hpp:31-32, "Size the map up front (expected_orders) and it never
\* runs during a session": an insert that keeps the orders within those
\* expected does not rehash.
SizedUpFront == pending = NoRef /\ size < Expected => growthLeft > 0
=============================================================================
