----------------------------- MODULE MCOrderMap -----------------------------
(***************************************************************************)
(* Small tables for TLC: two slots in a group.  References that share a    *)
(* hash are interchangeable; the hashes are spread over the four groups of *)
(* the first table.  Two of the tags differ in the lowest bit alone, which *)
(* is where the borrow of the SWAR kernel shows.                           *)
(***************************************************************************)
EXTENDS OrderMap, TagGroups, TLC

CONSTANTS A, B, C, D    \* references with the hash 0, 12, 16 and 28

MCRefs == A \cup B \cup C \cup D

MCHash == [r \in MCRefs |-> IF r \in A THEN 0 ELSE IF r \in B THEN 12
                            ELSE IF r \in C THEN 16 ELSE 28]

Tag(r) == IF r \in A THEN 6 ELSE IF r \in B THEN 7 ELSE IF r \in C THEN 0 ELSE 127

Symmetry == Permutations(A) \cup Permutations(B) \cup Permutations(C) \cup Permutations(D)

\* the tags of a group, as they are in memory
Group(g) == [i \in 0 .. W - 1 |->
                LET tag == ctrl[g * W + i]
                IN  IF tag = Empty THEN CtrlEmpty
                    ELSE IF tag = Deleted THEN CtrlDeleted ELSE Tag(tag)]

\* In every group a table gets to, the SWAR kernel agrees with those of the SIMD
\* builds (simd/group.hpp): it finds the same EMPTY and DELETED slots, and what
\* it proposes beyond the slots with the tag are full ones, never an erased slot
\* whose order still names the reference that is searched.
TagKernelsAgree ==
    \A g \in 0 .. groups - 1 :
        LET group == Group(g)
        IN  /\ SwarMatchEmpty(group) = SimdMatchEmpty(group)
            /\ SwarMatchFree(group) = SimdMatchFree(group)
            /\ \A h2 \in {Tag(r) : r \in Refs} :
                   LET candidates == SwarMatch(group, h2)
                   IN  /\ SimdMatch(group, h2) \subseteq candidates
                       /\ candidates \cap SimdMatchFree(group) = {}
=============================================================================
