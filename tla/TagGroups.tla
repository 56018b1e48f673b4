------------------------------ MODULE TagGroups ------------------------------
(***************************************************************************)
(* The kernels that search the tags of a group (simd/group.hpp).  A group  *)
(* is a function from its slots 0, 1, ... to tags of eight bits; a mask is *)
(* the set of the slots whose bit is set.                                  *)
(***************************************************************************)
EXTENDS Integers, Bitwise

CtrlEmpty == 255
CtrlDeleted == 128

\* bit k of a byte
Bit(byte, k) == (byte \div 2 ^ k) % 2

-----------------------------------------------------------------------------
(* GroupSwar: the tags are the bytes of one word, the first the lowest.    *)

\* A match that leaves out "& ~x".
SwarMatchBorrows(ctrl, h2) ==
    LET x == [s \in DOMAIN ctrl |-> ctrl[s] ^^ h2]
        borrow[s \in DOMAIN ctrl] == IF s = 0 THEN 0
                                     ELSE IF x[s - 1] < 1 + borrow[s - 1] THEN 1 ELSE 0
    IN  {s \in DOMAIN ctrl : Bit((x[s] - 1 - borrow[s]) % 256, 7) = 1}

\* match: (x - kLsbs) & ~x & kMsbs for x = ctrl ^ (kLsbs * h2).  The
\* subtraction borrows from the next byte.
SwarMatch(ctrl, h2) ==
    LET x == [s \in DOMAIN ctrl |-> ctrl[s] ^^ h2]
        borrow[s \in DOMAIN ctrl] == IF s = 0 THEN 0
                                     ELSE IF x[s - 1] < 1 + borrow[s - 1] THEN 1 ELSE 0
    IN  {s \in DOMAIN ctrl : /\ Bit((x[s] - 1 - borrow[s]) % 256, 7) = 1
                             /\ Bit(x[s], 7) = 0}

\* match_empty: ctrl & (ctrl << 1) & kMsbs
SwarMatchEmpty(ctrl) == {s \in DOMAIN ctrl : Bit(ctrl[s], 7) = 1 /\ Bit(ctrl[s], 6) = 1}

\* match_empty_or_deleted: ctrl & kMsbs
SwarMatchFree(ctrl) == {s \in DOMAIN ctrl : Bit(ctrl[s], 7) = 1}

-----------------------------------------------------------------------------
(* GroupSse2 and GroupAvx2: bytes compared for equality, and sign bits.    *)

SimdMatch(ctrl, h2) == {s \in DOMAIN ctrl : ctrl[s] = h2}

SimdMatchEmpty(ctrl) == SimdMatch(ctrl, CtrlEmpty)

SimdMatchFree(ctrl) == {s \in DOMAIN ctrl : ctrl[s] >= 128}
=============================================================================
