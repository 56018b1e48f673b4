------------------------------ MODULE MCReplay ------------------------------
(***************************************************************************)
(* Small files for TLC.  The records have the lengths of the protocol: a   *)
(* slice holds one long record or two short ones, and a file is up to three *)
(* slices.  Two records are shorter than their type says, by as much as to *)
(* end just before, or within, a field that the lookahead reads.           *)
(***************************************************************************)
EXTENDS Replay

Rec(type, length, locate) == [type |-> type, length |-> length, locate |-> locate]

MCRecords == {Rec("A", 36, 1), Rec("A", 36, 2), Rec("D", 19, 1), Rec("U", 35, 1),
              Rec("A", 19, 1), Rec("U", 20, 1), Rec("A", 37, 1), Rec("Z", 1, 1), Rec("none", 0, 1)}

\* Exact ones, both ends of a bucket, and the largest of 6 bits.
MCSamples == {2, 10, 11, 63}

\* p50, p99 and p99.9
MCPercents == {5000, 9900, 9990}

\* p50 of two samples, for what 16913000 samples do to p99.9
MCCarries == {<<5000, 2>>}
=============================================================================
