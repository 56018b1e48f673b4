-------------------------- MODULE SnapshotRegister --------------------------
(***************************************************************************)
(* What a BBO cache entry promises its readers: one writer publishes       *)
(* numbered snapshots, a reader always gets one snapshot whole, and no     *)
(* reader ever goes back to a snapshot older than one it knows of.         *)
(***************************************************************************)
EXTENDS Naturals

CONSTANTS Fields, Readers

VARIABLES published,  \* number of snapshots published; 0 is the initial one
          known,      \* newest snapshot each reader knows of
          snap        \* value of each field in the snapshot each reader holds

registerVars == <<published, known, snap>>

Whole(n) == [f \in Fields |-> n]

Init == /\ published = 0
        /\ known = [r \in Readers |-> 0]
        /\ snap = [r \in Readers |-> Whole(0)]

Publish == /\ published' = published + 1
           /\ UNCHANGED <<known, snap>>

Learn(r) == /\ \E n \in known[r] .. published : known' = [known EXCEPT ![r] = n]
            /\ UNCHANGED <<published, snap>>

Read(r) == /\ \E n \in known[r] .. published :
                /\ known' = [known EXCEPT ![r] = n]
                /\ snap' = [snap EXCEPT ![r] = Whole(n)]
           /\ UNCHANGED published

Next == Publish \/ \E r \in Readers : Learn(r) \/ Read(r)

Spec == Init /\ [][Next]_registerVars
=============================================================================
