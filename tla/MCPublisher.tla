---------------------------- MODULE MCPublisher ----------------------------
(***************************************************************************)
(* A small exchange for TLC that trades one book deeply; references are    *)
(* interchangeable.                                                        *)
(***************************************************************************)
EXTENDS Publisher, TLC

Symmetry == Permutations(Refs)
=============================================================================
