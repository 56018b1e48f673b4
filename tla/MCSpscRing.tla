----------------------------- MODULE MCSpscRing -----------------------------
(***************************************************************************)
(* A small ring for TLC: four slots, indices that wrap after eight, batches  *)
(* shorter than the ring, and enough events to fill it and wrap the indices. *)
(***************************************************************************)
EXTENDS SpscRing
=============================================================================
