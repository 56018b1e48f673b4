--------------------------- MODULE MCMoldSequencer ---------------------------
(***************************************************************************)
(* Two sessions of a few messages for TLC.                                 *)
(***************************************************************************)
EXTENDS MoldSequencer
=============================================================================
