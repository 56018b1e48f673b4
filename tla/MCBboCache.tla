----------------------------- MODULE MCBboCache -----------------------------
(***************************************************************************)
(* A cache entry with a few fields, stores and readers for TLC.            *)
(***************************************************************************)
EXTENDS BboCache
=============================================================================
