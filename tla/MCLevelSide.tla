----------------------------- MODULE MCLevelSide -----------------------------
(***************************************************************************)
(* A small side for TLC.  With two keys to a chunk and one chunk, four     *)
(* levels take the search through the chunk, the binary search and the     *)
(* partial chunk, shifts through one and several blocks, and the arrays    *)
(* through their first allocation and a growth.                            *)
(***************************************************************************)
EXTENDS LevelSide
=============================================================================
