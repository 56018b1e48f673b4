---------------------------- MODULE MCFeedHandler ----------------------------
(***************************************************************************)
(* Streams of one symbol for TLC, with up to three orders; prices wrap     *)
(* below 0 and above 3 ticks, where the code wraps at 2^32.                *)
(***************************************************************************)
EXTENDS FeedHandler

\* the symbol, and one that is never listed and has its name at its front
MCNames == <<<<"S">>, <<"S", "1">>>>
=============================================================================
