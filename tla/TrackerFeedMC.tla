---------------------------- MODULE TrackerFeedMC ----------------------------
(***************************************************************************)
(* TrackerFeed over every pair of chunks of up to MaxChunk bytes.          *)
(***************************************************************************)
EXTENDS TrackerFeed

MCByte == {"text", "lf", "cr"}
=============================================================================
