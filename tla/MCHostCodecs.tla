--------------------------- MODULE MCHostCodecs ---------------------------
(***************************************************************************)
(* Two threads with every pair of codecs; data of no and of two bytes; a   *)
(* dictionary that is one byte too small and one that is just enough.      *)
(***************************************************************************)
EXTENDS HostCodecs
=============================================================================
