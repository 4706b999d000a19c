----------------------------- MODULE MCOptions -----------------------------
(***************************************************************************)
(* Sizes at both sides of every ceiling, with chunks of one byte among     *)
(* them so that a file can have more chunks than a record can count.       *)
(***************************************************************************)
EXTENDS Options

MCChunkSizes == {0, 1, 16384, 16385, 65535, 65536}
MCDepths     == {NoLimit, 0, 2}
MCFileSizes  == {0, 1, 16385, 65535, 65536}
=============================================================================
