---------------------------- MODULE MCAplibChunk ----------------------------
(***************************************************************************)
(* Chunks of up to eleven bytes with the format's numbers scaled down:     *)
(* runs and periods, whose matches overlap themselves, repetitions at      *)
(* every class of offset, bytes 0 and 255.  Blocks of two and three bytes  *)
(* stand for those of 8 and 16.                                            *)
(***************************************************************************)
EXTENDS AplibChunk

MCWidth == [p \in {"p5", "mmx", "sse"} |->
              CASE p = "p5" -> 0 [] p = "mmx" -> 2 [] p = "sse" -> 3]

MCChunks == {
  <<0>>,
  <<255, 0, 255>>,
  <<7, 7, 7, 7, 7, 7, 7, 7>>,
  <<1, 2, 1, 2, 1, 2, 1, 2, 1, 2>>,
  <<1, 2, 3, 1, 2, 3, 1, 2, 3, 1>>,
  <<9, 8, 7, 6, 5, 4, 9, 8, 7, 6, 5>>,
  <<1, 2, 3, 4, 1, 2, 3, 0, 1, 2, 3>>,
  <<6, 6, 1, 6, 6, 2, 6, 6, 3, 6, 6>> }
=============================================================================
