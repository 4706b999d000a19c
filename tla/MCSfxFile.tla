----------------------------- MODULE MCSfxFile -----------------------------
(***************************************************************************)
(* Five small archives for pack to write over one another: two files,      *)
(* packed, with a command; no file and a command; one file, stored, that   *)
(* is itself an SFX, so that a file cut off behind it ends with a trailer; *)
(* one whose records are too long for run_after_offset; and one that makes *)
(* the SFX longer than the stub can seek.                                  *)
(***************************************************************************)
EXTENDS SfxFile

MCBufSize   == 3
MCSrcSize   == [stub \in {"aplib", "lzma"} |-> 4]
MCMaxInput  == [algo \in Algorithms |-> IF algo = Stored THEN 99 ELSE MCBufSize]
MCMaxPacked == [algo \in Algorithms |-> 4]
MCMaxChunks == 3
MCMaxOffset == 80
MCStubLen   == 2

Entry(algo, name, nameLen, n, chunkSize) ==
  [name |-> name, nameLen |-> nameLen, stamp |-> 7,
   chunks |-> BuildChunks(algo, n, chunkSize, <<1, 2, 4>>)]

\* The SFX that is packed again: one stored file of one byte.
InnerImage == WriteSfx([algo |-> Stored, command |-> 0,
                        entries |-> <<Entry(Stored, "X", 2, 1, 99)>>], MCStubLen)
MCInside == [name \in {"INNER"} |-> InnerImage]

Packed  == [algo |-> Aplib, command |-> 2,
            entries |-> <<Entry(Aplib, "A", 2, 4, 3), Entry(Aplib, "B", 2, 0, 3)>>]
Nested  == [algo |-> Stored, command |-> 0,
            entries |-> <<Entry(Stored, "INNER", 6, Len(InnerImage), 99)>>]
NoFiles == [algo |-> Aplib, command |-> 2, entries |-> <<>>]
TooLong == [algo |-> Lzma, command |-> 3,
            entries |-> <<Entry(Lzma, "C", 2, 2, 3), Entry(Lzma, "D", 2, 3, 3),
                          Entry(Lzma, "E", 2, 1, 2)>>]

Large   == [algo |-> Stored, command |-> 0,
            entries |-> <<Entry(Stored, "L", 2, 80, 99)>>]

MCImages == [a \in {Packed, NoFiles, Nested, TooLong, Large} |-> WriteSfx(a, MCStubLen)] @@ <<>>
=============================================================================
